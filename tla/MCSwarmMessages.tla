--------------------------- MODULE MCSwarmMessages ---------------------------
(* SwarmMessages for TLC. *)
EXTENDS SwarmMessages

Spec == MessagesInit /\ [][MessagesNext]_messageVars
=============================================================================

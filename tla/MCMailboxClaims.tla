-------------------------- MODULE MCMailboxClaims --------------------------
(* Instances of MailboxClaims for TLC. *)
EXTENDS MailboxClaims, TLC

CONSTANTS a, b, m1, m2

\* Two processes with an owner name each: the agent and a colleague.
TwoOwners == (a :> a) @@ (b :> b)
=============================================================================

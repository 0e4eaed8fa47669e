---------------------------- MODULE AtomicFanout ----------------------------
(***************************************************************************)
(* What MailboxStore.send() promises for one message id: recipients are    *)
(* reached one after the other and never un-reached, and the canonical     *)
(* history records the message once, only after every recipient was        *)
(* reached.                                                                *)
(***************************************************************************)
CONSTANT Recipients

VARIABLES reached, recorded

fanoutVars == <<reached, recorded>>

Init == reached = {} /\ recorded = FALSE

Reach(r) == reached' = reached \cup {r} /\ UNCHANGED recorded

Record == reached = Recipients /\ recorded' = TRUE /\ UNCHANGED reached

Next == Record \/ \E r \in Recipients : Reach(r)

Spec == Init /\ [][Next]_fanoutVars
=============================================================================

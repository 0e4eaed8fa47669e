-------------------------- MODULE MCDeliveryOutbox --------------------------
(* DeliveryOutbox for TLC: any group of the engines takes part.  What holds *)
(* for a lone engine only is stated for a crowd of one.                     *)
EXTENDS DeliveryOutbox, TLC, FiniteSets

VARIABLE crowd   \* the engines that take part

crowdVars == <<crowd, vars>>

CrowdInit == Init /\ crowd \in SUBSET Engines \ {{}}

CrowdNext ==
  /\ UNCHANGED crowd
  /\ \/ \E e \in crowd : \/ DeliverKnown(e) \/ DeliverNew(e) \/ FlushStart(e) \/ Working(e)
                         \/ AckConsumed(e) \/ Sweep(e) \/ Crash(e)
     \/ Requeue \/ Purge \/ WaitOver \/ Age

CrowdSpec ==
  /\ CrowdInit /\ [][CrowdNext]_crowdVars
  /\ \A e \in Engines : /\ WF_crowdVars(e \in crowd /\ Working(e) /\ UNCHANGED crowd)
                        /\ WF_crowdVars(e \in crowd /\ FlushStart(e) /\ UNCHANGED crowd)
  /\ WF_crowdVars(WaitOver /\ UNCHANGED crowd)

Alone == Cardinality(crowd) = 1

\* With one engine, no entry is retried for ever or forgotten: it is delivered,
\* consumed, dead-lettered, paused for an upgrade or marked terminal (flush).
LoneEntrySettles == Alone => EntrySettles

=============================================================================

------------------------ MODULE DeliveryOutboxProofs ------------------------
(* Proofs about DeliveryOutbox, for any engines and bounds.                *)
EXTENDS DeliveryOutbox, TLAPS

\* A process moves to a step of the vocabulary and the others stay.
LEMMA GotoType ==
  ASSUME TypeOK, NEW e \in Engines, NEW step \in Steps, Goto(e, step)
  PROVE  /\ pc' \in [Engines -> Steps] /\ pc'[e] = step
         /\ \A f \in Engines : f # e => pc'[f] = pc[f]
BY DEF TypeOK, Goto

\* One engine's receipt changes and the others stay.
LEMMA RememberType ==
  ASSUME TypeOK, NEW e \in Engines, NEW receipt \in Receipts, Remember(e, receipt)
  PROVE  /\ cache' \in [Engines -> Receipts] /\ cache'[e] = receipt
         /\ \A f \in Engines : f # e => cache'[f] = cache[f]
BY DEF TypeOK, Remember

\* A missing status directory is a status.
LEMMA NoStatusType == NoStatus \in StatusType
BY OutboxAssumption DEF NoStatus, StatusType

\* Each field of a status has its type.
LEMMA StatusFields ==
  ASSUME NEW s \in StatusType
  PROVE  /\ s.phase \in {"none", "error", "consumed"} /\ s.attempts \in 0 .. MaxAttempts
         /\ s.terminal \in BOOLEAN /\ s.due \in BOOLEAN /\ s.paused \in BOOLEAN
         /\ s.probe \in BOOLEAN /\ s.old \in BOOLEAN
BY DEF StatusType

\* Recording an attempt keeps the type of the status directory.
LEMMA AttemptType ==
  ASSUME TypeOK, NEW terminal \in BOOLEAN, RecordAttempt(terminal)
  PROVE  status' \in StatusType
<1>. DEFINE n == IF status.attempts < MaxAttempts THEN status.attempts + 1 ELSE status.attempts
            d == IF terminal THEN status.due ELSE FALSE
<1>0. status \in StatusType
  BY DEF TypeOK
<1>1. n \in 0 .. MaxAttempts
  BY <1>0, StatusFields, OutboxAssumption
<1>2. d \in BOOLEAN
  BY <1>0, StatusFields, Zenon
<1>3. status' = [status EXCEPT !.attempts = n, !.terminal = terminal, !.due = d, !.old = FALSE]
  BY DEF RecordAttempt
<1>. HIDE DEF n, d
<1>. QED BY <1>0, <1>1, <1>2, <1>3 DEF StatusType

\* Every step keeps the types.
LEMMA TypeStep == TypeOK /\ [Next]_vars => TypeOK'
<1>. SUFFICES ASSUME TypeOK, [Next]_vars PROVE TypeOK'
  OBVIOUS
<1>. USE DEF Steps, Receipts
<1>1. ASSUME NEW e \in Engines, DeliverKnown(e) PROVE TypeOK'
  BY <1>1, RememberType DEF DeliverKnown, disk, world, TypeOK
<1>2. ASSUME NEW e \in Engines, DeliverNew(e) PROVE TypeOK'
  BY <1>2, GotoType DEF DeliverNew, disk, world, TypeOK
<1>3. ASSUME NEW e \in Engines, FlushPick(e) PROVE TypeOK'
  BY <1>3, GotoType DEF FlushPick, world, TypeOK, StatusType
<1>4. ASSUME NEW e \in Engines, FlushUnpause(e) PROVE TypeOK'
  BY <1>4 DEF FlushUnpause, world, TypeOK, StatusType
<1>5. ASSUME NEW e \in Engines, WriteOutbox(e) PROVE TypeOK'
  <2>1. env' \subseteq {"outbox", "dead"}
    BY <1>5 DEF WriteOutbox, TypeOK
  <2>2. cache' \in [Engines -> Receipts] /\ pc' \in [Engines -> Steps]
    BY <1>5, GotoType, RememberType DEF WriteOutbox
  <2>. QED BY <1>5, <2>1, <2>2 DEF WriteOutbox, world, TypeOK
<1>6. ASSUME NEW e \in Engines, SendFirst(e) PROVE TypeOK'
  <2>1. PICK reaches \in BOOLEAN, records \in BOOLEAN : Leaves(reaches, records)
    BY <1>6, OutboxAssumption DEF SendFirst, Succeed, Fail
  <2>2. hist' \in BOOLEAN /\ arrived' \in BOOLEAN
    BY <2>1 DEF Leaves
  <2>3. pc' \in [Engines -> Steps]
    BY <1>6, GotoType DEF SendFirst
  <2>. QED BY <1>6, <2>2, <2>3 DEF SendFirst, TypeOK
<1>7. ASSUME NEW e \in Engines, NoteFailure(e) PROVE TypeOK'
  BY <1>7, GotoType DEF NoteFailure, world, TypeOK, StatusType
<1>8. ASSUME NEW e \in Engines, FlushSend(e) PROVE TypeOK'
  <2>1. PICK reaches \in BOOLEAN, records \in BOOLEAN : Leaves(reaches, records)
    BY <1>8, OutboxAssumption DEF FlushSend, Succeed, Fail
  <2>2. hist' \in BOOLEAN /\ arrived' \in BOOLEAN
    BY <2>1 DEF Leaves
  <2>3. pc' \in [Engines -> Steps]
    BY <1>8, GotoType DEF FlushSend
  <2>. QED BY <1>8, <2>2, <2>3 DEF FlushSend, TypeOK
<1>9. ASSUME NEW e \in Engines, PauseForUpgrade(e) PROVE TypeOK'
  BY <1>9, GotoType DEF PauseForUpgrade, world, TypeOK, StatusType
<1>10. ASSUME NEW e \in Engines, HandleFailure(e) PROVE TypeOK'
  BY <1>10, GotoType, AttemptType DEF HandleFailure, world, TypeOK
<1>11. ASSUME NEW e \in Engines, DeadMove(e) PROVE TypeOK'
  <2>1. env' \subseteq {"outbox", "dead"}
    BY <1>11 DEF DeadMove, TypeOK
  <2>2. pc' \in [Engines -> Steps]
    BY <1>11, GotoType DEF DeadMove
  <2>. QED BY <1>11, <2>1, <2>2 DEF DeadMove, world, TypeOK
<1>12. ASSUME NEW e \in Engines, DeadStatus(e) PROVE TypeOK'
  BY <1>12, GotoType, NoStatusType DEF DeadStatus, world, TypeOK
<1>13. ASSUME NEW e \in Engines, MarkDelivered(e) PROVE TypeOK'
  BY <1>13, GotoType DEF MarkDelivered, world, TypeOK
<1>14. ASSUME NEW e \in Engines, RecordHistory(e) PROVE TypeOK'
  BY <1>14, GotoType, RememberType DEF RecordHistory, world, TypeOK
<1>15. ASSUME NEW e \in Engines, SweepEnv(e) PROVE TypeOK'
  BY <1>15, GotoType DEF SweepEnv, world, TypeOK
<1>16. ASSUME NEW e \in Engines, AckConsumed(e) PROVE TypeOK'
  BY <1>16, RememberType DEF AckConsumed, TypeOK, StatusType
<1>17. ASSUME NEW e \in Engines, SweepMarker(e) PROVE TypeOK'
  BY <1>17, GotoType DEF SweepMarker, world, TypeOK
<1>18. ASSUME NEW e \in Engines, SweepStatus(e) PROVE TypeOK'
  BY <1>18, NoStatusType DEF SweepStatus, world, TypeOK
<1>19. ASSUME NEW e \in Engines, Crash(e) PROVE TypeOK'
  BY <1>19, GotoType, RememberType, OutboxAssumption DEF Crash, disk, TypeOK
<1>20. CASE Requeue
  <2>1. status' \in StatusType
    <3>1. status \in StatusType /\ 0 \in 0 .. MaxAttempts
      BY OutboxAssumption DEF TypeOK
    <3>2. status' = [status EXCEPT !.attempts = 0, !.terminal = FALSE, !.due = TRUE, !.old = FALSE]
      BY <1>20 DEF Requeue
    <3>. QED BY <3>1, <3>2 DEF StatusType
  <2>2. env' \subseteq {"outbox", "dead"}
    BY <1>20 DEF Requeue
  <2>. QED BY <1>20, <2>1, <2>2 DEF Requeue, world, TypeOK
<1>21. CASE Purge
  BY <1>21 DEF Purge, TypeOK
<1>22. CASE WaitOver
  BY <1>22 DEF WaitOver, world, TypeOK, StatusType
<1>23. CASE Age
  <2>1. status' \in StatusType
    <3>1. status \in StatusType /\ status.paused \in BOOLEAN
      BY StatusFields DEF TypeOK
    <3>2. CASE status = NoStatus
      BY <1>23, <3>1, <3>2 DEF Age
    <3>3. CASE status # NoStatus
      <4>1. status' = [status EXCEPT !.old = TRUE, !.due = TRUE, !.probe = status.paused]
        BY <1>23, <3>3 DEF Age
      <4>. QED BY <3>1, <4>1 DEF StatusType
    <3>. QED BY <3>2, <3>3
  <2>2. ages' \in 0 .. MaxAges /\ marker' \in {"none", "fresh", "old"}
    BY <1>23, OutboxAssumption DEF Age, TypeOK
  <2>. QED BY <1>23, <2>1, <2>2 DEF Age, TypeOK
<1>24. CASE UNCHANGED vars
  BY <1>24 DEF vars, TypeOK
<1>. QED BY <1>1, <1>2, <1>3, <1>4, <1>5, <1>6, <1>7, <1>8, <1>9, <1>10, <1>11, <1>12,
            <1>13, <1>14, <1>15, <1>16, <1>17, <1>18, <1>19, <1>20, <1>21, <1>22, <1>23,
            <1>24 DEF Next, FlushStart, Working, Sweep

\* Every step keeps the inductive invariant.
LEMMA StepInv == OutboxInv /\ [Next]_vars => OutboxInv'
<1>. DEFINE Rest == DeliveredArrived' /\ AcceptedSafe' /\ LocalRecorded'
<1>. SUFFICES ASSUME OutboxInv, [Next]_vars PROVE Rest
  BY TypeStep DEF OutboxInv
<1>. USE DEF OutboxInv, DeliveredArrived, AcceptedSafe, LocalRecorded, Safe, Steps, Receipts
<1>1. ASSUME NEW e \in Engines, DeliverKnown(e) PROVE Rest
  BY <1>1, RememberType DEF DeliverKnown, disk, world, Pending, TypeOK
<1>2. ASSUME NEW e \in Engines, DeliverNew(e) PROVE Rest
  BY <1>2, GotoType DEF DeliverNew, disk, world, TypeOK
<1>3. ASSUME NEW e \in Engines, FlushPick(e) PROVE Rest
  BY <1>3, GotoType DEF FlushPick, world, TypeOK
<1>4. ASSUME NEW e \in Engines, FlushUnpause(e) PROVE Rest
  BY <1>4 DEF FlushUnpause, world, TypeOK
<1>5. ASSUME NEW e \in Engines, WriteOutbox(e) PROVE Rest
  BY <1>5, RememberType, GotoType DEF WriteOutbox, world, TypeOK
<1>6. ASSUME NEW e \in Engines, SendFirst(e) PROVE Rest
  BY <1>6, GotoType DEF SendFirst, Succeed, Fail, Leaves, TypeOK
<1>7. ASSUME NEW e \in Engines, NoteFailure(e) PROVE Rest
  BY <1>7, GotoType DEF NoteFailure, world, TypeOK
<1>8. ASSUME NEW e \in Engines, FlushSend(e) PROVE Rest
  BY <1>8, GotoType DEF FlushSend, Succeed, Fail, Leaves, TypeOK
<1>9. ASSUME NEW e \in Engines, PauseForUpgrade(e) PROVE Rest
  BY <1>9, GotoType DEF PauseForUpgrade, world, TypeOK
<1>10. ASSUME NEW e \in Engines, HandleFailure(e) PROVE Rest
  BY <1>10, GotoType DEF HandleFailure, world, TypeOK
<1>11. ASSUME NEW e \in Engines, DeadMove(e) PROVE Rest
  BY <1>11, GotoType DEF DeadMove, world, Pending, TypeOK
<1>12. ASSUME NEW e \in Engines, DeadStatus(e) PROVE Rest
  BY <1>12, GotoType DEF DeadStatus, world, TypeOK
<1>13. ASSUME NEW e \in Engines, MarkDelivered(e) PROVE Rest
  BY <1>13, GotoType DEF MarkDelivered, world, TypeOK
<1>14. ASSUME NEW e \in Engines, RecordHistory(e) PROVE Rest
  BY <1>14, RememberType, GotoType DEF RecordHistory, world, TypeOK
<1>15. ASSUME NEW e \in Engines, SweepEnv(e) PROVE Rest
  BY <1>15, GotoType DEF SweepEnv, world, TypeOK
<1>16. ASSUME NEW e \in Engines, AckConsumed(e) PROVE Rest
  BY <1>16, RememberType DEF AckConsumed, TypeOK
<1>17. ASSUME NEW e \in Engines, SweepMarker(e) PROVE Rest
  BY <1>17, GotoType DEF SweepMarker, world, TypeOK
<1>18. ASSUME NEW e \in Engines, SweepStatus(e) PROVE Rest
  BY <1>18 DEF SweepStatus, world, TypeOK
<1>19. ASSUME NEW e \in Engines, Crash(e) PROVE Rest
  BY <1>19, RememberType, GotoType DEF Crash, disk, TypeOK
<1>20. CASE Requeue
  BY <1>20 DEF Requeue, world, TypeOK
<1>21. CASE Purge
  BY <1>21 DEF Purge, TypeOK
<1>22. CASE WaitOver
  BY <1>22 DEF WaitOver, world, TypeOK
<1>23. CASE Age
  BY <1>23 DEF Age, TypeOK
<1>24. CASE UNCHANGED vars
  BY <1>24 DEF vars, TypeOK
<1>. QED BY <1>1, <1>2, <1>3, <1>4, <1>5, <1>6, <1>7, <1>8, <1>9, <1>10, <1>11, <1>12,
            <1>13, <1>14, <1>15, <1>16, <1>17, <1>18, <1>19, <1>20, <1>21, <1>22, <1>23,
            <1>24 DEF Next, FlushStart, Working, Sweep

\* The initial state satisfies the inductive invariant.
LEMMA InitInv == Init => OutboxInv
<1>. SUFFICES ASSUME Init PROVE OutboxInv
  OBVIOUS
<1>1. TypeOK
  <2>1. status \in StatusType
    BY NoStatusType DEF Init
  <2>2. crashes \in 0 .. MaxCrashes /\ ages \in 0 .. MaxAges
    BY OutboxAssumption DEF Init
  <2>3. cache \in [Engines -> Receipts] /\ pc \in [Engines -> Steps]
    BY DEF Init, Receipts, Steps
  <2>4. hist \in BOOLEAN /\ arrived \in BOOLEAN /\ accepted \in BOOLEAN /\ purged \in BOOLEAN
    BY DEF Init
  <2>5. env \subseteq {"outbox", "dead"} /\ marker \in {"none", "fresh", "old"}
    BY DEF Init
  <2>. QED BY <2>1, <2>2, <2>3, <2>4, <2>5 DEF TypeOK
<1>2. DeliveredArrived /\ AcceptedSafe /\ LocalRecorded
  BY DEF Init, DeliveredArrived, AcceptedSafe, LocalRecorded
<1>. QED BY <1>1, <1>2 DEF OutboxInv

\* Type correctness of the outbox, for any engines and bounds.
THEOREM OutboxTypes == Spec => []TypeOK
<1>1. OutboxInv => TypeOK
  BY DEF OutboxInv
<1>. QED BY <1>1, InitInv, StepInv, PTL DEF Spec

\* Nothing deliver() has accepted is lost: with any number of engines over one
\* outbox and crashes between any two steps, the envelope is in the outbox or the
\* dead letter, or it has arrived, or the operator purged it.
THEOREM AcceptedStays == Spec => []AcceptedNotLost
<1>1. OutboxInv => AcceptedNotLost
  BY DEF OutboxInv, AcceptedSafe, Safe, AcceptedNotLost
<1>. QED BY <1>1, InitInv, StepInv, PTL DEF Spec

\* A delivered marker or receipt is only ever there for a message that reached the
\* recipient's inbox.
THEOREM DeliveredMeansArrived == Spec => []DeliveredIsTrue
<1>1. OutboxInv => DeliveredIsTrue
  BY DEF OutboxInv, DeliveredArrived, DeliveredIsTrue
<1>. QED BY <1>1, InitInv, StepInv, PTL DEF Spec

\* For a recipient on this host, an envelope leaves the outbox without a dead
\* letter only when the session history has the message.
THEOREM SweepKeepsHistory == Spec => SweptHasHistory
<1>1. OutboxInv /\ [Next]_vars =>
        [Local /\ Pending /\ env' = env \ {"outbox"} /\ "dead" \notin env' => hist]_vars
  <2>. SUFFICES ASSUME OutboxInv, Next, Local, Pending, env' = env \ {"outbox"},
                      "dead" \notin env'
               PROVE  hist
    OBVIOUS
  <2>1. \E e \in Engines : SweepEnv(e)
    <3>1. "outbox" \in env /\ "outbox" \notin env'
      BY DEF Pending
    <3>. QED
      BY <3>1 DEF Next, FlushStart, Working, Sweep, DeliverKnown, DeliverNew, FlushPick,
         FlushUnpause, WriteOutbox, SendFirst, NoteFailure, FlushSend, PauseForUpgrade,
         HandleFailure, DeadMove, DeadStatus, MarkDelivered, RecordHistory, AckConsumed,
         SweepMarker, SweepStatus, Crash, Requeue, Purge, WaitOver, Age, disk, Pending
  <2>. QED BY <2>1 DEF SweepEnv, OutboxInv, DeliveredArrived, LocalRecorded
<1>. QED BY <1>1, InitInv, StepInv, PTL DEF Spec, SweptHasHistory
=============================================================================

------------------------- MODULE MailboxSendProofs -------------------------
(* Proofs about MailboxSend, for any recipients, senders and payloads, and  *)
(* about a crowd of senders (MCMailboxSend).                                *)
EXTENDS MCMailboxSend, TLAPS

\* The steps of the three loops, by name.
LEMMA StepNames ==
  /\ Opened["write"] = "write-opened" /\ Written["write"] = "written"
  /\ Opened["stamp"] = "stamp-opened" /\ Written["stamp"] = "stamped"
  /\ Opened["backfill"] = "backfill-opened" /\ Written["backfill"] = "backfilled"
BY DEF Opened, Written

\* The vocabulary of a sender's steps.
LEMMA StepSet ==
  /\ Loops = {"write", "stamp", "backfill"}
  /\ {Opened[l] : l \in Loops} = {"write-opened", "stamp-opened", "backfill-opened"}
  /\ Filling = {"write-opened", "stamp-opened", "backfill-opened",
                "written", "stamped", "backfilled"}
  /\ Steps = {"idle", "scan", "append", "tmp", "commit", "write", "stamp", "backfill",
              "write-opened", "stamp-opened", "backfill-opened",
              "written", "stamped", "backfilled"}
<1>1. {Opened[l] : l \in Loops} = {"write-opened", "stamp-opened", "backfill-opened"}
  BY StepNames DEF Loops
<1>2. {Written[l] : l \in Loops} = {"written", "stamped", "backfilled"}
  BY StepNames DEF Loops
<1>3. Loops = {"write", "stamp", "backfill"}
  BY DEF Loops
<1>. QED BY <1>1, <1>2, <1>3 DEF Filling, Steps

\* Goto moves one sender and leaves the others.
LEMMA GotoEffect ==
  ASSUME TypeOK, NEW s \in Senders, NEW step \in Steps, NEW r \in 1 .. NumRecipients + 1,
         Goto(s, step, r)
  PROVE  /\ pc' \in [Senders -> Steps] /\ at' \in [Senders -> 1 .. NumRecipients + 1]
         /\ pay' = pay /\ pc'[s] = step /\ at'[s] = r
         /\ \A t \in Senders : t # s => pc'[t] = pc[t] /\ at'[t] = at[t]
BY DEF TypeOK, Goto

\* Leave ends one sender's call and leaves the others.
LEMMA LeaveEffect ==
  ASSUME TypeOK, NEW s \in Senders, Leave(s)
  PROVE  /\ pc' \in [Senders -> Steps] /\ at' \in [Senders -> 1 .. NumRecipients + 1]
         /\ pay' \in [Senders -> MaybePayload] /\ pc'[s] = "idle" /\ at'[s] = 1
         /\ \A t \in Senders : t # s => pc'[t] = pc[t] /\ at'[t] = at[t] /\ pay'[t] = pay[t]
BY SendAssumption, StepSet DEF TypeOK, Leave, MaybePayload

\* The invariant holds before anybody sends.
LEMMA InitInv == Init => SendInv
<1>. SUFFICES ASSUME Init PROVE SendInv
  OBVIOUS
<1>. USE DEF Init
<1>0. succeeded \in BOOLEAN
  OBVIOUS
<1>1. TypeOK
  BY <1>0, SendAssumption, StepSet DEF TypeOK, FileContent, MaybePayload, Places
<1>2. CallShape /\ LoopServes
  BY StepSet, StepNames DEF CallShape, LoopServes
<1>. QED BY <1>1, <1>2 DEF SendInv, ReachedFirst, RecordLast, SuccessMeansDelivered

-----------------------------------------------------------------------------
(* One lemma per kind of step *)

\* A step in which sender s goes to another step of the same call and no file
\* changes keeps the invariant when what the new step promises holds.
LEMMA MoveInv ==
  ASSUME SendInv, NEW s \in Senders, NEW step \in Steps, NEW r \in 1 .. NumRecipients + 1,
         Goto(s, step, r), UNCHANGED <<files, fd, reached, succeeded, crashes>>,
         pc[s] # "idle", pc[s] \notin Filling, step \notin Filling, step # "commit",
         step \in {"write", "backfill"} => 1 .. r - 1 \subseteq reached,
         step \in {"stamp", "append", "tmp"} => reached = Recipients
  PROVE  SendInv'
<1>. USE DEF SendInv
<1>1. /\ pc' \in [Senders -> Steps] /\ at' \in [Senders -> 1 .. NumRecipients + 1]
      /\ pay' = pay /\ pc'[s] = step /\ at'[s] = r
      /\ \A t \in Senders : t # s => pc'[t] = pc[t] /\ at'[t] = at[t]
  BY GotoEffect
<1>2. TypeOK'
  BY <1>1 DEF TypeOK, files
<1>3. CallShape'
  BY <1>1, StepSet DEF CallShape
<1>4. ReachedFirst'
  BY <1>1, StepSet DEF ReachedFirst, CallShape, TypeOK, Places, files
<1>5. LoopServes'
  BY <1>1, StepSet, StepNames DEF LoopServes
<1>6. RecordLast' /\ SuccessMeansDelivered'
  BY <1>1 DEF RecordLast, SuccessMeansDelivered, files
<1>. QED BY <1>2, <1>3, <1>4, <1>5, <1>6

\* A call that ends without touching a file keeps the invariant; it may tell
\* success once everybody was reached and the message is on record.
LEMMA LeaveInv ==
  ASSUME SendInv, NEW s \in Senders, Leave(s), UNCHANGED <<files, reached>>,
         fd' = fd \/ fd' = [fd EXCEPT ![s] = "gone"], crashes' \in 0 .. MaxCrashes,
         fd'[s] = "gone",
         succeeded' = succeeded \/ (succeeded' = TRUE /\ reached = Recipients /\ hist # NoPayload)
  PROVE  SendInv'
<1>. USE DEF SendInv
<1>1. /\ pc' \in [Senders -> Steps] /\ at' \in [Senders -> 1 .. NumRecipients + 1]
      /\ pay' \in [Senders -> MaybePayload] /\ pc'[s] = "idle" /\ at'[s] = 1
      /\ \A t \in Senders : t # s => pc'[t] = pc[t] /\ at'[t] = at[t] /\ pay'[t] = pay[t]
  BY LeaveEffect
<1>2. fd' \in [Senders -> Places] /\ \A t \in Senders : t # s => fd'[t] = fd[t]
  BY DEF TypeOK, Places
<1>3. succeeded' \in BOOLEAN
  BY DEF TypeOK
<1>4. TypeOK'
  BY <1>1, <1>2, <1>3 DEF TypeOK, files
<1>5. CallShape'
  BY <1>1, <1>2, StepSet DEF CallShape
<1>6. ReachedFirst'
  BY <1>1, <1>2 DEF ReachedFirst, files
<1>7. LoopServes'
  BY <1>1, StepSet, StepNames DEF LoopServes
<1>8. RecordLast'
  BY <1>1 DEF RecordLast, files
<1>9. SuccessMeansDelivered'
  BY DEF SuccessMeansDelivered, files
<1>. QED BY <1>4, <1>5, <1>6, <1>7, <1>8, <1>9

\* Opening the temporary file of a recipient keeps the invariant.
LEMMA OpenInv ==
  ASSUME SendInv, NEW s \in Senders, NEW loop \in Loops, pc[s] = loop, at[s] <= NumRecipients,
         OpenTmp(s, loop), UNCHANGED <<inbox, hist, histTmp, reached, succeeded, crashes>>
  PROVE  SendInv'
<1>. USE DEF SendInv
<1>0. Opened[loop] \in Steps /\ at[s] \in 1 .. NumRecipients + 1 /\ at[s] \in Recipients
  BY SendAssumption, StepSet, StepNames DEF TypeOK, Recipients
<1>1. /\ pc' \in [Senders -> Steps] /\ at' \in [Senders -> 1 .. NumRecipients + 1]
      /\ pay' = pay /\ pc'[s] = Opened[loop] /\ at'[s] = at[s]
      /\ \A t \in Senders : t # s => pc'[t] = pc[t] /\ at'[t] = at[t]
  BY <1>0, GotoEffect DEF OpenTmp
<1>2. fd' \in [Senders -> Places] /\ fd'[s] = "tmp" /\ \A t \in Senders : t # s => fd'[t] = fd[t]
  BY DEF OpenTmp, TypeOK, Places
<1>3. TypeOK'
  BY <1>1, <1>2 DEF OpenTmp, TypeOK, FileContent
<1>4. CallShape'
  BY <1>1, <1>2, StepSet, StepNames DEF CallShape
<1>5. ReachedFirst'
  BY <1>1, <1>2 DEF ReachedFirst
<1>6. LoopServes'
  BY <1>1, StepSet, StepNames DEF LoopServes
<1>7. RecordLast' /\ SuccessMeansDelivered'
  BY <1>1, StepSet, StepNames DEF RecordLast, SuccessMeansDelivered
<1>. QED BY <1>3, <1>4, <1>5, <1>6, <1>7

\* Writing the content, wherever the opened file is by now, keeps the
\* invariant: what is written into an inbox is there already.
LEMMA ContentInv ==
  ASSUME SendInv, NEW s \in Senders, NEW loop \in Loops, WriteContent(s, loop)
  PROVE  SendInv'
<1>. USE DEF SendInv
<1>0. /\ Written[loop] \in Steps /\ at[s] \in 1 .. NumRecipients + 1 /\ at[s] \in Recipients
      /\ pc[s] = Opened[loop] /\ pay[s] \in Payloads
  BY SendAssumption, StepSet, StepNames DEF TypeOK, Recipients, WriteContent, CallShape
<1>1. /\ pc' \in [Senders -> Steps] /\ at' \in [Senders -> 1 .. NumRecipients + 1]
      /\ pay' = pay /\ pc'[s] = Written[loop] /\ at'[s] = at[s]
      /\ \A t \in Senders : t # s => pc'[t] = pc[t] /\ at'[t] = at[t]
  BY <1>0, GotoEffect DEF WriteContent
<1>2. fd' \in [Senders -> Places] /\ fd'[s] = "gone" /\ \A t \in Senders : t # s => fd'[t] = fd[t]
  BY DEF WriteContent, TypeOK, Places
<1>3. inboxTmp' \in [Recipients -> FileContent]
  BY <1>0 DEF WriteContent, TypeOK, FileContent, MaybePayload
<1>4. inbox' \in [Recipients -> FileContent]
  BY <1>0 DEF WriteContent, TypeOK, FileContent, MaybePayload
<1>5. TypeOK'
  BY <1>1, <1>2, <1>3, <1>4 DEF WriteContent, TypeOK
<1>6. CallShape'
  BY <1>0, <1>1, <1>2, StepSet, StepNames DEF CallShape
<1>7. ReachedFirst'
  BY <1>0, <1>1, <1>2 DEF ReachedFirst, WriteContent, TypeOK
<1>8. LoopServes'
  BY <1>0, <1>1, StepSet, StepNames DEF LoopServes, WriteContent
<1>9. RecordLast' /\ SuccessMeansDelivered'
  BY <1>1, StepSet, StepNames DEF RecordLast, SuccessMeansDelivered, WriteContent
<1>. QED BY <1>5, <1>6, <1>7, <1>8, <1>9

\* The rename keeps the invariant: one more recipient is reached, and the
\* loop goes on to the next.
LEMMA PublishInv ==
  ASSUME SendInv, NEW s \in Senders, NEW loop \in Loops, Publish(s, loop)
  PROVE  SendInv'
<1>. USE DEF SendInv
<1>0. /\ loop \in Steps /\ at[s] \in 1 .. NumRecipients + 1 /\ at[s] \in Recipients
      /\ at[s] + 1 \in 1 .. NumRecipients + 1 /\ fd[s] = "gone" /\ pc[s] = Written[loop]
  BY SendAssumption, StepSet, StepNames DEF TypeOK, Recipients, Publish, CallShape
<1>1. CASE inboxTmp[at[s]] = NoPayload
  <2>1. Leave(s) /\ UNCHANGED <<files, reached, fd, crashes, succeeded>>
    BY <1>1 DEF Publish, Raise, files
  <2>2. crashes' \in 0 .. MaxCrashes
    BY <2>1 DEF TypeOK
  <2>. QED BY <1>0, <2>1, <2>2, LeaveInv
<1>2. CASE inboxTmp[at[s]] # NoPayload
  <2>1. /\ inbox' = [inbox EXCEPT ![at[s]] = inboxTmp[at[s]]]
        /\ inboxTmp' = [inboxTmp EXCEPT ![at[s]] = NoPayload]
        /\ reached' = reached \cup {at[s]} /\ Renamed(at[s]) /\ Goto(s, loop, at[s] + 1)
        /\ UNCHANGED <<hist, histTmp, crashes, succeeded>>
    BY <1>2 DEF Publish
  <2>2. /\ pc' \in [Senders -> Steps] /\ at' \in [Senders -> 1 .. NumRecipients + 1]
        /\ pay' = pay /\ pc'[s] = loop /\ at'[s] = at[s] + 1
        /\ \A t \in Senders : t # s => pc'[t] = pc[t] /\ at'[t] = at[t]
    BY <1>0, <2>1, GotoEffect
  <2>3. /\ fd' \in [Senders -> Places] /\ fd'[s] = "gone"
        /\ \A t \in Senders : /\ fd'[t] # "gone" => fd[t] # "gone"
                              /\ fd'[t] = "inbox" => fd[t] = "inbox" \/ at[t] = at[s]
    BY <1>0, <2>1 DEF Renamed, TypeOK, Places
  <2>4. reached' \subseteq Recipients /\ reached \subseteq reached' /\ at[s] \in reached'
        /\ (reached = Recipients => reached' = Recipients)
    BY <1>0, <2>1 DEF TypeOK
  <2>5. TypeOK'
    BY <1>0, <2>1, <2>2, <2>3, <2>4 DEF TypeOK, FileContent, MaybePayload
  <2>6. CallShape'
    BY <1>0, <2>2, <2>3, StepSet, StepNames DEF CallShape
  <2>7. ReachedFirst'
    BY <1>0, <2>1, <2>2, <2>3, <2>4 DEF ReachedFirst, TypeOK
  <2>8. LoopServes'
    <3>1. \A t \in Senders : t # s =>
            /\ pc'[t] \in {"write", "backfill", Opened["write"], Opened["backfill"],
                          Written["write"], Written["backfill"]} => 1 .. at'[t] - 1 \subseteq reached'
            /\ pc'[t] \in {"stamp", Opened["stamp"], Written["stamp"], "append", "tmp", "commit"}
                 => reached' = Recipients
      BY <2>2, <2>4 DEF LoopServes
    <3>2. loop # "stamp" => 1 .. at[s] \subseteq reached'
      <4>1. loop # "stamp" => 1 .. at[s] - 1 \subseteq reached
        BY <1>0, StepSet DEF LoopServes
      <4>. QED BY <1>0, <4>1, <2>4
    <3>3. loop = "stamp" => reached' = Recipients
      BY <1>0, <2>4 DEF LoopServes
    <3>. QED BY <1>0, <2>2, <3>1, <3>2, <3>3, StepSet, StepNames DEF LoopServes
  <2>9. RecordLast' /\ SuccessMeansDelivered'
    BY <2>1, <2>2, <2>4, StepSet DEF RecordLast, SuccessMeansDelivered
  <2>. QED BY <2>5, <2>6, <2>7, <2>8, <2>9
<1>. QED BY <1>1, <1>2

\* The two steps of append_history that write keep the invariant.
LEMMA AppendInv ==
  ASSUME SendInv, NEW s \in Senders, AppendTmp(s) \/ AppendCommit(s)
  PROVE  SendInv'
<1>. USE DEF SendInv
<1>1. CASE AppendTmp(s) /\ histTmp # NoPayload
  <2>1. Leave(s) /\ UNCHANGED <<files, reached, fd, crashes, succeeded>>
    BY <1>1 DEF AppendTmp, Raise, files
  <2>2. crashes' \in 0 .. MaxCrashes /\ fd'[s] = "gone"
    BY <1>1, <2>1, StepSet DEF TypeOK, CallShape, AppendTmp
  <2>. QED BY <2>1, <2>2, LeaveInv
<1>2. CASE AppendTmp(s) /\ histTmp = NoPayload
  <2>0. "commit" \in Steps /\ 1 \in 1 .. NumRecipients + 1 /\ pay[s] \in Payloads
        /\ pc[s] = "tmp" /\ fd[s] = "gone"
    BY <1>2, SendAssumption, StepSet DEF AppendTmp, CallShape
  <2>1. /\ pc' \in [Senders -> Steps] /\ at' \in [Senders -> 1 .. NumRecipients + 1]
        /\ pay' = pay /\ pc'[s] = "commit" /\ at'[s] = 1
        /\ \A t \in Senders : t # s => pc'[t] = pc[t] /\ at'[t] = at[t]
    BY <1>2, <2>0, GotoEffect DEF AppendTmp
  <2>2. histTmp' = pay[s] /\ UNCHANGED <<inbox, inboxTmp, fd, hist, reached, succeeded, crashes>>
    BY <1>2 DEF AppendTmp
  <2>3. TypeOK'
    BY <2>0, <2>1, <2>2 DEF TypeOK, MaybePayload
  <2>4. CallShape' /\ ReachedFirst'
    BY <2>0, <2>1, <2>2, StepSet DEF CallShape, ReachedFirst
  <2>5. LoopServes'
    BY <2>0, <2>1, <2>2, StepNames DEF LoopServes
  <2>6. RecordLast' /\ SuccessMeansDelivered'
    BY <1>2, <2>0, <2>1, <2>2, SendAssumption DEF RecordLast, SuccessMeansDelivered, LoopServes
  <2>. QED BY <2>3, <2>4, <2>5, <2>6
<1>3. CASE AppendCommit(s)
  <2>0. pc[s] = "commit" /\ fd[s] = "gone" /\ reached = Recipients /\ histTmp # NoPayload
    BY <1>3, StepSet DEF AppendCommit, CallShape, LoopServes, RecordLast
  <2>1. /\ pc' \in [Senders -> Steps] /\ at' \in [Senders -> 1 .. NumRecipients + 1]
        /\ pay' \in [Senders -> MaybePayload] /\ pc'[s] = "idle" /\ at'[s] = 1
        /\ \A t \in Senders : t # s => pc'[t] = pc[t] /\ at'[t] = at[t] /\ pay'[t] = pay[t]
    BY <1>3, LeaveEffect DEF AppendCommit, Return
  <2>2. /\ hist' = histTmp /\ histTmp' = NoPayload /\ succeeded' = TRUE
        /\ UNCHANGED <<inbox, inboxTmp, fd, reached, crashes>>
    BY <1>3 DEF AppendCommit, Return
  <2>3. succeeded' \in BOOLEAN
    BY <2>2
  <2>4. TypeOK'
    BY <2>1, <2>2, <2>3 DEF TypeOK, MaybePayload
  <2>5. CallShape' /\ ReachedFirst'
    BY <2>0, <2>1, <2>2, StepSet DEF CallShape, ReachedFirst
  <2>6. LoopServes'
    BY <2>0, <2>1, <2>2, StepNames DEF LoopServes
  <2>7. RecordLast' /\ SuccessMeansDelivered'
    BY <2>0, <2>1, <2>2 DEF RecordLast, SuccessMeansDelivered
  <2>. QED BY <2>4, <2>5, <2>6, <2>7
<1>. QED BY <1>1, <1>2, <1>3

\* A call, and a reader that takes an envelope away, keep the invariant.
LEMMA CallTakeInv ==
  ASSUME SendInv,
         \/ \E s \in Senders, v \in Payloads : Call(s, v)
         \/ \E r \in Recipients : Take(r)
  PROVE  SendInv'
<1>. USE DEF SendInv
<1>1. ASSUME NEW s \in Senders, NEW v \in Payloads, Call(s, v) PROVE SendInv'
  <2>1. /\ pc' \in [Senders -> Steps] /\ pc'[s] = "scan" /\ pay' \in [Senders -> MaybePayload]
        /\ pay'[s] = v /\ \A t \in Senders : t # s => pc'[t] = pc[t] /\ pay'[t] = pay[t]
    BY <1>1, StepSet DEF Call, TypeOK, MaybePayload
  <2>2. TypeOK' /\ ReachedFirst' /\ SuccessMeansDelivered'
    BY <1>1, <2>1 DEF Call, files, TypeOK, ReachedFirst, SuccessMeansDelivered
  <2>3. CallShape'
    BY <1>1, <2>1, StepSet DEF Call, CallShape
  <2>4. LoopServes' /\ RecordLast'
    BY <1>1, <2>1, StepNames DEF Call, files, LoopServes, RecordLast
  <2>. QED BY <2>2, <2>3, <2>4
<1>2. ASSUME NEW r \in Recipients, Take(r) PROVE SendInv'
  <2>1. fd' \in [Senders -> Places] /\ \A s \in Senders : fd'[s] = fd[s] \/ fd'[s] = "gone"
    BY <1>2 DEF Take, TypeOK, Places
  <2>2. TypeOK'
    BY <1>2, <2>1 DEF Take, TypeOK, FileContent, MaybePayload
  <2>3. CallShape' /\ ReachedFirst'
    BY <1>2, <2>1 DEF Take, CallShape, ReachedFirst, TypeOK
  <2>4. LoopServes' /\ RecordLast' /\ SuccessMeansDelivered'
    BY <1>2 DEF Take, LoopServes, RecordLast, SuccessMeansDelivered
  <2>. QED BY <2>2, <2>3, <2>4
<1>. QED BY <1>1, <1>2

\* Every step of a call, and its crash, keeps the invariant.
LEMMA ContinueInv ==
  ASSUME SendInv, NEW s \in Senders, Continue(s) \/ Crash(s)
  PROVE  SendInv'
<1>. USE DEF SendInv
<1>0. /\ at[s] \in 1 .. NumRecipients + 1 /\ 1 \in 1 .. NumRecipients + 1 /\ 1 .. 1 - 1 \subseteq reached
      /\ at[s] <= NumRecipients => at[s] + 1 \in 1 .. NumRecipients + 1 /\ at[s] \in Recipients
      /\ pc[s] \notin {"write-opened", "stamp-opened", "backfill-opened"} => fd[s] = "gone"
      /\ crashes \in 0 .. MaxCrashes /\ Loops \subseteq Steps
  <2>1. /\ at[s] \in 1 .. NumRecipients + 1 /\ 1 \in 1 .. NumRecipients + 1 /\ 1 .. 1 - 1 \subseteq reached
        /\ at[s] <= NumRecipients => at[s] + 1 \in 1 .. NumRecipients + 1 /\ at[s] \in Recipients
    BY SendAssumption DEF TypeOK, Recipients
  <2>2. pc[s] \notin {"write-opened", "stamp-opened", "backfill-opened"} => fd[s] = "gone"
    BY StepSet DEF CallShape
  <2>3. crashes \in 0 .. MaxCrashes /\ Loops \subseteq Steps
    BY StepSet DEF TypeOK
  <2>. QED BY <2>1, <2>2, <2>3
<1>1. CASE ScanInbox(s) \/ ScanHistory(s)
  <2>1. pc[s] = "scan" /\ UNCHANGED <<files, fd, reached, crashes>>
    BY <1>1 DEF ScanInbox, ScanHistory
  <2>2. \/ at[s] <= NumRecipients /\ Goto(s, "scan", at[s] + 1) /\ UNCHANGED succeeded
        \/ Goto(s, "write", 1) /\ UNCHANGED succeeded
        \/ Goto(s, "backfill", 1) /\ UNCHANGED succeeded
        \/ Leave(s) /\ UNCHANGED succeeded
    BY <1>1 DEF ScanInbox, ScanHistory, Found, Raise
  <2>. QED BY <1>0, <2>1, <2>2, MoveInv, LeaveInv, StepSet
<1>2. CASE WriteOpen(s)
  BY <1>2, StepSet, OpenInv DEF WriteOpen
<1>3. CASE Backfill(s)
  <2>1. CASE inbox[at[s]] = NoPayload
    BY <1>3, <2>1, StepSet, OpenInv DEF Backfill
  <2>2. CASE inbox[at[s]] # NoPayload
    <3>1. 1 .. (at[s] + 1) - 1 \subseteq reached
      <4>1. at[s] \in reached /\ 1 .. at[s] - 1 \subseteq reached
        BY <1>0, <1>3, <2>2 DEF Backfill, ReachedFirst, LoopServes
      <4>. QED BY <4>1, <1>0
    <3>2. /\ Goto(s, "backfill", at[s] + 1) /\ pc[s] = "backfill"
          /\ UNCHANGED <<files, fd, reached, succeeded, crashes>>
          /\ at[s] + 1 \in 1 .. NumRecipients + 1
      BY <1>0, <1>3, <2>2 DEF Backfill, files
    <3>. QED BY <1>0, <3>1, <3>2, MoveInv, StepSet
  <2>. QED BY <2>1, <2>2
<1>4. CASE \E loop \in Loops : WriteContent(s, loop) \/ Publish(s, loop)
  BY <1>4, ContentInv, PublishInv
<1>5. CASE AdvanceCursor(s) \/ Stamped(s)
  <2>1. reached = Recipients
    <3>1. CASE pc[s] = "write" /\ at[s] > NumRecipients
      <4>1. 1 .. at[s] - 1 \subseteq reached
        BY <3>1 DEF LoopServes
      <4>2. at[s] = NumRecipients + 1
        BY <1>0, <3>1, SendAssumption
      <4>3. Recipients \subseteq reached
        BY <4>1, <4>2, SendAssumption DEF Recipients
      <4>. QED BY <4>3 DEF TypeOK
    <3>2. CASE pc[s] = "stamp"
      BY <3>2 DEF LoopServes
    <3>. QED BY <1>5, <3>1, <3>2 DEF AdvanceCursor, Stamped
  <2>2. pc[s] \in {"write", "stamp"} /\ (Goto(s, "stamp", 1) \/ Goto(s, "append", 1))
        /\ UNCHANGED <<files, fd, reached, succeeded, crashes>>
    BY <1>5 DEF AdvanceCursor, Stamped
  <2>. QED BY <1>0, <2>1, <2>2, MoveInv, StepSet
<1>6. CASE Replayed(s)
  <2>1. reached = Recipients
    <3>1. 1 .. at[s] - 1 \subseteq reached /\ at[s] = NumRecipients + 1
      BY <1>0, <1>6, SendAssumption DEF LoopServes, Replayed
    <3>2. Recipients \subseteq reached
      BY <3>1, SendAssumption DEF Recipients
    <3>. QED BY <3>2 DEF TypeOK
  <2>2. pc[s] = "backfill" /\ UNCHANGED <<files, fd, reached, crashes>>
    BY <1>6 DEF Replayed
  <2>3. CASE hist # NoPayload
    <3>1. Leave(s) /\ succeeded' = TRUE
      BY <1>6, <2>3 DEF Replayed, Return
    <3>. QED BY <1>0, <2>1, <2>2, <2>3, <3>1, LeaveInv
  <2>4. CASE hist = NoPayload
    <3>1. Goto(s, "append", 1) /\ UNCHANGED succeeded
      BY <1>6, <2>4 DEF Replayed
    <3>. QED BY <1>0, <2>1, <2>2, <3>1, MoveInv, StepSet
  <2>. QED BY <2>3, <2>4
<1>7. CASE AppendCheck(s)
  <2>1. /\ pc[s] = "append" /\ UNCHANGED <<files, fd, reached, crashes, succeeded>>
        /\ Goto(s, "tmp", 1) \/ Leave(s)
    BY <1>7 DEF AppendCheck, Raise
  <2>2. reached = Recipients
    BY <2>1 DEF LoopServes
  <2>. QED BY <1>0, <2>1, <2>2, MoveInv, LeaveInv, StepSet
<1>8. CASE AppendTmp(s) \/ AppendCommit(s)
  BY <1>8, AppendInv
<1>9. CASE Crash(s)
  <2>1. /\ Leave(s) /\ fd' = [fd EXCEPT ![s] = "gone"] /\ UNCHANGED <<files, reached, succeeded>>
        /\ fd'[s] = "gone" /\ crashes' \in 0 .. MaxCrashes
    BY <1>9, <1>0, SendAssumption DEF Crash, Raise, TypeOK
  <2>. QED BY <2>1, LeaveInv
<1>. QED BY <1>1, <1>2, <1>3, <1>4, <1>5, <1>6, <1>7, <1>8, <1>9 DEF Continue

\* Every step keeps the invariant.
LEMMA StepInv == SendInv /\ [Next]_vars => SendInv'
<1>. SUFFICES ASSUME SendInv, [Next]_vars PROVE SendInv'
  OBVIOUS
<1>1. CASE Next
  BY <1>1, CallTakeInv, ContinueInv DEF Next, Begin
<1>2. CASE UNCHANGED vars
  BY <1>2 DEF vars, SendInv, TypeOK, CallShape, ReachedFirst, LoopServes, RecordLast,
              SuccessMeansDelivered
<1>. QED BY <1>1, <1>2

-----------------------------------------------------------------------------
(* Theorems *)

\* Every reachable state of the senders, files and readers has its type.
THEOREM SendTypes == Spec => []TypeOK
<1>1. SendInv => TypeOK
  BY DEF SendInv
<1>. QED BY <1>1, InitInv, StepInv, PTL DEF Spec

\* send() returns without an error only when every inbox was reached and the
\* message is on record, for any number of recipients, senders and crashes.
THEOREM SuccessIsDelivery == Spec => []SuccessMeansDelivered
<1>1. SendInv => SuccessMeansDelivered
  BY DEF SendInv
<1>. QED BY <1>1, InitInv, StepInv, PTL DEF Spec

\* The fan-out implements AtomicFanout: a rename reaches a recipient, and the
\* rename of the history's file records the message, after every recipient
\* was reached; every other step leaves both alone.
THEOREM FanoutRefined == Spec => ImplementsFanout
<1>1. Init => Fanout!Init
  BY DEF Init, Fanout!Init
<1>2. SendInv /\ [Next]_vars => [Fanout!Next]_(Fanout!fanoutVars)
  <2>. SUFFICES ASSUME SendInv, [Next]_vars PROVE [Fanout!Next]_(Fanout!fanoutVars)
    OBVIOUS
  <2>. USE DEF SendInv
  <2>1. ASSUME NEW s \in Senders, NEW loop \in Loops, Publish(s, loop)
        PROVE  [Fanout!Next]_(Fanout!fanoutVars)
    <3>1. at[s] \in Recipients
      BY <2>1, StepSet, StepNames, SendAssumption DEF Publish, CallShape, TypeOK, Recipients
    <3>2. hist' = hist /\ (reached' = reached \cup {at[s]} \/ reached' = reached)
      BY <2>1 DEF Publish
    <3>. QED BY <3>1, <3>2 DEF Fanout!Next, Fanout!Reach, Fanout!fanoutVars
  <2>2. ASSUME NEW s \in Senders, AppendCommit(s)
        PROVE  [Fanout!Next]_(Fanout!fanoutVars)
    <3>1. reached = Recipients /\ histTmp # NoPayload
      BY <2>2, StepSet DEF AppendCommit, LoopServes, RecordLast
    <3>2. hist' # NoPayload /\ reached' = reached
      BY <2>2, <3>1 DEF AppendCommit
    <3>. QED BY <3>1, <3>2 DEF Fanout!Next, Fanout!Record, Fanout!fanoutVars
  <2>3. CASE UNCHANGED <<hist, reached>>
    BY <2>3 DEF Fanout!fanoutVars
  <2>4. ASSUME NEW s \in Senders, Continue(s) PROVE [Fanout!Next]_(Fanout!fanoutVars)
    BY <2>4, <2>1, <2>2, <2>3
    DEF Continue, ScanInbox, ScanHistory, WriteOpen, Backfill, WriteContent, AdvanceCursor,
        Stamped, Replayed, AppendCheck, AppendTmp, files
  <2>. QED BY <2>3, <2>4 DEF Next, Begin, Call, Crash, Take, vars, files
<1>. QED BY <1>1, <1>2, InitInv, StepInv, PTL DEF Spec, ImplementsFanout, Fanout!Spec

-----------------------------------------------------------------------------
(* A lone sender *)

\* A step of the crowd is a step of the senders.
LEMMA CrowdStep ==
  ASSUME LoneInv, [CrowdNext]_crowdVars
  PROVE  [Next]_vars
BY DEF LoneInv, CrowdNext, crowdVars, CallOne, Next, Begin

\* A step of the crowd keeps what is known of a lone sender's files.
LEMMA LoneStep == SendInv /\ LoneInv /\ [CrowdNext]_crowdVars => LoneInv'
<1>. SUFFICES ASSUME SendInv, LoneInv, [CrowdNext]_crowdVars PROVE LoneInv'
  OBVIOUS
<1>. USE DEF SendInv
<1>1. UNCHANGED <<crowd, texts>> /\ crowd' \subseteq Senders /\ texts' \subseteq Payloads
  BY DEF CrowdNext, crowdVars, LoneInv
<1>2. \A s \in Senders \ crowd : pc'[s] = "idle"
  <2>1. ASSUME NEW s \in crowd, CallOne(s) \/ Continue(s) \/ Crash(s)
        PROVE  \A t \in Senders \ {s} : pc'[t] = pc[t]
    BY <2>1 DEF LoneInv, CallOne, Call, Continue, Crash, ScanInbox, ScanHistory, Found, WriteOpen,
         OpenTmp, Backfill, WriteContent, Publish, AdvanceCursor, Stamped, Replayed, AppendCheck,
         AppendTmp, AppendCommit, Goto, Return, Raise, Leave, TypeOK
  <2>2. ASSUME NEW r \in Recipients, Take(r) PROVE pc' = pc
    BY <2>2 DEF Take
  <2>. QED BY <2>1, <2>2 DEF CrowdNext, crowdVars, vars, LoneInv
<1>3. ASSUME NEW s \in Senders, crowd = {s}
      PROVE  /\ pc'[s] \in {Opened[l] : l \in Loops} => fd'[s] = "tmp"
             /\ pc'[s] \in {Written[l] : l \in Loops} => inboxTmp'[at'[s]] # Partial
             /\ EnvelopesAreWhole'
  <2>. DEFINE Lone == /\ pc[s] \in {Opened[l] : l \in Loops} => fd[s] = "tmp"
                      /\ pc[s] \in {Written[l] : l \in Loops} => inboxTmp[at[s]] # Partial
                      /\ EnvelopesAreWhole
  <2>0. /\ Lone
        /\ {Opened[l] : l \in Loops} = {"write-opened", "stamp-opened", "backfill-opened"}
        /\ {Written[l] : l \in Loops} = {"written", "stamped", "backfilled"}
        /\ Partial \notin MaybePayload
    <3>1. {Written[l] : l \in Loops} = {"written", "stamped", "backfilled"}
      BY StepNames DEF Loops
    <3>2. Lone
      BY <1>3 DEF LoneInv
    <3>. QED BY <3>1, <3>2, StepSet, SendAssumption DEF MaybePayload
  <2>1. CASE \E v \in texts : Call(s, v)
    BY <2>0, <2>1 DEF Call, TypeOK, files, EnvelopesAreWhole
  <2>2. ASSUME NEW step \in Steps, NEW r \in 1 .. NumRecipients + 1, Goto(s, step, r),
               step \notin Filling, UNCHANGED inbox
        PROVE  Lone'
    BY <2>0, <2>2, GotoEffect, StepSet DEF EnvelopesAreWhole
  <2>3. ASSUME Leave(s), UNCHANGED inbox
        PROVE  Lone'
    BY <2>0, <2>3, LeaveEffect, StepSet DEF EnvelopesAreWhole
  <2>4. at[s] \in 1 .. NumRecipients + 1 /\ (pc[s] \in Filling => at[s] \in Recipients)
    BY StepSet, SendAssumption DEF CallShape, TypeOK, Recipients
  <2>5. ASSUME NEW loop \in Loops, OpenTmp(s, loop), UNCHANGED inbox
        PROVE  Lone'
    <3>1. pc'[s] = Opened[loop] /\ fd'[s] = "tmp"
      BY <2>5 DEF OpenTmp, Goto, TypeOK
    <3>. QED BY <2>0, <2>5, <3>1, StepSet, StepNames DEF EnvelopesAreWhole
  <2>6. ASSUME NEW loop \in Loops, WriteContent(s, loop)
        PROVE  Lone'
    <3>1. pc[s] = Opened[loop] /\ fd[s] = "tmp" /\ at[s] \in Recipients
      BY <2>0, <2>4, <2>6, StepSet, StepNames DEF WriteContent
    <3>2. pay[s] # Partial
      BY <2>0 DEF TypeOK
    <3>3. inboxTmp' = [inboxTmp EXCEPT ![at[s]] = pay[s]] /\ inbox' = inbox
      BY <2>6, <3>1 DEF WriteContent
    <3>4. pc'[s] = Written[loop] /\ at'[s] = at[s]
      BY <2>6 DEF WriteContent, Goto, TypeOK
    <3>. QED BY <2>0, <3>1, <3>2, <3>3, <3>4, StepSet, StepNames DEF EnvelopesAreWhole, TypeOK
  <2>7. ASSUME NEW loop \in Loops, Publish(s, loop)
        PROVE  Lone'
    <3>1. pc[s] = Written[loop] /\ at[s] \in Recipients /\ inboxTmp[at[s]] # Partial
      BY <2>0, <2>4, <2>7, StepSet, StepNames DEF Publish
    <3>2. CASE inboxTmp[at[s]] = NoPayload
      BY <2>3, <2>7, <3>2 DEF Publish, Raise
    <3>3. CASE inboxTmp[at[s]] # NoPayload
      <4>1. inbox' = [inbox EXCEPT ![at[s]] = inboxTmp[at[s]]] /\ pc'[s] = loop
        BY <2>7, <3>3 DEF Publish, Goto, TypeOK
      <4>2. EnvelopesAreWhole'
        BY <2>0, <3>1, <4>1 DEF EnvelopesAreWhole, TypeOK
      <4>. QED BY <2>0, <4>1, <4>2, StepSet
    <3>. QED BY <3>2, <3>3
  <2>8. CASE Continue(s)
    <3>0. /\ 1 \in 1 .. NumRecipients + 1
          /\ at[s] <= NumRecipients => at[s] + 1 \in 1 .. NumRecipients + 1
      BY <2>4, SendAssumption
    <3>1. CASE ScanInbox(s) \/ ScanHistory(s)
      <4>1. /\ UNCHANGED inbox
            /\ \/ at[s] <= NumRecipients /\ Goto(s, "scan", at[s] + 1)
               \/ Goto(s, "write", 1) \/ Goto(s, "backfill", 1) \/ Leave(s)
        BY <3>1 DEF ScanInbox, ScanHistory, Found, Raise, files
      <4>. QED BY <2>2, <2>3, <3>0, <4>1, StepSet
    <3>2. CASE WriteOpen(s) \/ Backfill(s)
      <4>1. /\ UNCHANGED inbox
            /\ \/ at[s] <= NumRecipients /\ Goto(s, "backfill", at[s] + 1)
               \/ \E loop \in Loops : OpenTmp(s, loop)
        BY <3>2, StepSet DEF WriteOpen, Backfill
      <4>. QED BY <2>2, <2>5, <3>0, <4>1, StepSet
    <3>3. CASE \E loop \in Loops : WriteContent(s, loop) \/ Publish(s, loop)
      BY <2>6, <2>7, <3>3
    <3>4. CASE AdvanceCursor(s) \/ Stamped(s) \/ Replayed(s) \/ AppendCheck(s)
      <4>1. /\ UNCHANGED inbox
            /\ \/ Goto(s, "stamp", 1) \/ Goto(s, "append", 1) \/ Goto(s, "tmp", 1) \/ Leave(s)
        BY <3>4 DEF AdvanceCursor, Stamped, Replayed, AppendCheck, Return, Raise, files
      <4>. QED BY <2>2, <2>3, <3>0, <4>1, StepSet
    <3>5. CASE AppendTmp(s) \/ AppendCommit(s)
      <4>1. UNCHANGED inbox /\ (Goto(s, "commit", 1) \/ Leave(s))
        BY <3>5 DEF AppendTmp, AppendCommit, Return, Raise
      <4>. QED BY <2>2, <2>3, <3>0, <4>1, StepSet
    <3>. QED BY <2>8, <3>1, <3>2, <3>3, <3>4, <3>5 DEF Continue
  <2>9. CASE Crash(s)
    BY <2>3, <2>9 DEF Crash, Raise, files
  <2>10. ASSUME NEW r \in Recipients, Take(r) PROVE Lone'
    BY <2>0, <2>10, SendAssumption DEF Take, EnvelopesAreWhole, TypeOK
  <2>11. CASE UNCHANGED crowdVars
    BY <2>0, <2>11 DEF crowdVars, vars, EnvelopesAreWhole
  <2>. QED BY <1>3, <2>1, <2>8, <2>9, <2>10, <2>11 DEF CrowdNext, CallOne
<1>. QED BY <1>1, <1>2, <1>3 DEF LoneInv

\* A lone sender that dies anywhere in its call and sends again at any time
\* never shows a reader a file that is not completely written.
THEOREM LoneWhole == CrowdSpec => []LoneEnvelopesAreWhole
<1>1. CrowdInit => SendInv /\ LoneInv
  <2>. SUFFICES ASSUME CrowdInit PROVE SendInv /\ LoneInv
    OBVIOUS
  <2>1. SendInv
    BY InitInv DEF CrowdInit
  <2>2. {Opened[l] : l \in Loops} \cup {Written[l] : l \in Loops} = Filling
    BY DEF Filling
  <2>. QED BY <2>1, <2>2, StepSet, SendAssumption DEF CrowdInit, Init, LoneInv, EnvelopesAreWhole
<1>2. SendInv /\ LoneInv /\ [CrowdNext]_crowdVars => SendInv' /\ LoneInv'
  BY CrowdStep, StepInv, LoneStep
<1>3. LoneInv => LoneEnvelopesAreWhole
  BY DEF LoneInv, LoneEnvelopesAreWhole, Alone
<1>. QED BY <1>1, <1>2, <1>3, PTL DEF CrowdSpec

=============================================================================

---------------------------- MODULE SwarmProofs ----------------------------
(* Proofs about the control data of a session, the manager's pull, the      *)
(* reads of an agent and the background jobs, for any processes, messages   *)
(* and bounds.                                                              *)
EXTENDS BackgroundJob, SwarmKernel, ManagerPull, MailboxRead, WellFoundedInduction, TLAPS

\* The least of some natural numbers is one of them.
LEMMA MinIsOne ==
  ASSUME NEW S \in SUBSET Nat, S # {}
  PROVE  Min(S) \in S
<1>1. IsWellFoundedOn(OpToRel(<, Nat), Nat)
  BY NatLessThanWellFounded
<1>2. PICK x \in S : \A y \in S : ~(<<y, x>> \in OpToRel(<, Nat))
  BY <1>1, WFMin
<1>3. \A y \in S : ~(y < x)
  BY <1>2 DEF OpToRel
<1>4. \A y \in S : x <= y
  BY <1>3
<1>. QED BY <1>4 DEF Min

-----------------------------------------------------------------------------
(* Background jobs *)

\* A job's first status file is one of the files.
LEMMA OneIsInode == 1 \in Inodes
BY DEF Inodes

\* A new job satisfies the invariant.
LEMMA JobInitInv == JobInit => JobInv
<1>. SUFFICES ASSUME JobInit PROVE JobInv
  OBVIOUS
<1>. USE DEF JobInit
<1>1. \A p \in Writers : job[p].at = "off" /\ job[p].fd = 0
  OBVIOUS
<1>2. \A i \in Inodes : inode[i] \in {"pending", ""}
  OBVIOUS
<1>3. JobTypeOK
  <2>1. job \in [Writers -> [at: {"off", "run", "open", "write", "rename", "end"}, fd: {0} \cup Inodes]]
    OBVIOUS
  <2>2. inode \in [Inodes -> Text]
    BY DEF Text
  <2>3. tmp \in {0} \cup Inodes /\ cur \in Inodes
    BY OneIsInode
  <2>4. waiter \in [how: {"waiting", "status", "deadline"}, code: {None, 0, 1}]
    OBVIOUS
  <2>. QED BY <2>1, <2>2, <2>3, <2>4 DEF JobTypeOK
<1>4. "child" \in Writers
  BY DEF Writers
<1>. QED BY <1>1, <1>2, <1>3, <1>4 DEF JobInv, OutcomeKept

\* The file that a process opens is status.tmp, or a new one.
LEMMA FileToOpen ==
  ASSUME JobInv, NEW p \in Writers, job[p].at = "open", tmp = 0
  PROVE  (CHOOSE n \in Inodes : n # cur /\ \A q \in Writers : n # job[q].fd) \in Inodes
<1>. USE DEF JobInv, JobTypeOK
<1>1. PICK q \in Writers : \A r \in Writers : r = p \/ r = q
  BY DEF Writers
<1>2. job[p].fd = 0 /\ job[q].fd \in {0, 1, 2, 3} /\ cur \in {1, 2, 3}
  BY DEF Inodes
<1>3. \E n \in {1, 2, 3} : n # cur /\ n # job[q].fd
  BY <1>2
<1>4. \E n \in Inodes : n # cur /\ \A r \in Writers : n # job[r].fd
  BY <1>1, <1>2, <1>3 DEF Inodes
<1>. QED BY <1>4

\* What a process leaves in the status file is a text, and final only when
\* the child writes it, after the task has ended.
LEMMA WrittenText ==
  ASSUME JobInv, NEW p \in Writers, NEW old \in Text
  PROVE  /\ Over(Final(p), old) \in Text
         /\ Over(Final(p), old) \in {"done", "failed"} => p = "child"
<1>1. Final("parent") = "running"
  BY DEF Final
<1>2. Final("child") \in {"done", "failed"}
  BY DEF Final
<1>3. p \in {"parent", "child"}
  BY DEF Writers
<1>4. Over(Final(p), old) \in {Final(p), "mixed"}
  BY DEF Over
<1>. QED BY <1>1, <1>2, <1>3, <1>4 DEF Text

\* Every step of a job keeps the invariant.
LEMMA JobStep == JobInv /\ [JobNext]_jobVars => JobInv'
<1>. SUFFICES ASSUME JobInv, [JobNext]_jobVars PROVE JobInv'
  OBVIOUS
<1>. USE DEF JobInv, JobTypeOK
<1>0. "parent" \in Writers /\ "child" \in Writers /\ \A p \in Writers : p \in {"parent", "child"}
  BY DEF Writers
<1>1. CASE Spawn
  <2>1. /\ job' = [job EXCEPT !["parent"].at = "open", !["child"].at = "run"]
        /\ job["parent"].at = "off" /\ UNCHANGED <<inode, tmp, cur, result, ended, waiter>>
    BY <1>1 DEF Spawn
  <2>2. job'["parent"] = [job["parent"] EXCEPT !.at = "open"] /\ job'["child"] = [job["child"] EXCEPT !.at = "run"]
    BY <1>0, <2>1
  <2>3. JobTypeOK'
    BY <1>0, <2>1
  <2>4. \A p \in Writers : job'[p].at \in {"off", "run", "open"} => job'[p].fd = 0
    <3>1. job["parent"].fd = 0 /\ job["child"].fd = 0
      BY <1>0, <2>1
    <3>. QED BY <1>0, <2>2, <3>1
  <2>5. job'["child"].at = "run" /\ job'["parent"].at = "open"
    BY <1>0, <2>2
  <2>. QED BY <2>1, <2>3, <2>4, <2>5 DEF OutcomeKept
<1>2. CASE TaskReturns
  BY <1>0, <1>2 DEF TaskReturns, OutcomeKept, None
<1>3. CASE MarkDone
  <2>1. /\ job["child"].at = "run" /\ ended # None
        /\ result' = ended /\ job' = [job EXCEPT !["child"].at = "open"]
        /\ UNCHANGED <<inode, tmp, cur, ended, waiter>>
    BY <1>3 DEF MarkDone, At
  <2>2. job["child"].fd = 0
    BY <1>0, <2>1
  <2>3. job'["child"] = [job["child"] EXCEPT !.at = "open"] /\ job'["parent"] = job["parent"]
    BY <1>0, <2>1
  <2>4. JobTypeOK'
    BY <1>0, <2>1
  <2>. QED BY <1>0, <2>1, <2>2, <2>3, <2>4 DEF OutcomeKept
<1>4. CASE WaitEnds
  BY <1>0, <1>4 DEF WaitEnds, Told, OutcomeKept, None
<1>5. CASE WaitDeadline
  BY <1>0, <1>5 DEF WaitDeadline, Told, OutcomeKept, None
<1>6. ASSUME NEW p \in Writers, OpenTmp(p) PROVE JobInv'
  <2>1. PICK i \in Inodes : /\ tmp' = i /\ inode' = [inode EXCEPT ![i] = ""]
                            /\ job' = [job EXCEPT ![p] = [at |-> "write", fd |-> i]]
    BY <1>6, FileToOpen DEF OpenTmp
  <2>2. job[p].at = "open" /\ UNCHANGED <<cur, result, ended, waiter>>
    BY <1>6 DEF OpenTmp
  <2>. QED BY <1>0, <2>1, <2>2 DEF OutcomeKept, Text
<1>7. ASSUME NEW p \in Writers, WriteTmp(p) PROVE JobInv'
  <2>. DEFINE new(i) == Over(Final(p), inode[i])
  <2>1. /\ job[p].at = "write" /\ UNCHANGED <<tmp, cur, result, ended, waiter>>
        /\ job' = [job EXCEPT ![p].at = "rename"]
        /\ inode' = [inode EXCEPT ![job[p].fd] = new(job[p].fd)]
    BY <1>7 DEF WriteTmp, At
  <2>2. \A i \in Inodes : new(i) \in Text /\ (new(i) \in {"done", "failed"} => p = "child")
    BY WrittenText
  <2>. HIDE DEF new
  <2>3. inode' \in [Inodes -> Text]
    BY <2>1, <2>2
  <2>4. \A i \in Inodes : inode'[i] \in {"done", "failed"} => OutcomeKept
    BY <2>1, <2>2
  <2>. QED BY <1>0, <2>1, <2>3, <2>4 DEF OutcomeKept
<1>8. ASSUME NEW p \in Writers, RenameTmp(p) PROVE JobInv'
  BY <1>0, <1>8 DEF RenameTmp, At, OutcomeKept, Inodes
<1>9. ASSUME NEW p \in Writers, KilledAt(p) PROVE JobInv'
  BY <1>0, <1>9 DEF KilledAt, At, OutcomeKept
<1>10. CASE UNCHANGED jobVars
  BY <1>10 DEF jobVars, OutcomeKept
<1>. QED BY <1>1, <1>2, <1>3, <1>4, <1>5, <1>6, <1>7, <1>8, <1>9, <1>10 DEF JobNext

\* "job wait" that returns before its deadline has the task's exit code,
\* however the two writers of the status file interleave (mark_running,
\* mark_done, wait).
THEOREM WaitIsHonest == JobSpec => []WaitTellsOutcome
<1>1. JobInv => WaitTellsOutcome
  BY DEF JobInv, WaitTellsOutcome
<1>. QED BY <1>1, JobInitInv, JobStep, PTL DEF JobSpec

-----------------------------------------------------------------------------
(* The manager's pull *)

\* The first state of the pull satisfies the invariant.
LEMMA PullInitInv == PullInit => PullInv
BY PullAssumption DEF PullInit, PullInv, PullTypeOK, FinalizedIsIngested

\* Every step of the pull keeps the invariant.
LEMMA PullStep == PullInv /\ [PullNext]_pullVars => PullInv'
<1>. SUFFICES ASSUME PullInv, [PullNext]_pullVars PROVE PullInv'
  OBVIOUS
<1>. USE PullAssumption DEF PullInv, PullTypeOK, FinalizedIsIngested
<1>0. Fault \/ NoFault => pullFaults' \in 0 .. MaxFaults
  BY DEF Fault, NoFault
<1>1. CASE PullRemote
  <2>1. Unread \in SUBSET Nat /\ Unread \subseteq Msg
    BY DEF Unread, Msg
  <2>2. Unread # {} => OldestOf(Unread) \in Msg
    BY <2>1, MinIsOne DEF OldestOf
  <2>3. pullFaults' \in 0 .. MaxFaults
    BY <1>0, <1>1 DEF PullRemote
  <2>4. /\ \/ remote' = remote
           \/ \E m \in Msg : remote' = [remote EXCEPT ![m] = "claimed"]
        /\ \/ mgr' = [mgr EXCEPT !.at = "ingest"]
           \/ \E m \in Msg : mgr' = [mgr EXCEPT !.at = "ingest", !.held = {m}]
        /\ UNCHANGED history
    BY <1>1, <2>2 DEF PullRemote
  <2>5. PullTypeOK'
    <3>1. remote' \in [Msg -> {"unsent", "inbox", "claimed", "archive"}]
      <4>1. CASE remote' = remote
        BY <4>1
      <4>2. ASSUME NEW m \in Msg, remote' = [remote EXCEPT ![m] = "claimed"]
            PROVE  remote' \in [Msg -> {"unsent", "inbox", "claimed", "archive"}]
        BY <4>2
      <4>. QED BY <2>4, <4>1, <4>2
    <3>2. mgr' \in [at: {"pull", "ingest", "settle", "done", "down"}, held: SUBSET Msg, kept: SUBSET Msg]
      <4>1. CASE mgr' = [mgr EXCEPT !.at = "ingest"]
        BY <4>1
      <4>2. ASSUME NEW m \in Msg, mgr' = [mgr EXCEPT !.at = "ingest", !.held = {m}]
            PROVE  mgr' \in [at: {"pull", "ingest", "settle", "done", "down"}, held: SUBSET Msg, kept: SUBSET Msg]
        BY <4>2
      <4>. QED BY <2>4, <4>1, <4>2
    <3>. QED BY <2>3, <2>4, <3>1, <3>2
  <2>6. mgr'.kept = mgr.kept
    BY <2>4
  <2>7. \A m \in Msg : remote'[m] = "archive" => remote[m] = "archive"
    BY <2>4
  <2>. QED BY <2>4, <2>5, <2>6, <2>7
<1>2. CASE Ingest
  BY <1>2 DEF Ingest
<1>3. ASSUME NEW m \in Msg, Settle(m) PROVE PullInv'
  <2>1. pullFaults' \in 0 .. MaxFaults
    BY <1>0, <1>3 DEF Settle
  <2>2. remote' = remote \/ remote' = [remote EXCEPT ![m] = Settled(m)]
    BY <1>3 DEF Settle
  <2>3. Settled(m) \in {"inbox", "archive"} /\ (Settled(m) = "archive" => m \in history)
    BY DEF Settled
  <2>4. mgr' = [mgr EXCEPT !.held = @ \ {m}] /\ UNCHANGED history
    BY <1>3 DEF Settle
  <2>. QED BY <2>1, <2>2, <2>3, <2>4
<1>4. CASE Check
  BY <1>4 DEF Check
<1>5. CASE Killed
  BY <1>0, <1>5 DEF Killed
<1>6. CASE Restart
  BY <1>6 DEF Restart
<1>7. ASSUME NEW m \in Msg, Report(m) PROVE PullInv'
  BY <1>7 DEF Report
<1>8. ASSUME NEW m \in Msg, LeaseEnds(m) PROVE PullInv'
  BY <1>8 DEF LeaseEnds
<1>9. CASE UNCHANGED pullVars
  BY <1>9 DEF pullVars
<1>. QED BY <1>1, <1>2, <1>3, <1>4, <1>5, <1>6, <1>7, <1>8, <1>9 DEF PullNext, LoopStep

\* A message that is finalized on the worker's host is in the manager's
\* history, whatever call of the loop failed, timed out or was repeated
\* (_swarm_launch, ingest).
THEOREM FinalizedAfterIngest == PullSpec => []FinalizedIsIngested
<1>1. PullInv => FinalizedIsIngested
  BY DEF PullInv
<1>. QED BY <1>1, PullInitInv, PullStep, PTL DEF PullSpec

-----------------------------------------------------------------------------
(* The reads of an agent *)

\* The first state of the reads satisfies the invariant.
LEMMA ReadInitInv == ReadInit => ReadInv
<1>. SUFFICES ASSUME ReadInit PROVE ReadInv
  OBVIOUS
<1>. USE ReadAssumption DEF ReadInit
<1>1. 0 \in 0 .. NMessages
  OBVIOUS
<1>2. rd \in [Readers -> [at: {"idle", "locked", "inspected", "receipt", "work"}, msg: 0 .. NMessages]]
  BY <1>1 DEF Resting
<1>3. joined \in BOOLEAN
  OBVIOUS
<1>4. ReadTypeOK
  BY <1>2, <1>3 DEF ReadTypeOK
<1>5. \A r \in Readers : MayClaim(rd[r])
  BY DEF MayClaim, Resting
<1>6. AckDiscipline
  BY DEF AckDiscipline, Message
<1>. QED BY <1>4, <1>5, <1>6 DEF ReadInv

\* The roster only grows, so that what is resolvable stays so.
LEMMA ResolvableStays ==
  ASSUME ReadTypeOK, joined' = joined \/ joined' = TRUE, NEW m, Resolvable(m)
  PROVE  Resolvable(m)'
BY DEF Resolvable

\* Every step of the readers, of the others who move messages and of the
\* roster keeps the invariant.
LEMMA ReadStep == ReadInv /\ [ReadNext]_readVars => ReadInv'
<1>. SUFFICES ASSUME ReadInv, [ReadNext]_readVars PROVE ReadInv'
  OBVIOUS
<1>. DEFINE Slot == [at: {"idle", "locked", "inspected", "receipt", "work"}, msg: 0 .. NMessages]
<1>0. /\ ReadTypeOK /\ (\A r \in Readers : MayClaim(rd[r])) /\ AckDiscipline
      /\ NMessages \in Nat /\ AckAsked \subseteq Message /\ NoReader \notin Readers
  BY ReadAssumption DEF ReadInv, Message
<1>1. Resting \in Slot /\ MayClaim(Resting) /\ \A m \in Message : m \in 0 .. NMessages
  <2>1. 0 \in 0 .. NMessages /\ \A m \in Message : m \in 0 .. NMessages
    BY <1>0 DEF Message
  <2>. QED BY <2>1 DEF Resting, MayClaim
<1>2. ASSUME NEW r \in Readers, NEW slot \in Slot,
             MayClaim(slot),
             rd' = [rd EXCEPT ![r] = slot], UNCHANGED joined
      PROVE  rd' \in [Readers -> Slot] /\ (\A q \in Readers : MayClaim(rd[q])')
  BY <1>0, <1>2 DEF ReadTypeOK, MayClaim, Resolvable
<1>3. ASSUME UNCHANGED <<rd, joined>> PROVE \A q \in Readers : MayClaim(rd[q])'
  BY <1>0, <1>3 DEF MayClaim, Resolvable
<1>4. ASSUME NEW r \in Readers, Lock(r) PROVE ReadInv'
  <2>. DEFINE slot == [rd[r] EXCEPT !.at = "locked"]
  <2>1. rd' = [rd EXCEPT ![r] = slot]
    BY <1>4 DEF Lock
  <2>2. slot \in Slot /\ MayClaim(slot)
    BY <1>0 DEF MayClaim, ReadTypeOK
  <2>. HIDE DEF slot
  <2>3. UNCHANGED <<inboxed, held, parked, joined, receipts, done>> /\ readLock' = r
    BY <1>4 DEF Lock
  <2>. QED BY <1>0, <1>2, <2>1, <2>2, <2>3 DEF ReadInv, ReadTypeOK, AckDiscipline, Resolvable
<1>5. ASSUME NEW r \in Readers, NEW target \in 0 .. NMessages, Inspect(r, target) PROVE ReadInv'
  <2>. DEFINE marks == {m \in parked : ~Resolvable(m)}
              open  == IF target # 0 THEN inboxed \cap {target} ELSE inboxed \ marks
  <2>1. UNCHANGED <<inboxed, held, joined, receipts, done>>
    BY <1>5 DEF Inspect
  <2>2. marks \subseteq Message /\ open \subseteq Message
    BY <1>0 DEF ReadTypeOK
  <2>3. ASSUME open # {} PROVE Min(open) \in Message
    <3>1. open \in SUBSET Nat
      BY <1>0, <2>2 DEF Message
    <3>. QED BY <2>2, <2>3, <3>1, MinIsOne
  <2>4. \/ parked' \subseteq Message /\ Return(r)
        \/ /\ open # {} /\ ~(Min(open) \in AckAsked /\ ~Resolvable(Min(open)))
           /\ parked' \subseteq Message /\ UNCHANGED readLock
           /\ rd' = [rd EXCEPT ![r] = [at |-> "inspected", msg |-> Min(open)]]
    BY <1>0, <1>5, <2>2, <2>3 DEF Inspect, ReadTypeOK
  <2>5. /\ parked' \subseteq Message /\ readLock' \in Readers \cup {NoReader}
        /\ \E slot \in Slot : MayClaim(slot) /\ rd' = [rd EXCEPT ![r] = slot]
    <3>1. CASE parked' \subseteq Message /\ Return(r)
      BY <1>1, <3>1 DEF Return
    <3>2. CASE /\ open # {} /\ ~(Min(open) \in AckAsked /\ ~Resolvable(Min(open)))
               /\ parked' \subseteq Message /\ UNCHANGED readLock
               /\ rd' = [rd EXCEPT ![r] = [at |-> "inspected", msg |-> Min(open)]]
      <4>. DEFINE slot == [at |-> "inspected", msg |-> Min(open)]
      <4>1. slot \in Slot /\ slot.msg = Min(open) /\ Min(open) # 0
        BY <1>0, <1>1, <2>3, <3>2 DEF Message
      <4>3. MayClaim(slot)
        BY <3>2, <4>1 DEF MayClaim
      <4>2. rd' = [rd EXCEPT ![r] = slot]
        BY <3>2
      <4>. HIDE DEF slot, open
      <4>. QED BY <1>0, <3>2, <4>1, <4>2, <4>3 DEF ReadTypeOK
    <3>. QED BY <2>4, <3>1, <3>2
  <2>6. rd' \in [Readers -> Slot] /\ (\A q \in Readers : MayClaim(rd[q])')
    BY <1>2, <2>1, <2>5
  <2>. QED BY <1>0, <2>1, <2>5, <2>6 DEF ReadInv, ReadTypeOK, AckDiscipline, Resolvable
<1>6. ASSUME NEW r \in Readers, Claim(r) PROVE ReadInv'
  <2>1. CASE Claimable(r) = {}
    <3>1. rd' = [rd EXCEPT ![r] = Resting] /\ readLock' = NoReader
          /\ UNCHANGED <<inboxed, held, parked, joined, receipts, done>>
      BY <1>6, <2>1 DEF Claim, Return
    <3>2. rd' \in [Readers -> Slot] /\ (\A q \in Readers : MayClaim(rd[q])')
      BY <1>1, <1>2, <3>1
    <3>. QED BY <1>0, <3>1, <3>2 DEF ReadInv, ReadTypeOK, AckDiscipline, Resolvable
  <2>2. CASE Claimable(r) # {}
    <3>1. PICK m \in Claimable(r) :
              /\ inboxed' = inboxed \ {m} /\ held' = [held EXCEPT ![m] = r]
              /\ rd' = [rd EXCEPT ![r] = [at |-> "receipt", msg |-> m]]
              /\ readLock' = NoReader /\ UNCHANGED <<parked, joined, receipts, done>>
      BY <1>6, <2>2 DEF Claim
    <3>2. m \in Message /\ m = rd[r].msg /\ rd[r].at = "inspected"
      BY <1>0, <1>6 DEF Claimable, ReadTypeOK, Claim
    <3>3. m \in AckAsked => Resolvable(m)
      BY <1>0, <3>2 DEF MayClaim
    <3>. DEFINE slot == [at |-> "receipt", msg |-> m]
    <3>4. slot \in Slot /\ MayClaim(slot) /\ rd' = [rd EXCEPT ![r] = slot]
      BY <1>0, <1>1, <3>1, <3>2 DEF MayClaim, Message
    <3>. HIDE DEF slot
    <3>5. rd' \in [Readers -> Slot] /\ (\A q \in Readers : MayClaim(rd[q])')
      BY <1>2, <3>1, <3>4
    <3>6. AckDiscipline'
      BY <1>0, <3>1, <3>2, <3>3 DEF AckDiscipline, Resolvable, ReadTypeOK
    <3>. QED BY <1>0, <3>1, <3>2, <3>5, <3>6 DEF ReadInv, ReadTypeOK
  <2>. QED BY <2>1, <2>2
<1>7. ASSUME NEW r \in Readers, Receipt(r) PROVE ReadInv'
  <2>. DEFINE slot == [rd[r] EXCEPT !.at = "work"]
  <2>1. rd' = [rd EXCEPT ![r] = slot] /\ UNCHANGED <<inboxed, held, parked, joined, readLock, done>>
    BY <1>7 DEF Receipt
  <2>2. slot \in Slot /\ MayClaim(slot)
    BY <1>0, <1>7 DEF ReadTypeOK, MayClaim, Receipt
  <2>. HIDE DEF slot
  <2>3. receipts' \subseteq Message
    BY <1>0, <1>7 DEF Receipt, ReadTypeOK
  <2>4. rd' \in [Readers -> Slot] /\ (\A q \in Readers : MayClaim(rd[q])')
    BY <1>2, <2>1, <2>2
  <2>. QED BY <1>0, <2>1, <2>3, <2>4 DEF ReadInv, ReadTypeOK, AckDiscipline, Resolvable
<1>8. ASSUME NEW r \in Readers, Finish(r) PROVE ReadInv'
  <2>1. rd' = [rd EXCEPT ![r] = Resting] /\ UNCHANGED <<parked, joined, readLock, receipts>>
    BY <1>8 DEF Finish
  <2>2. rd' \in [Readers -> Slot] /\ (\A q \in Readers : MayClaim(rd[q])')
    BY <1>1, <1>2, <2>1
  <2>. DEFINE m == rd[r].msg
  <2>3. /\ held' = [held EXCEPT ![m] = IF @ = r THEN NoReader ELSE @]
        /\ \/ held[m] = r /\ done' = done \cup {m} /\ UNCHANGED inboxed
           \/ held[m] = r /\ inboxed' = inboxed \cup {m} /\ UNCHANGED done
           \/ held[m] # r /\ UNCHANGED <<inboxed, done>>
    BY <1>8 DEF Finish
  <2>4. CASE held[m] # r
    <3>1. held' = held /\ UNCHANGED <<inboxed, done>>
      BY <1>0, <2>3, <2>4 DEF ReadTypeOK
    <3>. QED BY <1>0, <2>1, <2>2, <3>1 DEF ReadInv, ReadTypeOK, AckDiscipline, Resolvable
  <2>5. CASE held[m] = r
    <3>1. m \in 0 .. NMessages /\ m # 0
      BY <1>0, <1>8 DEF Finish, MayClaim, ReadTypeOK
    <3>2. m \in Message /\ (m \in AckAsked => Resolvable(m))
      BY <1>0, <2>5, <3>1 DEF Message, AckDiscipline
    <3>3. /\ held' = [held EXCEPT ![m] = NoReader]
          /\ \/ done' = done \cup {m} /\ UNCHANGED inboxed
             \/ inboxed' = inboxed \cup {m} /\ UNCHANGED done
      BY <2>3, <2>5
    <3>. HIDE DEF m
    <3>4. AckDiscipline'
      BY <1>0, <2>1, <3>2, <3>3 DEF AckDiscipline, Resolvable, ReadTypeOK
    <3>. QED BY <1>0, <2>1, <2>2, <3>2, <3>3, <3>4 DEF ReadInv, ReadTypeOK
  <2>. QED BY <2>4, <2>5
<1>9. ASSUME NEW r \in Readers, Crash(r) PROVE ReadInv'
  <2>1. rd' = [rd EXCEPT ![r] = Resting] /\ readLock' \in {NoReader, readLock}
        /\ UNCHANGED <<inboxed, held, parked, joined, receipts, done>>
    BY <1>9 DEF Crash
  <2>2. rd' \in [Readers -> Slot] /\ (\A q \in Readers : MayClaim(rd[q])')
    BY <1>1, <1>2, <2>1
  <2>. QED BY <1>0, <2>1, <2>2 DEF ReadInv, ReadTypeOK, AckDiscipline, Resolvable
<1>10. ASSUME NEW m \in Message, RecoverStale(m) PROVE ReadInv'
  <2>1. /\ held' = [held EXCEPT ![m] = NoReader] /\ inboxed' = inboxed \cup {m}
        /\ UNCHANGED <<parked, joined, readLock, rd, receipts, done>>
    BY <1>10 DEF RecoverStale
  <2>. QED BY <1>0, <1>3, <2>1 DEF ReadInv, ReadTypeOK, AckDiscipline, Resolvable
<1>11. ASSUME NEW m \in Message, TakenElsewhere(m) PROVE ReadInv'
  BY <1>0, <1>3, <1>11 DEF TakenElsewhere, ReadInv, ReadTypeOK, AckDiscipline, Resolvable
<1>12. CASE Join
  <2>1. joined' = TRUE /\ UNCHANGED <<inboxed, held, parked, readLock, rd, receipts, done>>
    BY <1>12 DEF Join
  <2>2. \A m : Resolvable(m)'
    BY <2>1 DEF Resolvable
  <2>. QED BY <1>0, <2>1, <2>2 DEF ReadInv, ReadTypeOK, AckDiscipline, MayClaim
<1>13. CASE UNCHANGED readVars
  BY <1>0, <1>3, <1>13 DEF readVars, ReadInv, ReadTypeOK, AckDiscipline, Resolvable
<1>. QED BY <1>4, <1>5, <1>6, <1>7, <1>8, <1>9, <1>10, <1>11, <1>12, <1>13 DEF ReadNext

\* A read never claims a message that asks for an acknowledgement while its
\* sender cannot be resolved, whatever is consumed, released or recovered
\* between its inspection and its claim (MailboxService.read).
THEOREM ReadsKeepDiscipline == ReadSpec => []AckDiscipline
<1>1. ReadInv => AckDiscipline
  BY DEF ReadInv
<1>. QED BY <1>1, ReadInitInv, ReadStep, PTL DEF ReadSpec

-----------------------------------------------------------------------------
(* The kernels of a session *)

\* The empty file has the type of one, and so has a kernel that is idle.
LEMMA NoMetaType ==
  /\ NoMeta \in Meta
  /\ NoCall \in [op: Ops \cup {"idle"}, step: {"", "lock", "write"}, read: Meta,
                 arg: Agents \cup Chans \cup {NoKernel}]
<1>1. NoMeta \in Meta
  BY DEF NoMeta, Meta
<1>. QED BY <1>1 DEF NoCall

\* The first state of the kernels satisfies the invariant.
LEMMA KernelInitInv == KernelInit => KernelInv
<1>. SUFFICES ASSUME KernelInit PROVE KernelInv
  OBVIOUS
<1>. USE DEF KernelInit
<1>1. mem \in [Kernels -> [up: BOOLEAN, policy: {"none", "open", "restricted"}, data: Meta]]
  BY NoMetaType
<1>2. KernelTypeOK
  <2>1. 0 \in 0 .. MaxLoads
    BY KernelAssumption
  <2>. QED BY <1>1, <2>1, NoMetaType DEF KernelTypeOK
<1>3. \A k \in Kernels : Owed(k)
  <2>1. NoCall.op = "idle" /\ NoCall.step = ""
    BY DEF NoCall
  <2>. QED BY <2>1 DEF Owed
<1>. QED BY <1>2, <1>3 DEF KernelInv, RecordedStays

\* A step that changes neither the file nor the lock, and that leaves every
\* call with what it owes, keeps the invariant.
LEMMA MemoryStep ==
  ASSUME KernelInv, NEW k \in Kernels, UNCHANGED <<meta, metaLock, made>>,
         NEW row \in [up: BOOLEAN, policy: {"none", "open", "restricted"}, data: Meta],
         NEW entry \in [op: Ops \cup {"idle"}, step: {"", "lock"}, read: Meta,
                        arg: Agents \cup Chans \cup {NoKernel}],
         mem' = [mem EXCEPT ![k] = row], call' = [call EXCEPT ![k] = entry],
         row.up \/ entry = NoCall,
         entry.op \in {"routing", "deleted", "tokens"} => entry.arg \in Agents,
         entry.op = "routing" => row.data.routing[entry.arg] # NoHost,
         entry.op = "channels" => entry.arg \in row.data.channels,
         session' \in {"none", "bare", "open", "restricted"}, loads' \in 0 .. MaxLoads
  PROVE  KernelInv'
<1>1. KernelTypeOK'
  BY DEF KernelInv, KernelTypeOK
<1>2. \A j \in Kernels : Owed(j)'
  <2>. SUFFICES ASSUME NEW j \in Kernels PROVE Owed(j)'
    OBVIOUS
  <2>1. CASE j = k
    <3>1. mem'[j] = row /\ call'[j] = entry /\ entry.step # "write"
      BY <2>1 DEF KernelInv, KernelTypeOK
    <3>. QED BY <3>1 DEF Owed
  <2>2. CASE j # k
    <3>1. mem'[j] = mem[j] /\ call'[j] = call[j] /\ Owed(j)
      BY <2>2 DEF KernelInv, KernelTypeOK
    <3>. QED BY <3>1 DEF Owed
  <2>. QED BY <2>1, <2>2
<1>3. RecordedStays'
  BY DEF KernelInv, RecordedStays
<1>. QED BY <1>1, <1>2, <1>3 DEF KernelInv

\* What the write of a call leaves in the file: everything that was there but
\* the route it deletes, and what the call is to record.
LEMMA WrittenMeta ==
  ASSUME KernelInv, NEW k \in Kernels, call[k].step = "write"
  PROVE  LET new == Updated(k, call[k].read)
         IN  /\ new \in Meta
             /\ meta.channels \subseteq new.channels /\ meta.tokens \subseteq new.tokens
             /\ \A a \in Agents : \/ call[k].op = "deleted" /\ a = call[k].arg
                                  \/ meta.routing[a] # NoHost => new.routing[a] # NoHost
             /\ call[k].op = "routing" => new.routing[call[k].arg] # NoHost
             /\ call[k].op = "channels" => call[k].arg \in new.channels
             /\ call[k].op = "tokens" => call[k].arg \in new.tokens
<1>. DEFINE data == mem[k].data
            op == call[k].op
            arg == call[k].arg
            routes == [a \in Agents |-> IF op = "deleted" /\ a = arg THEN NoHost
                                        ELSE IF data.routing[a] # NoHost THEN data.routing[a] ELSE meta.routing[a]]
            new == Updated(k, call[k].read)
<1>1. /\ meta \in Meta /\ data \in Meta /\ op \in Ops \cup {"idle"} /\ call[k].read = meta
      /\ op \in {"routing", "deleted", "tokens"} => arg \in Agents
      /\ op = "routing" => data.routing[arg] # NoHost
      /\ op = "channels" => arg \in data.channels
  BY DEF KernelInv, KernelTypeOK, Owed
<1>2. new = CASE op \in {"routing", "deleted"} -> [meta EXCEPT !.routing = routes]
              [] op = "channels" -> [meta EXCEPT !.channels = @ \cup data.channels]
              [] op = "tokens" -> [meta EXCEPT !.tokens = @ \cup {arg}]
              [] OTHER -> meta
  BY <1>1 DEF Updated
<1>. HIDE DEF new, data, op, arg
<1>3. /\ meta.routing \in [Agents -> Hosts \cup {NoHost}] /\ data.routing \in [Agents -> Hosts \cup {NoHost}]
      /\ meta.channels \subseteq Chans /\ data.channels \subseteq Chans /\ meta.tokens \subseteq Agents
  BY <1>1 DEF Meta
<1>4. CASE op \in {"routing", "deleted"}
  <2>1. new = [meta EXCEPT !.routing = routes]
    BY <1>2, <1>4
  <2>2. /\ routes \in [Agents -> Hosts \cup {NoHost}]
        /\ \A a \in Agents : \/ op = "deleted" /\ a = arg
                             \/ routes[a] = IF data.routing[a] # NoHost THEN data.routing[a] ELSE meta.routing[a]
    BY <1>3
  <2>. HIDE DEF routes
  <2>3. /\ new \in Meta /\ new.routing = routes
        /\ new.channels = meta.channels /\ new.tokens = meta.tokens
    BY <1>1, <2>1, <2>2 DEF Meta
  <2>4. op = "routing" => arg \in Agents /\ op # "deleted" /\ data.routing[arg] # NoHost
    BY <1>1
  <2>. QED BY <1>4, <2>2, <2>3, <2>4 DEF new, op, arg
<1>5. CASE op = "channels"
  <2>1. new = [meta EXCEPT !.channels = @ \cup data.channels]
    BY <1>2, <1>5
  <2>2. /\ new \in Meta /\ new.routing = meta.routing /\ new.tokens = meta.tokens
        /\ new.channels = meta.channels \cup data.channels
    BY <1>1, <1>3, <2>1 DEF Meta
  <2>. QED BY <1>1, <1>5, <2>2 DEF new, op, arg
<1>6. CASE op = "tokens"
  <2>1. new = [meta EXCEPT !.tokens = @ \cup {arg}]
    BY <1>2, <1>6
  <2>2. /\ new \in Meta /\ new.routing = meta.routing /\ new.channels = meta.channels
        /\ new.tokens = meta.tokens \cup {arg}
    BY <1>1, <1>3, <1>6, <2>1 DEF Meta
  <2>. QED BY <1>6, <2>2 DEF new, op, arg
<1>7. CASE op \notin {"routing", "deleted", "channels", "tokens"}
  <2>1. new = meta
    BY <1>2, <1>7
  <2>. QED BY <1>1, <1>7, <2>1 DEF new, op, arg
<1>. QED BY <1>4, <1>5, <1>6, <1>7

\* The write of the file keeps the invariant: nobody else is between its read
\* and its write, and nothing that was recorded is lost.
LEMMA WriteStep ==
  ASSUME KernelInv, NEW k \in Kernels, PersistWrite(k)
  PROVE  KernelInv'
<1>. DEFINE new == Updated(k, call[k].read)
            op == call[k].op
            arg == call[k].arg
<1>1. /\ call[k].step = "write" /\ metaLock = k /\ meta' = new /\ metaLock' = NoKernel
      /\ made' = IF op = "deleted" THEN made \ {arg} ELSE made \cup Achieved(call[k])
      /\ call' = [call EXCEPT ![k] = NoCall] /\ UNCHANGED <<session, mem, loads>>
  BY DEF PersistWrite, KernelInv, Owed
<1>2. /\ new \in Meta
      /\ meta.channels \subseteq new.channels /\ meta.tokens \subseteq new.tokens
      /\ \A a \in Agents : \/ op = "deleted" /\ a = arg
                           \/ meta.routing[a] # NoHost => new.routing[a] # NoHost
      /\ op = "routing" => new.routing[arg] # NoHost
      /\ op = "channels" => arg \in new.channels
      /\ op = "tokens" => arg \in new.tokens
  BY <1>1, WrittenMeta
<1>3. /\ KernelTypeOK /\ RecordedStays /\ (\A j \in Kernels : Owed(j))
      /\ op \in {"routing", "deleted", "tokens"} => arg \in Agents
      /\ op = "channels" => arg \in Chans
  BY <1>2 DEF KernelInv, Owed, KernelTypeOK, Meta
<1>. HIDE DEF new
<1>4. Achieved(call[k]) = IF op \in {"routing", "channels"} THEN {arg}
                          ELSE IF op = "tokens" THEN {<<arg, "token">>} ELSE {}
  BY DEF Achieved
<1>5. made' \subseteq Agents \cup Chans \cup (Agents \X {"token"})
  <2>1. Achieved(call[k]) \subseteq Agents \cup Chans \cup (Agents \X {"token"})
    BY <1>3, <1>4
  <2>2. made' \subseteq made \cup Achieved(call[k])
    BY <1>1
  <2>. QED BY <1>3, <2>1, <2>2 DEF KernelTypeOK
<1>6. KernelTypeOK'
  BY <1>1, <1>2, <1>3, <1>5, NoMetaType DEF KernelTypeOK
<1>7. \A j \in Kernels : Owed(j)'
  <2>. SUFFICES ASSUME NEW j \in Kernels PROVE Owed(j)'
    OBVIOUS
  <2>1. CASE j = k
    <3>1. call'[j] = NoCall /\ NoCall.op = "idle" /\ NoCall.step = ""
      BY <1>1, <1>3, <2>1 DEF KernelTypeOK, NoCall
    <3>. QED BY <3>1 DEF Owed
  <2>2. CASE j # k
    <3>1. call'[j] = call[j] /\ mem'[j] = mem[j] /\ call[j].step # "write"
      BY <1>1, <1>3, <2>2 DEF KernelTypeOK, Owed
    <3>. QED BY <1>3, <3>1 DEF Owed
  <2>. QED BY <2>1, <2>2
<1>8. RecordedStays'
  <2>. SUFFICES ASSUME NEW x \in made'
                PROVE  \/ x \in meta'.channels
                       \/ \E a \in meta'.tokens : x = <<a, "token">>
                       \/ x \in Agents /\ meta'.routing[x] # NoHost
    BY DEF RecordedStays
  <2>1. CASE x \in made /\ ~(op = "deleted" /\ x = arg)
    BY <1>1, <1>2, <1>3, <2>1 DEF RecordedStays
  <2>2. CASE op # "deleted" /\ x \in Achieved(call[k])
    BY <1>1, <1>2, <1>3, <1>4, <2>2
  <2>. QED BY <1>1, <2>1, <2>2
<1>. QED BY <1>6, <1>7, <1>8 DEF KernelInv

\* Every step of the kernels keeps the invariant.
LEMMA KernelStep == KernelInv /\ [KernelNext]_kernelVars => KernelInv'
<1>. SUFFICES ASSUME KernelInv, [KernelNext]_kernelVars PROVE KernelInv'
  OBVIOUS
<1>. DEFINE Row == [up: BOOLEAN, policy: {"none", "open", "restricted"}, data: Meta]
            Entry == [op: Ops \cup {"idle"}, step: {"", "lock"}, read: Meta,
                      arg: Agents \cup Chans \cup {NoKernel}]
            busy(op, arg) == [op |-> op, step |-> "lock", read |-> NoMeta, arg |-> arg]
<1>0. /\ KernelTypeOK /\ (\A k \in Kernels : Owed(k)) /\ RecordedStays
      /\ \A k \in Kernels : mem[k] \in Row /\ mem[k].data \in Meta
      /\ session \in {"none", "bare", "open", "restricted"} /\ loads \in 0 .. MaxLoads /\ NoMeta \in Meta
  BY NoMetaType DEF KernelInv, KernelTypeOK
<1>1. \A op \in Ops : \A arg \in Agents \cup Chans \cup {NoKernel} :
         busy(op, arg) \in Entry /\ busy(op, arg).op = op /\ busy(op, arg).arg = arg
  BY <1>0
<1>2. ASSUME NEW k \in Kernels, Load(k) PROVE KernelInv'
  <2>. DEFINE row == [up |-> TRUE, policy |-> Policy, data |-> IF session = "none" THEN NoMeta ELSE meta]
  <2>1. row \in Row
    BY <1>0 DEF Policy, KernelTypeOK
  <2>2. mem' = [mem EXCEPT ![k] = row] /\ UNCHANGED <<session, meta, call, metaLock, made>>
    BY <1>2 DEF Load
  <2>3. loads' \in 0 .. MaxLoads
    BY <1>0, <1>2, KernelAssumption DEF Load
  <2>. HIDE DEF row
  <2>4. call[k] = NoCall
    BY <1>0, <1>2 DEF Load, Owed
  <2>5. NoCall \in Entry /\ NoCall.op = "idle" /\ call' = [call EXCEPT ![k] = NoCall]
    BY <1>0, <2>2, <2>4 DEF NoCall, KernelTypeOK
  <2>. QED BY <1>0, <2>1, <2>2, <2>3, <2>5, MemoryStep
<1>3. ASSUME NEW k \in Kernels, CreateSession(k) PROVE KernelInv'
  <2>1. PICK p \in {"open", "restricted"} : session' = p /\ mem' = [mem EXCEPT ![k].policy = p]
    BY <1>3 DEF CreateSession
  <2>. DEFINE row == [mem[k] EXCEPT !.policy = p]
              entry == busy("create", NoKernel)
  <2>2. row \in Row /\ row.up
    BY <1>0, <1>3 DEF CreateSession
  <2>3. /\ mem' = [mem EXCEPT ![k] = row] /\ call' = [call EXCEPT ![k] = entry]
        /\ UNCHANGED <<meta, metaLock, loads, made>>
    BY <1>3, <2>1 DEF CreateSession, Busy
  <2>4. entry \in Entry /\ entry.op = "create"
    BY <1>1 DEF Ops
  <2>. HIDE DEF row, entry
  <2>. QED BY <1>0, <2>1, <2>2, <2>3, <2>4, MemoryStep
<1>4. ASSUME NEW k \in Kernels, NEW a \in Agents, NEW h \in Hosts, NEW token \in BOOLEAN, Register(k, a, h, token)
      PROVE  KernelInv'
  <2>. DEFINE row == [mem[k] EXCEPT !.data.routing[a] = h]
              entry == busy("routing", a)
  <2>1. row \in Row /\ row.up /\ row.data.routing[a] # NoHost
    BY <1>0, <1>4, KernelAssumption DEF Meta, Register, Known
  <2>2. /\ mem' = [mem EXCEPT ![k] = row] /\ call' = [call EXCEPT ![k] = entry]
        /\ UNCHANGED <<session, meta, metaLock, loads, made>>
    BY <1>4 DEF Register, Busy
  <2>3. entry \in Entry /\ entry.op = "routing" /\ entry.arg = a
    BY <1>1 DEF Ops
  <2>. HIDE DEF row, entry
  <2>. QED BY <1>0, <2>1, <2>2, <2>3, MemoryStep
<1>5. ASSUME NEW k \in Kernels, NEW a \in Agents, Unregister(k, a) PROVE KernelInv'
  <2>. DEFINE row == [mem[k] EXCEPT !.data.routing[a] = NoHost]
              entry == busy("deleted", a)
  <2>1. row \in Row /\ row.up
    BY <1>0, <1>5 DEF Meta, Unregister, Known
  <2>2. /\ mem' = [mem EXCEPT ![k] = row] /\ call' = [call EXCEPT ![k] = entry]
        /\ UNCHANGED <<session, meta, metaLock, loads, made>>
    BY <1>5 DEF Unregister, Busy
  <2>3. entry \in Entry /\ entry.op = "deleted" /\ entry.arg = a
    BY <1>1 DEF Ops
  <2>. HIDE DEF row, entry
  <2>. QED BY <1>0, <2>1, <2>2, <2>3, MemoryStep
<1>6. ASSUME NEW k \in Kernels, NEW c \in Chans, CreateChannel(k, c) PROVE KernelInv'
  <2>. DEFINE row == [mem[k] EXCEPT !.data.channels = @ \cup {c}]
              entry == busy("channels", c)
  <2>1. row \in Row /\ row.up /\ c \in row.data.channels
    BY <1>0, <1>6 DEF Meta, CreateChannel, Known
  <2>2. /\ mem' = [mem EXCEPT ![k] = row] /\ call' = [call EXCEPT ![k] = entry]
        /\ UNCHANGED <<session, meta, metaLock, loads, made>>
    BY <1>6 DEF CreateChannel, Busy
  <2>3. entry \in Entry /\ entry.op = "channels" /\ entry.arg = c
    BY <1>1 DEF Ops
  <2>. HIDE DEF row, entry
  <2>. QED BY <1>0, <2>1, <2>2, <2>3, MemoryStep
<1>7. ASSUME NEW k \in Kernels, NEW a \in Agents, SetRegistrationToken(k, a) PROVE KernelInv'
  <2>. DEFINE row == [mem[k] EXCEPT !.data.tokens = @ \cup {a}]
              entry == busy("tokens", a)
  <2>1. row \in Row /\ row.up
    BY <1>0, <1>7 DEF Meta, SetRegistrationToken, Known
  <2>2. /\ mem' = [mem EXCEPT ![k] = row] /\ call' = [call EXCEPT ![k] = entry]
        /\ UNCHANGED <<session, meta, metaLock, loads, made>>
    BY <1>7 DEF SetRegistrationToken, Busy
  <2>3. entry \in Entry /\ entry.op = "tokens" /\ entry.arg = a
    BY <1>1 DEF Ops
  <2>. HIDE DEF row, entry
  <2>. QED BY <1>0, <2>1, <2>2, <2>3, MemoryStep
<1>8. ASSUME NEW k \in Kernels, PersistLock(k) PROVE KernelInv'
  <2>1. /\ call[k].step = "lock" /\ metaLock = NoKernel /\ metaLock' = k
        /\ call' = [call EXCEPT ![k].step = "write", ![k].read = meta]
        /\ UNCHANGED <<session, meta, mem, loads, made>>
    BY <1>8 DEF PersistLock
  <2>2. KernelTypeOK'
    <3>. DEFINE All == [op: Ops \cup {"idle"}, step: {"", "lock", "write"}, read: Meta,
                        arg: Agents \cup Chans \cup {NoKernel}]
                entry == [call[k] EXCEPT !.step = "write", !.read = meta]
    <3>1. call \in [Kernels -> All] /\ meta \in Meta
      BY <1>0 DEF KernelTypeOK
    <3>2. entry \in All
      BY <3>1
    <3>3. call' = [call EXCEPT ![k] = entry]
      BY <2>1
    <3>. HIDE DEF entry
    <3>4. call' \in [Kernels -> All]
      BY <3>1, <3>2, <3>3
    <3>. QED BY <1>0, <2>1, <3>4 DEF KernelTypeOK
  <2>3. \A j \in Kernels : Owed(j)'
    <3>. SUFFICES ASSUME NEW j \in Kernels PROVE Owed(j)'
      OBVIOUS
    <3>1. CASE j = k
      <4>1. call'[j].op = call[j].op /\ call'[j].arg = call[j].arg /\ call'[j].read = meta
        BY <1>0, <2>1, <3>1 DEF KernelTypeOK
      <4>2. mem[j].up
        <5>1. NoCall.step = ""
          BY DEF NoCall
        <5>. QED BY <1>0, <2>1, <3>1, <5>1 DEF Owed
      <4>. QED BY <1>0, <2>1, <3>1, <4>1, <4>2 DEF Owed
    <3>2. CASE j # k
      <4>1. call'[j] = call[j] /\ call[j].step # "write"
        BY <1>0, <2>1, <3>2, KernelAssumption DEF KernelTypeOK, Owed
      <4>. QED BY <1>0, <2>1, <4>1 DEF Owed
    <3>. QED BY <3>1, <3>2
  <2>. QED BY <1>0, <2>1, <2>2, <2>3 DEF KernelInv, RecordedStays
<1>9. ASSUME NEW k \in Kernels, Stop(k) PROVE KernelInv'
  <2>. DEFINE row == [up |-> FALSE, policy |-> "none", data |-> NoMeta]
  <2>1. /\ mem' = [mem EXCEPT ![k] = row] /\ call' = [call EXCEPT ![k] = NoCall]
        /\ metaLock' = IF metaLock = k THEN NoKernel ELSE metaLock
        /\ UNCHANGED <<session, meta, loads, made>>
    BY <1>9 DEF Stop
  <2>2. row \in Row
    BY <1>0
  <2>. HIDE DEF row
  <2>3. KernelTypeOK'
    BY <1>0, <2>1, <2>2, NoMetaType DEF KernelTypeOK
  <2>4. \A j \in Kernels : Owed(j)'
    <3>. SUFFICES ASSUME NEW j \in Kernels PROVE Owed(j)'
      OBVIOUS
    <3>1. CASE j = k
      <4>1. call'[j] = NoCall /\ NoCall.op = "idle" /\ NoCall.step = ""
        BY <1>0, <2>1, <3>1 DEF KernelTypeOK, NoCall
      <4>. QED BY <4>1 DEF Owed
    <3>2. CASE j # k
      <4>1. call'[j] = call[j] /\ mem'[j] = mem[j] /\ (metaLock = j => metaLock' = j)
        BY <1>0, <2>1, <3>2 DEF KernelTypeOK
      <4>. QED BY <1>0, <2>1, <4>1 DEF Owed
    <3>. QED BY <3>1, <3>2
  <2>. QED BY <1>0, <2>1, <2>3, <2>4 DEF KernelInv, RecordedStays
<1>10. CASE UNCHANGED kernelVars
  BY <1>0, <1>10 DEF kernelVars, KernelInv, KernelTypeOK, Owed, RecordedStays
<1>. QED BY <1>2, <1>3, <1>4, <1>5, <1>6, <1>7, <1>8, <1>9, <1>10, WriteStep DEF KernelNext

\* What a kernel has recorded in swarm-meta.json stays there, whatever other
\* kernels with an older memory write after it and wherever one is killed
\* (_persist_meta, _persist_routing, _persist_channels).
THEOREM RecordsStay == KernelSpec => []RecordedStays
<1>1. KernelInv => RecordedStays
  BY DEF KernelInv
<1>. QED BY <1>1, KernelInitInv, KernelStep, PTL DEF KernelSpec

=============================================================================

------------------------ MODULE MailboxClaimsProofs ------------------------
(***************************************************************************)
(* Proofs about MailboxClaims, for every set of messages, processes and    *)
(* owners, every lease length and any number of crashes.                   *)
(***************************************************************************)
EXTENDS MailboxClaims, TLAPS

\* The names of calls and steps, and the ages a call can start with.
LEMMA Vocabulary ==
  /\ "none" \in Ops /\ "read" \in Ops /\ "reap" \in Ops /\ "recover" \in Ops
  /\ "renew" \in Ops /\ "finalize" \in Ops /\ "release" \in Ops /\ "ack" \in Ops
  /\ "idle" \in Pcs /\ "link" \in Pcs /\ "blocked" \in Pcs /\ "move" \in Pcs
  /\ "scan" \in Pcs /\ "lock" \in Pcs /\ "act" \in Pcs /\ "write" \in Pcs
  /\ "verify" \in Pcs /\ "unlink" \in Pcs /\ "ackInbox" \in Pcs
  /\ "ackProcessing" \in Pcs
  /\ 0 \in Ages
  /\ \A p \in Procs : OwnerOf[p] \in Owners
  BY ClaimsAssumption DEF Ops, Pcs, Ages

\* An expired age is the age of a claim that exists.
LEMMA ExpiredIsAge ==
  \A age \in Ages \cup {NoClaim} : Expired(age) => age \in Ages
  BY ClaimsAssumption DEF Expired, Ages, NoClaim

\* Ages grow up to the cap and never turn into a missing claim.
LEMMA OlderIsAge == \A age \in Ages : Older(age) \in Ages /\ Older(age) # NoClaim
  BY ClaimsAssumption DEF Older, Ages, NoClaim

\* What entering, leaving and advancing a call do to the types.
LEMMA EnterType ==
  ASSUME CallType, NEW p \in Procs, NEW c \in Ops, NEW s \in Pcs,
         NEW m \in Msgs \cup {NoMsg}, NEW o \in Owners \cup {NoOwner},
         NEW age \in Ages, Enter(p, c, s, m, o, age)
  PROVE  CallType'
  BY DEF CallType, Enter

\* Returning from a call keeps the types.
LEMMA ReturnType ==
  ASSUME CallType, TodoType, NEW p \in Procs, Return(p)
  PROVE  CallType' /\ TodoType'
  BY EnterType, Vocabulary DEF Return, TodoType

\* Moving on inside a call keeps the types.
LEMMA GotoType ==
  ASSUME CallType, TodoType, NEW p \in Procs, NEW s \in Pcs, Goto(p, s)
  PROVE  CallType' /\ TodoType'
  BY DEF Goto, CallType, TodoType

\* Publishing a claim keeps the type of claims.
LEMMA PublishType ==
  ASSUME ClaimType, NEW m \in Msgs, NEW o \in Owners, NEW age \in Ages,
         Publish(m, o, age)
  PROVE  ClaimType'
  BY DEF ClaimType, Publish

\* Unlinking a claim keeps the type of claims.
LEMMA UnlinkType ==
  ASSUME ClaimType, NEW m, NEW o, Unlink(m, o)
  PROVE  ClaimType'
  BY DEF ClaimType, Unlink

\* Taking a claim's flock keeps the type of locks.
LEMMA TakeLockType == ASSUME LockType, NEW p \in Procs, TakeLock(p) PROVE LockType'
  BY DEF LockType, TakeLock

\* Dropping a claim's flock keeps the type of locks.
LEMMA DropLockType == ASSUME LockType, NEW p \in Procs, DropLock(p) PROVE LockType'
  BY DEF LockType, DropLock

\* Leaving the critical section of recovery keeps the types.
LEMMA LeaveType ==
  ASSUME LockType, CallType, TodoType, NEW p \in Procs, Leave(p)
  PROVE  LockType' /\ CallType' /\ TodoType'
<1>1. LockType'
  BY DropLockType DEF Leave
<1>2. CASE op[p] = "recover"
  BY <1>1, <1>2, EnterType, Vocabulary DEF Leave, TodoType
<1>3. CASE op[p] # "recover"
  BY <1>1, <1>3, ReturnType DEF Leave
<1> QED
  BY <1>2, <1>3

\* An owner that is done with a message keeps the type of held.
LEMMA OwnerDoneType ==
  ASSUME held \in [Procs -> SUBSET Msgs], NEW o, NEW m, OwnerDone(o, m)
  PROVE  held' \in [Procs -> SUBSET Msgs]
  BY DEF OwnerDone

\* What a step leaves alone keeps its type.
LEMMA Frames ==
  /\ DirType /\ UNCHANGED dirs => DirType'
  /\ ClaimType /\ UNCHANGED claim => ClaimType'
  /\ LockType /\ UNCHANGED lock => LockType'
  /\ CallType /\ UNCHANGED <<op, pc, msg, sub, stamp>> => CallType'
  /\ TodoType /\ UNCHANGED todo => TodoType'
  /\ GhostType /\ UNCHANGED ghost => GhostType'
  BY DEF DirType, dirs, ClaimType, LockType, CallType, TodoType, GhostType, ghost

\* Every step keeps the type invariant.
LEMMA TypeStep ==
  ASSUME TypeOK, CallShape, [Next]_vars
  PROVE  TypeOK'
<1>1. CASE Tick
  <2>1. ClaimType'
    BY <1>1, OlderIsAge DEF TypeOK, ClaimType, Tick, Claimed
  <2>2. CallType'
    BY <1>1, OlderIsAge, Vocabulary DEF TypeOK, CallType, Tick
  <2> QED
    BY <1>1, <2>1, <2>2, Frames DEF TypeOK, Tick
<1>2. ASSUME NEW p \in Procs, NEW m \in Msgs, ReadQuarantine(p, m)
     PROVE  TypeOK'
  BY <1>2, Frames, Vocabulary
  DEF ReadQuarantine, TypeOK, DirType, local
<1>3. ASSUME NEW p \in Procs, NEW m \in Msgs, ReadPick(p, m)
     PROVE  TypeOK'
  BY <1>3, Frames, Vocabulary, EnterType
  DEF ReadPick, TypeOK
<1>4. ASSUME NEW p \in Procs, NEW m \in Msgs, CheckLegacy(p, m)
     PROVE  TypeOK'
  BY <1>4, Frames, Vocabulary
  DEF CheckLegacy, TypeOK, DirType, local
<1>5. ASSUME NEW p \in Procs, NEW m \in Msgs, RenewStart(p, m)
     PROVE  TypeOK'
  BY <1>5, Frames, Vocabulary, EnterType
  DEF RenewStart, TypeOK
<1>6. ASSUME NEW p \in Procs, NEW m \in Msgs, FinalizeCheck(p, m)
     PROVE  TypeOK'
  BY <1>6, Frames, Vocabulary, EnterType
  DEF FinalizeCheck, TypeOK
<1>7. ASSUME NEW p \in Procs, NEW m \in Msgs, ReleaseCheck(p, m)
     PROVE  TypeOK'
  BY <1>7, Frames, Vocabulary, EnterType
  DEF ReleaseCheck, TypeOK
<1>8. ASSUME NEW p \in Procs, NEW m \in Msgs, AckCheck(p, m)
     PROVE  TypeOK'
  BY <1>8, Frames, Vocabulary, EnterType
  DEF AckCheck, TypeOK
<1>9. ASSUME NEW p \in Procs, RecoverStart(p)
     PROVE  TypeOK'
  BY <1>9, Frames, Vocabulary, EnterType
  DEF RecoverStart, ClaimFiles, TypeOK, TodoType
<1>10. ASSUME NEW p \in Procs, Purge(p)
     PROVE  TypeOK'
  BY <1>10, Frames, Vocabulary
  DEF Purge, TypeOK, DirType, local
<1>11. ASSUME NEW p \in Procs, NEW prune \in BOOLEAN, Clear(p, prune)
     PROVE  TypeOK'
  BY <1>11, Frames, Vocabulary, EnterType
  DEF Clear, ClaimFiles, TypeOK, DirType, TodoType, local
<1>12. ASSUME NEW p \in Procs, ReadLink(p)
     PROVE  TypeOK'
  BY <1>12, Frames, Vocabulary, PublishType, GotoType
  DEF ReadLink, At, TypeOK, CallType, CallShape
<1>13. ASSUME NEW p \in Procs, ReadMove(p)
     PROVE  TypeOK'
  BY <1>13, Frames, Vocabulary, UnlinkType, ReturnType
  DEF ReadMove, At, TypeOK, DirType, GhostType
<1>14. ASSUME NEW p \in Procs, ReapCheck(p)
     PROVE  TypeOK'
  BY <1>14, Frames, Vocabulary, EnterType, ReturnType, ExpiredIsAge
  DEF ReapCheck, At, TypeOK, ClaimType, CallType, CallShape
<1>15. ASSUME NEW p \in Procs, NEW m \in Msgs, NEW o \in Owners, RecoverRead(p, m, o)
     PROVE  TypeOK'
  BY <1>15, Frames, Vocabulary, EnterType
  DEF RecoverRead, At, TypeOK, TodoType, ClaimType, Claimed
<1>16. ASSUME NEW p \in Procs, RecoverEnd(p)
     PROVE  TypeOK'
  BY <1>16, Frames, Vocabulary, ReturnType
  DEF RecoverEnd, At, TypeOK
<1>17. ASSUME NEW p \in Procs, RecoveryLock(p)
     PROVE  TypeOK'
  <2>1. CurrentStamp(p) \in Ages
    BY <1>17 DEF TypeOK, CallShape, CallType, ClaimType, CurrentStamp, Claimed, RecoveryLock
  <2>2. CallType'
    BY <1>17, <2>1, Vocabulary DEF TypeOK, CallType, RecoveryLock
  <2> QED
    BY <1>17, <2>2, Frames, TakeLockType DEF TypeOK, RecoveryLock
<1>18. ASSUME NEW p \in Procs, RecoveryKeep(p)
     PROVE  TypeOK'
  BY <1>18, Frames, Vocabulary, LeaveType
  DEF RecoveryKeep, TypeOK
<1>19. ASSUME NEW p \in Procs, RecoveryOrphan(p)
     PROVE  TypeOK'
  BY <1>19, Frames, Vocabulary, GotoType
  DEF RecoveryOrphan, TypeOK
<1>20. ASSUME NEW p \in Procs, RecoveryMove(p)
     PROVE  TypeOK'
  BY <1>20, Frames, Vocabulary, GotoType
  DEF RecoveryMove, TypeOK, DirType, GhostType
<1>21. ASSUME NEW p \in Procs, RecoveryUnlink(p)
     PROVE  TypeOK'
  BY <1>21, Frames, Vocabulary, UnlinkType, LeaveType
  DEF RecoveryUnlink, TypeOK, GhostType, CallShape
<1>22. ASSUME NEW p \in Procs, RenewLock(p)
     PROVE  TypeOK'
  BY <1>22, Frames, Vocabulary, TakeLockType, GotoType, ReturnType
  DEF RenewLock, At, TypeOK
<1>23. ASSUME NEW p \in Procs, RenewWrite(p)
     PROVE  TypeOK'
  BY <1>23, Frames, Vocabulary, PublishType, GotoType
  DEF RenewWrite, At, TypeOK, CallType, CallShape
<1>24. ASSUME NEW p \in Procs, RenewVerify(p)
     PROVE  TypeOK'
  BY <1>24, Frames, Vocabulary, UnlinkType, DropLockType, ReturnType
  DEF RenewVerify, At, TypeOK
<1>25. ASSUME NEW p \in Procs, FinalizeMove(p)
     PROVE  TypeOK'
  BY <1>25, Frames, Vocabulary, OwnerDoneType, GotoType, ReturnType
  DEF FinalizeMove, At, TypeOK, DirType, GhostType
<1>26. ASSUME NEW p \in Procs, ReleaseMove(p)
     PROVE  TypeOK'
  BY <1>26, Frames, Vocabulary, OwnerDoneType, GotoType, ReturnType
  DEF ReleaseMove, At, TypeOK, DirType, GhostType
<1>27. ASSUME NEW p \in Procs, OwnUnlink(p)
     PROVE  TypeOK'
  BY <1>27, Frames, Vocabulary, UnlinkType, ReturnType
  DEF OwnUnlink, TypeOK
<1>28. ASSUME NEW p \in Procs, AckMove(p)
     PROVE  TypeOK'
  BY <1>28, Frames, Vocabulary, OwnerDoneType, ReturnType
  DEF AckMove, TypeOK, DirType, GhostType
<1>29. ASSUME NEW p \in Procs, Crash(p)
     PROVE  TypeOK'
  <2>1. LockType'
    BY <1>29 DEF TypeOK, LockType, Crash
  <2>2. CallType'
    BY <1>29, EnterType, Vocabulary DEF TypeOK, Crash
  <2>3. TodoType' /\ GhostType'
    BY <1>29, ClaimsAssumption DEF TypeOK, TodoType, GhostType, Crash
  <2> QED
    BY <1>29, <2>1, <2>2, <2>3, Frames DEF TypeOK, Crash
<1>30. CASE UNCHANGED vars
  BY <1>30, Frames DEF vars, local, TypeOK
<1> QED
  BY <1>1, <1>2, <1>3, <1>4, <1>5, <1>6, <1>7, <1>8, <1>9, <1>10, <1>11, <1>12, <1>13, <1>14,
     <1>15, <1>16, <1>17, <1>18, <1>19, <1>20, <1>21, <1>22, <1>23, <1>24, <1>25, <1>26, <1>27,
     <1>28, <1>29, <1>30 DEF Next, Call, Continue

\* Every call stays within its steps and works on real messages and owners.
LEMMA ShapeStep ==
  ASSUME TypeOK, CallShape, [Next]_vars
  PROVE  CallShape'
<1>1. CASE Tick
  BY <1>1, Vocabulary DEF Tick, TypeOK, CallType, CallShape
<1>2. ASSUME NEW p \in Procs, NEW m \in Msgs, ReadQuarantine(p, m)
     PROVE  CallShape'
  BY <1>2, Vocabulary DEF ReadQuarantine, TypeOK, CallType, CallShape, local
<1>3. ASSUME NEW p \in Procs, NEW m \in Msgs, ReadPick(p, m)
     PROVE  CallShape'
  BY <1>3, Vocabulary, ClaimsAssumption DEF ReadPick, Enter, TypeOK, CallType, CallShape
<1>4. ASSUME NEW p \in Procs, NEW m \in Msgs, CheckLegacy(p, m)
     PROVE  CallShape'
  BY <1>4, Vocabulary DEF CheckLegacy, TypeOK, CallType, CallShape, local
<1>5. ASSUME NEW p \in Procs, NEW m \in Msgs, RenewStart(p, m)
     PROVE  CallShape'
  BY <1>5, Vocabulary, ClaimsAssumption DEF RenewStart, Enter, TypeOK, CallType, CallShape
<1>6. ASSUME NEW p \in Procs, NEW m \in Msgs, FinalizeCheck(p, m)
     PROVE  CallShape'
  BY <1>6, Vocabulary, ClaimsAssumption DEF FinalizeCheck, Enter, TypeOK, CallType, CallShape
<1>7. ASSUME NEW p \in Procs, NEW m \in Msgs, ReleaseCheck(p, m)
     PROVE  CallShape'
  BY <1>7, Vocabulary, ClaimsAssumption DEF ReleaseCheck, Enter, TypeOK, CallType, CallShape
<1>8. ASSUME NEW p \in Procs, NEW m \in Msgs, AckCheck(p, m)
     PROVE  CallShape'
  BY <1>8, Vocabulary, ClaimsAssumption DEF AckCheck, Enter, TypeOK, CallType, CallShape
<1>9. ASSUME NEW p \in Procs, RecoverStart(p)
     PROVE  CallShape'
  BY <1>9, Vocabulary DEF RecoverStart, Enter, TypeOK, CallType, CallShape
<1>10. ASSUME NEW p \in Procs, Purge(p)
     PROVE  CallShape'
  BY <1>10, Vocabulary DEF Purge, TypeOK, CallType, CallShape, local
<1>11. ASSUME NEW p \in Procs, NEW prune \in BOOLEAN, Clear(p, prune)
     PROVE  CallShape'
  BY <1>11, Vocabulary DEF Clear, Enter, TypeOK, CallType, CallShape, local
<1>12. ASSUME NEW p \in Procs, ReadLink(p)
     PROVE  CallShape'
  BY <1>12, Vocabulary DEF ReadLink, At, Goto, TypeOK, CallType, CallShape
<1>13. ASSUME NEW p \in Procs, ReadMove(p)
     PROVE  CallShape'
  BY <1>13, Vocabulary DEF ReadMove, At, Return, Enter, TypeOK, CallType, CallShape
<1>14. ASSUME NEW p \in Procs, ReapCheck(p)
     PROVE  CallShape'
  BY <1>14, Vocabulary DEF ReapCheck, At, Enter, Return, TypeOK, CallType, CallShape
<1>15. ASSUME NEW p \in Procs, NEW m \in Msgs, NEW o \in Owners, RecoverRead(p, m, o)
     PROVE  CallShape'
  BY <1>15, Vocabulary DEF RecoverRead, At, Enter, TypeOK, CallType, CallShape
<1>16. ASSUME NEW p \in Procs, RecoverEnd(p)
     PROVE  CallShape'
  BY <1>16, Vocabulary DEF RecoverEnd, At, Return, Enter, TypeOK, CallType, CallShape
<1>17. ASSUME NEW p \in Procs, RecoveryLock(p)
     PROVE  CallShape'
  BY <1>17, Vocabulary DEF RecoveryLock, TypeOK, CallType, CallShape
<1>18. ASSUME NEW p \in Procs, RecoveryKeep(p)
     PROVE  CallShape'
  BY <1>18, Vocabulary DEF RecoveryKeep, Leave, Enter, Return, TypeOK, CallType, CallShape
<1>19. ASSUME NEW p \in Procs, RecoveryOrphan(p)
     PROVE  CallShape'
  BY <1>19, Vocabulary DEF RecoveryOrphan, Goto, TypeOK, CallType, CallShape
<1>20. ASSUME NEW p \in Procs, RecoveryMove(p)
     PROVE  CallShape'
  BY <1>20, Vocabulary DEF RecoveryMove, Goto, TypeOK, CallType, CallShape
<1>21. ASSUME NEW p \in Procs, RecoveryUnlink(p)
     PROVE  CallShape'
  BY <1>21, Vocabulary DEF RecoveryUnlink, Leave, Enter, Return, TypeOK, CallType, CallShape
<1>22. ASSUME NEW p \in Procs, RenewLock(p)
     PROVE  CallShape'
  BY <1>22, Vocabulary DEF RenewLock, At, Goto, Return, Enter, TypeOK, CallType, CallShape
<1>23. ASSUME NEW p \in Procs, RenewWrite(p)
     PROVE  CallShape'
  BY <1>23, Vocabulary DEF RenewWrite, At, Goto, TypeOK, CallType, CallShape
<1>24. ASSUME NEW p \in Procs, RenewVerify(p)
     PROVE  CallShape'
  BY <1>24, Vocabulary DEF RenewVerify, At, Return, Enter, TypeOK, CallType, CallShape
<1>25. ASSUME NEW p \in Procs, FinalizeMove(p)
     PROVE  CallShape'
  BY <1>25, Vocabulary DEF FinalizeMove, At, Goto, Return, Enter, TypeOK, CallType, CallShape
<1>26. ASSUME NEW p \in Procs, ReleaseMove(p)
     PROVE  CallShape'
  BY <1>26, Vocabulary DEF ReleaseMove, At, Goto, Return, Enter, TypeOK, CallType, CallShape
<1>27. ASSUME NEW p \in Procs, OwnUnlink(p)
     PROVE  CallShape'
  BY <1>27, Vocabulary DEF OwnUnlink, Return, Enter, TypeOK, CallType, CallShape
<1>28. ASSUME NEW p \in Procs, AckMove(p)
     PROVE  CallShape'
  BY <1>28, Vocabulary DEF AckMove, Return, Enter, TypeOK, CallType, CallShape
<1>29. ASSUME NEW p \in Procs, Crash(p)
     PROVE  CallShape'
  BY <1>29, Vocabulary DEF Crash, Enter, TypeOK, CallType, CallShape
<1>30. CASE UNCHANGED vars
  BY <1>30 DEF vars, local, CallShape
<1> QED
  BY <1>1, <1>2, <1>3, <1>4, <1>5, <1>6, <1>7, <1>8, <1>9, <1>10, <1>11, <1>12, <1>13, <1>14,
     <1>15, <1>16, <1>17, <1>18, <1>19, <1>20, <1>21, <1>22, <1>23, <1>24, <1>25, <1>26, <1>27,
     <1>28, <1>29, <1>30 DEF Next, Call, Continue

\* A flock is held by the one process in its critical section.
LEMMA LockStep ==
  ASSUME TypeOK, CallShape, LockHeld, [Next]_vars
  PROVE  LockHeld'
<1>1. CASE Tick
  BY <1>1, ClaimsAssumption DEF Tick, LockHeld, InCritical, TypeOK, CallType
<1>2. ASSUME NEW p \in Procs, NEW m \in Msgs, ReadQuarantine(p, m)
     PROVE  LockHeld'
  BY <1>2, ClaimsAssumption DEF ReadQuarantine, LockHeld, InCritical, TypeOK, CallType, local
<1>3. ASSUME NEW p \in Procs, NEW m \in Msgs, ReadPick(p, m)
     PROVE  LockHeld'
  BY <1>3, ClaimsAssumption DEF ReadPick, Enter, LockHeld, InCritical, TypeOK, CallType
<1>4. ASSUME NEW p \in Procs, NEW m \in Msgs, CheckLegacy(p, m)
     PROVE  LockHeld'
  BY <1>4, ClaimsAssumption DEF CheckLegacy, LockHeld, InCritical, TypeOK, CallType, local
<1>5. ASSUME NEW p \in Procs, NEW m \in Msgs, RenewStart(p, m)
     PROVE  LockHeld'
  BY <1>5, ClaimsAssumption DEF RenewStart, Enter, LockHeld, InCritical, TypeOK, CallType
<1>6. ASSUME NEW p \in Procs, NEW m \in Msgs, FinalizeCheck(p, m)
     PROVE  LockHeld'
  BY <1>6, ClaimsAssumption DEF FinalizeCheck, Enter, LockHeld, InCritical, TypeOK, CallType
<1>7. ASSUME NEW p \in Procs, NEW m \in Msgs, ReleaseCheck(p, m)
     PROVE  LockHeld'
  BY <1>7, ClaimsAssumption DEF ReleaseCheck, Enter, LockHeld, InCritical, TypeOK, CallType
<1>8. ASSUME NEW p \in Procs, NEW m \in Msgs, AckCheck(p, m)
     PROVE  LockHeld'
  BY <1>8, ClaimsAssumption DEF AckCheck, Enter, LockHeld, InCritical, TypeOK, CallType
<1>9. ASSUME NEW p \in Procs, RecoverStart(p)
     PROVE  LockHeld'
  BY <1>9, ClaimsAssumption DEF RecoverStart, Enter, LockHeld, InCritical, TypeOK, CallType
<1>10. ASSUME NEW p \in Procs, Purge(p)
     PROVE  LockHeld'
  BY <1>10, ClaimsAssumption DEF Purge, LockHeld, InCritical, TypeOK, CallType, local
<1>11. ASSUME NEW p \in Procs, NEW prune \in BOOLEAN, Clear(p, prune)
     PROVE  LockHeld'
  BY <1>11, ClaimsAssumption DEF Clear, Enter, LockHeld, InCritical, TypeOK, CallType, local
<1>12. ASSUME NEW p \in Procs, ReadLink(p)
     PROVE  LockHeld'
  BY <1>12, ClaimsAssumption DEF ReadLink, At, Goto, LockHeld, InCritical, TypeOK, CallType
<1>13. ASSUME NEW p \in Procs, ReadMove(p)
     PROVE  LockHeld'
  BY <1>13, ClaimsAssumption DEF ReadMove, At, Return, Enter, LockHeld, InCritical, TypeOK, CallType
<1>14. ASSUME NEW p \in Procs, ReapCheck(p)
     PROVE  LockHeld'
  BY <1>14, ClaimsAssumption DEF ReapCheck, At, Enter, Return, LockHeld, InCritical, TypeOK,
     CallType
<1>15. ASSUME NEW p \in Procs, NEW m \in Msgs, NEW o \in Owners, RecoverRead(p, m, o)
     PROVE  LockHeld'
  BY <1>15, ClaimsAssumption DEF RecoverRead, At, Enter, LockHeld, InCritical, TypeOK, CallType
<1>16. ASSUME NEW p \in Procs, RecoverEnd(p)
     PROVE  LockHeld'
  BY <1>16, ClaimsAssumption DEF RecoverEnd, At, Return, Enter, LockHeld, InCritical, TypeOK,
     CallType
<1>17. ASSUME NEW p \in Procs, RecoveryLock(p)
     PROVE  LockHeld'
  BY <1>17, ClaimsAssumption DEF RecoveryLock, TakeLock, LockHeld, InCritical, TypeOK, CallType,
     LockType, CallShape
<1>18. ASSUME NEW p \in Procs, RecoveryKeep(p)
     PROVE  LockHeld'
  BY <1>18, ClaimsAssumption DEF RecoveryKeep, Leave, DropLock, Enter, Return, LockHeld,
     InCritical, TypeOK, CallType, LockType, CallShape
<1>19. ASSUME NEW p \in Procs, RecoveryOrphan(p)
     PROVE  LockHeld'
  BY <1>19, ClaimsAssumption DEF RecoveryOrphan, Goto, LockHeld, InCritical, TypeOK, CallType
<1>20. ASSUME NEW p \in Procs, RecoveryMove(p)
     PROVE  LockHeld'
  BY <1>20, ClaimsAssumption DEF RecoveryMove, Goto, LockHeld, InCritical, TypeOK, CallType
<1>21. ASSUME NEW p \in Procs, RecoveryUnlink(p)
     PROVE  LockHeld'
  BY <1>21, ClaimsAssumption DEF RecoveryUnlink, Leave, DropLock, Enter, Return, LockHeld,
     InCritical, TypeOK, CallType, LockType, CallShape
<1>22. ASSUME NEW p \in Procs, RenewLock(p)
     PROVE  LockHeld'
  BY <1>22, ClaimsAssumption DEF RenewLock, At, TakeLock, Goto, Return, Enter, LockHeld,
     InCritical, TypeOK, CallType, LockType, CallShape
<1>23. ASSUME NEW p \in Procs, RenewWrite(p)
     PROVE  LockHeld'
  BY <1>23, ClaimsAssumption DEF RenewWrite, At, Goto, LockHeld, InCritical, TypeOK, CallType
<1>24. ASSUME NEW p \in Procs, RenewVerify(p)
     PROVE  LockHeld'
  BY <1>24, ClaimsAssumption DEF RenewVerify, At, DropLock, Return, Enter, LockHeld, InCritical,
     TypeOK, CallType, LockType, CallShape
<1>25. ASSUME NEW p \in Procs, FinalizeMove(p)
     PROVE  LockHeld'
  BY <1>25, ClaimsAssumption DEF FinalizeMove, At, Goto, Return, Enter, LockHeld, InCritical,
     TypeOK, CallType
<1>26. ASSUME NEW p \in Procs, ReleaseMove(p)
     PROVE  LockHeld'
  BY <1>26, ClaimsAssumption DEF ReleaseMove, At, Goto, Return, Enter, LockHeld, InCritical,
     TypeOK, CallType
<1>27. ASSUME NEW p \in Procs, OwnUnlink(p)
     PROVE  LockHeld'
  BY <1>27, ClaimsAssumption DEF OwnUnlink, Return, Enter, LockHeld, InCritical, TypeOK, CallType
<1>28. ASSUME NEW p \in Procs, AckMove(p)
     PROVE  LockHeld'
  BY <1>28, ClaimsAssumption DEF AckMove, Return, Enter, LockHeld, InCritical, TypeOK, CallType
<1>29. ASSUME NEW p \in Procs, Crash(p)
     PROVE  LockHeld'
  BY <1>29, ClaimsAssumption DEF Crash, Enter, LockHeld, InCritical, TypeOK, CallType, LockType,
     CallShape
<1>30. CASE UNCHANGED vars
  BY <1>30 DEF vars, local, LockHeld, InCritical
<1> QED
  BY <1>1, <1>2, <1>3, <1>4, <1>5, <1>6, <1>7, <1>8, <1>9, <1>10, <1>11, <1>12, <1>13, <1>14,
     <1>15, <1>16, <1>17, <1>18, <1>19, <1>20, <1>21, <1>22, <1>23, <1>24, <1>25, <1>26, <1>27,
     <1>28, <1>29, <1>30 DEF Next, Call, Continue

\* Every rename takes its message from one directory to one other.
LEMMA PlaceStep ==
  ASSUME TypeOK, ExactlyOnePlace, [Next]_vars
  PROVE  ExactlyOnePlace'
<1>1. CASE Tick
  BY <1>1 DEF Tick, dirs, ExactlyOnePlace
<1>2. ASSUME NEW p \in Procs, NEW m \in Msgs, ReadQuarantine(p, m)
     PROVE  ExactlyOnePlace'
  BY <1>2 DEF ReadQuarantine, ExactlyOnePlace, TypeOK, DirType
<1>3. ASSUME NEW p \in Procs, NEW m \in Msgs, ReadPick(p, m)
     PROVE  ExactlyOnePlace'
  BY <1>3 DEF ReadPick, dirs, ExactlyOnePlace
<1>4. ASSUME NEW p \in Procs, NEW m \in Msgs, CheckLegacy(p, m)
     PROVE  ExactlyOnePlace'
  BY <1>4 DEF CheckLegacy, ExactlyOnePlace, TypeOK, DirType
<1>5. ASSUME NEW p \in Procs, NEW m \in Msgs, RenewStart(p, m)
     PROVE  ExactlyOnePlace'
  BY <1>5 DEF RenewStart, dirs, ExactlyOnePlace
<1>6. ASSUME NEW p \in Procs, NEW m \in Msgs, FinalizeCheck(p, m)
     PROVE  ExactlyOnePlace'
  BY <1>6 DEF FinalizeCheck, dirs, ExactlyOnePlace
<1>7. ASSUME NEW p \in Procs, NEW m \in Msgs, ReleaseCheck(p, m)
     PROVE  ExactlyOnePlace'
  BY <1>7 DEF ReleaseCheck, dirs, ExactlyOnePlace
<1>8. ASSUME NEW p \in Procs, NEW m \in Msgs, AckCheck(p, m)
     PROVE  ExactlyOnePlace'
  BY <1>8 DEF AckCheck, dirs, ExactlyOnePlace
<1>9. ASSUME NEW p \in Procs, RecoverStart(p)
     PROVE  ExactlyOnePlace'
  BY <1>9 DEF RecoverStart, dirs, ExactlyOnePlace
<1>10. ASSUME NEW p \in Procs, Purge(p)
     PROVE  ExactlyOnePlace'
  BY <1>10 DEF Purge, ExactlyOnePlace, TypeOK, DirType
<1>11. ASSUME NEW p \in Procs, NEW prune \in BOOLEAN, Clear(p, prune)
     PROVE  ExactlyOnePlace'
  BY <1>11 DEF Clear, ExactlyOnePlace, TypeOK, DirType
<1>12. ASSUME NEW p \in Procs, ReadLink(p)
     PROVE  ExactlyOnePlace'
  BY <1>12 DEF ReadLink, dirs, ExactlyOnePlace
<1>13. ASSUME NEW p \in Procs, ReadMove(p)
     PROVE  ExactlyOnePlace'
  BY <1>13 DEF ReadMove, ExactlyOnePlace, TypeOK, DirType
<1>14. ASSUME NEW p \in Procs, ReapCheck(p)
     PROVE  ExactlyOnePlace'
  BY <1>14 DEF ReapCheck, dirs, ExactlyOnePlace
<1>15. ASSUME NEW p \in Procs, NEW m \in Msgs, NEW o \in Owners, RecoverRead(p, m, o)
     PROVE  ExactlyOnePlace'
  BY <1>15 DEF RecoverRead, dirs, ExactlyOnePlace
<1>16. ASSUME NEW p \in Procs, RecoverEnd(p)
     PROVE  ExactlyOnePlace'
  BY <1>16 DEF RecoverEnd, dirs, ExactlyOnePlace
<1>17. ASSUME NEW p \in Procs, RecoveryLock(p)
     PROVE  ExactlyOnePlace'
  BY <1>17 DEF RecoveryLock, dirs, ExactlyOnePlace
<1>18. ASSUME NEW p \in Procs, RecoveryKeep(p)
     PROVE  ExactlyOnePlace'
  BY <1>18 DEF RecoveryKeep, dirs, ExactlyOnePlace
<1>19. ASSUME NEW p \in Procs, RecoveryOrphan(p)
     PROVE  ExactlyOnePlace'
  BY <1>19 DEF RecoveryOrphan, dirs, ExactlyOnePlace
<1>20. ASSUME NEW p \in Procs, RecoveryMove(p)
     PROVE  ExactlyOnePlace'
  BY <1>20 DEF RecoveryMove, ExactlyOnePlace, TypeOK, DirType
<1>21. ASSUME NEW p \in Procs, RecoveryUnlink(p)
     PROVE  ExactlyOnePlace'
  BY <1>21 DEF RecoveryUnlink, dirs, ExactlyOnePlace
<1>22. ASSUME NEW p \in Procs, RenewLock(p)
     PROVE  ExactlyOnePlace'
  BY <1>22 DEF RenewLock, dirs, ExactlyOnePlace
<1>23. ASSUME NEW p \in Procs, RenewWrite(p)
     PROVE  ExactlyOnePlace'
  BY <1>23 DEF RenewWrite, dirs, ExactlyOnePlace
<1>24. ASSUME NEW p \in Procs, RenewVerify(p)
     PROVE  ExactlyOnePlace'
  BY <1>24 DEF RenewVerify, dirs, ExactlyOnePlace
<1>25. ASSUME NEW p \in Procs, FinalizeMove(p)
     PROVE  ExactlyOnePlace'
  BY <1>25 DEF FinalizeMove, ExactlyOnePlace, TypeOK, DirType
<1>26. ASSUME NEW p \in Procs, ReleaseMove(p)
     PROVE  ExactlyOnePlace'
  BY <1>26 DEF ReleaseMove, ExactlyOnePlace, TypeOK, DirType
<1>27. ASSUME NEW p \in Procs, OwnUnlink(p)
     PROVE  ExactlyOnePlace'
  BY <1>27 DEF OwnUnlink, dirs, ExactlyOnePlace
<1>28. ASSUME NEW p \in Procs, AckMove(p)
     PROVE  ExactlyOnePlace'
  BY <1>28 DEF AckMove, ExactlyOnePlace, TypeOK, DirType
<1>29. ASSUME NEW p \in Procs, Crash(p)
     PROVE  ExactlyOnePlace'
  BY <1>29 DEF Crash, dirs, ExactlyOnePlace
<1>30. CASE UNCHANGED vars
  BY <1>30 DEF vars, dirs, ExactlyOnePlace
<1> QED
  BY <1>1, <1>2, <1>3, <1>4, <1>5, <1>6, <1>7, <1>8, <1>9, <1>10, <1>11, <1>12, <1>13, <1>14,
     <1>15, <1>16, <1>17, <1>18, <1>19, <1>20, <1>21, <1>22, <1>23, <1>24, <1>25, <1>26, <1>27,
     <1>28, <1>29, <1>30 DEF Next, Call, Continue

\* Which claims exist after a claim file is published, unlinked or grown older.
LEMMA PublishClaims ==
  ASSUME ClaimType, NEW m \in Msgs, NEW o \in Owners, NEW age \in Ages,
         Publish(m, o, age)
  PROVE  \A n \in Msgs, q \in Owners :
           claim[n][q] # NoClaim => claim'[n][q] # NoClaim
  BY DEF ClaimType, Publish, Ages, NoClaim

\* Unlinking one claim file leaves the others.
LEMMA UnlinkClaims ==
  ASSUME ClaimType, NEW m \in Msgs, NEW o \in Owners, Unlink(m, o)
  PROVE  \A n \in Msgs, q \in Owners :
           (claim[n][q] # NoClaim /\ (n # m \/ q # o)) => claim'[n][q] # NoClaim
  BY DEF ClaimType, Unlink

\* Time passing removes no claim file.
LEMMA TickClaims ==
  ASSUME ClaimType, Tick
  PROVE  \A n \in Msgs, q \in Owners :
           claim[n][q] # NoClaim => claim'[n][q] # NoClaim
  BY OlderIsAge DEF ClaimType, Tick, Claimed

\* A message that recovery did not touch stays guarded by its taker.
LEMMA GuardStep ==
  ASSUME ClaimInv, OneProcPerOwner, [Next]_vars, NEW x \in Msgs \ reaped'
  PROVE  Guarded(x)'
<1> USE DEF At
<1>0. /\ TypeOK /\ ExactlyOnePlace /\ CallShape
      /\ x \notin reaped => Guarded(x)
  BY DEF ClaimInv
<1>1. CASE Tick
  BY <1>0, <1>1, TickClaims, Vocabulary DEF Tick, dirs, ghost, Guarded, TakerGuards,
     ReaderGuards, OnlyTakerMoves, HeldIsTaken, Claimed, TypeOK, CallType, GhostType, DirType,
     CallShape, ExactlyOnePlace
<1>2. ASSUME NEW p \in Procs, NEW m \in Msgs, ReadQuarantine(p, m)
     PROVE  Guarded(x)'
  BY <1>0, <1>2, Vocabulary DEF ReadQuarantine, Claimed, local, dirs, ghost, Guarded,
     TakerGuards, ReaderGuards, OnlyTakerMoves, HeldIsTaken, TypeOK, CallType, ClaimType,
     GhostType, DirType, CallShape, ExactlyOnePlace, OneProcPerOwner
<1>3. ASSUME NEW p \in Procs, NEW m \in Msgs, ReadPick(p, m)
     PROVE  Guarded(x)'
  BY <1>0, <1>3, Vocabulary DEF ReadPick, Enter, Claimed, dirs, ghost, Guarded, TakerGuards,
     ReaderGuards, OnlyTakerMoves, HeldIsTaken, TypeOK, CallType, ClaimType, GhostType, DirType,
     CallShape, ExactlyOnePlace, OneProcPerOwner
<1>4. ASSUME NEW p \in Procs, NEW m \in Msgs, CheckLegacy(p, m)
     PROVE  Guarded(x)'
  BY <1>0, <1>4, Vocabulary DEF CheckLegacy, Claimed, local, dirs, ghost, Guarded, TakerGuards,
     ReaderGuards, OnlyTakerMoves, HeldIsTaken, TypeOK, CallType, ClaimType, GhostType, DirType,
     CallShape, ExactlyOnePlace, OneProcPerOwner
<1>5. ASSUME NEW p \in Procs, NEW m \in Msgs, RenewStart(p, m)
     PROVE  Guarded(x)'
  BY <1>0, <1>5, Vocabulary DEF RenewStart, Enter, Claimed, Claims, dirs, ghost, Guarded,
     TakerGuards, ReaderGuards, OnlyTakerMoves, HeldIsTaken, TypeOK, CallType, ClaimType,
     GhostType, DirType, CallShape, ExactlyOnePlace, OneProcPerOwner
<1>6. ASSUME NEW p \in Procs, NEW m \in Msgs, FinalizeCheck(p, m)
     PROVE  Guarded(x)'
  BY <1>0, <1>6, Vocabulary DEF FinalizeCheck, Enter, Claimed, Claims, dirs, ghost, Guarded,
     TakerGuards, ReaderGuards, OnlyTakerMoves, HeldIsTaken, TypeOK, CallType, ClaimType,
     GhostType, DirType, CallShape, ExactlyOnePlace, OneProcPerOwner
<1>7. ASSUME NEW p \in Procs, NEW m \in Msgs, ReleaseCheck(p, m)
     PROVE  Guarded(x)'
  BY <1>0, <1>7, Vocabulary DEF ReleaseCheck, Enter, Claimed, Claims, dirs, ghost, Guarded,
     TakerGuards, ReaderGuards, OnlyTakerMoves, HeldIsTaken, TypeOK, CallType, ClaimType,
     GhostType, DirType, CallShape, ExactlyOnePlace, OneProcPerOwner
<1>8. ASSUME NEW p \in Procs, NEW m \in Msgs, AckCheck(p, m)
     PROVE  Guarded(x)'
  <2>1. CASE m \in inbox /\ Enter(p, "ack", "ackInbox", m, NoOwner, 0)
    BY <1>0, <1>8, <2>1, Vocabulary DEF AckCheck, Enter, dirs, ghost, Guarded, TakerGuards,
       ReaderGuards, OnlyTakerMoves, HeldIsTaken, Claimed, TypeOK, CallType, GhostType, DirType,
       CallShape, ExactlyOnePlace
  <2>2. CASE /\ m \in processing \ inbox /\ Claims(m) \subseteq {OwnerOf[p]}
             /\ Enter(p, "ack", "ackProcessing", m, NoOwner, 0)
    <3>1. x \notin reaped /\ (x = m => taker[m] = p)
      BY <1>0, <1>8, <2>2, Vocabulary
      DEF AckCheck, ghost, Guarded, TakerGuards, Claims, Claimed, OneProcPerOwner
    <3> QED
      BY <1>0, <1>8, <2>2, <3>1, Vocabulary DEF AckCheck, Enter, dirs, ghost, Guarded,
         TakerGuards, ReaderGuards, OnlyTakerMoves, HeldIsTaken, Claimed, TypeOK, CallType,
         GhostType, DirType, CallShape, ExactlyOnePlace
  <2> QED
    BY <1>8, <2>1, <2>2 DEF AckCheck
<1>9. ASSUME NEW p \in Procs, RecoverStart(p)
     PROVE  Guarded(x)'
  BY <1>0, <1>9, Vocabulary DEF RecoverStart, Enter, ClaimFiles, Claimed, dirs, ghost, Guarded,
     TakerGuards, ReaderGuards, OnlyTakerMoves, HeldIsTaken, TypeOK, CallType, ClaimType,
     GhostType, DirType, CallShape, ExactlyOnePlace, OneProcPerOwner
<1>10. ASSUME NEW p \in Procs, Purge(p)
     PROVE  Guarded(x)'
  BY <1>0, <1>10, Vocabulary DEF Purge, Claimed, local, dirs, ghost, Guarded, TakerGuards,
     ReaderGuards, OnlyTakerMoves, HeldIsTaken, TypeOK, CallType, ClaimType, GhostType, DirType,
     CallShape, ExactlyOnePlace, OneProcPerOwner
<1>11. ASSUME NEW p \in Procs, NEW prune \in BOOLEAN, Clear(p, prune)
     PROVE  Guarded(x)'
  <2>1. CASE prune
    BY <1>0, <1>11, <2>1, Vocabulary DEF Clear, Enter, ghost, Guarded, TakerGuards, ReaderGuards,
       OnlyTakerMoves, HeldIsTaken, Claimed, TypeOK, CallType, GhostType, DirType, CallShape,
       ExactlyOnePlace
  <2>2. CASE ~prune
    BY <1>0, <1>11, <2>2, Vocabulary DEF Clear, local, ghost, Guarded, TakerGuards, ReaderGuards,
       OnlyTakerMoves, HeldIsTaken, Claimed, TypeOK, CallType, GhostType, DirType, CallShape,
       ExactlyOnePlace
  <2> QED
    BY <2>1, <2>2
<1>12. ASSUME NEW p \in Procs, ReadLink(p)
     PROVE  Guarded(x)'
  <2>1. CASE Publish(msg[p], sub[p], stamp[p]) /\ Goto(p, "move")
    <3>1. /\ msg[p] \in Msgs /\ sub[p] = OwnerOf[p] /\ stamp[p] \in Ages
          /\ \A n \in Msgs, q \in Owners :
               claim[n][q] # NoClaim => claim'[n][q] # NoClaim
      BY <1>0, <1>12, <2>1, PublishClaims DEF ReadLink, CallShape, TypeOK, CallType
    <3>2. claim'[msg[p]][sub[p]] # NoClaim
      BY <1>0, <2>1, <3>1, Vocabulary DEF Publish, TypeOK, ClaimType, Ages, NoClaim
    <3> QED
      BY <1>0, <1>12, <2>1, <3>1, <3>2, Vocabulary DEF ReadLink, Goto, dirs, ghost, Guarded,
         TakerGuards, ReaderGuards, OnlyTakerMoves, HeldIsTaken, Claimed, TypeOK, CallType,
         GhostType, DirType, CallShape, ExactlyOnePlace
  <2>2. CASE Goto(p, "blocked") /\ UNCHANGED claim
    BY <1>0, <1>12, <2>2, Vocabulary DEF ReadLink, Goto, dirs, ghost, Guarded, TakerGuards,
       ReaderGuards, OnlyTakerMoves, HeldIsTaken, Claimed, TypeOK, CallType, GhostType, DirType,
       CallShape, ExactlyOnePlace
  <2> QED
    BY <1>12, <2>1, <2>2 DEF ReadLink
<1>13. ASSUME NEW p \in Procs, ReadMove(p)
     PROVE  Guarded(x)'
  BY <1>0, <1>13, Vocabulary DEF ReadMove, Unlink, Return, Enter, Claimed, dirs, ghost, Guarded,
     TakerGuards, ReaderGuards, OnlyTakerMoves, HeldIsTaken, TypeOK, CallType, ClaimType,
     GhostType, DirType, CallShape, ExactlyOnePlace, OneProcPerOwner
<1>14. ASSUME NEW p \in Procs, ReapCheck(p)
     PROVE  Guarded(x)'
  <2>1. CASE Enter(p, "reap", "lock", msg[p], sub[p], claim[msg[p]][sub[p]])
    BY <1>0, <1>14, <2>1, Vocabulary DEF ReapCheck, Enter, dirs, ghost, Guarded, TakerGuards,
       ReaderGuards, OnlyTakerMoves, HeldIsTaken, Claimed, TypeOK, CallType, GhostType, DirType,
       CallShape, ExactlyOnePlace
  <2>2. CASE Return(p)
    BY <1>0, <1>14, <2>2, Vocabulary DEF ReapCheck, Return, Enter, dirs, ghost, Guarded,
       TakerGuards, ReaderGuards, OnlyTakerMoves, HeldIsTaken, Claimed, TypeOK, CallType,
       GhostType, DirType, CallShape, ExactlyOnePlace
  <2> QED
    BY <1>14, <2>1, <2>2 DEF ReapCheck
<1>15. ASSUME NEW p \in Procs, NEW m \in Msgs, NEW o \in Owners, RecoverRead(p, m, o)
     PROVE  Guarded(x)'
  <2>1. CASE Enter(p, "recover", "lock", m, o, claim[m][o])
    BY <1>0, <1>15, <2>1, Vocabulary DEF RecoverRead, Enter, dirs, ghost, Guarded, TakerGuards,
       ReaderGuards, OnlyTakerMoves, HeldIsTaken, Claimed, TypeOK, CallType, GhostType, DirType,
       CallShape, ExactlyOnePlace
  <2>2. CASE UNCHANGED <<op, pc, msg, sub, stamp>>
    BY <1>0, <1>15, <2>2, Vocabulary DEF RecoverRead, dirs, ghost, Guarded, TakerGuards,
       ReaderGuards, OnlyTakerMoves, HeldIsTaken, Claimed, TypeOK, CallType, GhostType, DirType,
       CallShape, ExactlyOnePlace
  <2> QED
    BY <1>15, <2>1, <2>2 DEF RecoverRead
<1>16. ASSUME NEW p \in Procs, RecoverEnd(p)
     PROVE  Guarded(x)'
  BY <1>0, <1>16, Vocabulary DEF RecoverEnd, Return, Enter, Claimed, dirs, ghost, Guarded,
     TakerGuards, ReaderGuards, OnlyTakerMoves, HeldIsTaken, TypeOK, CallType, ClaimType,
     GhostType, DirType, CallShape, ExactlyOnePlace, OneProcPerOwner
<1>17. ASSUME NEW p \in Procs, RecoveryLock(p)
     PROVE  Guarded(x)'
  BY <1>0, <1>17, Vocabulary DEF RecoveryLock, TakeLock, CurrentStamp, Claimed, dirs, ghost,
     Guarded, TakerGuards, ReaderGuards, OnlyTakerMoves, HeldIsTaken, TypeOK, CallType,
     ClaimType, GhostType, DirType, CallShape, ExactlyOnePlace, OneProcPerOwner
<1>18. ASSUME NEW p \in Procs, RecoveryKeep(p)
     PROVE  Guarded(x)'
  <2>0. \E call \in {"none", "recover"}, step \in {"idle", "scan"} :
          Enter(p, call, step, NoMsg, NoOwner, 0)
    BY <1>18 DEF RecoveryKeep, Leave, Return
  <2> QED
    BY <1>0, <1>18, <2>0, Vocabulary, ClaimsAssumption DEF RecoveryKeep, Enter, dirs, ghost,
       Guarded, TakerGuards, ReaderGuards, OnlyTakerMoves, HeldIsTaken, Claimed, TypeOK,
       CallType, GhostType, DirType, CallShape, ExactlyOnePlace
<1>19. ASSUME NEW p \in Procs, RecoveryOrphan(p)
     PROVE  Guarded(x)'
  BY <1>0, <1>19, Vocabulary DEF RecoveryOrphan, Goto, Claimed, dirs, ghost, Guarded,
     TakerGuards, ReaderGuards, OnlyTakerMoves, HeldIsTaken, TypeOK, CallType, ClaimType,
     GhostType, DirType, CallShape, ExactlyOnePlace, OneProcPerOwner
<1>20. ASSUME NEW p \in Procs, RecoveryMove(p)
     PROVE  Guarded(x)'
  BY <1>0, <1>20, Vocabulary DEF RecoveryMove, Goto, Claimed, dirs, ghost, Guarded, TakerGuards,
     ReaderGuards, OnlyTakerMoves, HeldIsTaken, TypeOK, CallType, ClaimType, GhostType, DirType,
     CallShape, ExactlyOnePlace, OneProcPerOwner
<1>21. ASSUME NEW p \in Procs, RecoveryUnlink(p)
     PROVE  Guarded(x)'
  <2>0. \E call \in {"none", "recover"}, step \in {"idle", "scan"} :
          Enter(p, call, step, NoMsg, NoOwner, 0)
    BY <1>21 DEF RecoveryUnlink, Leave, Return
  <2>1. /\ msg[p] \in Msgs /\ sub[p] \in Owners /\ x # msg[p] /\ x \notin reaped
    BY <1>0, <1>21 DEF RecoveryUnlink, CallShape
  <2>2. \A q \in Owners : claim[x][q] # NoClaim => claim'[x][q] # NoClaim
    BY <1>0, <1>21, <2>1, UnlinkClaims DEF RecoveryUnlink, TypeOK
  <2> QED
    BY <1>0, <1>21, <2>0, <2>1, <2>2, Vocabulary, ClaimsAssumption DEF RecoveryUnlink, Enter,
       dirs, Guarded, TakerGuards, ReaderGuards, OnlyTakerMoves, HeldIsTaken, Claimed, TypeOK,
       CallType, GhostType, DirType, CallShape, ExactlyOnePlace
<1>22. ASSUME NEW p \in Procs, RenewLock(p)
     PROVE  Guarded(x)'
  BY <1>0, <1>22, Vocabulary DEF RenewLock, TakeLock, Goto, Return, Enter, Claimed, Claims, dirs,
     ghost, Guarded, TakerGuards, ReaderGuards, OnlyTakerMoves, HeldIsTaken, TypeOK, CallType,
     ClaimType, GhostType, DirType, CallShape, ExactlyOnePlace, OneProcPerOwner
<1>23. ASSUME NEW p \in Procs, RenewWrite(p)
     PROVE  Guarded(x)'
  <2>1. \A n \in Msgs, q \in Owners : claim[n][q] # NoClaim => claim'[n][q] # NoClaim
    BY <1>0, <1>23, PublishClaims, Vocabulary DEF RenewWrite, CallShape, TypeOK
  <2> QED
    BY <1>0, <1>23, <2>1, Vocabulary DEF RenewWrite, Goto, dirs, ghost, Guarded, TakerGuards,
       ReaderGuards, OnlyTakerMoves, HeldIsTaken, Claimed, TypeOK, CallType, GhostType, DirType,
       CallShape, ExactlyOnePlace
<1>24. ASSUME NEW p \in Procs, RenewVerify(p)
     PROVE  Guarded(x)'
  BY <1>0, <1>24, Vocabulary DEF RenewVerify, Unlink, DropLock, Return, Enter, Claimed, dirs,
     ghost, Guarded, TakerGuards, ReaderGuards, OnlyTakerMoves, HeldIsTaken, TypeOK, CallType,
     ClaimType, GhostType, DirType, CallShape, ExactlyOnePlace, OneProcPerOwner
<1>25. ASSUME NEW p \in Procs, FinalizeMove(p)
     PROVE  Guarded(x)'
  BY <1>0, <1>25, Vocabulary DEF FinalizeMove, OwnerDone, Goto, Return, Enter, Claimed, dirs,
     ghost, Guarded, TakerGuards, ReaderGuards, OnlyTakerMoves, HeldIsTaken, TypeOK, CallType,
     ClaimType, GhostType, DirType, CallShape, ExactlyOnePlace, OneProcPerOwner
<1>26. ASSUME NEW p \in Procs, ReleaseMove(p)
     PROVE  Guarded(x)'
  <2>1. CASE msg[p] \in processing
    <3>1. x = msg[p] => taker[x] = p /\ x \notin processing' /\ \A q \in Procs : x \notin held'[q]
      BY <1>0, <1>26, <2>1, Vocabulary
      DEF ReleaseMove, OwnerDone, Guarded, OnlyTakerMoves, HeldIsTaken, TypeOK, GhostType
    <3>2. \E step \in {"idle", "unlink"} :
            /\ pc' = [pc EXCEPT ![p] = step]
            /\ \A q \in Procs \ {p} : op'[q] = op[q] /\ msg'[q] = msg[q]
            /\ op'[p] # "read" /\ msg'[p] \in {msg[p], NoMsg}
      BY <1>0, <1>26, <2>1 DEF ReleaseMove, Return, Enter, Goto, TypeOK, CallType
    <3>3. CASE x = msg[p]
      BY <1>0, <1>26, <2>1, <3>1, <3>2, <3>3, Vocabulary DEF ReleaseMove, Guarded, TakerGuards,
         ReaderGuards, OnlyTakerMoves, HeldIsTaken, Claimed, TypeOK, CallType, GhostType,
         DirType, CallShape, ExactlyOnePlace
    <3>4. CASE x # msg[p]
      <4>1. \A q \in Procs : x \in held'[q] => x \in held[q]
        BY <1>0, <1>26, <2>1, <3>4 DEF ReleaseMove, OwnerDone, TypeOK, GhostType
      <4> QED
        BY <1>0, <1>26, <2>1, <3>2, <3>4, <4>1, Vocabulary, ClaimsAssumption DEF ReleaseMove,
           Guarded, TakerGuards, ReaderGuards, OnlyTakerMoves, HeldIsTaken, Claimed, TypeOK,
           CallType, GhostType, DirType, CallShape, ExactlyOnePlace
    <3> QED
      BY <3>3, <3>4
  <2>2. CASE msg[p] \notin processing
    BY <1>0, <1>26, <2>2, Vocabulary DEF ReleaseMove, Return, Enter, Guarded, TakerGuards,
       ReaderGuards, OnlyTakerMoves, HeldIsTaken, Claimed, TypeOK, CallType, GhostType, DirType,
       CallShape, ExactlyOnePlace
  <2> QED
    BY <2>1, <2>2
<1>27. ASSUME NEW p \in Procs, OwnUnlink(p)
     PROVE  Guarded(x)'
  <2>1. /\ msg[p] \in Msgs /\ sub[p] = OwnerOf[p]
    BY <1>0, <1>27, ClaimsAssumption DEF OwnUnlink, CallShape
  <2>2. \A n \in Msgs, q \in Owners :
          (claim[n][q] # NoClaim /\ (n # msg[p] \/ q # OwnerOf[p])) => claim'[n][q] # NoClaim
    BY <1>0, <1>27, <2>1, UnlinkClaims, Vocabulary DEF OwnUnlink, TypeOK
  <2>3. \A q \in Procs : OwnerOf[q] = OwnerOf[p] => q = p
    BY DEF OneProcPerOwner
  <2> QED
    BY <1>0, <1>27, <2>1, <2>2, <2>3, Vocabulary
    DEF OwnUnlink, Return, Enter, dirs, ghost, Guarded, TakerGuards, ReaderGuards,
        OnlyTakerMoves, HeldIsTaken, Claimed, TypeOK, CallType, GhostType, DirType, CallShape,
        ExactlyOnePlace
<1>28. ASSUME NEW p \in Procs, AckMove(p)
     PROVE  Guarded(x)'
  BY <1>0, <1>28, Vocabulary DEF AckMove, OwnerDone, Return, Enter, Claimed, dirs, ghost,
     Guarded, TakerGuards, ReaderGuards, OnlyTakerMoves, HeldIsTaken, TypeOK, CallType,
     ClaimType, GhostType, DirType, CallShape, ExactlyOnePlace, OneProcPerOwner
<1>29. ASSUME NEW p \in Procs, Crash(p)
     PROVE  Guarded(x)'
  BY <1>0, <1>29, Vocabulary DEF Crash, Enter, Claimed, dirs, ghost, Guarded, TakerGuards,
     ReaderGuards, OnlyTakerMoves, HeldIsTaken, TypeOK, CallType, ClaimType, GhostType, DirType,
     CallShape, ExactlyOnePlace, OneProcPerOwner
<1>30. CASE UNCHANGED vars
  BY <1>0, <1>30 DEF vars, dirs, local, ghost, Claimed, Guarded, TakerGuards, ReaderGuards,
     OnlyTakerMoves, HeldIsTaken
<1> QED
  BY <1>1, <1>2, <1>3, <1>4, <1>5, <1>6, <1>7, <1>8, <1>9, <1>10, <1>11, <1>12, <1>13, <1>14,
     <1>15, <1>16, <1>17, <1>18, <1>19, <1>20, <1>21, <1>22, <1>23, <1>24, <1>25, <1>26, <1>27,
     <1>28, <1>29, <1>30 DEF Next, Call, Continue

\* Messages only leave the queue made of inbox/ and processing/.
LEMMA QueueOnlyShrinks ==
  ASSUME TypeOK, [Next]_vars
  PROVE  (inbox' \cup processing') \subseteq (inbox \cup processing)
<1>1. CASE Tick
  BY <1>1 DEF Tick, dirs
<1>2. ASSUME NEW p \in Procs, NEW m \in Msgs, ReadQuarantine(p, m)
     PROVE  (inbox' \cup processing') \subseteq (inbox \cup processing)
  BY <1>2 DEF ReadQuarantine
<1>3. ASSUME NEW p \in Procs, NEW m \in Msgs, ReadPick(p, m)
     PROVE  (inbox' \cup processing') \subseteq (inbox \cup processing)
  BY <1>3 DEF ReadPick, dirs
<1>4. ASSUME NEW p \in Procs, NEW m \in Msgs, CheckLegacy(p, m)
     PROVE  (inbox' \cup processing') \subseteq (inbox \cup processing)
  BY <1>4 DEF CheckLegacy
<1>5. ASSUME NEW p \in Procs, NEW m \in Msgs, RenewStart(p, m)
     PROVE  (inbox' \cup processing') \subseteq (inbox \cup processing)
  BY <1>5 DEF RenewStart, dirs
<1>6. ASSUME NEW p \in Procs, NEW m \in Msgs, FinalizeCheck(p, m)
     PROVE  (inbox' \cup processing') \subseteq (inbox \cup processing)
  BY <1>6 DEF FinalizeCheck, dirs
<1>7. ASSUME NEW p \in Procs, NEW m \in Msgs, ReleaseCheck(p, m)
     PROVE  (inbox' \cup processing') \subseteq (inbox \cup processing)
  BY <1>7 DEF ReleaseCheck, dirs
<1>8. ASSUME NEW p \in Procs, NEW m \in Msgs, AckCheck(p, m)
     PROVE  (inbox' \cup processing') \subseteq (inbox \cup processing)
  BY <1>8 DEF AckCheck, dirs
<1>9. ASSUME NEW p \in Procs, RecoverStart(p)
     PROVE  (inbox' \cup processing') \subseteq (inbox \cup processing)
  BY <1>9 DEF RecoverStart, dirs
<1>10. ASSUME NEW p \in Procs, Purge(p)
     PROVE  (inbox' \cup processing') \subseteq (inbox \cup processing)
  BY <1>10 DEF Purge
<1>11. ASSUME NEW p \in Procs, NEW prune \in BOOLEAN, Clear(p, prune)
     PROVE  (inbox' \cup processing') \subseteq (inbox \cup processing)
  BY <1>11 DEF Clear
<1>12. ASSUME NEW p \in Procs, ReadLink(p)
     PROVE  (inbox' \cup processing') \subseteq (inbox \cup processing)
  BY <1>12 DEF ReadLink, dirs
<1>13. ASSUME NEW p \in Procs, ReadMove(p)
     PROVE  (inbox' \cup processing') \subseteq (inbox \cup processing)
  BY <1>13 DEF ReadMove
<1>14. ASSUME NEW p \in Procs, ReapCheck(p)
     PROVE  (inbox' \cup processing') \subseteq (inbox \cup processing)
  BY <1>14 DEF ReapCheck, dirs
<1>15. ASSUME NEW p \in Procs, NEW m \in Msgs, NEW o \in Owners, RecoverRead(p, m, o)
     PROVE  (inbox' \cup processing') \subseteq (inbox \cup processing)
  BY <1>15 DEF RecoverRead, dirs
<1>16. ASSUME NEW p \in Procs, RecoverEnd(p)
     PROVE  (inbox' \cup processing') \subseteq (inbox \cup processing)
  BY <1>16 DEF RecoverEnd, dirs
<1>17. ASSUME NEW p \in Procs, RecoveryLock(p)
     PROVE  (inbox' \cup processing') \subseteq (inbox \cup processing)
  BY <1>17 DEF RecoveryLock, dirs
<1>18. ASSUME NEW p \in Procs, RecoveryKeep(p)
     PROVE  (inbox' \cup processing') \subseteq (inbox \cup processing)
  BY <1>18 DEF RecoveryKeep, dirs
<1>19. ASSUME NEW p \in Procs, RecoveryOrphan(p)
     PROVE  (inbox' \cup processing') \subseteq (inbox \cup processing)
  BY <1>19 DEF RecoveryOrphan, dirs
<1>20. ASSUME NEW p \in Procs, RecoveryMove(p)
     PROVE  (inbox' \cup processing') \subseteq (inbox \cup processing)
  BY <1>20 DEF RecoveryMove
<1>21. ASSUME NEW p \in Procs, RecoveryUnlink(p)
     PROVE  (inbox' \cup processing') \subseteq (inbox \cup processing)
  BY <1>21 DEF RecoveryUnlink, dirs
<1>22. ASSUME NEW p \in Procs, RenewLock(p)
     PROVE  (inbox' \cup processing') \subseteq (inbox \cup processing)
  BY <1>22 DEF RenewLock, dirs
<1>23. ASSUME NEW p \in Procs, RenewWrite(p)
     PROVE  (inbox' \cup processing') \subseteq (inbox \cup processing)
  BY <1>23 DEF RenewWrite, dirs
<1>24. ASSUME NEW p \in Procs, RenewVerify(p)
     PROVE  (inbox' \cup processing') \subseteq (inbox \cup processing)
  BY <1>24 DEF RenewVerify, dirs
<1>25. ASSUME NEW p \in Procs, FinalizeMove(p)
     PROVE  (inbox' \cup processing') \subseteq (inbox \cup processing)
  BY <1>25 DEF FinalizeMove
<1>26. ASSUME NEW p \in Procs, ReleaseMove(p)
     PROVE  (inbox' \cup processing') \subseteq (inbox \cup processing)
  BY <1>26 DEF ReleaseMove
<1>27. ASSUME NEW p \in Procs, OwnUnlink(p)
     PROVE  (inbox' \cup processing') \subseteq (inbox \cup processing)
  BY <1>27 DEF OwnUnlink, dirs
<1>28. ASSUME NEW p \in Procs, AckMove(p)
     PROVE  (inbox' \cup processing') \subseteq (inbox \cup processing)
  BY <1>28 DEF AckMove
<1>29. ASSUME NEW p \in Procs, Crash(p)
     PROVE  (inbox' \cup processing') \subseteq (inbox \cup processing)
  BY <1>29 DEF Crash, dirs
<1>30. CASE UNCHANGED vars
  BY <1>30 DEF vars, dirs
<1> QED
  BY <1>1, <1>2, <1>3, <1>4, <1>5, <1>6, <1>7, <1>8, <1>9, <1>10, <1>11, <1>12, <1>13, <1>14,
     <1>15, <1>16, <1>17, <1>18, <1>19, <1>20, <1>21, <1>22, <1>23, <1>24, <1>25, <1>26, <1>27,
     <1>28, <1>29, <1>30 DEF Next, Call, Continue

\* The inductive invariant holds initially and every step keeps it.
LEMMA InitInv == Init => ClaimInv
<1> SUFFICES ASSUME Init PROVE ClaimInv
  OBVIOUS
<1>1. TypeOK
  BY Vocabulary, ClaimsAssumption
  DEF Init, TypeOK, DirType, ClaimType, LockType, CallType, TodoType, GhostType
<1>2. ExactlyOnePlace
  BY DEF Init, ExactlyOnePlace
<1>3. CallShape /\ LockHeld
  BY DEF Init, CallShape, LockHeld, InCritical
<1>4. \A m \in Msgs : Guarded(m)
  BY ClaimsAssumption
  DEF Init, Guarded, TakerGuards, ReaderGuards, OnlyTakerMoves, HeldIsTaken, At
<1> QED
  BY <1>1, <1>2, <1>3, <1>4 DEF ClaimInv

\* Every step keeps the inductive invariant.
LEMMA NextInv == ClaimInv /\ [Next]_vars => ClaimInv'
<1> SUFFICES ASSUME ClaimInv, [Next]_vars PROVE ClaimInv'
  OBVIOUS
<1>1. TypeOK' /\ ExactlyOnePlace' /\ CallShape' /\ LockHeld'
  BY TypeStep, PlaceStep, ShapeStep, LockStep DEF ClaimInv
<1>2. OneProcPerOwner => \A m \in Msgs \ reaped' : Guarded(m)'
  BY GuardStep
<1>3. OneProcPerOwner' <=> OneProcPerOwner
  BY DEF OneProcPerOwner
<1> QED
  BY <1>1, <1>2, <1>3 DEF ClaimInv

\* The inductive invariant holds in every reachable state.
LEMMA ClaimInvariant == Spec => []ClaimInv
  BY InitInv, NextInv, PTL DEF Spec

\* Every variable keeps its type (all of store.py's consumption calls).
THEOREM TypeCorrect == Spec => []TypeOK
<1>1. ClaimInv => TypeOK
  BY DEF ClaimInv
<1> QED
  BY <1>1, ClaimInvariant, PTL

\* No call of the store loses or duplicates a message: at every instant it is in
\* exactly one directory (the os.replace moves of store.py).
THEOREM NoMessageLost == Spec => []ExactlyOnePlace
<1>1. ClaimInv => ExactlyOnePlace
  BY DEF ClaimInv
<1> QED
  BY <1>1, ClaimInvariant, PTL

\* The per-claim flock keeps renewals and recoveries of one claim apart.
THEOREM FlockExclusion == Spec => []RenewExcludesRecovery
<1>1. ClaimInv => RenewExcludesRecovery
  BY DEF ClaimInv, LockHeld, InCritical, RenewExcludesRecovery
<1> QED
  BY <1>1, ClaimInvariant, PTL

\* Two-phase reading is exclusive until lease recovery intervenes: one worker
\* per message, which stays in processing/ while it works.
THEOREM WorkIsExclusive == Spec => []ExclusiveWork
<1>1. ClaimInv => ExclusiveWork
  BY DEF ClaimInv, Guarded, HeldIsTaken, ExclusiveWork
<1> QED
  BY <1>1, ClaimInvariant, PTL

\* No step takes an archived, quarantined or deleted message back into the
\* queue.
THEOREM ArchiveIsFinal == Spec => FinalizedStaysFinalized
<1>1. ClaimInv /\ ClaimInv' /\ [Next]_vars =>
        [\A m \in archive \cup corrupt \cup deleted : m \notin inbox' \cup processing']_vars
  <2> SUFFICES ASSUME ClaimInv, ClaimInv', [Next]_vars,
                      NEW m \in archive \cup corrupt \cup deleted
               PROVE  m \notin inbox' \cup processing'
    OBVIOUS
  <2>1. m \notin inbox \cup processing
    BY DEF ClaimInv, ExactlyOnePlace
  <2>2. /\ (inbox' \cup processing') \subseteq (inbox \cup processing)
    BY QueueOnlyShrinks DEF ClaimInv
  <2> QED
    BY <2>1, <2>2
<1> QED
  BY <1>1, ClaimInvariant, PTL DEF Spec, FinalizedStaysFinalized
=============================================================================

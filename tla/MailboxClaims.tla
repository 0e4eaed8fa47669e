--------------------------- MODULE MailboxClaims ---------------------------
(***************************************************************************)
(* Two-phase consumption of one agent's mailbox (mailbox/store.py).        *)
(*                                                                         *)
(* A message is a file that lives in one of the agent's directories        *)
(* inbox/, processing/, archive/ and _corrupt/.  read() claims it: it      *)
(* publishes .claim-{msg}-{owner}.json without clobbering (os.link) and    *)
(* then moves the message inbox -> processing (os.replace).  finalize()    *)
(* moves it to archive/, release() back to inbox/, and recover_stale() and *)
(* the reap path of read() move it back when the lease of its claim has    *)
(* expired.  Only renew_claim(), recover_stale() and the reap path take    *)
(* the per-claim flock.                                                    *)
(*                                                                         *)
(* Every system call that other processes can observe is a step of its     *)
(* own; a process keeps the local state of the call it is in (op, pc, msg, *)
(* sub, stamp, todo) and may crash between any two steps.  Time is the age *)
(* of claims and of time stamps, capped at MaxAge.  Temporary claim files  *)
(* carry a random nonce and are read by nobody: they are left out.         *)
(***************************************************************************)
EXTENDS Integers, FiniteSets

CONSTANTS
  Msgs,            \* messages sent to this agent
  Malformed,       \* those whose file does not pass validate_message
  Foreign,         \* those whose sender is not in the session roster
  Procs,           \* operating-system processes that use the store
  Owners,          \* the --owner names processes claim under
  OwnerOf,         \* the owner name each process uses
  NoMsg, NoOwner, NoProc,
  LeaseTimeout,    \* LEASE_TIMEOUT_S
  ClockTolerance,  \* LEASE_CLOCK_TOLERANCE_S
  OrphanAgeGate,   \* orphan_age_gate of recover_stale (30 s)
  MaxAge,          \* ages are capped here
  MaxCrashes,      \* bound on process crashes
  Prompt           \* TRUE: a store call takes less than one tick

ASSUME ClaimsAssumption ==
  /\ Malformed \subseteq Msgs /\ Foreign \subseteq Msgs
  /\ OwnerOf \in [Procs -> Owners]
  /\ NoMsg \notin Msgs /\ NoOwner \notin Owners /\ NoProc \notin Procs
  /\ LeaseTimeout \in Nat /\ ClockTolerance \in Nat /\ OrphanAgeGate \in Nat
  /\ ClockTolerance <= LeaseTimeout
  /\ MaxAge \in Nat /\ MaxAge > LeaseTimeout
  /\ MaxCrashes \in Nat
  /\ Prompt \in BOOLEAN

VARIABLES
  inbox, processing, archive, corrupt,  \* the messages in each directory
  deleted,    \* messages unlinked by clear() or purge()
  claim,      \* claim[m][o]: age of .claim-{m}-{o}.json, or NoClaim
  lock,       \* lock[m][o]: process holding the flock of that claim
  op, pc,     \* the store call each process is in, and where
  msg,        \* the message that call is about
  sub,        \* the owner of the claim file that call works on
  stamp,      \* the age of the time stamp the call has read or made
  todo,       \* claim files recover_stale still has to visit
  held,       \* messages read() returned to a process that still works on them
  taker,      \* the process whose read() last moved the message to processing/
  reaped,     \* messages whose claim recovery has touched
  crashes

dirs  == <<inbox, processing, archive, corrupt, deleted>>
local == <<op, pc, msg, sub, stamp, todo>>
ghost == <<held, taker, reaped, crashes>>
vars  == <<dirs, claim, lock, local, ghost>>

NoClaim == -1
Ages == 0 .. MaxAge
Ops  == {"none", "read", "reap", "recover", "renew", "finalize", "release", "ack"}
Pcs  == {"idle", "link", "blocked", "move", "scan", "lock", "act", "write",
         "verify", "unlink", "ackInbox", "ackProcessing"}

DirType ==
  /\ inbox \subseteq Msgs /\ processing \subseteq Msgs /\ archive \subseteq Msgs
  /\ corrupt \subseteq Msgs /\ deleted \subseteq Msgs

ClaimType == claim \in [Msgs -> [Owners -> Ages \cup {NoClaim}]]
LockType  == lock \in [Msgs -> [Owners -> Procs \cup {NoProc}]]

CallType ==
  /\ op \in [Procs -> Ops] /\ pc \in [Procs -> Pcs]
  /\ msg \in [Procs -> Msgs \cup {NoMsg}]
  /\ sub \in [Procs -> Owners \cup {NoOwner}]
  /\ stamp \in [Procs -> Ages]

TodoType == todo \in [Procs -> SUBSET (Msgs \X Owners)]

GhostType ==
  /\ held \in [Procs -> SUBSET Msgs]
  /\ taker \in [Msgs -> Procs \cup {NoProc}]
  /\ reaped \subseteq Msgs
  /\ crashes \in 0 .. MaxCrashes

\* Every variable has its type.
TypeOK == DirType /\ ClaimType /\ LockType /\ CallType /\ TodoType /\ GhostType

Init ==
  /\ inbox = Msgs /\ processing = {} /\ archive = {} /\ corrupt = {} /\ deleted = {}
  /\ claim = [m \in Msgs |-> [o \in Owners |-> NoClaim]]
  /\ lock = [m \in Msgs |-> [o \in Owners |-> NoProc]]
  /\ op = [p \in Procs |-> "none"] /\ pc = [p \in Procs |-> "idle"]
  /\ msg = [p \in Procs |-> NoMsg] /\ sub = [p \in Procs |-> NoOwner]
  /\ stamp = [p \in Procs |-> 0] /\ todo = [p \in Procs |-> {}]
  /\ held = [p \in Procs |-> {}] /\ taker = [m \in Msgs |-> NoProc] /\ reaped = {} /\ crashes = 0

-----------------------------------------------------------------------------
(* Claim files and leases *)

Claimed(m, o) == claim[m][o] # NoClaim
Claims(m)     == {o \in Owners : Claimed(m, o)}
ClaimFiles    == {mo \in Msgs \X Owners : Claimed(mo[1], mo[2])}

\* cutoff = now - LEASE_TIMEOUT_S + LEASE_CLOCK_TOLERANCE_S; stale iff
\* claimed_at < cutoff.
Expired(age) == age > LeaseTimeout - ClockTolerance

Publish(m, o, age) == claim' = [claim EXCEPT ![m][o] = age]
Unlink(m, o)       == claim' = [claim EXCEPT ![m][o] = NoClaim]

\* Moving the call of p to its next step, and returning from it.
Goto(p, step) == pc' = [pc EXCEPT ![p] = step] /\ UNCHANGED <<op, msg, sub, stamp, todo>>

Enter(p, call, step, m, o, age) ==
  /\ op' = [op EXCEPT ![p] = call]
  /\ pc' = [pc EXCEPT ![p] = step]
  /\ msg' = [msg EXCEPT ![p] = m]
  /\ sub' = [sub EXCEPT ![p] = o]
  /\ stamp' = [stamp EXCEPT ![p] = age]

Return(p) == Enter(p, "none", "idle", NoMsg, NoOwner, 0) /\ UNCHANGED todo

At(p, call, step) == op[p] = call /\ pc[p] = step

\* The owner stops working on m, in whichever of its processes it did.
OwnerDone(o, m) ==
  held' = [q \in Procs |-> IF OwnerOf[q] = o THEN held[q] \ {m} ELSE held[q]]

-----------------------------------------------------------------------------
(* read() *)

\* The head of the inbox does not validate, or was sent by a non-member.
ReadQuarantine(p, m) ==
  /\ pc[p] = "idle" /\ m \in inbox \cap (Malformed \cup Foreign)
  /\ inbox' = inbox \ {m} /\ corrupt' = corrupt \cup {m}
  /\ UNCHANGED <<processing, archive, deleted, claim, lock, local, ghost>>

\* A valid message is chosen and the temporary claim is written.
ReadPick(p, m) ==
  /\ pc[p] = "idle" /\ m \in inbox \ (Malformed \cup Foreign)
  /\ Enter(p, "read", "link", m, OwnerOf[p], 0)
  /\ UNCHANGED <<dirs, claim, lock, todo, ghost>>

\* os.link(tmp_claim, claim_file): publish, or find the name taken.
ReadLink(p) ==
  /\ At(p, "read", "link")
  /\ \/ /\ ~Claimed(msg[p], sub[p])
        /\ Publish(msg[p], sub[p], stamp[p])
        /\ Goto(p, "move")
     \/ /\ Claimed(msg[p], sub[p])
        /\ Goto(p, "blocked")
        /\ UNCHANGED claim
  /\ UNCHANGED <<dirs, lock, ghost>>

\* Mutant: the rename is taken for done whether or not the message is there.
ReadMoveUnchecked(p) ==
  /\ At(p, "read", "move")
  /\ inbox' = inbox \ {msg[p]}
  /\ processing' = processing \cup {msg[p]}
  /\ held' = [held EXCEPT ![p] = @ \cup {msg[p]}]
  /\ taker' = [taker EXCEPT ![msg[p]] = p]
  /\ Return(p)
  /\ UNCHANGED <<archive, corrupt, deleted, claim, lock, reaped, crashes>>

\* os.replace(inbox -> processing); when the message is gone the claim file
\* of this owner is unlinked and the inbox is scanned again.
ReadMove(p) ==
  /\ At(p, "read", "move")
  /\ \/ /\ msg[p] \in inbox
        /\ inbox' = inbox \ {msg[p]}
        /\ processing' = processing \cup {msg[p]}
        /\ held' = [held EXCEPT ![p] = @ \cup {msg[p]}]
        /\ taker' = [taker EXCEPT ![msg[p]] = p]
        /\ UNCHANGED claim
     \/ /\ msg[p] \notin inbox
        /\ Unlink(msg[p], sub[p])
        /\ UNCHANGED <<inbox, processing, held, taker>>
  /\ Return(p)
  /\ UNCHANGED <<archive, corrupt, deleted, lock, reaped, crashes>>

\* _reap_expired_claim before the lock: a fresh or vanished claim means
\* that the message is contested and read() skips it.
ReapCheck(p) ==
  /\ At(p, "read", "blocked")
  /\ \/ /\ Expired(claim[msg[p]][sub[p]])
        /\ Enter(p, "reap", "lock", msg[p], sub[p], claim[msg[p]][sub[p]])
        /\ UNCHANGED todo
     \/ /\ ~Expired(claim[msg[p]][sub[p]])
        /\ Return(p)
  /\ UNCHANGED <<dirs, claim, lock, ghost>>

-----------------------------------------------------------------------------
(* recover_stale() *)

\* glob(".claim-*.json"): the files the call will visit.
RecoverStart(p) ==
  /\ pc[p] = "idle" /\ ClaimFiles # {}
  /\ Enter(p, "recover", "scan", NoMsg, NoOwner, 0)
  /\ todo' = [todo EXCEPT ![p] = ClaimFiles]
  /\ UNCHANGED <<dirs, claim, lock, ghost>>

\* The next claim file is read; one that vanished is skipped.
RecoverRead(p, m, o) ==
  /\ At(p, "recover", "scan") /\ <<m, o>> \in todo[p]
  /\ todo' = [todo EXCEPT ![p] = @ \ {<<m, o>>}]
  /\ IF Claimed(m, o)
     THEN Enter(p, "recover", "lock", m, o, claim[m][o])
     ELSE UNCHANGED <<op, pc, msg, sub, stamp>>
  /\ UNCHANGED <<dirs, claim, lock, ghost>>

RecoverEnd(p) ==
  /\ At(p, "recover", "scan") /\ todo[p] = {}
  /\ Return(p)
  /\ UNCHANGED <<dirs, claim, lock, ghost>>

\* Both recovery paths: take the flock and read the claim again; a claim
\* that vanished meanwhile keeps the time stamp read before the lock.
CurrentStamp(p) ==
  IF Claimed(msg[p], sub[p]) THEN claim[msg[p]][sub[p]] ELSE stamp[p]

TakeLock(p) ==
  /\ lock[msg[p]][sub[p]] = NoProc
  /\ lock' = [lock EXCEPT ![msg[p]][sub[p]] = p]

DropLock(p) == lock' = [lock EXCEPT ![msg[p]][sub[p]] = NoProc]

RecoveryLock(p) ==
  /\ op[p] \in {"reap", "recover"} /\ pc[p] = "lock"
  /\ TakeLock(p)
  /\ pc' = [pc EXCEPT ![p] = "act"]
  /\ stamp' = [stamp EXCEPT ![p] = CurrentStamp(p)]
  /\ UNCHANGED <<dirs, claim, op, msg, sub, todo, ghost>>

\* Mutant: an early exit from the critical section keeps the flock.
LeaveLocked(p) ==
  /\ UNCHANGED lock
  /\ IF op[p] = "recover"
     THEN Enter(p, "recover", "scan", NoMsg, NoOwner, 0) /\ UNCHANGED todo
     ELSE Return(p)

\* Leaving the critical section: read() returns to its scan of the inbox,
\* recover_stale() to its next claim file.
Leave(p) ==
  /\ DropLock(p)
  /\ IF op[p] = "recover"
     THEN Enter(p, "recover", "scan", NoMsg, NoOwner, 0) /\ UNCHANGED todo
     ELSE Return(p)

RecoveryKeep(p) ==
  /\ op[p] \in {"reap", "recover"} /\ pc[p] = "act"
  /\ \/ msg[p] \in processing /\ ~Expired(stamp[p])
     \/ op[p] = "reap" /\ ~Expired(stamp[p])
     \/ op[p] = "recover" /\ msg[p] \notin processing /\ stamp[p] <= OrphanAgeGate
  /\ Leave(p)
  /\ UNCHANGED <<dirs, claim, ghost>>

\* An orphan claim, whose message is not in processing/, is only unlinked.
RecoveryOrphan(p) ==
  /\ op[p] \in {"reap", "recover"} /\ pc[p] = "act"
  /\ msg[p] \notin processing
  /\ IF op[p] = "recover" THEN stamp[p] > OrphanAgeGate ELSE Expired(stamp[p])
  /\ Goto(p, "unlink")
  /\ UNCHANGED <<dirs, claim, lock, ghost>>

RecoveryMove(p) ==
  /\ op[p] \in {"reap", "recover"} /\ pc[p] = "act"
  /\ msg[p] \in processing /\ Expired(stamp[p])
  /\ processing' = processing \ {msg[p]} /\ inbox' = inbox \cup {msg[p]}
  /\ reaped' = reaped \cup {msg[p]}
  /\ Goto(p, "unlink")
  /\ UNCHANGED <<archive, corrupt, deleted, claim, lock, held, taker, crashes>>

RecoveryUnlink(p) ==
  /\ op[p] \in {"reap", "recover"} /\ pc[p] = "unlink"
  /\ Unlink(msg[p], sub[p])
  /\ reaped' = reaped \cup {msg[p]}
  /\ Leave(p)
  /\ UNCHANGED <<dirs, held, taker, crashes>>

-----------------------------------------------------------------------------
(* renew_claim() *)

RenewStart(p, m) ==
  /\ pc[p] = "idle" /\ m \in processing /\ Cardinality(Claims(m)) = 1
  /\ Enter(p, "renew", "lock", m, OwnerOf[p], 0)
  /\ UNCHANGED <<dirs, claim, lock, todo, ghost>>

\* Mutant: renew_claim rewrites the claim without taking the flock.
RenewUnlocked(p) ==
  /\ At(p, "renew", "lock")
  /\ IF msg[p] \in processing /\ Claims(msg[p]) = {sub[p]}
     THEN Goto(p, "write") ELSE Return(p)
  /\ UNCHANGED <<dirs, claim, lock, ghost>>

\* Under the lock everything is checked again, and the owner as well.
RenewLock(p) ==
  /\ At(p, "renew", "lock")
  /\ \/ /\ msg[p] \in processing /\ Claims(msg[p]) = {sub[p]}
        /\ TakeLock(p)
        /\ Goto(p, "write")
     \/ /\ ~(msg[p] \in processing /\ Claims(msg[p]) = {sub[p]})
        /\ lock[msg[p]][sub[p]] = NoProc
        /\ Return(p)
        /\ UNCHANGED lock
  /\ UNCHANGED <<dirs, claim, ghost>>

\* os.replace of the claim file: creates it again if it was unlinked.
RenewWrite(p) ==
  /\ At(p, "renew", "write")
  /\ Publish(msg[p], sub[p], 0)
  /\ Goto(p, "verify")
  /\ UNCHANGED <<dirs, lock, ghost>>

\* Self-heal: the message left processing/, so the claim is removed again.
RenewVerify(p) ==
  /\ At(p, "renew", "verify")
  /\ IF msg[p] \in processing THEN UNCHANGED claim ELSE Unlink(msg[p], sub[p])
  /\ DropLock(p)
  /\ Return(p)
  /\ UNCHANGED <<dirs, ghost>>

-----------------------------------------------------------------------------
(* finalize(), release() and finalize_from_inbox(): no lock is taken *)

FinalizeCheck(p, m) ==
  /\ pc[p] = "idle" /\ m \in processing /\ Claims(m) = {OwnerOf[p]}
  /\ Enter(p, "finalize", "move", m, OwnerOf[p], 0)
  /\ UNCHANGED <<dirs, claim, lock, todo, ghost>>

\* os.replace raises when the message left processing/ since the check.
FinalizeMove(p) ==
  /\ At(p, "finalize", "move")
  /\ \/ /\ msg[p] \in processing
        /\ processing' = processing \ {msg[p]} /\ archive' = archive \cup {msg[p]}
        /\ OwnerDone(OwnerOf[p], msg[p])
        /\ Goto(p, "unlink")
     \/ /\ msg[p] \notin processing
        /\ Return(p)
        /\ UNCHANGED <<processing, archive, held>>
  /\ UNCHANGED <<inbox, corrupt, deleted, claim, lock, taker, reaped, crashes>>

\* Mutant: release() does not compare the owner of the claim.
ReleaseCheckAnyOwner(p, m) ==
  /\ pc[p] = "idle" /\ m \in processing /\ Cardinality(Claims(m)) <= 1
  /\ Enter(p, "release", "move", m, OwnerOf[p], 0)
  /\ UNCHANGED <<dirs, claim, lock, todo, ghost>>

\* A message without any claim may be released by anyone.
ReleaseCheck(p, m) ==
  /\ pc[p] = "idle" /\ m \in processing
  /\ \/ Claims(m) = {} /\ Enter(p, "release", "move", m, NoOwner, 0)
     \/ Claims(m) = {OwnerOf[p]} /\ Enter(p, "release", "move", m, OwnerOf[p], 0)
  /\ UNCHANGED <<dirs, claim, lock, todo, ghost>>

\* Mutant: release() writes the message back from memory when it is gone.
ReleaseMoveUnchecked(p) ==
  /\ At(p, "release", "move")
  /\ processing' = processing \ {msg[p]} /\ inbox' = inbox \cup {msg[p]}
  /\ OwnerDone(OwnerOf[p], msg[p])
  /\ IF sub[p] = NoOwner THEN Return(p) ELSE Goto(p, "unlink")
  /\ UNCHANGED <<archive, corrupt, deleted, claim, lock, taker, reaped, crashes>>

ReleaseMove(p) ==
  /\ At(p, "release", "move")
  /\ \/ /\ msg[p] \in processing
        /\ processing' = processing \ {msg[p]} /\ inbox' = inbox \cup {msg[p]}
        /\ OwnerDone(OwnerOf[p], msg[p])
        /\ IF sub[p] = NoOwner THEN Return(p) ELSE Goto(p, "unlink")
     \/ /\ msg[p] \notin processing
        /\ Return(p)
        /\ UNCHANGED <<inbox, processing, held>>
  /\ UNCHANGED <<archive, corrupt, deleted, claim, lock, taker, reaped, crashes>>

\* The last step of finalize() and of release(): drop the claim file.
OwnUnlink(p) ==
  /\ op[p] \in {"finalize", "release"} /\ pc[p] = "unlink"
  /\ Unlink(msg[p], sub[p])
  /\ Return(p)
  /\ UNCHANGED <<dirs, lock, ghost>>

\* inbox/ is looked at first; in processing/ a foreign claim is an error.
AckCheck(p, m) ==
  /\ pc[p] = "idle"
  /\ \/ m \in inbox /\ Enter(p, "ack", "ackInbox", m, NoOwner, 0)
     \/ /\ m \in processing \ inbox /\ Claims(m) \subseteq {OwnerOf[p]}
        /\ Enter(p, "ack", "ackProcessing", m, NoOwner, 0)
  /\ UNCHANGED <<dirs, claim, lock, todo, ghost>>

\* The claim file, if there is one, stays behind.
AckMove(p) ==
  /\ op[p] = "ack"
  /\ \/ /\ pc[p] = "ackInbox" /\ msg[p] \in inbox
        /\ inbox' = inbox \ {msg[p]} /\ archive' = archive \cup {msg[p]}
        /\ OwnerDone(OwnerOf[p], msg[p])
        /\ UNCHANGED processing
     \/ /\ pc[p] = "ackProcessing" /\ msg[p] \in processing
        /\ processing' = processing \ {msg[p]} /\ archive' = archive \cup {msg[p]}
        /\ OwnerDone(OwnerOf[p], msg[p])
        /\ UNCHANGED inbox
     \/ /\ \/ pc[p] = "ackInbox" /\ msg[p] \notin inbox
           \/ pc[p] = "ackProcessing" /\ msg[p] \notin processing
        /\ UNCHANGED <<inbox, processing, archive, held>>
  /\ Return(p)
  /\ UNCHANGED <<corrupt, deleted, claim, lock, taker, reaped, crashes>>

-----------------------------------------------------------------------------
(* check(), clear() and purge() *)

\* The legacy reader archives or quarantines straight from the inbox; it
\* does not look at the roster.
CheckLegacy(p, m) ==
  /\ pc[p] = "idle" /\ m \in inbox
  /\ inbox' = inbox \ {m}
  /\ IF m \in Malformed
     THEN corrupt' = corrupt \cup {m} /\ UNCHANGED archive
     ELSE archive' = archive \cup {m} /\ UNCHANGED corrupt
  /\ UNCHANGED <<processing, deleted, claim, lock, local, ghost>>

\* With prune_stale, clear() goes on as recover_stale().
Clear(p, prune_stale) ==
  /\ pc[p] = "idle" /\ archive # {}
  /\ archive' = {} /\ deleted' = deleted \cup archive
  /\ IF prune_stale
     THEN /\ Enter(p, "recover", "scan", NoMsg, NoOwner, 0)
          /\ todo' = [todo EXCEPT ![p] = ClaimFiles]
     ELSE UNCHANGED local
  /\ UNCHANGED <<inbox, processing, corrupt, claim, lock, ghost>>

Purge(p) ==
  /\ pc[p] = "idle" /\ corrupt # {}
  /\ corrupt' = {} /\ deleted' = deleted \cup corrupt
  /\ UNCHANGED <<inbox, processing, archive, claim, lock, local, ghost>>

-----------------------------------------------------------------------------
(* The environment: time and crashes *)

Older(age) == IF age < MaxAge THEN age + 1 ELSE MaxAge

Tick ==
  /\ Prompt => \A p \in Procs : pc[p] = "idle"
  /\ claim' = [m \in Msgs |-> [o \in Owners |->
                 IF Claimed(m, o) THEN Older(claim[m][o]) ELSE NoClaim]]
  /\ stamp' = [p \in Procs |-> IF pc[p] = "idle" THEN 0 ELSE Older(stamp[p])]
  /\ UNCHANGED <<dirs, lock, op, pc, msg, sub, todo, ghost>>

\* A process dies: the kernel drops its flock, its work is abandoned.
Crash(p) ==
  /\ crashes < MaxCrashes /\ (pc[p] # "idle" \/ held[p] # {})
  /\ crashes' = crashes + 1
  /\ held' = [held EXCEPT ![p] = {}]
  /\ lock' = [m \in Msgs |-> [o \in Owners |->
                IF lock[m][o] = p THEN NoProc ELSE lock[m][o]]]
  /\ Enter(p, "none", "idle", NoMsg, NoOwner, 0)
  /\ todo' = [todo EXCEPT ![p] = {}]
  /\ UNCHANGED <<dirs, claim, taker, reaped>>

\* The steps of a store call that p is already in.
Continue(p) ==
  \/ ReadLink(p) \/ ReadMove(p) \/ ReapCheck(p)
  \/ (\E m \in Msgs, o \in Owners : RecoverRead(p, m, o)) \/ RecoverEnd(p)
  \/ RecoveryLock(p) \/ RecoveryKeep(p) \/ RecoveryOrphan(p)
  \/ RecoveryMove(p) \/ RecoveryUnlink(p)
  \/ RenewLock(p) \/ RenewWrite(p) \/ RenewVerify(p)
  \/ FinalizeMove(p) \/ ReleaseMove(p) \/ OwnUnlink(p) \/ AckMove(p)

\* A new store call.
Call(p) ==
  \/ \E m \in Msgs :
       \/ ReadQuarantine(p, m) \/ ReadPick(p, m) \/ CheckLegacy(p, m)
       \/ RenewStart(p, m) \/ FinalizeCheck(p, m) \/ ReleaseCheck(p, m)
       \/ AckCheck(p, m)
  \/ RecoverStart(p) \/ Purge(p)
  \/ \E prune \in BOOLEAN : Clear(p, prune)

Next == Tick \/ \E p \in Procs : Call(p) \/ Continue(p) \/ Crash(p)

Spec == Init /\ [][Next]_vars

\* A process keeps running the call it is in (flock queues its waiters, so a
\* waiter gets the lock), time passes, and recover-stale is run again and again
\* (operators are told to run it at start-up and when stats shows a non-zero
\* processing count).
Fairness ==
  /\ WF_vars(Tick)
  /\ \A p \in Procs : SF_vars(Continue(p)) /\ SF_vars(RecoverStart(p))

LiveSpec == Spec /\ Fairness
-----------------------------------------------------------------------------
(* Properties *)

\* No store call loses a message or leaves it in two directories: at every
\* instant, in the middle of any call and after any crash, a message is in
\* exactly one of inbox, processing, archive, _corrupt, or was deleted by
\* clear() or purge() (the os.replace moves of store.py).
ExactlyOnePlace ==
  /\ inbox \cup processing \cup archive \cup corrupt \cup deleted = Msgs
  /\ inbox \cap (processing \cup archive \cup corrupt \cup deleted) = {}
  /\ processing \cap (archive \cup corrupt \cup deleted) = {}
  /\ archive \cap (corrupt \cup deleted) = {}
  /\ corrupt \cap deleted = {}

OneProcPerOwner == \A p, q \in Procs : OwnerOf[p] = OwnerOf[q] => p = q

\* Claims are exclusive: when every owner runs its calls one at a time, a
\* message that lease recovery never touched is worked on by at most one
\* process, and stays in processing/ under that process's claim, whatever
\* the other readers, finalizers, releasers and crashes do.
ExclusiveWork ==
  OneProcPerOwner =>
    \A m \in Msgs \ reaped, p \in Procs :
      m \in held[p] =>
        /\ m \in processing
        /\ \A q \in Procs \ {p} : m \notin held[q]

\* The flock does its job: while recovery is deciding on a claim no renewal
\* of that claim is in progress, so a renewal is never undone behind a
\* running task (the P2-2 comments of renew_claim and recover_stale).
RenewExcludesRecovery ==
  \A p, q \in Procs :
    (/\ op[p] = "renew" /\ pc[p] \in {"write", "verify"}
     /\ op[q] \in {"reap", "recover"} /\ pc[q] \in {"act", "unlink"})
       => <<msg[p], sub[p]>> # <<msg[q], sub[q]>>

\* An abandoned message comes back: a claimed message that no process works on
\* leaves processing/ unless somebody renews its lease or its last claim file
\* is lost.
AbandonedIsRecovered ==
  \A m \in Msgs :
    (m \in processing /\ Claims(m) # {} /\ \A p \in Procs : m \notin held[p])
      ~> \/ m \notin processing \/ Claims(m) = {}
         \/ \E p \in Procs : At(p, "renew", "verify") /\ msg[p] = m

\* Terminal directories: no step takes a message out of archive/ or _corrupt/
\* back into the queue, in particular no late recovery or release of a
\* message that was finalized meanwhile.
FinalizedStaysFinalized ==
  [][\A m \in archive \cup corrupt \cup deleted :
        m \notin inbox' \cup processing']_vars
-----------------------------------------------------------------------------
(* The inductive invariant behind ExclusiveWork and RenewExcludesRecovery *)

\* Where a process inside a call can be, and what the call works on.
CallShape ==
  \A p \in Procs :
    /\ pc[p] \in {"link", "blocked"} => op[p] = "read"
    /\ pc[p] \in {"write", "verify"} => op[p] = "renew"
    /\ pc[p] = "act" => op[p] \in {"reap", "recover"}
    /\ pc[p] = "lock" => op[p] \in {"reap", "recover", "renew"}
    /\ pc[p] = "move" => op[p] \in {"read", "finalize", "release"}
    /\ pc[p] = "unlink" => op[p] \in {"reap", "recover", "finalize", "release"}
    /\ pc[p] \notin {"idle", "scan"} => msg[p] \in Msgs
    /\ pc[p] \in {"link", "blocked", "lock", "act", "write", "verify", "unlink"} =>
         sub[p] \in Owners
    /\ op[p] \in {"read", "renew", "finalize"} => sub[p] = OwnerOf[p]
    /\ op[p] = "release" => sub[p] \in {NoOwner, OwnerOf[p]}
    /\ pc[p] = "idle" => op[p] = "none"
    /\ pc[p] = "scan" => op[p] = "recover"
    /\ pc[p] \in {"ackInbox", "ackProcessing"} => op[p] = "ack"

\* A process in a critical section holds the flock of the claim it works on.
InCritical(p) ==
  \/ op[p] \in {"reap", "recover"} /\ pc[p] \in {"act", "unlink"}
  \/ op[p] = "renew" /\ pc[p] \in {"write", "verify"}

LockHeld == \A p \in Procs : InCritical(p) => lock[msg[p]][sub[p]] = p

\* The message that m's taker works on is guarded by the taker's claim, and the
\* taker is not in a call that is about to remove that claim.
TakerGuards(m) ==
  m \in processing =>
    /\ taker[m] \in Procs
    /\ Claimed(m, OwnerOf[taker[m]])
    /\ msg[taker[m]] = m =>
         /\ op[taker[m]] # "read"
         /\ ~(op[taker[m]] \in {"finalize", "release"} /\ pc[taker[m]] = "unlink")

\* A reader that has published its claim still has it.
ReaderGuards(m) ==
  \A p \in Procs : (At(p, "read", "move") /\ msg[p] = m) => Claimed(m, OwnerOf[p])

\* Only the taker gets past the owner checks of finalize, release and ack.
OnlyTakerMoves(m) ==
  \A p \in Procs :
    (/\ msg[p] = m
     /\ \/ pc[p] = "ackProcessing"
        \/ op[p] \in {"finalize", "release"} /\ pc[p] = "move")
      => m \in processing /\ taker[m] = p

HeldIsTaken(m) ==
  \A p \in Procs : m \in held[p] => m \in processing /\ taker[m] = p

Guarded(m) ==
  TakerGuards(m) /\ ReaderGuards(m) /\ OnlyTakerMoves(m) /\ HeldIsTaken(m)

ClaimInv ==
  /\ TypeOK /\ ExactlyOnePlace /\ CallShape /\ LockHeld
  /\ OneProcPerOwner => \A m \in Msgs \ reaped : Guarded(m)
=============================================================================

----------------------------- MODULE MailboxRead -----------------------------
(***************************************************************************)
(* MailboxService.read (mailbox/service.py): a message that asks for an    *)
(* acknowledgement is claimed only if its sender is in the session, so     *)
(* that the READ receipt has a way back; otherwise a marker parks it and   *)
(* later messages go first.  The inspection and the claim are two steps    *)
(* under a lock that only this call takes: the receiver and ack move       *)
(* messages without it, a claim may be released, and the roster may grow.  *)
(*                                                                         *)
(* A message is its place in the inbox's order.                            *)
(***************************************************************************)
EXTENDS Naturals, FiniteSets, FiniteSetsExt

CONSTANTS Readers,     \* processes that read for the agent
          NoReader,
          NMessages,
          AckAsked,    \* messages that ask for an acknowledgement
          Stranger     \* those of a sender that is not in the roster at first

ASSUME ReadAssumption == /\ NMessages \in Nat /\ AckAsked \subseteq 1 .. NMessages /\ Stranger \subseteq 1 .. NMessages
                         /\ NoReader \notin Readers

VARIABLES
    inboxed,   \* messages in the inbox
    held,      \* per message: the process that has claimed it
    parked,    \* markers in _ack_unresolved/
    joined,    \* the stranger has joined the session
    readLock,  \* .read.lock
    rd,        \* per process: step, the message it inspected
    receipts,  \* messages whose READ receipt was delivered
    done       \* messages that were consumed

readVars == <<inboxed, held, parked, joined, readLock, rd, receipts, done>>

Message == 1 .. NMessages
Resting == [at |-> "idle", msg |-> 0]

ReadTypeOK ==
    /\ inboxed \cup parked \cup receipts \cup done \subseteq Message
    /\ held \in [Message -> Readers \cup {NoReader}] /\ joined \in BOOLEAN
    /\ readLock \in Readers \cup {NoReader}
    /\ rd \in [Readers -> [at: {"idle", "locked", "inspected", "receipt", "work"}, msg: 0 .. NMessages]]

ReadInit ==
    /\ inboxed = Message /\ held = [m \in Message |-> NoReader] /\ parked = {}
    /\ joined = FALSE /\ readLock = NoReader /\ rd = [r \in Readers |-> Resting]
    /\ receipts = {} /\ done = {}

\* _sender_resolvable: manager or agent of session.json.
Resolvable(m) == m \notin Stranger \/ joined

Lock(r) ==
    /\ rd[r] = Resting /\ readLock = NoReader
    /\ readLock' = r /\ rd' = [rd EXCEPT ![r].at = "locked"]
    /\ UNCHANGED <<inboxed, held, parked, joined, receipts, done>>

Return(r) == rd' = [rd EXCEPT ![r] = Resting] /\ readLock' = NoReader

\* Nothing is done in an empty inbox.  Otherwise the markers whose sender can
\* be resolved are removed; then the message that was asked for, or the oldest
\* one without a marker, is looked at.
Inspect(r, target) ==
    /\ rd[r].at = "locked"
    /\ LET marks == {m \in parked : ~Resolvable(m)}
           open  == IF target # 0 THEN inboxed \cap {target} ELSE inboxed \ marks
       IN  \/ inboxed = {} /\ Return(r) /\ UNCHANGED parked
           \/ inboxed # {} /\ open = {} /\ parked' = marks /\ Return(r)
           \/ /\ open # {}
              /\ LET m == Min(open)
                 IN  IF m \in AckAsked /\ ~Resolvable(m)
                     THEN parked' = marks \cup {m} /\ Return(r)
                     ELSE /\ parked' = marks /\ UNCHANGED readLock
                          /\ rd' = [rd EXCEPT ![r] = [at |-> "inspected", msg |-> m]]
    /\ UNCHANGED <<inboxed, held, joined, receipts, done>>

\* store.read(target_msg_id): exactly the inspected message.
\* Mutant: the oldest message without a marker.
ClaimableMut(r) == {m \in inboxed : m \notin parked /\ \A q \in inboxed \ parked : m <= q}
Claimable(r) == inboxed \cap {rd[r].msg}

Claim(r) ==
    /\ rd[r].at = "inspected"
    /\ IF Claimable(r) = {} THEN Return(r) /\ UNCHANGED <<inboxed, held>>
       ELSE \E m \in Claimable(r) :
              /\ inboxed' = inboxed \ {m} /\ held' = [held EXCEPT ![m] = r]
              /\ rd' = [rd EXCEPT ![r] = [at |-> "receipt", msg |-> m]]
              /\ readLock' = NoReader
    /\ UNCHANGED <<parked, joined, receipts, done>>

\* _emit_read_receipt: through the sink, or else the store; both may fail, and
\* the claim stays.
Receipt(r) ==
    /\ rd[r].at = "receipt"
    /\ LET m == rd[r].msg
       IN  receipts' \in IF m \in AckAsked THEN {receipts, receipts \cup {m}} ELSE {receipts}
    /\ rd' = [rd EXCEPT ![r].at = "work"]
    /\ UNCHANGED <<inboxed, held, parked, joined, readLock, done>>

\* The caller finalizes or releases what it read.
Finish(r) ==
    /\ rd[r].at = "work"
    /\ LET m == rd[r].msg
       IN  /\ held' = [held EXCEPT ![m] = IF @ = r THEN NoReader ELSE @]
           /\ \/ held[m] = r /\ done' = done \cup {m} /\ UNCHANGED inboxed
              \/ held[m] = r /\ inboxed' = inboxed \cup {m} /\ UNCHANGED done
              \/ held[m] # r /\ UNCHANGED <<inboxed, done>>
    /\ rd' = [rd EXCEPT ![r] = Resting]
    /\ UNCHANGED <<parked, joined, readLock, receipts>>

\* A process is killed at any step; the system releases its lock.
Crash(r) ==
    /\ rd[r] # Resting
    /\ rd' = [rd EXCEPT ![r] = Resting]
    /\ readLock' = IF readLock = r THEN NoReader ELSE readLock
    /\ UNCHANGED <<inboxed, held, parked, joined, receipts, done>>

\* recover_stale: a claim whose process is gone or late goes back.
RecoverStale(m) ==
    /\ held[m] # NoReader
    /\ held' = [held EXCEPT ![m] = NoReader] /\ inboxed' = inboxed \cup {m}
    /\ UNCHANGED <<parked, joined, readLock, rd, receipts, done>>

\* finalize_from_inbox (receiver, ack): consumed without a read.
TakenElsewhere(m) ==
    /\ m \in inboxed
    /\ inboxed' = inboxed \ {m}
    /\ UNCHANGED <<held, parked, joined, readLock, rd, receipts, done>>

\* session_init adds the stranger to the roster.
Join ==
    /\ ~joined /\ joined' = TRUE
    /\ UNCHANGED <<inboxed, held, parked, readLock, rd, receipts, done>>

ReadNext ==
    \/ Join
    \/ \E m \in Message : RecoverStale(m) \/ TakenElsewhere(m)
    \/ \E r \in Readers : \/ Lock(r) \/ Claim(r) \/ Receipt(r) \/ Finish(r) \/ Crash(r)
                          \/ \E target \in 0 .. NMessages : Inspect(r, target)

ReadSpec == ReadInit /\ [][ReadNext]_readVars

-----------------------------------------------------------------------------
(* Properties *)

\* A read never claims a message that asks for an acknowledgement while its
\* sender cannot be resolved, although others consume, release and recover
\* messages between its inspection and its claim ("the require_ack discipline
\* cannot be bypassed by a TOCTOU", read).
AckDiscipline ==
    \A m \in AckAsked : held[m] # NoReader \/ m \in done => Resolvable(m)

\* The inductive invariant behind it: a reader past its inspection has a
\* message, and what it found claimable stays claimable, because the roster
\* only grows.
MayClaim(slot) ==
    /\ slot.at \in {"inspected", "receipt", "work"} => slot.msg # 0
    /\ slot.at = "inspected" /\ slot.msg \in AckAsked => Resolvable(slot.msg)
ReadInv == ReadTypeOK /\ (\A r \in Readers : MayClaim(rd[r])) /\ AckDiscipline

=============================================================================

--------------------------- MODULE DeliveryOutbox ---------------------------
(***************************************************************************)
(* DeliveryEngine (swarm/delivery.py) for one message: the durable outbox, *)
(* the .delivered marker, the .status directory with its attempt record,   *)
(* flush() with backoff, pause and dead-letter, the retention sweep, and   *)
(* the dead-letter commands of the operator.  Several processes (a kernel, *)
(* a gateway, the CLI) run an engine each over the same directories; each  *)
(* has a receipt cache of its own and may die between any two steps.       *)
(* The transport may fail before or after the envelope reached the         *)
(* recipient's inbox.  The receiving store (module MailboxSend) takes a    *)
(* repeated envelope as a replay.                                          *)
(***************************************************************************)
EXTENDS Integers

CONSTANTS
  Engines,      \* processes with a DeliveryEngine
  Local,        \* TRUE: the recipient is on this host, store.send() writes history
  MaxAttempts,  \* _max_attempts
  MaxCrashes,   \* bound on crashes
  MaxAges       \* bound on how often retention_days go by

ASSUME OutboxAssumption ==
  /\ Local \in BOOLEAN
  /\ MaxAttempts \in Nat \ {0} /\ MaxCrashes \in Nat /\ MaxAges \in Nat

VARIABLES
  env,       \* where the envelope file is: a set of "outbox", "dead"
  marker,    \* .delivered-<id>: "none", "fresh", "old" (past retention)
  status,    \* .status-<id>/: [phase, attempts, terminal, due, paused, probe, old]
  hist,      \* the session history has the record
  arrived,   \* the envelope has been in the recipient's inbox
  accepted,  \* deliver() has returned accepted or delivered to a caller
  purged,    \* the operator has purged the dead letter
  cache,     \* per engine: the receipt it remembers
  pc,        \* per engine: step
  crashes, ages

vars == <<env, marker, status, hist, arrived, accepted, purged, cache, pc, crashes, ages>>

Receipts == {"none", "failed", "accepted", "delivered"}
Steps == {"idle", "write", "sendFirst", "noteFailure", "markFirst", "send", "mark", "record",
          "recordTerminal", "recordRetry", "deadMove", "deadStatus", "sweepEnv"}

\* What the status directory says; "due", "probe": the wait is over.
NoStatus == [phase |-> "none", attempts |-> 0, terminal |-> FALSE,
             due |-> TRUE, paused |-> FALSE, probe |-> FALSE, old |-> FALSE]
StatusType ==
  [phase : {"none", "error", "consumed"}, attempts : 0 .. MaxAttempts, terminal : BOOLEAN,
   due : BOOLEAN, paused : BOOLEAN, probe : BOOLEAN, old : BOOLEAN]

\* Every variable has its type.
TypeOK ==
  /\ env \subseteq {"outbox", "dead"} /\ marker \in {"none", "fresh", "old"}
  /\ status \in StatusType
  /\ hist \in BOOLEAN /\ arrived \in BOOLEAN /\ accepted \in BOOLEAN
  /\ purged \in BOOLEAN
  /\ cache \in [Engines -> Receipts] /\ pc \in [Engines -> Steps]
  /\ crashes \in 0 .. MaxCrashes /\ ages \in 0 .. MaxAges

Init ==
  /\ env = {} /\ marker = "none" /\ status = NoStatus
  /\ hist = FALSE /\ arrived = FALSE /\ accepted = FALSE /\ purged = FALSE
  /\ cache = [e \in Engines |-> "none"] /\ pc = [e \in Engines |-> "idle"]
  /\ crashes = 0 /\ ages = 0

disk == <<env, marker, status, hist>>
world == <<arrived, purged, crashes, ages>>
-----------------------------------------------------------------------------
Goto(e, step) == pc' = [pc EXCEPT ![e] = step]
Remember(e, receipt) == cache' = [cache EXCEPT ![e] = receipt]

Pending == "outbox" \in env

(* deliver() *)

\* The idempotency check: a receipt in memory, or one rebuilt from the files.
DeliverKnown(e) ==
  /\ pc[e] = "idle" /\ (cache[e] # "none" \/ Pending)
  /\ LET receipt == IF cache[e] # "none" THEN cache[e]
                    ELSE IF marker # "none" THEN "delivered" ELSE "accepted"
     IN  /\ Remember(e, receipt)
         /\ accepted' = (accepted \/ receipt # "failed")
  /\ UNCHANGED <<disk, world, pc>>

\* A new message is going to be written to the outbox.
DeliverNew(e) ==
  /\ pc[e] = "idle" /\ cache[e] = "none" /\ ~Pending
  /\ Goto(e, "write")
  /\ UNCHANGED <<disk, world, accepted, cache>>

\* _write_outbox(): the envelope is durable, or the call fails.
WriteOutbox(e) ==
  /\ pc[e] = "write"
  /\ \/ /\ env' = env \cup {"outbox"}
        /\ Remember(e, "accepted") /\ Goto(e, "sendFirst")
     \/ UNCHANGED env /\ Remember(e, "failed") /\ Goto(e, "idle")
  /\ UNCHANGED <<marker, status, hist, accepted, world>>

\* What an attempt leaves behind: the envelope in the inbox, the history record.
Leaves(reaches, records) ==
  /\ arrived' = (arrived \/ reaches)
  /\ hist' = (hist \/ records)

\* The transport succeeds; a local store.send() has also written the history.
Succeed == Leaves(TRUE, Local)

\* The transport fails, before or after the envelope got to the inbox; a local
\* store.send() may have failed on either side of the history record.
Fail ==
  \E reaches, records \in BOOLEAN : (records => reaches /\ Local) /\ Leaves(reaches, records)

\* The first attempt.
SendFirst(e) ==
  /\ pc[e] = "sendFirst"
  /\ \/ Succeed /\ Goto(e, "markFirst")
     \/ Fail /\ Goto(e, "noteFailure")
  /\ UNCHANGED <<env, marker, status, accepted, purged, cache, crashes, ages>>

\* _write_status("transport_failed"): the phase file is overwritten, and the
\* caller gets "accepted".
NoteFailure(e) ==
  /\ pc[e] = "noteFailure"
  /\ status' = [status EXCEPT !.phase = "error", !.old = FALSE]
  /\ accepted' = TRUE /\ Goto(e, "idle")
  /\ UNCHANGED <<env, marker, hist, cache, world>>

(* flush() *)

\* _attempt_due(): terminal entries are left alone, others wait.
RetryDue == ~status.terminal /\ status.due

\* flush() picks the entry up: it is neither delivered nor consumed, it is due,
\* and a pause has run out (which clears it).
FlushPick(e) ==
  /\ pc[e] = "idle" /\ Pending
  /\ marker = "none" /\ status.phase # "consumed"
  /\ status.paused => status.probe
  /\ RetryDue
  /\ status' = IF status.paused THEN [status EXCEPT !.paused = FALSE, !.probe = FALSE, !.old = FALSE]
                                ELSE status
  /\ Goto(e, "send")
  /\ UNCHANGED <<env, marker, hist, accepted, cache, world>>

\* A pause has run out and the entry is not due: only the pause is cleared.
FlushUnpause(e) ==
  /\ pc[e] = "idle" /\ Pending
  /\ marker = "none" /\ status.phase # "consumed"
  /\ status.paused /\ status.probe /\ ~RetryDue
  /\ status' = [status EXCEPT !.paused = FALSE, !.probe = FALSE, !.old = FALSE]
  /\ UNCHANGED <<env, marker, hist, accepted, cache, pc, world>>

\* Mutant: the entry is marked without waiting for the transport.
FlushSendMarks(e) ==
  /\ pc[e] = "send" /\ Goto(e, "mark")
  /\ UNCHANGED <<disk, accepted, cache, world>>

\* The attempt succeeds, or fails for now or for good.
FlushSend(e) ==
  /\ pc[e] = "send"
  /\ \/ Succeed /\ Goto(e, "mark")
     \/ Fail /\ Goto(e, "recordRetry")
     \/ Leaves(FALSE, FALSE) /\ Goto(e, "recordTerminal")
  /\ UNCHANGED <<env, marker, status, accepted, purged, cache, crashes, ages>>

\* Wire version mismatch: the entry is paused, no attempt is counted.
PauseForUpgrade(e) ==
  /\ pc[e] = "send"
  /\ status' = [status EXCEPT !.paused = TRUE, !.probe = FALSE, !.terminal = FALSE, !.old = FALSE]
  /\ Goto(e, "idle")
  /\ UNCHANGED <<env, marker, hist, accepted, cache, world>>

\* Mutant: attempts are not counted.
RecordAttemptUncounted(terminal) ==
  status' = [status EXCEPT !.terminal = terminal, !.due = terminal, !.old = FALSE]

\* _record_attempt(): the count saturates at MaxAttempts in the model.
RecordAttempt(terminal) ==
  status' = [status EXCEPT
    !.attempts = IF @ < MaxAttempts THEN @ + 1 ELSE @,
    !.terminal = terminal,
    !.due = IF terminal THEN @ ELSE FALSE,
    !.old = FALSE]

\* _handle_flush_failure(): a terminal error, or the last attempt, leads to the
\* dead letter.
HandleFailure(e) ==
  LET terminal == pc[e] = "recordTerminal" IN
  /\ pc[e] \in {"recordRetry", "recordTerminal"}
  /\ RecordAttempt(terminal)
  /\ Goto(e, IF terminal \/ status'.attempts >= MaxAttempts THEN "deadMove" ELSE "idle")
  /\ UNCHANGED <<env, marker, hist, accepted, cache, world>>

\* Mutant: the envelope is dropped instead of moved.
DeadMoveDrops(e) ==
  /\ pc[e] = "deadMove"
  /\ env' = env \ {"outbox"} /\ Goto(e, "deadStatus")
  /\ UNCHANGED <<marker, status, hist, accepted, cache, world>>

\* _dead_letter(): the envelope is moved, unless it is gone.
DeadMove(e) ==
  /\ pc[e] = "deadMove"
  /\ \/ Pending /\ env' = {"dead"} /\ Goto(e, "deadStatus")
     \/ ~Pending /\ UNCHANGED env /\ Goto(e, "idle")
  /\ UNCHANGED <<marker, status, hist, accepted, cache, world>>

\* _dead_letter(): the status directory follows.
DeadStatus(e) ==
  /\ pc[e] = "deadStatus"
  /\ status' = NoStatus /\ Goto(e, "idle")
  /\ UNCHANGED <<env, marker, hist, accepted, cache, world>>

(* Success of either path *)

\* _mark_delivered().
MarkDelivered(e) ==
  /\ pc[e] \in {"mark", "markFirst"}
  /\ marker' = "fresh"
  /\ Goto(e, "record")
  /\ UNCHANGED <<env, status, hist, accepted, cache, world>>

\* The history record (an existing one stays, a failure is only logged) and the
\* receipt.
RecordHistory(e) ==
  /\ pc[e] = "record"
  /\ \E appended \in BOOLEAN : hist' = (hist \/ appended)
  /\ accepted' = TRUE
  /\ Remember(e, "delivered") /\ Goto(e, "idle")
  /\ UNCHANGED <<env, marker, status, world>>

(* ack(), sweep(), dead-letter commands *)

\* ack(..., "consumed"): the recipient has processed the message.
AckConsumed(e) ==
  /\ pc[e] = "idle" /\ arrived /\ Pending
  /\ status' = [status EXCEPT !.phase = "consumed", !.old = FALSE]
  /\ Remember(e, "delivered")
  /\ UNCHANGED <<env, marker, hist, arrived, accepted, purged, pc, crashes, ages>>

\* sweep(): an old marker goes first, then its envelope.
SweepMarker(e) ==
  /\ pc[e] = "idle" /\ marker = "old"
  /\ marker' = "none" /\ Goto(e, "sweepEnv")
  /\ UNCHANGED <<env, status, hist, accepted, cache, world>>

SweepEnv(e) ==
  /\ pc[e] = "sweepEnv"
  /\ env' = env \ {"outbox"} /\ Goto(e, "idle")
  /\ UNCHANGED <<marker, status, hist, accepted, cache, world>>

\* Mutant: a sweep that drops the envelope of a fresh entry with an old status.
SweepStatusDrops(e) ==
  /\ pc[e] = "idle" /\ marker # "old" /\ status.old
  /\ status' = NoStatus /\ env' = env \ {"outbox"}
  /\ UNCHANGED <<marker, hist, accepted, cache, pc, world>>

\* sweep(): an old status directory goes, whatever the entry's state.
SweepStatus(e) ==
  /\ pc[e] = "idle" /\ marker # "old" /\ status.old
  /\ status' = NoStatus
  /\ UNCHANGED <<env, marker, hist, accepted, cache, pc, world>>

\* dead_letter_requeue(): the envelope is moved back and the record reset.
Requeue ==
  /\ "dead" \in env
  /\ env' = {"outbox"}
  /\ status' = [status EXCEPT !.attempts = 0, !.terminal = FALSE, !.due = TRUE, !.old = FALSE]
  /\ UNCHANGED <<marker, hist, accepted, cache, pc, world>>

\* dead_letter_purge().
Purge ==
  /\ "dead" \in env
  /\ env' = env \ {"dead"} /\ purged' = TRUE
  /\ UNCHANGED <<marker, status, hist, arrived, accepted, cache, pc, crashes, ages>>

(* Time and crashes *)

\* Backoff and pause run out.
WaitOver ==
  /\ ~status.due \/ (status.paused /\ ~status.probe)
  /\ status' = [status EXCEPT !.due = TRUE, !.probe = status.paused]
  /\ UNCHANGED <<env, marker, hist, accepted, cache, pc, world>>

\* Retention days go by: what lies there is old.
Age ==
  /\ ages < MaxAges /\ ages' = ages + 1
  /\ marker' = IF marker = "none" THEN "none" ELSE "old"
  /\ status' = IF status = NoStatus THEN status
               ELSE [status EXCEPT !.old = TRUE, !.due = TRUE, !.probe = status.paused]
  /\ UNCHANGED <<env, hist, arrived, accepted, purged, cache, pc, crashes>>

\* A process dies, in or between calls, and starts again with an empty cache.
Crash(e) ==
  /\ crashes < MaxCrashes /\ (pc[e] # "idle" \/ cache[e] # "none")
  /\ crashes' = crashes + 1
  /\ Remember(e, "none") /\ Goto(e, "idle")
  /\ UNCHANGED <<disk, arrived, accepted, purged, ages>>

FlushStart(e) == FlushPick(e) \/ FlushUnpause(e)

Working(e) ==
  \/ WriteOutbox(e) \/ SendFirst(e) \/ NoteFailure(e)
  \/ FlushSend(e) \/ PauseForUpgrade(e) \/ HandleFailure(e)
  \/ DeadMove(e) \/ DeadStatus(e) \/ MarkDelivered(e) \/ RecordHistory(e) \/ SweepEnv(e)

Sweep(e) == SweepMarker(e) \/ SweepStatus(e)

Next ==
  \/ \E e \in Engines : \/ DeliverKnown(e) \/ DeliverNew(e) \/ FlushStart(e) \/ Working(e)
                        \/ AckConsumed(e) \/ Sweep(e) \/ Crash(e)
  \/ Requeue \/ Purge \/ WaitOver \/ Age

Spec == Init /\ [][Next]_vars

-----------------------------------------------------------------------------
(* Properties *)

\* Nothing a caller was told is accepted gets lost: the envelope waits in the
\* outbox or the dead letter, or it reached the recipient, unless the operator
\* purged it.
AcceptedNotLost == accepted => env # {} \/ arrived \/ purged

\* "delivered", as a marker or as a receipt, is never said of a message that
\* did not reach the recipient's inbox.
DeliveredIsTrue ==
  (marker # "none" \/ \E e \in Engines : cache[e] = "delivered") => arrived

\* No entry is retried for ever or forgotten: it is delivered, consumed,
\* dead-lettered, paused for an upgrade or marked terminal, however the
\* transport fails and wherever the process dies (flush, _record_attempt).
EntrySettles ==
  Pending ~> \/ ~Pending \/ marker # "none" \/ status.phase = "consumed"
             \/ status.paused \/ status.terminal

\* For a recipient on this host: the sweep drops an envelope only when the
\* session history has the message ("a delivered entry's durable record is the
\* session history/").
SweptHasHistory ==
  [][Local /\ Pending /\ env' = env \ {"outbox"} /\ "dead" \notin env' => hist]_vars
-----------------------------------------------------------------------------
(* Inductive invariant *)

\* The message is somewhere, or the operator threw it away.
Safe == env # {} \/ arrived \/ purged

\* Whoever says delivered, or is about to, or drops a delivered envelope, does so
\* of a message that has arrived.
DeliveredArrived ==
  /\ marker # "none" => arrived
  /\ \A e \in Engines :
       cache[e] = "delivered" \/ pc[e] \in {"mark", "markFirst", "record", "sweepEnv"}
         => arrived

\* Whatever a caller was told or is about to be told rests on a safe message.
AcceptedSafe ==
  /\ accepted => Safe
  /\ \A e \in Engines :
       cache[e] \in {"accepted", "delivered"} \/ pc[e] \in {"sendFirst", "noteFailure"} => Safe

\* On this host, what is marked delivered, or about to be, is in the history.
LocalRecorded ==
  Local =>
    /\ marker # "none" => hist
    /\ \A e \in Engines : pc[e] \in {"mark", "markFirst", "record", "sweepEnv"} => hist

OutboxInv == TypeOK /\ DeliveredArrived /\ AcceptedSafe /\ LocalRecorded
=============================================================================

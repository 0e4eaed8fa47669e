--------------------------- MODULE RequestLedger ---------------------------
(***************************************************************************)
(* The append-only event ledger of one request (class RequestLedger of     *)
(* mailbox/store.py): several processes reduce mailbox messages and        *)
(* artifact verdicts onto one events.jsonl, whose check-then-append is     *)
(* guarded by a flock, while a watchdog looks for stale runs.  A process   *)
(* may die anywhere; if the machine goes down inside the append, the last  *)
(* line may be torn, and the next append then completes a line that no     *)
(* reader can parse.                                                       *)
(***************************************************************************)
EXTENDS Integers, Sequences, FiniteSets

CONSTANTS
  Procs,       \* processes that write the ledger
  Runs,        \* run ids of the request
  NoProc,      \* the flock is free
  MaxCalls,    \* bound on the calls, so that the log is finite
  MaxTorn      \* bound on the crashes that tear the last line

ASSUME LedgerAssumption ==
  /\ NoProc \notin Procs
  /\ MaxCalls \in Nat /\ MaxTorn \in Nat

TerminalStates == {"DONE", "BLOCKED", "CANCELLED", "EXPIRED", "UNKNOWN_STALE"}
Events == TerminalStates \cup
  {"DISPATCHED", "ACKED", "RUNNING", "NOTICE", "PROTOCOL_CONFLICT"}
NoEvent == "none"

\* The event a mailbox message maps to (PROGRESS needs a look at the ledger;
\* a RECEIPT here is one whose receipt_type is READ).
EventOf == [TASK |-> "DISPATCHED", INIT |-> "DISPATCHED", RECEIPT |-> "ACKED",
            REPORT |-> "DONE", NOTICE |-> "NOTICE"]

VARIABLES
  log,      \* the readable lines of events.jsonl
  torn,     \* the file ends in an unfinished line
  aged,     \* how many of the lines are older than the SLA
  lock,     \* who holds the flock on .lock
  pc, job,  \* per process: step and the call's run, event and caller
  answers,  \* the terminal states verdict calls have returned, with their run
  accepted, \* runs for which record_event returned True for a terminal event
  stale,    \* runs the last find_stale() reported
  calls, tears

vars == <<log, torn, aged, lock, pc, job, answers, accepted, stale, calls, tears>>

Entries == [run : Runs, event : Events]
Jobs == [run : Runs, event : Events, verdict : BOOLEAN]
Steps == {"idle", "seen", "lock", "check", "append", "conflict", "unlock", "answer"}

\* Every variable has its type.
TypeOK ==
  /\ log \in Seq(Entries) /\ torn \in BOOLEAN /\ aged \in 0 .. Len(log)
  /\ lock \in Procs \cup {NoProc}
  /\ pc \in [Procs -> Steps] /\ job \in [Procs -> Jobs]
  /\ answers \subseteq Entries
  /\ accepted \subseteq Runs /\ stale \subseteq Runs
  /\ calls \in 0 .. MaxCalls /\ tears \in 0 .. MaxTorn

Init ==
  /\ log = <<>> /\ torn = FALSE /\ aged = 0
  /\ lock = NoProc
  /\ pc = [p \in Procs |-> "idle"]
  /\ \E r \in Runs :    \* of no meaning while the process is idle
       job = [p \in Procs |-> [run |-> r, event |-> "NOTICE", verdict |-> FALSE]]
  /\ answers = {}
  /\ accepted = {} /\ stale = {}
  /\ calls = 0 /\ tears = 0

-----------------------------------------------------------------------------
\* Lines of run r that hold a terminal event.
TerminalLines(r) ==
  {i \in 1 .. Len(log) : log[i].run = r /\ log[i].event \in TerminalStates}

\* get_terminal(): the first terminal state recorded for the run.
GetTerminal(r) ==
  IF TerminalLines(r) = {} THEN NoEvent
  ELSE log[CHOOSE i \in TerminalLines(r) : \A j \in TerminalLines(r) : i <= j].event

HasEvent(r, e) == \E i \in 1 .. Len(log) : log[i].run = r /\ log[i].event = e

\* _append(): a torn last line swallows the new one.
AppendLine(r, e) ==
  /\ log' = IF torn THEN log ELSE Append(log, [run |-> r, event |-> e])
  /\ torn' = FALSE

Goto(p, step) == pc' = [pc EXCEPT ![p] = step]

Begin(p, r, e, verdict) ==
  /\ pc[p] = "idle" /\ calls < MaxCalls
  /\ calls' = calls + 1
  /\ job' = [job EXCEPT ![p] = [run |-> r, event |-> e, verdict |-> verdict]]
  /\ UNCHANGED <<log, torn, aged, lock, answers, accepted, stale, tears>>

\* apply_message() of a kind that maps straight to an event.
ApplyMessage(p, r, kind) == Begin(p, r, EventOf[kind], FALSE) /\ Goto(p, "lock")

\* apply_message() of a PROGRESS: nothing happens on a finished run.
ApplyProgress(p, r) ==
  /\ GetTerminal(r) = NoEvent
  /\ Begin(p, r, "RUNNING", FALSE) /\ Goto(p, "seen")

\* The second look of a PROGRESS: is there a RUNNING line already?
ProgressCheck(p) ==
  /\ pc[p] = "seen"
  /\ Goto(p, IF HasEvent(job[p].run, "RUNNING") THEN "idle" ELSE "lock")
  /\ UNCHANGED <<log, torn, aged, lock, job, answers, accepted, stale, calls, tears>>

\* record_artifact_verdict(): DONE or BLOCKED.
ArtifactVerdict(p, r, verified) ==
  Begin(p, r, IF verified THEN "DONE" ELSE "BLOCKED", TRUE) /\ Goto(p, "lock")

\* Mutant: the lock is not exclusive.
LockShared(p) ==
  /\ pc[p] = "lock"
  /\ lock' = p /\ Goto(p, "check")
  /\ UNCHANGED <<log, torn, aged, job, answers, accepted, stale, calls, tears>>

\* record_event(): the exclusive flock is taken.
Lock(p) ==
  /\ pc[p] = "lock" /\ lock = NoProc
  /\ lock' = p /\ Goto(p, "check")
  /\ UNCHANGED <<log, torn, aged, job, answers, accepted, stale, calls, tears>>

\* record_event(): a terminal event needs a run without one.
Check(p) ==
  /\ pc[p] = "check"
  /\ Goto(p, IF job[p].event \in TerminalStates /\ GetTerminal(job[p].run) # NoEvent
             THEN "conflict" ELSE "append")
  /\ UNCHANGED <<log, torn, aged, lock, job, answers, accepted, stale, calls, tears>>

\* The event is appended; a verdict call will answer with its own state.
Record(p) ==
  LET r == job[p].run  e == job[p].event IN
  /\ pc[p] = "append"
  /\ AppendLine(r, e)
  /\ accepted' = IF e \in TerminalStates THEN accepted \cup {r} ELSE accepted
  /\ answers' = IF job[p].verdict THEN answers \cup {[run |-> r, event |-> e]} ELSE answers
  /\ Goto(p, "unlock")
  /\ UNCHANGED <<aged, lock, job, stale, calls, tears>>

\* A second terminal event: only the conflict is recorded.
RecordConflict(p) ==
  /\ pc[p] = "conflict"
  /\ AppendLine(job[p].run, "PROTOCOL_CONFLICT")
  /\ lock' = NoProc
  /\ Goto(p, IF job[p].verdict THEN "answer" ELSE "idle")
  /\ UNCHANGED <<aged, job, answers, accepted, stale, calls, tears>>

\* The lock is released and the call returns.
Unlock(p) ==
  /\ pc[p] = "unlock"
  /\ lock' = NoProc /\ Goto(p, "idle")
  /\ UNCHANGED <<log, torn, aged, job, answers, accepted, stale, calls, tears>>

\* Mutant: a refused verdict call answers with the state it asked for.
AnswerOwn(p) ==
  /\ pc[p] = "answer"
  /\ answers' = answers \cup {[run |-> job[p].run, event |-> job[p].event]}
  /\ Goto(p, "idle")
  /\ UNCHANGED <<log, torn, aged, lock, job, accepted, stale, calls, tears>>

\* A refused verdict call answers with the recorded terminal state, read again
\* without the lock.
Answer(p) ==
  LET r == job[p].run  t == GetTerminal(job[p].run) IN
  /\ pc[p] = "answer"
  /\ answers' = answers \cup
       {[run |-> r, event |-> IF t = NoEvent THEN job[p].event ELSE t]}
  /\ Goto(p, "idle")
  /\ UNCHANGED <<log, torn, aged, lock, job, accepted, stale, calls, tears>>

\* The SLA elapses for every line written so far.
TimePasses ==
  /\ aged' = Len(log)
  /\ UNCHANGED <<log, torn, lock, pc, job, answers, accepted, stale, calls, tears>>

\* Mutant: a run with an old ACKED line is stale even when it has ended.
FindStaleEnded ==
  /\ stale' = {r \in Runs : \E i \in 1 .. aged : log[i].run = r /\ log[i].event = "ACKED"}
  /\ UNCHANGED <<log, torn, aged, lock, pc, job, answers, accepted, calls, tears>>

\* find_stale(): runs with an old ACKED line and no terminal line.
FindStale ==
  /\ stale' = {r \in Runs : /\ TerminalLines(r) = {}
                            /\ \E i \in 1 .. aged : log[i].run = r /\ log[i].event = "ACKED"}
  /\ UNCHANGED <<log, torn, aged, lock, pc, job, answers, accepted, calls, tears>>

\* A process dies; the kernel releases its flock.
Crash(p) ==
  /\ pc[p] # "idle"
  /\ Goto(p, "idle")
  /\ lock' = IF lock = p THEN NoProc ELSE lock
  /\ UNCHANGED <<log, torn, aged, job, answers, accepted, stale, calls, tears>>

\* The machine goes down inside an append: part of the line is on the disk and
\* every process is gone.
CrashTorn(p) ==
  /\ pc[p] \in {"append", "conflict"} /\ tears < MaxTorn
  /\ torn' = TRUE /\ tears' = tears + 1
  /\ pc' = [q \in Procs |-> "idle"] /\ lock' = NoProc
  /\ UNCHANGED <<log, aged, job, answers, accepted, stale, calls>>

Step(p) ==
  \/ ProgressCheck(p) \/ Lock(p) \/ Check(p) \/ Record(p) \/ RecordConflict(p)
  \/ Unlock(p) \/ Answer(p) \/ Crash(p) \/ CrashTorn(p)

Call(p, r) ==
  \/ \E kind \in DOMAIN EventOf : ApplyMessage(p, r, kind)
  \/ ApplyProgress(p, r)
  \/ \E verified \in BOOLEAN : ArtifactVerdict(p, r, verified)

Next ==
  \/ \E p \in Procs : Step(p) \/ \E r \in Runs : Call(p, r)
  \/ TimePasses \/ FindStale

Spec == Init /\ [][Next]_vars
-----------------------------------------------------------------------------
(* Properties *)

\* Terminal CAS: a run's ledger holds at most one terminal event, whatever
\* writers race or die (record_event's check-then-append under the flock).
AtMostOneTerminal ==
  \A i, j \in 1 .. Len(log) :
    (/\ log[i].run = log[j].run
     /\ log[i].event \in TerminalStates /\ log[j].event \in TerminalStates) => i = j

\* Unless the machine went down inside an append, the state a verdict call
\* reports is the one the ledger holds for the run, now and for ever
\* (record_artifact_verdict's result, used by the gateway).
VerdictIsTheRecord ==
  tears = 0 => \A a \in answers : GetTerminal(a.run) = a.event

\* Unless the machine went down inside an append, the watchdog never reports a
\* run whose terminal event was accepted (find_stale after record_event).
StaleIsUnfinished ==
  [][tears = 0 /\ stale' # stale => stale' \cap accepted = {}]_vars

-----------------------------------------------------------------------------
(* Inductive invariant *)

Critical == {"check", "append", "conflict", "unlock"}

\* Whoever is past the lock holds it.
LockHeld == \A p \in Procs : pc[p] \in Critical => lock = p

\* A checked terminal event finds its run still open.
CheckedStillOpen ==
  \A p \in Procs :
    (pc[p] = "append" /\ job[p].event \in TerminalStates) => TerminalLines(job[p].run) = {}

LedgerInv == TypeOK /\ LockHeld /\ CheckedStillOpen /\ AtMostOneTerminal

\* Verdict calls ask for a terminal state.
VerdictsAreTerminal ==
  \A p \in Procs : job[p].verdict => job[p].event \in TerminalStates

\* Until a line is torn: every answer has its line, and whoever was refused
\* finds a terminal line.
AnswersOnRecord ==
  tears = 0 =>
    /\ ~torn
    /\ \A a \in answers : \E i \in TerminalLines(a.run) : log[i].event = a.event
    /\ \A p \in Procs : pc[p] \in {"conflict", "answer"} => TerminalLines(job[p].run) # {}

VerdictInv == LedgerInv /\ VerdictsAreTerminal /\ AnswersOnRecord

\* Until a line is torn, a run whose terminal event was accepted has its line.
AcceptedOnRecord == tears = 0 => \A r \in accepted : TerminalLines(r) # {}
=============================================================================

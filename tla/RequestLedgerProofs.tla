------------------------ MODULE RequestLedgerProofs ------------------------
(* Proofs about RequestLedger, for any processes, runs and bounds.         *)
EXTENDS RequestLedger, SequenceTheorems, WellFoundedInduction, TLAPS

\* Every event the code maps a message to is an event of the ledger.
LEMMA Vocabulary ==
  /\ TerminalStates \subseteq Events /\ "DONE" \in Events /\ "BLOCKED" \in Events
  /\ "RUNNING" \in Events /\ "NOTICE" \in Events /\ "PROTOCOL_CONFLICT" \in Events
  /\ "PROTOCOL_CONFLICT" \notin TerminalStates
  /\ NoEvent \notin Events
  /\ \A kind \in DOMAIN EventOf : EventOf[kind] \in Events
BY DEF TerminalStates, Events, EventOf, NoEvent

\* What a line appended to the log leaves of the lines that were there.
LEMMA AppendedLine ==
  ASSUME NEW r \in Runs, NEW e \in Events, log \in Seq(Entries), torn \in BOOLEAN,
         AppendLine(r, e)
  PROVE  /\ log' \in Seq(Entries) /\ torn' \in BOOLEAN
         /\ Len(log') \in {Len(log), Len(log) + 1}
         /\ \A i \in 1 .. Len(log) : log'[i] = log[i]
         /\ Len(log') = Len(log) + 1 => log'[Len(log) + 1] = [run |-> r, event |-> e]
<1>1. [run |-> r, event |-> e] \in Entries
  BY DEF Entries
<1>2. CASE torn
  <2>1. log' = log /\ torn' = FALSE
    BY <1>2 DEF AppendLine
  <2>2. Len(log) \in Nat
    BY LenProperties
  <2>3. torn' \in BOOLEAN
    BY <2>1
  <2>4. /\ log' \in Seq(Entries) /\ Len(log') = Len(log) /\ Len(log') # Len(log) + 1
        /\ \A i \in 1 .. Len(log) : log'[i] = log[i]
    BY <2>1, <2>2
  <2>. QED BY <2>3, <2>4
<1>3. CASE ~torn
  <2>1. log' = Append(log, [run |-> r, event |-> e])
    BY <1>3 DEF AppendLine
  <2>2. /\ log' \in Seq(Entries) /\ Len(log') = Len(log) + 1
        /\ \A i \in 1 .. Len(log) : log'[i] = log[i]
        /\ log'[Len(log) + 1] = [run |-> r, event |-> e]
    BY <2>1, <1>1, AppendProperties
  <2>. QED BY <2>2 DEF AppendLine
<1>. QED BY <1>2, <1>3

\* A nonempty set of natural numbers has a least element.
LEMMA LeastNumber ==
  ASSUME NEW T, T \subseteq Nat, T # {}
  PROVE  \E i \in T : \A j \in T : i <= j
<1>1. PICK i \in T : \A j \in T : ~ (<<j, i>> \in OpToRel(<, Nat))
  BY NatLessThanWellFounded, WFMin
<1>2. \A j \in T : ~ (j < i)
  BY <1>1 DEF OpToRel
<1>. QED BY <1>2

\* The first terminal line exists when there is a terminal line, and
\* get_terminal() returns its event.
LEMMA FirstTerminal ==
  ASSUME NEW r \in Runs, log \in Seq(Entries), TerminalLines(r) # {}
  PROVE  /\ GetTerminal(r) \in TerminalStates
         /\ \E i \in TerminalLines(r) :
              /\ \A j \in TerminalLines(r) : i <= j
              /\ GetTerminal(r) = log[i].event
<1>. DEFINE first == CHOOSE i \in TerminalLines(r) : \A j \in TerminalLines(r) : i <= j
<1>1. TerminalLines(r) \subseteq Nat
  BY LenProperties DEF TerminalLines
<1>2. \E i \in TerminalLines(r) : \A j \in TerminalLines(r) : i <= j
  BY <1>1, LeastNumber
<1>3. first \in TerminalLines(r) /\ \A j \in TerminalLines(r) : first <= j
  BY <1>2
<1>4. GetTerminal(r) = log[first].event
  BY DEF GetTerminal
<1>5. log[first].event \in TerminalStates
  BY <1>3 DEF TerminalLines
<1>. QED BY <1>3, <1>4, <1>5

\* get_terminal() finds nothing exactly when no line is terminal.
LEMMA NoTerminal ==
  ASSUME NEW r \in Runs, log \in Seq(Entries)
  PROVE  GetTerminal(r) = NoEvent <=> TerminalLines(r) = {}
<1>1. CASE TerminalLines(r) = {}
  BY <1>1 DEF GetTerminal
<1>2. CASE TerminalLines(r) # {}
  BY <1>2, FirstTerminal, Vocabulary
<1>. QED BY <1>1, <1>2

\* get_terminal() returns an event or nothing.
LEMMA TerminalType ==
  ASSUME NEW r \in Runs, log \in Seq(Entries)
  PROVE  GetTerminal(r) \in Events \cup {NoEvent}
<1>1. CASE TerminalLines(r) = {}
  BY <1>1 DEF GetTerminal
<1>2. CASE TerminalLines(r) # {}
  BY <1>2, FirstTerminal, Vocabulary
<1>. QED BY <1>1, <1>2

\* The initial state satisfies the inductive invariant.
LEMMA InitInv == Init => LedgerInv
<1>. SUFFICES ASSUME Init PROVE LedgerInv
  OBVIOUS
<1>1. TypeOK
  <2>1. log \in Seq(Entries) /\ Len(log) = 0
    BY DEF Init
  <2>2. PICK r \in Runs :
          job = [p \in Procs |-> [run |-> r, event |-> "NOTICE", verdict |-> FALSE]]
    BY DEF Init
  <2>3. job \in [Procs -> Jobs]
    BY <2>2, Vocabulary DEF Jobs
  <2>4. log \in Seq(Entries) /\ aged \in 0 .. Len(log)
    BY <2>1 DEF Init
  <2>5. calls \in 0 .. MaxCalls /\ tears \in 0 .. MaxTorn
    BY LedgerAssumption DEF Init
  <2>6. torn \in BOOLEAN /\ pc \in [Procs -> Steps] /\ lock \in Procs \cup {NoProc}
    BY DEF Init, Steps
  <2>7. answers \subseteq Entries /\ accepted \subseteq Runs /\ stale \subseteq Runs
    BY DEF Init
  <2>. QED BY <2>3, <2>4, <2>5, <2>6, <2>7 DEF TypeOK
<1>2. LockHeld /\ CheckedStillOpen
  BY DEF Init, LockHeld, CheckedStillOpen, Critical
<1>3. AtMostOneTerminal
  BY DEF Init, AtMostOneTerminal
<1>. QED BY <1>1, <1>2, <1>3 DEF LedgerInv

\* A process moves to a step of the vocabulary.
LEMMA GotoType ==
  ASSUME TypeOK, NEW p \in Procs, NEW step \in Steps, Goto(p, step)
  PROVE  pc' \in [Procs -> Steps]
BY DEF TypeOK, Goto

\* A call changes nothing but its own job, its step and the number of calls.
LEMMA BeginType ==
  ASSUME TypeOK, NEW p \in Procs, NEW r \in Runs, NEW e \in Events,
         NEW v \in BOOLEAN, NEW step \in Steps, Begin(p, r, e, v), Goto(p, step)
  PROVE  TypeOK'
<1>1. job' \in [Procs -> Jobs]
  BY DEF TypeOK, Begin, Jobs
<1>2. calls' \in 0 .. MaxCalls
  BY LedgerAssumption DEF TypeOK, Begin
<1>3. pc' \in [Procs -> Steps]
  BY GotoType
<1>. QED BY <1>1, <1>2, <1>3 DEF TypeOK, Begin

\* Every step keeps the types.
LEMMA TypeStep == TypeOK /\ [Next]_vars => TypeOK'
<1>. SUFFICES ASSUME TypeOK, [Next]_vars PROVE TypeOK'
  OBVIOUS
<1>. USE DEF Steps
<1>1. ASSUME NEW p \in Procs, NEW r \in Runs, Call(p, r) PROVE TypeOK'
  <2>1. ASSUME NEW kind \in DOMAIN EventOf, ApplyMessage(p, r, kind) PROVE TypeOK'
    BY <2>1, BeginType, Vocabulary DEF ApplyMessage
  <2>2. CASE ApplyProgress(p, r)
    BY <2>2, BeginType, Vocabulary DEF ApplyProgress
  <2>3. ASSUME NEW verified \in BOOLEAN, ArtifactVerdict(p, r, verified) PROVE TypeOK'
    BY <2>3, BeginType, Vocabulary DEF ArtifactVerdict
  <2>. QED BY <1>1, <2>1, <2>2, <2>3 DEF Call
<1>2. ASSUME NEW p \in Procs, Step(p) PROVE TypeOK'
  <2>0. job[p] \in Jobs /\ job[p].run \in Runs /\ job[p].event \in Events
    BY DEF TypeOK, Jobs
  <2>1. CASE ProgressCheck(p)
    BY <2>1, GotoType DEF ProgressCheck, TypeOK
  <2>2. CASE Lock(p)
    BY <2>2, GotoType DEF Lock, TypeOK
  <2>3. CASE Check(p)
    BY <2>3, GotoType DEF Check, TypeOK
  <2>4. CASE Record(p)
    <3>1. AppendLine(job[p].run, job[p].event)
      BY <2>4 DEF Record
    <3>2. log' \in Seq(Entries) /\ torn' \in BOOLEAN /\ aged' \in 0 .. Len(log')
      <4>1. log \in Seq(Entries) /\ torn \in BOOLEAN
        BY DEF TypeOK
      <4>2. /\ log' \in Seq(Entries) /\ torn' \in BOOLEAN
            /\ Len(log') \in {Len(log), Len(log) + 1}
        BY <3>1, <4>1, <2>0, AppendedLine
      <4>3. Len(log) \in Nat
        BY <4>1, LenProperties
      <4>4. aged' = aged /\ aged \in 0 .. Len(log)
        BY <2>4 DEF Record, TypeOK
      <4>. QED BY <4>2, <4>3, <4>4
    <3>3. answers' \subseteq Entries /\ accepted' \subseteq Runs
      BY <2>4, <2>0 DEF Record, TypeOK, Entries
    <3>4. pc' \in [Procs -> Steps]
      BY <2>4, GotoType DEF Record
    <3>. QED BY <3>2, <3>3, <3>4, <2>4 DEF Record, TypeOK
  <2>5. CASE RecordConflict(p)
    <3>1. AppendLine(job[p].run, "PROTOCOL_CONFLICT")
      BY <2>5 DEF RecordConflict
    <3>2. log' \in Seq(Entries) /\ torn' \in BOOLEAN /\ aged' \in 0 .. Len(log')
      <4>1. log \in Seq(Entries) /\ torn \in BOOLEAN
        BY DEF TypeOK
      <4>2. /\ log' \in Seq(Entries) /\ torn' \in BOOLEAN
            /\ Len(log') \in {Len(log), Len(log) + 1}
        BY <3>1, <4>1, <2>0, Vocabulary, AppendedLine
      <4>3. Len(log) \in Nat
        BY <4>1, LenProperties
      <4>4. aged' = aged /\ aged \in 0 .. Len(log)
        BY <2>5 DEF RecordConflict, TypeOK
      <4>. QED BY <4>2, <4>3, <4>4
    <3>3. pc' \in [Procs -> Steps]
      BY <2>5, GotoType DEF RecordConflict
    <3>. QED BY <3>2, <3>3, <2>5 DEF RecordConflict, TypeOK
  <2>6. CASE Unlock(p)
    BY <2>6, GotoType DEF Unlock, TypeOK
  <2>7. CASE Answer(p)
    <3>1. GetTerminal(job[p].run) \in Events \cup {NoEvent}
      BY <2>0, TerminalType DEF TypeOK
    <3>2. answers' \subseteq Entries
      BY <3>1, <2>0, <2>7 DEF Answer, TypeOK, Entries
    <3>. QED BY <3>2, <2>7, GotoType DEF Answer, TypeOK
  <2>8. CASE Crash(p)
    BY <2>8, GotoType DEF Crash, TypeOK
  <2>9. CASE CrashTorn(p)
    BY <2>9, LedgerAssumption DEF CrashTorn, TypeOK
  <2>. QED BY <1>2, <2>1, <2>2, <2>3, <2>4, <2>5, <2>6, <2>7, <2>8, <2>9 DEF Step
<1>3. CASE TimePasses
  <2>1. Len(log) \in Nat
    BY LenProperties DEF TypeOK
  <2>. QED BY <1>3, <2>1 DEF TimePasses, TypeOK
<1>4. CASE FindStale
  BY <1>4 DEF FindStale, TypeOK
<1>5. CASE UNCHANGED vars
  BY <1>5 DEF vars, TypeOK
<1>. QED BY <1>1, <1>2, <1>3, <1>4, <1>5 DEF Next


\* A step that leaves the log alone and moves no process past the lock check
\* keeps the rest of the invariant.
LEMMA QuietStep ==
  ASSUME LedgerInv, UNCHANGED log,
         \A p \in Procs : pc'[p] \in Critical => lock' = p,
         \A p \in Procs : pc'[p] = "append" => pc[p] = "append" /\ job'[p] = job[p]
  PROVE  LockHeld' /\ CheckedStillOpen' /\ AtMostOneTerminal'
<1>1. LockHeld'
  BY DEF LockHeld
<1>2. CheckedStillOpen'
  BY DEF LedgerInv, CheckedStillOpen, TerminalLines
<1>3. AtMostOneTerminal'
  BY DEF LedgerInv, AtMostOneTerminal
<1>. QED BY <1>1, <1>2, <1>3

\* A line written by the holder of the lock: at most one terminal line per run,
\* provided the run had none if the line is terminal.
LEMMA WriteStep ==
  ASSUME LedgerInv, NEW p \in Procs, NEW r \in Runs, NEW e \in Events, AppendLine(r, e),
         e \in TerminalStates => TerminalLines(r) = {}
  PROVE  AtMostOneTerminal'
<1>1. log \in Seq(Entries) /\ torn \in BOOLEAN /\ AtMostOneTerminal
  BY DEF LedgerInv, TypeOK
<1>2. /\ Len(log) \in Nat
      /\ Len(log') \in {Len(log), Len(log) + 1}
      /\ \A i \in 1 .. Len(log) : log'[i] = log[i]
      /\ Len(log') = Len(log) + 1 => log'[Len(log) + 1] = [run |-> r, event |-> e]
  BY <1>1, AppendedLine, LenProperties
<1>. SUFFICES ASSUME NEW i \in 1 .. Len(log'), NEW j \in 1 .. Len(log'),
                    log'[i].run = log'[j].run,
                    log'[i].event \in TerminalStates, log'[j].event \in TerminalStates
             PROVE  i = j
  BY DEF AtMostOneTerminal
<1>3. CASE i \in 1 .. Len(log) /\ j \in 1 .. Len(log)
  BY <1>1, <1>2, <1>3 DEF AtMostOneTerminal
<1>4. ASSUME NEW k \in 1 .. Len(log), log'[k].run = r, log'[k].event \in TerminalStates,
            e \in TerminalStates
      PROVE FALSE
  BY <1>2, <1>4 DEF TerminalLines
<1>5. \A k \in 1 .. Len(log') : k \notin 1 .. Len(log) =>
         k = Len(log) + 1 /\ log'[k].run = r /\ log'[k].event = e
  BY <1>2
<1>. QED BY <1>3, <1>4, <1>5

\* No other process is past the lock.
LEMMA Alone ==
  ASSUME LedgerInv, NEW p \in Procs, NEW q \in Procs, p # q, pc[p] \in Critical
  PROVE  pc[q] \notin Critical
BY DEF LedgerInv, LockHeld

\* Moving one process leaves the steps of the others.
LEMMA GotoOthers ==
  ASSUME TypeOK, NEW p \in Procs, NEW step, Goto(p, step)
  PROVE  pc'[p] = step /\ \A q \in Procs : q # p => pc'[q] = pc[q]
BY DEF TypeOK, Goto

\* Every call is a Begin that goes to one of two steps; verdict calls ask for a
\* terminal state.
LEMMA CallBegins ==
  ASSUME NEW p \in Procs, NEW r \in Runs, Call(p, r)
  PROVE  \E e \in Events, v \in BOOLEAN, step \in {"lock", "seen"} :
           Begin(p, r, e, v) /\ Goto(p, step) /\ (v => e \in TerminalStates)
<1>1. ASSUME NEW kind \in DOMAIN EventOf, ApplyMessage(p, r, kind)
      PROVE  Begin(p, r, EventOf[kind], FALSE) /\ Goto(p, "lock")
  BY <1>1 DEF ApplyMessage
<1>2. CASE ApplyProgress(p, r)
  BY <1>2, Vocabulary DEF ApplyProgress
<1>3. ASSUME NEW verified \in BOOLEAN, ArtifactVerdict(p, r, verified)
      PROVE  \E e \in {"DONE", "BLOCKED"} : Begin(p, r, e, TRUE) /\ Goto(p, "lock")
  BY <1>3 DEF ArtifactVerdict
<1>4. "DONE" \in TerminalStates /\ "BLOCKED" \in TerminalStates
  BY DEF TerminalStates
<1>5. ASSUME NEW e \in {"DONE", "BLOCKED"}, Begin(p, r, e, TRUE), Goto(p, "lock")
      PROVE  \E f \in Events, v \in BOOLEAN, step \in {"lock", "seen"} :
               Begin(p, r, f, v) /\ Goto(p, step) /\ (v => f \in TerminalStates)
  BY <1>4, <1>5, Vocabulary
<1>. QED BY <1>1, <1>2, <1>3, <1>5, Vocabulary DEF Call

\* Every step keeps the inductive invariant.
LEMMA StepInv == LedgerInv /\ [Next]_vars => LedgerInv'
<1>. SUFFICES ASSUME LedgerInv, [Next]_vars PROVE LedgerInv'
  OBVIOUS
<1>. DEFINE Rest == LockHeld' /\ CheckedStillOpen' /\ AtMostOneTerminal'
<1>0. TypeOK /\ TypeOK' /\ LockHeld /\ CheckedStillOpen
  BY TypeStep DEF LedgerInv
<1>1. ASSUME NEW p \in Procs, NEW r \in Runs, Call(p, r) PROVE Rest
  <2>1. PICK e \in Events, v \in BOOLEAN, step \in {"lock", "seen"} :
          Begin(p, r, e, v) /\ Goto(p, step)
    BY <1>1, CallBegins
  <2>2. UNCHANGED <<log, lock>> /\ \A q \in Procs : q # p => job'[q] = job[q]
    BY <2>1, <1>0 DEF Begin, TypeOK
  <2>3. pc'[p] = step /\ \A q \in Procs : q # p => pc'[q] = pc[q]
    BY <2>1, <1>0, GotoOthers
  <2>. QED BY <2>2, <2>3, <1>0, QuietStep DEF LockHeld, Critical
<1>2. ASSUME NEW p \in Procs, Step(p) PROVE Rest
  <2>0. job[p].run \in Runs /\ job[p].event \in Events
    BY <1>0 DEF TypeOK, Jobs
  <2>1. CASE ProgressCheck(p)
    <3>1. pc'[p] \in {"idle", "lock"} /\ \A q \in Procs : q # p => pc'[q] = pc[q]
      BY <2>1, <1>0, GotoOthers DEF ProgressCheck
    <3>. QED BY <3>1, <2>1, <1>0, QuietStep DEF ProgressCheck, LockHeld, Critical
  <2>2. CASE Lock(p)
    <3>1. pc'[p] = "check" /\ \A q \in Procs : q # p => pc'[q] = pc[q]
      BY <2>2, <1>0, GotoOthers DEF Lock
    <3>2. \A q \in Procs : pc[q] \notin Critical
      BY <2>2, <1>0, LedgerAssumption DEF Lock, LockHeld
    <3>. QED BY <3>1, <3>2, <2>2, QuietStep DEF Lock, Critical
  <2>3. CASE Check(p)
    <3>1. pc'[p] \in {"conflict", "append"} /\ \A q \in Procs : q # p => pc'[q] = pc[q]
      BY <2>3, <1>0, GotoOthers DEF Check
    <3>2. UNCHANGED <<log, lock, job>> /\ pc[p] = "check"
      BY <2>3 DEF Check
    <3>3. LockHeld'
      BY <3>1, <3>2, <1>0 DEF LockHeld, Critical
    <3>4. (pc'[p] = "append" /\ job[p].event \in TerminalStates) => TerminalLines(job[p].run) = {}
      <4>1. GetTerminal(job[p].run) = NoEvent <=> TerminalLines(job[p].run) = {}
        BY <2>0, <1>0, NoTerminal DEF TypeOK
      <4>2. (pc'[p] = "append" /\ job[p].event \in TerminalStates)
               => GetTerminal(job[p].run) = NoEvent
        BY <2>3, <1>0 DEF Check, Goto, TypeOK
      <4>. QED BY <4>1, <4>2
    <3>5. \A r : TerminalLines(r)' = TerminalLines(r)
      BY <3>2 DEF TerminalLines
    <3>6. CheckedStillOpen'
      BY <3>1, <3>2, <3>4, <3>5, <1>0 DEF CheckedStillOpen
    <3>7. AtMostOneTerminal'
      BY <3>2 DEF LedgerInv, AtMostOneTerminal
    <3>. QED BY <3>3, <3>6, <3>7
  <2>4. CASE Record(p)
    <3>1. pc'[p] = "unlock" /\ \A q \in Procs : q # p => pc'[q] = pc[q]
      BY <2>4, <1>0, GotoOthers DEF Record
    <3>2. \A q \in Procs : q # p => pc[q] \notin Critical
      BY <2>4, Alone DEF Record, Critical
    <3>3. LockHeld' /\ CheckedStillOpen'
      BY <3>1, <3>2, <2>4, <1>0 DEF Record, LockHeld, CheckedStillOpen, Critical
    <3>4. AtMostOneTerminal'
      BY <2>4, <2>0, <1>0, WriteStep DEF Record, CheckedStillOpen
    <3>. QED BY <3>3, <3>4
  <2>5. CASE RecordConflict(p)
    <3>1. pc'[p] \in {"answer", "idle"} /\ \A q \in Procs : q # p => pc'[q] = pc[q]
      BY <2>5, <1>0, GotoOthers DEF RecordConflict
    <3>2. \A q \in Procs : q # p => pc[q] \notin Critical
      BY <2>5, Alone DEF RecordConflict, Critical
    <3>3. LockHeld' /\ CheckedStillOpen'
      BY <3>1, <3>2 DEF LockHeld, CheckedStillOpen, Critical
    <3>4. AtMostOneTerminal'
      BY <2>5, <2>0, Vocabulary, WriteStep DEF RecordConflict
    <3>. QED BY <3>3, <3>4
  <2>6. CASE Unlock(p)
    <3>1. pc'[p] = "idle" /\ \A q \in Procs : q # p => pc'[q] = pc[q]
      BY <2>6, <1>0, GotoOthers DEF Unlock
    <3>2. \A q \in Procs : q # p => pc[q] \notin Critical
      BY <2>6, Alone DEF Unlock, Critical
    <3>. QED BY <3>1, <3>2, <2>6, QuietStep DEF Unlock, Critical
  <2>7. CASE Answer(p)
    <3>1. pc'[p] = "idle" /\ \A q \in Procs : q # p => pc'[q] = pc[q]
      BY <2>7, <1>0, GotoOthers DEF Answer
    <3>. QED BY <3>1, <2>7, <1>0, QuietStep DEF Answer, LockHeld, Critical
  <2>8. CASE Crash(p)
    <3>1. pc'[p] = "idle" /\ \A q \in Procs : q # p => pc'[q] = pc[q]
      BY <2>8, <1>0, GotoOthers DEF Crash
    <3>. QED BY <3>1, <2>8, <1>0, QuietStep DEF Crash, LockHeld, Critical
  <2>9. CASE CrashTorn(p)
    BY <2>9, QuietStep DEF CrashTorn, Critical
  <2>. QED BY <1>2, <2>1, <2>2, <2>3, <2>4, <2>5, <2>6, <2>7, <2>8, <2>9 DEF Step
<1>3. CASE TimePasses \/ FindStale \/ UNCHANGED vars
  <2>1. UNCHANGED <<log, lock, pc, job>>
    BY <1>3 DEF TimePasses, FindStale, vars
  <2>2. \A p \in Procs : pc'[p] \in Critical => lock' = p
    BY <2>1, <1>0 DEF LockHeld
  <2>3. \A p \in Procs : pc'[p] = "append" => pc[p] = "append" /\ job'[p] = job[p]
    BY <2>1
  <2>4. UNCHANGED log
    BY <2>1
  <2>5. Rest
    BY <2>2, <2>3, <2>4, QuietStep
  <2>. QED BY <2>5, <1>0 DEF LedgerInv
<1>. QED BY <1>0, <1>1, <1>2, <1>3 DEF Next, LedgerInv

\* Type correctness of the ledger, for any processes, runs and bounds.
THEOREM LedgerTypes == Spec => []TypeOK
<1>1. Init => TypeOK
  BY InitInv DEF LedgerInv
<1>. QED BY <1>1, TypeStep, PTL DEF Spec

\* Terminal compare-and-set: with any number of writers, crashes and torn
\* lines, record_event never leaves two terminal events of one run in the log.
THEOREM TerminalCAS == Spec => []AtMostOneTerminal
<1>1. LedgerInv => AtMostOneTerminal
  BY DEF LedgerInv
<1>. QED BY <1>1, InitInv, StepInv, PTL DEF Spec

-----------------------------------------------------------------------------
\* Appending keeps every terminal line where it is.
LEMMA LinesStay ==
  ASSUME log \in Seq(Entries), torn \in BOOLEAN,
         NEW r \in Runs, NEW e \in Events, AppendLine(r, e)
  PROVE  \A s : \A i \in TerminalLines(s) : i \in TerminalLines(s)' /\ log'[i] = log[i]
<1>1. /\ Len(log) \in Nat
      /\ Len(log') \in {Len(log), Len(log) + 1}
      /\ \A i \in 1 .. Len(log) : log'[i] = log[i]
  BY AppendedLine, LenProperties
<1>. QED BY <1>1 DEF TerminalLines

\* A terminal event appended to a whole file is a terminal line of its run.
LEMMA TerminalLineAdded ==
  ASSUME log \in Seq(Entries), ~torn, NEW p \in Procs, job' = job,
         job[p].run \in Runs, job[p].event \in TerminalStates,
         AppendLine(job[p].run, job[p].event)
  PROVE  /\ Len(log) + 1 \in TerminalLines(job[p].run)'
         /\ log'[Len(log) + 1].event = job[p].event
<1>1. [run |-> job[p].run, event |-> job[p].event] \in Entries
  BY Vocabulary DEF Entries
<1>2. log' = Append(log, [run |-> job[p].run, event |-> job[p].event])
  BY DEF AppendLine
<1>3. /\ Len(log) \in Nat /\ Len(log') = Len(log) + 1
      /\ log'[Len(log) + 1] = [run |-> job[p].run, event |-> job[p].event]
  BY <1>1, <1>2, AppendProperties, LenProperties
<1>4. /\ Len(log) + 1 \in 1 .. Len(log')
      /\ log'[Len(log) + 1].run = job[p].run
      /\ log'[Len(log) + 1].event = job[p].event
  BY <1>3
<1>. QED BY <1>4 DEF TerminalLines

\* A step that leaves the log alone leaves its terminal lines alone.
LEMMA SameLines == UNCHANGED log => \A s : TerminalLines(s)' = TerminalLines(s)
BY DEF TerminalLines

\* With at most one terminal line, any terminal line is the first one.
LEMMA TheTerminal ==
  ASSUME LedgerInv, NEW r \in Runs, NEW i \in TerminalLines(r)
  PROVE  GetTerminal(r) = log[i].event
<1>1. log \in Seq(Entries)
  BY DEF LedgerInv, TypeOK
<1>2. PICK j \in TerminalLines(r) : GetTerminal(r) = log[j].event
  BY <1>1, FirstTerminal
<1>3. i = j
  BY DEF LedgerInv, AtMostOneTerminal, TerminalLines
<1>. QED BY <1>2, <1>3

\* A step that leaves the log alone, answers nothing and refuses nobody keeps
\* the answers on record.
LEMMA SilentStep ==
  ASSUME VerdictInv, UNCHANGED <<log, torn, answers, tears>>,
         tears = 0 => \A p \in Procs : pc'[p] \in {"conflict", "answer"} =>
                                         TerminalLines(job'[p].run) # {}
  PROVE  AnswersOnRecord'
<1>1. \A s : TerminalLines(s)' = TerminalLines(s)
  BY SameLines
<1>. SUFFICES ASSUME tears = 0
             PROVE  /\ ~torn'
                    /\ \A a \in answers' : \E i \in TerminalLines(a.run)' : log'[i].event = a.event
                    /\ \A p \in Procs : pc'[p] \in {"conflict", "answer"} =>
                                          TerminalLines(job[p].run)' # {}
  BY DEF AnswersOnRecord
<1>2. ~torn'
  BY DEF VerdictInv, AnswersOnRecord
<1>3. \A a \in answers' : \E i \in TerminalLines(a.run)' : log'[i].event = a.event
  BY <1>1 DEF VerdictInv, AnswersOnRecord
<1>4. \A p \in Procs : pc'[p] \in {"conflict", "answer"} => TerminalLines(job[p].run)' # {}
  BY SameLines DEF TerminalLines
<1>. QED BY <1>2, <1>3, <1>4

\* Verdict calls are the only ones with the flag, and they ask for DONE or BLOCKED.
LEMMA VerdictsStep == TypeOK /\ VerdictsAreTerminal /\ [Next]_vars => VerdictsAreTerminal'
<1>. SUFFICES ASSUME TypeOK, VerdictsAreTerminal, [Next]_vars PROVE VerdictsAreTerminal'
  OBVIOUS
<1>1. ASSUME NEW p \in Procs, NEW r \in Runs, Call(p, r) PROVE VerdictsAreTerminal'
  <2>1. PICK e \in Events, v \in BOOLEAN :
          Begin(p, r, e, v) /\ (v => e \in TerminalStates)
    BY <1>1, CallBegins
  <2>2. job' = [job EXCEPT ![p] = [run |-> r, event |-> e, verdict |-> v]]
    BY <2>1 DEF Begin
  <2>. QED BY <2>1, <2>2 DEF VerdictsAreTerminal, TypeOK
<1>2. CASE UNCHANGED job
  BY <1>2 DEF VerdictsAreTerminal
<1>3. ASSUME NEW p \in Procs, Step(p) PROVE UNCHANGED job
  BY <1>3 DEF Step, ProgressCheck, Lock, Check, Record, RecordConflict, Unlock, Answer,
              Crash, CrashTorn
<1>4. TimePasses \/ FindStale \/ UNCHANGED vars => UNCHANGED job
  BY DEF TimePasses, FindStale, vars
<1>. QED BY <1>1, <1>2, <1>3, <1>4 DEF Next

\* Every step keeps the answers on record.
LEMMA RecordStep == VerdictInv /\ [Next]_vars => AnswersOnRecord'
<1>. SUFFICES ASSUME VerdictInv, [Next]_vars PROVE AnswersOnRecord'
  OBVIOUS
<1>0. /\ LedgerInv /\ TypeOK /\ log \in Seq(Entries) /\ torn \in BOOLEAN
      /\ VerdictsAreTerminal /\ AnswersOnRecord
  BY DEF VerdictInv, LedgerInv, TypeOK
<1>1. ASSUME NEW p \in Procs, NEW r \in Runs, Call(p, r) PROVE AnswersOnRecord'
  <2>1. PICK e \in Events, v \in BOOLEAN, step \in {"lock", "seen"} :
          Begin(p, r, e, v) /\ Goto(p, step)
    BY <1>1, CallBegins
  <2>2. /\ UNCHANGED <<log, torn, answers, tears>>
        /\ \A q \in Procs : q # p => job'[q] = job[q]
    BY <2>1, <1>0 DEF Begin, TypeOK
  <2>3. pc'[p] = step /\ \A q \in Procs : q # p => pc'[q] = pc[q]
    BY <2>1, <1>0, GotoOthers
  <2>4. tears = 0 => \A q \in Procs : pc'[q] \in {"conflict", "answer"} =>
                                        TerminalLines(job'[q].run) # {}
    BY <2>2, <2>3, <1>0 DEF AnswersOnRecord
  <2>. QED BY <2>2, <2>4, SilentStep
<1>2. ASSUME NEW p \in Procs, Step(p) PROVE AnswersOnRecord'
  <2>0. job[p].run \in Runs /\ job[p].event \in Events
    BY <1>0 DEF TypeOK, Jobs
  <2>1. CASE ProgressCheck(p) \/ Lock(p) \/ Unlock(p) \/ Crash(p)
    <3>1. UNCHANGED <<log, torn, answers, tears, job>>
      BY <2>1 DEF ProgressCheck, Lock, Unlock, Crash
    <3>2. \A q \in Procs : pc'[q] \in {"conflict", "answer"} => pc'[q] = pc[q]
      BY <2>1, <1>0, GotoOthers DEF ProgressCheck, Lock, Unlock, Crash
    <3>. QED BY <3>1, <3>2, <1>0, SilentStep DEF AnswersOnRecord
  <2>2. CASE Check(p)
    <3>1. UNCHANGED <<log, torn, answers, tears, job>>
      BY <2>2 DEF Check
    <3>2. \A q \in Procs : q # p => pc'[q] = pc[q]
      BY <2>2, <1>0, GotoOthers DEF Check
    <3>3. pc'[p] = "append" \/ TerminalLines(job[p].run) # {}
      <4>1. pc'[p] = "append" \/ GetTerminal(job[p].run) # NoEvent
        BY <2>2, <1>0, GotoOthers DEF Check
      <4>. QED BY <4>1, <2>0, <1>0, NoTerminal
    <3>. QED BY <3>1, <3>2, <3>3, <1>0, SilentStep DEF AnswersOnRecord
  <2>3. CASE Record(p)
    <3>1. UNCHANGED <<job, tears>> /\ AppendLine(job[p].run, job[p].event)
      BY <2>3 DEF Record
    <3>2. \A s : \A i \in TerminalLines(s) : i \in TerminalLines(s)' /\ log'[i] = log[i]
      BY <3>1, <2>0, <1>0, LinesStay
    <3>3. \A q \in Procs : pc'[q] \in {"conflict", "answer"} => pc'[q] = pc[q]
      BY <2>3, <1>0, GotoOthers DEF Record
    <3>4. torn' = FALSE
      BY <3>1 DEF AppendLine
    <3>. SUFFICES ASSUME tears = 0
                 PROVE  \A a \in answers' : \E i \in TerminalLines(a.run)' : log'[i].event = a.event
      <4>1. tears = 0 => \A q \in Procs : pc'[q] \in {"conflict", "answer"} =>
                                            TerminalLines(job[q].run)' # {}
        BY <3>1, <3>2, <3>3, <1>0 DEF AnswersOnRecord
      <4>. QED BY <4>1, <3>1, <3>4 DEF AnswersOnRecord
    <3>5. ASSUME NEW a \in answers
          PROVE  \E i \in TerminalLines(a.run)' : log'[i].event = a.event
      BY <3>2, <1>0 DEF AnswersOnRecord
    <3>6. CASE job[p].verdict
      <4>1. job[p].event \in TerminalStates
        BY <3>6, <1>0 DEF VerdictsAreTerminal
      <4>2. ~torn
        BY <1>0 DEF AnswersOnRecord
      <4>5. /\ Len(log) + 1 \in TerminalLines(job[p].run)'
            /\ log'[Len(log) + 1].event = job[p].event
        BY <3>1, <4>1, <4>2, <2>0, <1>0, TerminalLineAdded
      <4>6. answers' = answers \cup {[run |-> job[p].run, event |-> job[p].event]}
        BY <2>3, <3>6 DEF Record
      <4>8. ASSUME NEW a \in answers', a \notin answers
            PROVE  \E i \in TerminalLines(a.run)' : log'[i].event = a.event
        <5>1. a = [run |-> job[p].run, event |-> job[p].event]
          BY <4>6, <4>8
        <5>2. a.run = job[p].run /\ a.event = job[p].event
          BY <5>1
        <5>3. TerminalLines(a.run)' = TerminalLines(job[p].run)'
          BY <5>2, <3>1
        <5>. QED BY <4>5, <5>2, <5>3
      <4>. QED BY <3>5, <4>8
    <3>7. CASE ~job[p].verdict
      <4>1. answers' = answers
        BY <2>3, <3>7 DEF Record
      <4>. QED BY <4>1, <3>5
    <3>. QED BY <3>6, <3>7
  <2>4. CASE RecordConflict(p)
    <3>1. UNCHANGED <<job, tears, answers>> /\ AppendLine(job[p].run, "PROTOCOL_CONFLICT")
      BY <2>4 DEF RecordConflict
    <3>2. \A s : \A i \in TerminalLines(s) : i \in TerminalLines(s)' /\ log'[i] = log[i]
      BY <3>1, <2>0, <1>0, Vocabulary, LinesStay
    <3>3. /\ \A q \in Procs : q # p => pc'[q] = pc[q]
          /\ pc[p] = "conflict"
      BY <2>4, <1>0, GotoOthers DEF RecordConflict
    <3>4. torn' = FALSE
      BY <3>1 DEF AppendLine
    <3>5. tears = 0 => \A q \in Procs : pc'[q] \in {"conflict", "answer"} =>
                                          TerminalLines(job[q].run)' # {}
      BY <3>1, <3>2, <3>3, <1>0 DEF AnswersOnRecord
    <3>6. tears = 0 => \A a \in answers' : \E i \in TerminalLines(a.run)' : log'[i].event = a.event
      BY <3>1, <3>2, <1>0 DEF AnswersOnRecord
    <3>. QED BY <3>1, <3>4, <3>5, <3>6 DEF AnswersOnRecord
  <2>5. CASE Answer(p)
    <3>1. UNCHANGED <<log, torn, tears, job>> /\ pc[p] = "answer"
      BY <2>5 DEF Answer
    <3>2. \A q \in Procs : pc'[q] \in {"conflict", "answer"} => pc'[q] = pc[q]
      BY <2>5, <1>0, GotoOthers DEF Answer
    <3>3. \A s : TerminalLines(s)' = TerminalLines(s)
      BY <3>1, SameLines
    <3>. SUFFICES ASSUME tears = 0
                 PROVE  \A a \in answers' : \E i \in TerminalLines(a.run) : log[i].event = a.event
      BY <3>1, <3>2, <3>3, <1>0 DEF AnswersOnRecord
    <3>4. PICK i \in TerminalLines(job[p].run) : GetTerminal(job[p].run) = log[i].event
      BY <3>1, <2>0, <1>0, FirstTerminal DEF AnswersOnRecord
    <3>5. GetTerminal(job[p].run) # NoEvent
      BY <3>4, <2>0, <1>0, NoTerminal
    <3>6. answers' = answers \cup {[run |-> job[p].run, event |-> GetTerminal(job[p].run)]}
      BY <2>5, <3>5 DEF Answer
    <3>. QED BY <3>4, <3>6, <1>0 DEF AnswersOnRecord
  <2>6. CASE CrashTorn(p)
    BY <2>6, <1>0, LedgerAssumption DEF CrashTorn, TypeOK, AnswersOnRecord
  <2>. QED BY <1>2, <2>1, <2>2, <2>3, <2>4, <2>5, <2>6 DEF Step
<1>3. CASE TimePasses \/ FindStale \/ UNCHANGED vars
  <2>1. UNCHANGED <<log, torn, answers, tears, job, pc>>
    BY <1>3 DEF TimePasses, FindStale, vars
  <2>. QED BY <2>1, <1>0, SilentStep DEF AnswersOnRecord
<1>. QED BY <1>1, <1>2, <1>3 DEF Next

\* The answers are on record at first, and after every step.
LEMMA VerdictInit == Init => VerdictInv
<1>1. Init => LedgerInv
  BY InitInv
<1>2. Init => VerdictsAreTerminal /\ AnswersOnRecord
  BY DEF Init, VerdictsAreTerminal, AnswersOnRecord
<1>. QED BY <1>1, <1>2 DEF VerdictInv

\* Every step keeps the answers on record.
LEMMA VerdictStep == VerdictInv /\ [Next]_vars => VerdictInv'
  BY StepInv, VerdictsStep, RecordStep DEF VerdictInv, LedgerInv

\* What record_artifact_verdict answered is what the ledger holds, for any
\* number of writers and crashes, until a line is torn.
THEOREM VerdictsAgree == Spec => []VerdictIsTheRecord
<1>1. VerdictInv => VerdictIsTheRecord
  <2>. SUFFICES ASSUME VerdictInv, tears = 0, NEW a \in answers
               PROVE  GetTerminal(a.run) = a.event
    BY DEF VerdictIsTheRecord
  <2>1. LedgerInv /\ a.run \in Runs
    BY DEF VerdictInv, LedgerInv, TypeOK, Entries
  <2>2. PICK i \in TerminalLines(a.run) : log[i].event = a.event
    BY DEF VerdictInv, AnswersOnRecord
  <2>. QED BY <2>1, <2>2, TheTerminal
<1>. QED BY <1>1, VerdictInit, VerdictStep, PTL DEF Spec

\* Every step keeps accepted runs on record.
LEMMA AcceptedStep == VerdictInv /\ AcceptedOnRecord /\ [Next]_vars => AcceptedOnRecord'
<1>. SUFFICES ASSUME VerdictInv, AcceptedOnRecord, [Next]_vars PROVE AcceptedOnRecord'
  OBVIOUS
<1>0. /\ TypeOK /\ log \in Seq(Entries) /\ torn \in BOOLEAN /\ AnswersOnRecord
  BY DEF VerdictInv, LedgerInv, TypeOK
<1>1. CASE UNCHANGED <<log, accepted, tears>>
  <2>1. \A s : TerminalLines(s)' = TerminalLines(s)
    BY <1>1, SameLines
  <2>. QED BY <1>1, <2>1 DEF AcceptedOnRecord
<1>2. ASSUME NEW p \in Procs, NEW r \in Runs, Call(p, r) PROVE AcceptedOnRecord'
  BY <1>1, <1>2, CallBegins DEF Begin
<1>3. ASSUME NEW p \in Procs, Step(p) PROVE AcceptedOnRecord'
  <2>0. job[p].run \in Runs /\ job[p].event \in Events
    BY <1>0 DEF TypeOK, Jobs
  <2>1. CASE ProgressCheck(p) \/ Lock(p) \/ Check(p) \/ Unlock(p) \/ Answer(p) \/ Crash(p)
    BY <1>1, <2>1 DEF ProgressCheck, Lock, Check, Unlock, Answer, Crash
  <2>2. CASE Record(p)
    <3>1. job' = job /\ tears' = tears /\ AppendLine(job[p].run, job[p].event)
      BY <2>2 DEF Record
    <3>2. \A s : \A i \in TerminalLines(s) : i \in TerminalLines(s)'
      BY <3>1, <2>0, <1>0, LinesStay
    <3>. SUFFICES ASSUME tears = 0, NEW r \in accepted' PROVE TerminalLines(r)' # {}
      BY <3>1 DEF AcceptedOnRecord
    <3>3. CASE r \in accepted
      BY <3>2, <3>3 DEF AcceptedOnRecord
    <3>4. CASE r \notin accepted
      <4>1. job[p].event \in TerminalStates /\ r = job[p].run
        BY <2>2, <3>4 DEF Record
      <4>2. ~torn
        BY <1>0 DEF AnswersOnRecord
      <4>3. Len(log) + 1 \in TerminalLines(job[p].run)'
        BY <4>1, <4>2, <3>1, <2>0, <1>0, TerminalLineAdded
      <4>4. TerminalLines(r)' = TerminalLines(job[p].run)'
        BY <4>1, <3>1
      <4>. QED BY <4>3, <4>4
    <3>. QED BY <3>3, <3>4
  <2>3. CASE RecordConflict(p)
    <3>1. UNCHANGED <<accepted, tears>> /\ AppendLine(job[p].run, "PROTOCOL_CONFLICT")
      BY <2>3 DEF RecordConflict
    <3>2. \A s : \A i \in TerminalLines(s) : i \in TerminalLines(s)'
      BY <3>1, <2>0, <1>0, Vocabulary, LinesStay
    <3>. QED BY <3>1, <3>2 DEF AcceptedOnRecord
  <2>4. CASE CrashTorn(p)
    BY <2>4, <1>0, LedgerAssumption DEF CrashTorn, TypeOK, AcceptedOnRecord
  <2>. QED BY <1>3, <2>1, <2>2, <2>3, <2>4 DEF Step
<1>4. CASE TimePasses \/ FindStale \/ UNCHANGED vars
  BY <1>1, <1>4 DEF TimePasses, FindStale, vars
<1>. QED BY <1>2, <1>3, <1>4 DEF Next

\* find_stale never reports a run whose terminal event record_event accepted,
\* for any number of writers and crashes, until a line is torn.
THEOREM WatchdogIsRight == Spec => StaleIsUnfinished
<1>. DEFINE Inv == VerdictInv /\ AcceptedOnRecord
<1>1. Init => Inv
  BY VerdictInit DEF Init, AcceptedOnRecord
<1>2. Inv /\ [Next]_vars => Inv'
  BY VerdictStep, AcceptedStep
<1>3. Inv /\ [Next]_vars => [tears = 0 /\ stale' # stale => stale' \cap accepted = {}]_vars
  <2>. SUFFICES ASSUME Inv, Next, tears = 0, stale' # stale PROVE stale' \cap accepted = {}
    OBVIOUS
  <2>1. FindStale
    BY DEF Next, Step, Call, ProgressCheck, Lock, Check, Record, RecordConflict, Unlock,
           Answer, Crash, CrashTorn, ApplyMessage, ApplyProgress, ArtifactVerdict, Begin,
           TimePasses
  <2>. QED BY <2>1 DEF FindStale, AcceptedOnRecord
<1>. QED BY <1>1, <1>2, <1>3, PTL DEF Spec, StaleIsUnfinished
=============================================================================

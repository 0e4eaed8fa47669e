---------------------------- MODULE OracleAnswers ----------------------------
(***************************************************************************)
(* Which text result and wait take for the answer to the latest ask        *)
(* (oracle.py).  ask records an anchor in meta.json once the gateway has   *)
(* accepted its command; start, revive and the lazy backfill rewrite the   *)
(* same file and carry the anchor over.  result and wait take no output    *)
(* that is older than the anchor.                                          *)
(*                                                                         *)
(* The clock counts half seconds: last_ask_at and created_at are formatted *)
(* to whole seconds, the transcript keeps the fraction.                    *)
(***************************************************************************)
EXTENDS Naturals, Sequences, FiniteSets

CONSTANTS Procs,      \* processes that write meta.json
          MaxTime, MaxAsks, MaxBinds, MaxTexts, MaxEvents

ASSUME AnswersAssumption ==
    MaxTime \in Nat \ {0} /\ MaxAsks \in Nat /\ MaxBinds \in Nat /\ MaxTexts \in Nat /\ MaxEvents \in Nat

VARIABLES
    now,     \* the clock
    gate,    \* meta.json: the anchor (at 0: none), its request and generation
    proc,    \* process -> the write of meta.json in progress
    sent,    \* request -> when its command was accepted
    texts,   \* what the agent wrote: transcript texts and REPORT messages
    events,  \* runtime events of the review, as events.list serves them
    gen,     \* generation of the runtime
    wait,    \* the wait command
    shown,   \* the last text reported: when it was written, the latest
             \* ask recorded when the anchor was read (time 0: none)
    binds,   \* rebindings so far
    last,    \* the last ask that was recorded
    mixed    \* two writes of meta.json have overlapped

answerVars == <<now, gate, proc, sent, texts, events, gen, wait, shown, binds, last, mixed>>

Times == 0 .. MaxTime
Asks  == 0 .. MaxAsks   \* 0: no request
Gate  == [at: Times, req: Asks, gen: Nat]
Kinds == {"progress", "end", "state"}   \* ASSISTANT_PROGRESS, TASK_STATE agent_end and others

NoGate == [at |-> 0, req |-> 0, gen |-> 0]
Idle   == [step |-> "idle", req |-> 0, gate |-> NoGate]
NoWait == [at |-> "off", gate |-> NoGate, cursor |-> 0, recovered |-> FALSE]

AnswersTypeOK ==
    /\ now \in Times /\ gate \in Gate /\ gen \in 1 .. 2
    /\ proc \in [Procs -> [step: {"idle", "sent", "ask", "bind"}, req: Asks, gate: Gate]]
    /\ Len(sent) <= MaxAsks /\ \A r \in DOMAIN sent : sent[r] \in Times
    /\ Cardinality(texts) <= MaxTexts /\ texts \subseteq [at: Times, src: {"transcript", "report"}, req: Asks]
    /\ Len(events) <= MaxEvents
    /\ \A i \in DOMAIN events : events[i] \in [kind: Kinds, at: Times, req: Asks, gen: 1 .. 2]
    /\ wait \in [at: {"off", "boot", "poll", "done"}, gate: Gate,
                 cursor: 0 .. MaxEvents, recovered: BOOLEAN]
    /\ shown \in [at: Times, req: Asks] /\ binds \in 0 .. MaxBinds
    /\ last \in Asks /\ mixed \in BOOLEAN

\* A new review; a wait is still to come ("off") or none is looked at ("done").
FreshReview(waiting) ==
    /\ now = 1 /\ gate = NoGate /\ gen = 1
    /\ proc = [p \in Procs |-> Idle]
    /\ sent = <<>> /\ texts = {} /\ events = <<>>
    /\ wait = [NoWait EXCEPT !.at = waiting] /\ shown = [at |-> 0, req |-> 0]
    /\ binds = 0 /\ last = 0 /\ mixed = FALSE

\* Nobody waits; MCOracleAnswers starts from a wait as well.
AnswersInit == FreshReview("done")

Second(t) == 2 * (t \div 2)

Tick == /\ now < MaxTime /\ now' = now + 1
        /\ UNCHANGED <<gate, proc, sent, texts, events, gen, wait, shown, binds, last, mixed>>

-----------------------------------------------------------------------------
(* Writers of meta.json *)

Overlap(p) == \E q \in Procs \ {p} : proc[q].step \in {"ask", "bind"}

\* The command of an ask is accepted; an undelivered one records nothing.
AskSent(p) ==
    /\ proc[p].step = "idle" /\ Len(sent) < MaxAsks
    /\ sent' = Append(sent, now)
    /\ proc' = [proc EXCEPT ![p] = [step |-> "sent", req |-> Len(sent) + 1, gate |-> NoGate]]
    /\ UNCHANGED <<now, gate, texts, events, gen, wait, shown, binds, last, mixed>>

\* _record_last_ask: the anchor is the time of recording, to the second.
AskStamps(p) ==
    /\ proc[p].step = "sent"
    /\ proc' = [proc EXCEPT ![p].step = "ask",
                            ![p].gate = [at |-> Second(now), req |-> proc[p].req, gen |-> gen]]
    /\ mixed' = (mixed \/ Overlap(p))
    /\ UNCHANGED <<now, gate, sent, texts, events, gen, wait, shown, binds, last>>

\* start, revive and backfill carry over the anchor they read.
\* Mutant: a rebinding writes the bound session only.
CarriedMut == NoGate
Carried == gate

BindReads(p) ==
    /\ proc[p].step = "idle" /\ binds < MaxBinds
    /\ binds' = binds + 1
    /\ proc' = [proc EXCEPT ![p] = [step |-> "bind", req |-> 0, gate |-> Carried]]
    /\ mixed' = (mixed \/ Overlap(p))
    /\ UNCHANGED <<now, gate, sent, texts, events, gen, wait, shown, last>>

\* os.replace of meta.json; after it the file is whole again.
MetaWrites(p) ==
    /\ proc[p].step \in {"ask", "bind"}
    /\ gate' = proc[p].gate
    /\ last' = IF proc[p].step = "ask" THEN proc[p].req ELSE last
    /\ proc' = [proc EXCEPT ![p] = Idle]
    /\ UNCHANGED <<now, sent, texts, events, gen, wait, shown, binds, mixed>>

-----------------------------------------------------------------------------
(* The agent (external): texts and events, in any order *)

\* A REPORT may name the request it answers, a transcript never does.
AgentWrites ==
    /\ Cardinality(texts) < MaxTexts
    /\ \/ texts' = texts \cup {[at |-> now, src |-> "transcript", req |-> 0]}
       \/ \E r \in {0} \cup DOMAIN sent :
            texts' = texts \cup {[at |-> Second(now), src |-> "report", req |-> r]}
    /\ UNCHANGED <<now, gate, proc, sent, events, gen, wait, shown, binds, last, mixed>>

\* Events that come after the wait concern nobody.
AgentReports ==
    /\ Len(events) < MaxEvents /\ wait.at # "done"
    /\ \E kind \in Kinds, r \in {0} \cup DOMAIN sent :
         events' = Append(events, [kind |-> kind, at |-> Second(now), req |-> r, gen |-> gen])
    /\ UNCHANGED <<now, gate, proc, sent, texts, gen, wait, shown, binds, last, mixed>>

-----------------------------------------------------------------------------
(* Reading *)

\* _extract_assistant_messages: transcript texts at or after the anchor.
FreshTexts(g) == {t \in texts : t.src = "transcript" /\ t.at >= g.at}

\* _scan_mailbox_report: REPORTs at or after it that name no other request.
FreshReports(g) ==
    {t \in texts : /\ t.src = "report" /\ t.at >= g.at
                   /\ g.req # 0 /\ t.req # 0 => t.req = g.req}

Latest(ts) == CHOOSE t \in ts : \A u \in ts : u.at <= t.at

\* _event_outside_ask_window, negated.
InWindow(ev, g) ==
    g.at = 0 \/ /\ ev.at >= g.at
                /\ ev.gen = g.gen
                /\ ev.req # 0 => ev.req = g.req

Shows(t, r) == shown' = [at |-> t.at, req |-> r]

\* result: the transcript of the bound session when its file is found, then
\* a REPORT, then a transcript found by scanning the disk for the key.
ResultTranscript == FreshTexts(gate) # {} /\ Shows(Latest(FreshTexts(gate)), last)

ResultReport == FreshReports(gate) # {} /\ Shows(Latest(FreshReports(gate)), last)

ResultScan == FreshReports(gate) = {} /\ ResultTranscript

CmdResult ==
    /\ \E found \in BOOLEAN :
         \/ found /\ ResultTranscript
         \/ (~found \/ FreshTexts(gate) = {}) /\ ResultReport
         \/ ~found /\ ResultScan
    /\ UNCHANGED <<now, gate, proc, sent, texts, events, gen, wait, binds, last, mixed>>

CmdWait ==
    /\ wait.at = "off"
    /\ wait' = [NoWait EXCEPT !.at = "boot", !.gate = gate]
    /\ UNCHANGED <<now, gate, proc, sent, texts, events, gen, shown, binds, last, mixed>>

\* The wait ends with the freshest text, or without one.
Returns ==
    /\ wait' = [wait EXCEPT !.at = "done"]
    /\ IF FreshTexts(wait.gate) # {}
       THEN Shows(Latest(FreshTexts(wait.gate)), wait.gate.req) ELSE UNCHANGED shown

After(kinds) == {i \in wait.cursor + 1 .. Len(events) : events[i].kind \in kinds}
Heard(kinds) == {i \in After(kinds) : InWindow(events[i], wait.gate)}

\* The boot drain lists TASK_STATE only and moves the cursor past the last.
Boot ==
    /\ wait.at = "boot"
    /\ IF Heard({"end"}) # {} THEN Returns
       ELSE /\ wait' = [wait EXCEPT !.at = "poll",
                          !.cursor = IF After({"end", "state"}) = {} THEN 0
                                     ELSE CHOOSE i \in After({"end", "state"}) :
                                            \A j \in After({"end", "state"}) : j <= i]
            /\ UNCHANGED shown
    /\ UNCHANGED <<now, gate, proc, sent, texts, events, gen, binds, last, mixed>>

\* One round of the loop: progress counts once there is a fresh text,
\* agent_end always.
\* Mutant: only agent_end ends a wait.
PollMut ==
    /\ wait.at = "poll" /\ wait.cursor < Len(events)
    /\ IF Heard({"end"}) # {} THEN Returns
       ELSE wait' = [wait EXCEPT !.cursor = Len(events)] /\ UNCHANGED shown
    /\ UNCHANGED <<now, gate, proc, sent, texts, events, gen, binds, last, mixed>>
Poll ==
    /\ wait.at = "poll" /\ wait.cursor < Len(events)
    /\ IF \/ Heard({"end"}) # {}
          \/ Heard({"progress"}) # {} /\ FreshTexts(wait.gate) # {}
       THEN Returns
       ELSE wait' = [wait EXCEPT !.cursor = Len(events)] /\ UNCHANGED shown
    /\ UNCHANGED <<now, gate, proc, sent, texts, events, gen, binds, last, mixed>>

\* A strong stuck signal: --auto-recover releases, revives and binds the
\* gate to the new generation, once; without it, or the second time, and
\* at a deadline, the wait ends.
Recover ==
    /\ wait.at = "poll" /\ ~wait.recovered /\ gen = 1
    /\ gen' = 2
    /\ wait' = [wait EXCEPT !.recovered = TRUE, !.gate.gen = 2]
    /\ UNCHANGED <<now, gate, proc, sent, texts, events, shown, binds, last, mixed>>

GivesUp ==
    /\ wait.at = "poll"
    /\ wait' = [wait EXCEPT !.at = "done"]
    /\ UNCHANGED <<now, gate, proc, sent, texts, events, gen, shown, binds, last, mixed>>

AnswersNext ==
    \/ Tick \/ AgentWrites \/ AgentReports
    \/ \E p \in Procs : AskSent(p) \/ AskStamps(p) \/ BindReads(p) \/ MetaWrites(p)
    \/ CmdResult \/ CmdWait \/ Boot \/ Poll \/ Recover \/ GivesUp

MetaSpec == FreshReview("off") /\ [][AnswersNext]_answerVars

-----------------------------------------------------------------------------
(* Properties *)

\* Unless two writes of meta.json overlapped, no text is reported that was
\* written before the second in which the latest recorded ask was sent,
\* through rebindings too (oracle.py:725-765, 2243-2281, 2857-2980).
NoStaleAnswer ==
    (~mixed /\ shown.req # 0) => shown.at >= Second(sent[shown.req])

\* A wait for which a text and an event of its window are there, the event
\* beyond its cursor, returns, unless it turns to a revived runtime whose
\* generation closes the window (oracle.py:2931-2990).
AnswerEndsWait ==
    (wait.at = "poll" /\ Heard({"progress"}) # {} /\ FreshTexts(wait.gate) # {})
        ~> (wait.at = "done" \/ wait.recovered)

-----------------------------------------------------------------------------
(* The inductive invariant behind NoStaleAnswer *)

\* An anchor that names a request is not older than the second in which the
\* command of that request was accepted.
Anchored(g) ==
    /\ g.at \in Nat /\ g.req \in 0 .. Len(sent)
    /\ g.req # 0 => g.at >= Second(sent[g.req])

\* What the clock has passed.
PastOnly ==
    /\ now \in Times /\ sent \in Seq(Nat) /\ \A r \in 1 .. Len(sent) : sent[r] <= now
    /\ texts \subseteq [at: Times, src: {"transcript", "report"}, req: Nat]

\* Every copy of the anchor is one; a recorded ask is on its way to be one.
Anchors ==
    /\ gate \in [at: Nat, req: Nat, gen: Nat] /\ Anchored(gate)
    /\ wait \in [at: {"off", "boot", "poll", "done"}, gate: [at: Nat, req: Nat, gen: Nat],
                 cursor: Nat, recovered: BOOLEAN]
    /\ Anchored(wait.gate)
    /\ proc \in [Procs -> [step: {"idle", "sent", "ask", "bind"}, req: Nat,
                          gate: [at: Nat, req: Nat, gen: Nat]]]
    /\ \A p \in Procs : /\ Anchored(proc[p].gate)
                        /\ proc[p].step \in {"sent", "ask"} => proc[p].req \in 1 .. Len(sent)
                        /\ proc[p].step = "ask" => proc[p].gate.req = proc[p].req

\* While writes of meta.json do not overlap, at most one is in progress, a
\* rebinding holds the anchor as it is, and the file names the last ask.
SerialMeta ==
    ~mixed =>
        /\ gate.req = last
        /\ \A p, q \in Procs :
             proc[p].step \in {"ask", "bind"} /\ proc[q].step \in {"ask", "bind"} => p = q
        /\ \A p \in Procs : proc[p].step = "bind" => proc[p].gate = gate

ShownFresh ==
    /\ mixed \in BOOLEAN /\ gen \in Nat /\ Len(events) \in Nat
    /\ ~mixed => /\ shown.req \in 0 .. Len(sent) /\ shown.at \in Nat
                 /\ shown.req # 0 => shown.at >= Second(sent[shown.req])

AnswersInv == PastOnly /\ Anchors /\ SerialMeta /\ ShownFresh
=============================================================================

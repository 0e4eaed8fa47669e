---------------------------- MODULE OracleProofs ----------------------------
(* Proofs about the oracle commands, the park leases and the answers, for   *)
(* any keys, processes and bounds.                                          *)
EXTENDS OracleReview, OracleAnswers, FiniteSetTheorems, WellFoundedInduction, TLAPS

\* A set of natural numbers that is not empty has a least element.
LEMMA LeastExists ==
  ASSUME NEW S \in SUBSET Nat, S # {}
  PROVE  \E x \in S : \A y \in S : x <= y
<1>1. IsWellFoundedOn(OpToRel(<, Nat), Nat)
  BY NatLessThanWellFounded
<1>2. PICK x \in S : \A y \in S : ~(<<y, x>> \in OpToRel(<, Nat))
  BY <1>1, WFMin
<1>3. \A y \in S : ~(y < x)
  BY <1>2 DEF OpToRel
<1>. QED BY <1>3

\* A set of numbers up to a bound that is not empty has a greatest element.
LEMMA GreatestExists ==
  ASSUME NEW N \in Nat, NEW S \in SUBSET (0 .. N), S # {}
  PROVE  \E x \in S : \A y \in S : y <= x
<1>. DEFINE T == {N - y : y \in S}
<1>0. PICK y0 \in S : TRUE
  OBVIOUS
<1>1. T \in SUBSET Nat /\ N - y0 \in T
  OBVIOUS
<1>2. PICK t \in T : \A u \in T : t <= u
  BY <1>1, LeastExists
<1>3. PICK x \in S : t = N - x
  BY <1>2
<1>4. \A y \in S : N - x <= N - y
  BY <1>2, <1>3
<1>. QED BY <1>4

-----------------------------------------------------------------------------
(* Answers *)

\* The freshest of some texts is one of them.
LEMMA LatestIsOne ==
  ASSUME PastOnly, NEW ts \in SUBSET texts, ts # {}
  PROVE  Latest(ts) \in ts
<1>. DEFINE S == {t.at : t \in ts}
<1>1. PICK t0 \in ts : TRUE
  OBVIOUS
<1>2. S \in SUBSET (0 .. MaxTime) /\ t0.at \in S
  BY DEF PastOnly, Times
<1>3. PICK x \in S : \A y \in S : y <= x
  BY <1>2, GreatestExists, AnswersAssumption
<1>4. PICK t \in ts : \A u \in ts : u.at <= t.at
  BY <1>3
<1>. QED BY <1>4 DEF Latest

\* The second of an instant is not after it, and seconds keep the order.
LEMMA SecondOrder ==
  /\ \A t \in Nat : Second(t) \in Nat /\ Second(t) <= t
  /\ \A t, u \in Nat : t <= u => Second(t) <= Second(u)
BY DEF Second

\* An anchor stays one when another command is accepted.
LEMMA AnchoredGrows ==
  ASSUME NEW g, Anchored(g), sent \in Seq(Nat), NEW t \in Nat, sent' = Append(sent, t)
  PROVE  g.at \in Nat /\ g.req \in 0 .. Len(sent') /\ (g.req # 0 => g.at >= Second(sent'[g.req]))
BY DEF Anchored

\* A text that is shown is not older than the anchor it was filtered by.
LEMMA ShownIsFresh ==
  ASSUME PastOnly, NEW g, Anchored(g), NEW r,
         \/ FreshTexts(g) # {} /\ Shows(Latest(FreshTexts(g)), r)
         \/ FreshReports(g) # {} /\ Shows(Latest(FreshReports(g)), r)
  PROVE  shown'.at \in Nat /\ shown'.at >= g.at /\ shown'.req = r
<1>1. PICK t \in texts : t.at >= g.at /\ shown' = [at |-> t.at, req |-> r]
  BY LatestIsOne DEF FreshTexts, FreshReports, Shows
<1>2. t.at \in Nat
  BY AnswersAssumption DEF PastOnly, Times
<1>. QED BY <1>1, <1>2

\* Every step keeps the invariant.
LEMMA AnswersStep == AnswersInv /\ [AnswersNext]_answerVars => AnswersInv'
<1>. SUFFICES ASSUME AnswersInv, [AnswersNext]_answerVars PROVE AnswersInv'
  OBVIOUS
<1>. USE DEF AnswersInv
<1>. DEFINE G == [at: Nat, req: Nat, gen: Nat]
            P == [step: {"idle", "sent", "ask", "bind"}, req: Nat, gate: G]
<1>0. /\ Anchored(NoGate) /\ NoGate \in G /\ Idle \in P /\ Idle.gate = NoGate /\ Idle.step = "idle"
      /\ now \in Nat /\ Len(sent) \in Nat
  BY AnswersAssumption DEF Anchored, NoGate, Idle, PastOnly, Times
<1>a. \A r \in 1 .. Len(sent) : Second(sent[r]) \in Nat
  <2>1. \A r \in 1 .. Len(sent) : sent[r] \in Nat
    BY DEF PastOnly
  <2>. QED BY <2>1, SecondOrder
<1>1. CASE Tick
  <2>1. PastOnly'
    BY <1>1, AnswersAssumption DEF Tick, PastOnly, Times
  <2>. QED BY <1>1, <2>1 DEF Tick, Anchors, Anchored, SerialMeta, ShownFresh
<1>2. ASSUME NEW p \in Procs, AskSent(p) PROVE AnswersInv'
  <2>0. /\ sent' = Append(sent, now) /\ sent \in Seq(Nat) /\ Len(sent') = Len(sent) + 1
        /\ UNCHANGED <<now, gate, texts, events, gen, wait, shown, binds, last, mixed>>
        /\ proc' = [proc EXCEPT ![p] = [step |-> "sent", req |-> Len(sent) + 1, gate |-> NoGate]]
    BY <1>2, <1>0 DEF AskSent, PastOnly
  <2>1. PastOnly'
    BY <1>0, <2>0 DEF PastOnly
  <2>2. \A g : Anchored(g) => g.at \in Nat /\ g.req \in 0 .. Len(sent') /\ (g.req # 0 => g.at >= Second(sent'[g.req]))
    BY <1>0, <2>0, AnchoredGrows
  <2>3. proc' \in [Procs -> P]
    BY <1>0, <2>0 DEF Anchors
  <2>4. /\ proc'[p] = [step |-> "sent", req |-> Len(sent) + 1, gate |-> NoGate]
        /\ \A q \in Procs : q # p => proc'[q] = proc[q]
    BY <2>0 DEF Anchors
  <2>5. Anchors'
    <3>1. Anchored(gate)' /\ Anchored(wait.gate)'
      BY <2>0, <2>2 DEF Anchors, Anchored
    <3>2. ASSUME NEW q \in Procs
          PROVE  /\ Anchored(proc[q].gate)'
                 /\ proc'[q].step \in {"sent", "ask"} => proc'[q].req \in 1 .. Len(sent')
                 /\ proc'[q].step = "ask" => proc'[q].gate.req = proc'[q].req
      <4>1. CASE q = p
        BY <1>0, <2>0, <2>2, <2>4, <4>1 DEF Anchored
      <4>2. CASE q # p
        <5>1. proc'[q] = proc[q] /\ Anchored(proc[q].gate)
          BY <2>4, <4>2 DEF Anchors
        <5>2. Anchored(proc[q].gate)'
          BY <5>1, <2>2 DEF Anchored
        <5>. QED BY <1>0, <2>0, <5>1, <5>2 DEF Anchors
      <4>. QED BY <4>1, <4>2
    <3>. QED BY <2>0, <2>3, <3>1, <3>2 DEF Anchors
  <2>6. SerialMeta'
    BY <2>0, <2>4 DEF SerialMeta
  <2>7. ShownFresh'
    BY <1>0, <2>0 DEF ShownFresh
  <2>. QED BY <2>1, <2>5, <2>6, <2>7
<1>3. ASSUME NEW p \in Procs, AskStamps(p) PROVE AnswersInv'
  <2>. DEFINE g == [at |-> Second(now), req |-> proc[p].req, gen |-> gen]
  <2>0. /\ proc[p].step = "sent" /\ UNCHANGED <<now, gate, sent, texts, events, gen, wait, shown, binds, last>>
        /\ proc' = [proc EXCEPT ![p].step = "ask", ![p].gate = g]
        /\ mixed' = (mixed \/ Overlap(p))
    BY <1>3 DEF AskStamps
  <2>1. proc[p].req \in 1 .. Len(sent) /\ proc[p].req \in Nat /\ proc[p] \in P
    BY <2>0 DEF Anchors
  <2>2. g \in G /\ Anchored(g)
    <3>1. sent[proc[p].req] \in Nat /\ sent[proc[p].req] <= now
      BY <2>1 DEF PastOnly
    <3>2. Second(now) >= Second(sent[proc[p].req]) /\ Second(now) \in Nat
      BY <1>0, <3>1, SecondOrder
    <3>. QED BY <1>0, <2>1, <3>2 DEF Anchored, ShownFresh
  <2>. HIDE DEF g
  <2>3. /\ proc' \in [Procs -> P]
        /\ proc'[p].step = "ask" /\ proc'[p].gate = g /\ proc'[p].req = proc[p].req
        /\ \A q \in Procs : q # p => proc'[q] = proc[q]
    BY <2>0, <2>1, <2>2 DEF Anchors
  <2>4. g.req = proc[p].req
    BY DEF g
  <2>5. Anchors'
    <3>1. \A q \in Procs : Anchored(proc'[q].gate)
      BY <2>2, <2>3 DEF Anchors
    <3>. QED BY <2>0, <2>1, <2>3, <2>4, <3>1 DEF Anchors, Anchored
  <2>6. mixed' \in BOOLEAN /\ (~mixed' => ~mixed /\ \A q \in Procs : q # p => proc[q].step \notin {"ask", "bind"})
    BY <2>0 DEF Overlap
  <2>7. SerialMeta'
    BY <2>0, <2>3, <2>6 DEF SerialMeta
  <2>. QED BY <2>0, <2>5, <2>6, <2>7 DEF PastOnly, ShownFresh
<1>4. ASSUME NEW p \in Procs, BindReads(p) PROVE AnswersInv'
  <2>0. /\ UNCHANGED <<now, gate, sent, texts, events, gen, wait, shown, last>>
        /\ proc' = [proc EXCEPT ![p] = [step |-> "bind", req |-> 0, gate |-> gate]]
        /\ mixed' = (mixed \/ Overlap(p))
    BY <1>4 DEF BindReads, Carried
  <2>1. /\ proc' \in [Procs -> P]
        /\ proc'[p].step = "bind" /\ proc'[p].gate = gate
        /\ \A q \in Procs : q # p => proc'[q] = proc[q]
    BY <2>0 DEF Anchors
  <2>2. Anchors'
    <3>1. \A q \in Procs : Anchored(proc'[q].gate)
      BY <2>1 DEF Anchors
    <3>. QED BY <2>0, <2>1, <3>1 DEF Anchors, Anchored
  <2>3. mixed' \in BOOLEAN /\ (~mixed' => ~mixed /\ \A q \in Procs : q # p => proc[q].step \notin {"ask", "bind"})
    BY <2>0 DEF Overlap
  <2>4. SerialMeta'
    BY <2>0, <2>1, <2>3 DEF SerialMeta
  <2>. QED BY <2>0, <2>2, <2>3, <2>4 DEF PastOnly, ShownFresh
<1>5. ASSUME NEW p \in Procs, MetaWrites(p) PROVE AnswersInv'
  <2>0. /\ gate' = proc[p].gate /\ proc[p].step \in {"ask", "bind"}
        /\ last' = IF proc[p].step = "ask" THEN proc[p].req ELSE last
        /\ proc' = [proc EXCEPT ![p] = Idle]
        /\ UNCHANGED <<now, sent, texts, events, gen, wait, shown, binds, mixed>>
    BY <1>5 DEF MetaWrites
  <2>1. /\ proc' \in [Procs -> P] /\ proc'[p] = Idle
        /\ \A q \in Procs : q # p => proc'[q] = proc[q]
    BY <1>0, <2>0 DEF Anchors
  <2>2. Anchors'
    <3>1. \A q \in Procs : Anchored(proc'[q].gate)
      BY <1>0, <2>1 DEF Anchors
    <3>2. gate' \in G /\ Anchored(gate')
      BY <2>0 DEF Anchors
    <3>. QED BY <1>0, <2>0, <2>1, <3>1, <3>2 DEF Anchors, Anchored
  <2>3. SerialMeta'
    BY <1>0, <2>0, <2>1 DEF SerialMeta, Anchors
  <2>. QED BY <2>0, <2>2, <2>3 DEF PastOnly, ShownFresh
<1>6. CASE AgentWrites
  <2>1. texts' \subseteq [at: Times, src: {"transcript", "report"}, req: Nat]
    <3>0. Second(now) \in Nat /\ Second(now) <= now
      BY <1>0, SecondOrder
    <3>1. Second(now) \in Times
      BY <3>0, AnswersAssumption DEF PastOnly, Times
    <3>2. \A r \in {0} \cup DOMAIN sent : r \in Nat
      BY DEF PastOnly
    <3>3. \/ texts' = texts \cup {[at |-> now, src |-> "transcript", req |-> 0]}
          \/ \E r \in {0} \cup DOMAIN sent :
               texts' = texts \cup {[at |-> Second(now), src |-> "report", req |-> r]}
      BY <1>6 DEF AgentWrites
    <3>. QED BY <3>1, <3>2, <3>3 DEF PastOnly
  <2>. QED BY <1>6, <2>1 DEF AgentWrites, PastOnly, Anchors, Anchored, SerialMeta, ShownFresh
<1>7. CASE AgentReports
  <2>1. Len(events') \in Nat
    BY <1>7 DEF AgentReports, ShownFresh
  <2>. QED BY <1>7, <2>1 DEF AgentReports, PastOnly, Anchors, Anchored, SerialMeta, ShownFresh
<1>8. CASE CmdResult
  <2>1. UNCHANGED <<now, gate, proc, sent, texts, events, gen, wait, binds, last, mixed>>
    BY <1>8 DEF CmdResult
  <2>2. \/ FreshTexts(gate) # {} /\ Shows(Latest(FreshTexts(gate)), last)
        \/ FreshReports(gate) # {} /\ Shows(Latest(FreshReports(gate)), last)
    BY <1>8 DEF CmdResult, ResultTranscript, ResultReport, ResultScan
  <2>3. shown'.at \in Nat /\ shown'.at >= gate.at /\ shown'.req = last
    BY <2>2, ShownIsFresh DEF Anchors
  <2>4. ~mixed => /\ last = gate.req /\ gate.req \in 0 .. Len(sent) /\ gate.at \in Nat
                  /\ gate.req # 0 => gate.at >= Second(sent[gate.req])
    BY DEF SerialMeta, Anchors, Anchored
  <2>5. ShownFresh'
    BY <1>0, <1>a, <2>1, <2>3, <2>4 DEF ShownFresh
  <2>. QED BY <2>1, <2>5 DEF PastOnly, Anchors, Anchored, SerialMeta
<1>9. CASE CmdWait
  <2>1. wait' = [at |-> "boot", gate |-> gate, cursor |-> 0, recovered |-> FALSE]
    BY <1>9 DEF CmdWait, NoWait
  <2>2. Anchors'
    <3>1. wait' \in [at: {"off", "boot", "poll", "done"}, gate: G, cursor: Nat, recovered: BOOLEAN]
      BY <2>1 DEF Anchors
    <3>2. wait'.gate = gate /\ UNCHANGED <<gate, proc, sent>>
      BY <1>9, <2>1 DEF CmdWait
    <3>. QED BY <3>1, <3>2 DEF Anchors, Anchored
  <2>. QED BY <1>9, <2>2 DEF CmdWait, PastOnly, SerialMeta, ShownFresh
<1>10. ASSUME Returns, UNCHANGED <<now, gate, proc, sent, texts, events, gen, binds, last, mixed>>
       PROVE  AnswersInv'
  <2>1. wait' = [wait EXCEPT !.at = "done"]
    BY <1>10 DEF Returns
  <2>2. Anchors'
    BY <1>10, <2>1 DEF Anchors, Anchored
  <2>3. ShownFresh'
    <3>1. CASE FreshTexts(wait.gate) # {}
      <4>1. shown'.at \in Nat /\ shown'.at >= wait.gate.at /\ shown'.req = wait.gate.req
        BY <1>10, <3>1, ShownIsFresh DEF Returns, Anchors
      <4>. QED BY <1>0, <1>a, <1>10, <4>1 DEF ShownFresh, Anchors, Anchored
    <3>2. CASE FreshTexts(wait.gate) = {}
      BY <1>10, <3>2 DEF Returns, ShownFresh
    <3>. QED BY <3>1, <3>2
  <2>. QED BY <1>10, <2>2, <2>3 DEF PastOnly, SerialMeta
\* The wait goes on: only its step and its cursor change.
<1>11. ASSUME NEW a \in {"poll", "done"}, NEW c \in Nat, wait' = [wait EXCEPT !.at = a, !.cursor = c],
              UNCHANGED <<now, gate, proc, sent, texts, events, gen, shown, binds, last, mixed>>
       PROVE  AnswersInv'
  <2>1. Anchors'
    BY <1>11 DEF Anchors, Anchored
  <2>. QED BY <1>11, <2>1 DEF PastOnly, SerialMeta, ShownFresh
<1>12. CASE Boot
  <2>. DEFINE A == After({"end", "state"})
              c == IF A = {} THEN 0 ELSE CHOOSE i \in A : \A j \in A : j <= i
  <2>1. c \in Nat
    <3>1. CASE A # {}
      <4>1. A \in SUBSET (0 .. Len(events)) /\ Len(events) \in Nat
        BY DEF After, ShownFresh, Anchors
      <4>2. \E i \in A : \A j \in A : j <= i
        BY <3>1, <4>1, GreatestExists
      <4>3. (CHOOSE i \in A : \A j \in A : j <= i) \in A
        BY <4>2
      <4>. QED BY <3>1, <4>1, <4>3
    <3>. QED BY <3>1
  <2>2. CASE Heard({"end"}) # {}
    BY <1>10, <1>12, <2>2 DEF Boot
  <2>3. CASE Heard({"end"}) = {}
    <3>1. wait' = [wait EXCEPT !.at = "poll", !.cursor = c]
      BY <1>12, <2>3 DEF Boot
    <3>. HIDE DEF c
    <3>. QED BY <1>11, <1>12, <2>1, <2>3, <3>1 DEF Boot
  <2>. QED BY <2>2, <2>3
<1>13. CASE Poll
  <2>1. UNCHANGED <<now, gate, proc, sent, texts, events, gen, binds, last, mixed>> /\ wait.at = "poll"
    BY <1>13 DEF Poll
  <2>2. \/ Returns
        \/ wait' = [wait EXCEPT !.cursor = Len(events)] /\ UNCHANGED shown
    BY <1>13 DEF Poll
  <2>3. CASE wait' = [wait EXCEPT !.cursor = Len(events)] /\ UNCHANGED shown
    <3>1. Anchors'
      BY <2>1, <2>3 DEF Anchors, Anchored, ShownFresh
    <3>. QED BY <2>1, <2>3, <3>1 DEF PastOnly, SerialMeta, ShownFresh
  <2>. QED BY <1>10, <2>1, <2>2, <2>3
<1>14. CASE Recover
  <2>1. Anchors'
    <3>1. /\ wait'.gate.at = wait.gate.at /\ wait'.gate.req = wait.gate.req
          /\ wait' \in [at: {"off", "boot", "poll", "done"}, gate: G, cursor: Nat, recovered: BOOLEAN]
      BY <1>14 DEF Recover, Anchors
    <3>. QED BY <1>14, <3>1 DEF Recover, Anchors, Anchored
  <2>. QED BY <1>14, <2>1 DEF Recover, PastOnly, SerialMeta, ShownFresh
<1>15. CASE GivesUp
  <2>1. Anchors'
    BY <1>15 DEF GivesUp, Anchors, Anchored
  <2>. QED BY <1>15, <2>1 DEF GivesUp, PastOnly, SerialMeta, ShownFresh
<1>16. CASE UNCHANGED answerVars
  BY <1>16 DEF answerVars, PastOnly, Anchors, Anchored, SerialMeta, ShownFresh
<1>. QED BY <1>1, <1>2, <1>3, <1>4, <1>5, <1>6, <1>7, <1>8, <1>9, <1>12, <1>13, <1>14, <1>15, <1>16
     DEF AnswersNext

\* No text is reported that was written before the second in which the
\* latest recorded ask was sent, whatever is rebound in between, unless two
\* writes of meta.json overlapped: the freshness gate of result and wait.
THEOREM AnswersAreFresh == MetaSpec => []NoStaleAnswer
<1>1. FreshReview("off") => AnswersInv
  <2>. SUFFICES ASSUME FreshReview("off") PROVE AnswersInv
    OBVIOUS
  <2>1. /\ now = 1 /\ gate = NoGate /\ gen = 1 /\ proc = [p \in Procs |-> Idle]
        /\ sent = <<>> /\ texts = {} /\ events = <<>> /\ last = 0 /\ mixed = FALSE
        /\ shown = [at |-> 0, req |-> 0]
        /\ wait = [at |-> "off", gate |-> NoGate, cursor |-> 0, recovered |-> FALSE]
    BY DEF FreshReview, NoWait
  <2>2. /\ NoGate.at = 0 /\ NoGate.req = 0 /\ NoGate \in [at: Nat, req: Nat, gen: Nat]
        /\ Idle.gate = NoGate /\ Idle.step = "idle"
        /\ Idle \in [step: {"idle", "sent", "ask", "bind"}, req: Nat, gate: [at: Nat, req: Nat, gen: Nat]]
    BY DEF NoGate, Idle
  <2>3. Anchors
    <3>1. Anchored(NoGate) /\ Len(sent) = 0
      BY <2>1, <2>2 DEF Anchored
    <3>2. wait.gate = NoGate /\ wait \in [at: {"off", "boot", "poll", "done"},
                                         gate: [at: Nat, req: Nat, gen: Nat],
                                         cursor: Nat, recovered: BOOLEAN]
      BY <2>1, <2>2
    <3>. QED BY <2>1, <2>2, <3>1, <3>2 DEF Anchors
  <2>4. PastOnly
    BY <2>1, AnswersAssumption DEF PastOnly, Times
  <2>5. SerialMeta
    BY <2>1, <2>2 DEF SerialMeta
  <2>6. ShownFresh
    <3>1. mixed \in BOOLEAN /\ gen \in Nat /\ Len(events) \in Nat
      BY <2>1
    <3>2. shown.req = 0 /\ shown.at = 0 /\ Len(sent) = 0
      BY <2>1
    <3>. QED BY <3>1, <3>2 DEF ShownFresh
  <2>. QED BY <2>3, <2>4, <2>5, <2>6 DEF AnswersInv
<1>2. AnswersInv => NoStaleAnswer
  BY DEF AnswersInv, ShownFresh, NoStaleAnswer
<1>. QED BY <1>1, <1>2, AnswersStep, PTL DEF MetaSpec
-----------------------------------------------------------------------------
(* Reviews *)

\* What a row and a command keep when one of their fields is written.
LEMMA RowFields ==
  /\ \A r \in Row : /\ r.sid \in 0 .. MaxSid /\ r.life \in Lives /\ r.round \in 0 .. MaxRounds
                    /\ r.old \in BOOLEAN /\ r.due \in {"no", "soft", "hard"} /\ r # NoLease
  /\ \A r \in Row, d \in {"no", "soft", "hard"} :
       [r EXCEPT !.due = d] \in Row /\ [r EXCEPT !.due = d].sid = r.sid
  /\ \A r \in Row, d \in {"no", "soft", "hard"}, l \in Lives :
       [r EXCEPT !.life = l, !.due = d] \in Row /\ [r EXCEPT !.life = l, !.due = d].sid = r.sid
  /\ \A r \in Row, s \in 0 .. MaxSid : [r EXCEPT !.sid = s] \in Row /\ [r EXCEPT !.sid = s].sid = s
BY ReviewAssumption DEF Row

\* What a write of the park table does to the rows.
LEMMA WriteRows ==
  ASSUME ReviewTypes, NEW k \in Keys, NEW m \in Row, Write(k, m)
  PROVE  /\ lease' \in [Keys -> Row \cup {NoLease}]
         /\ lease'[k] \in Row /\ lease'[k].sid = m.sid
         /\ \A j \in Keys : j # k => lease'[j] = lease[j]
         /\ sweep' \in [at: Stages, todo: SUBSET [key: Keys, copy: Row], clean: BOOLEAN, run: Nat]
         /\ sweep'.todo = sweep.todo
<1>1. [m EXCEPT !.due = "no"] \in Row /\ [m EXCEPT !.due = "no"].sid = m.sid
  BY RowFields
<1>2. lease \in [Keys -> Row \cup {NoLease}]
  BY DEF ReviewTypes
<1>3. lease' = [lease EXCEPT ![k] = [m EXCEPT !.due = "no"]] /\ sweep' = [sweep EXCEPT !.clean = FALSE]
  BY DEF Write
<1>4. sweep' \in [at: Stages, todo: SUBSET [key: Keys, copy: Row], clean: BOOLEAN, run: Nat] /\ sweep'.todo = sweep.todo
  BY <1>3 DEF ReviewTypes
<1>. QED BY <1>1, <1>2, <1>3, <1>4

\* The rows keep their sessions, or go, when a sweep, a renewal or the
\* clock touches them; an eviction writes the session of a copy.
LEMMA ParkRows ==
  ASSUME ReviewTypes, ParkStep
  PROVE  /\ lease' \in [Keys -> Row \cup {NoLease}]
         /\ sweep' \in [at: Stages, todo: SUBSET [key: Keys, copy: Row], clean: BOOLEAN, run: Nat]
         /\ \A k \in Keys : lease'[k] # NoLease =>
              /\ lease[k] # NoLease
              /\ \/ lease'[k].sid = lease[k].sid
                 \/ \E e \in sweep.todo : e.key = k /\ lease'[k].sid = e.copy.sid
         /\ \A e \in sweep'.todo :
              e \in sweep.todo \/ (lease[e.key] # NoLease /\ e.copy.sid = lease[e.key].sid)
<1>. DEFINE Sweep == [at: Stages, todo: SUBSET [key: Keys, copy: Row], clean: BOOLEAN, run: Nat]
<1>0. lease \in [Keys -> Row \cup {NoLease}] /\ sweep \in Sweep /\ sweep.run \in Nat
      /\ sweep.todo \subseteq [key: Keys, copy: Row]
  BY DEF ReviewTypes
<1>1. ASSUME NEW ks \in SUBSET HotKeys
      PROVE  /\ Copies(ks) \in SUBSET [key: Keys, copy: Row]
             /\ \A e \in Copies(ks) : lease[e.key] # NoLease /\ e.copy = lease[e.key]
  BY <1>0 DEF Copies, HotKeys, Life, Held
<1>2. CASE SweepStage
  <2>1. ASSUME NEW l \in Lives, Purge(l)
        PROVE  /\ lease' \in [Keys -> Row \cup {NoLease}]
               /\ \A k \in Keys : lease'[k] # NoLease => lease'[k] = lease[k]
    BY <1>0, <2>1 DEF Purge
  <2>2. /\ lease' \in [Keys -> Row \cup {NoLease}]
        /\ \A k \in Keys : lease'[k] # NoLease => lease'[k] = lease[k]
    <3>1. UNCHANGED lease \/ Purge("cold") \/ Purge("soft")
      BY <1>2 DEF SweepStage
    <3>2. "cold" \in Lives /\ "soft" \in Lives
      BY DEF Lives
    <3>. QED BY <1>0, <2>1, <3>1, <3>2
  <2>3. Expired \in SUBSET HotKeys /\ Excess \in SUBSET HotKeys /\ OverRounds \in SUBSET HotKeys
    BY DEF Expired, Excess, OverRounds
  <2>. DEFINE T == [key: Keys, copy: Row]
  <2>4. /\ Copies(Expired) \in SUBSET T /\ Copies(Excess) \in SUBSET T /\ Copies(OverRounds) \in SUBSET T
        /\ \A e \in Copies(Expired) \cup Copies(Excess) \cup Copies(OverRounds) :
             lease[e.key] # NoLease /\ e.copy = lease[e.key]
    BY <1>1, <2>3
  <2>. HIDE DEF T
  <2>5. sweep' \in [at: Stages, todo: SUBSET T, clean: BOOLEAN, run: Nat]
        /\ sweep'.todo \in {Copies(Expired), Copies(Excess), Copies(OverRounds), {}}
    <3>0. sweep \in [at: Stages, todo: SUBSET T, clean: BOOLEAN, run: Nat]
      BY <1>0 DEF T
    <3>1. \/ sweep' = [at |-> "expired", todo |-> Copies(Expired), clean |-> TRUE, run |-> sweep.run + 1]
          \/ sweep' = [sweep EXCEPT !.at = "lru", !.todo = Copies(Excess)]
          \/ sweep' = [sweep EXCEPT !.at = "rounds", !.todo = Copies(OverRounds)]
          \/ sweep' = [at |-> "idle", todo |-> {}, clean |-> FALSE, run |-> sweep.run]
      BY <1>2 DEF SweepStage, NoSweep
    <3>2. {"idle", "expired", "lru", "rounds"} \subseteq Stages /\ sweep.run + 1 \in Nat
      BY <1>0 DEF Stages
    <3>3. CASE sweep' = [at |-> "expired", todo |-> Copies(Expired), clean |-> TRUE, run |-> sweep.run + 1]
      BY <2>4, <3>2, <3>3
    <3>4. CASE sweep' = [at |-> "idle", todo |-> {}, clean |-> FALSE, run |-> sweep.run]
      BY <1>0, <3>2, <3>4
    <3>5. CASE sweep' = [sweep EXCEPT !.at = "lru", !.todo = Copies(Excess)]
      BY <2>4, <3>0, <3>2, <3>5
    <3>6. CASE sweep' = [sweep EXCEPT !.at = "rounds", !.todo = Copies(OverRounds)]
      BY <2>4, <3>0, <3>2, <3>6
    <3>. QED BY <3>1, <3>3, <3>4, <3>5, <3>6
  <2>. QED BY <2>2, <2>4, <2>5 DEF T
<1>3. CASE Evict
  <2>1. PICK e \in sweep.todo :
          /\ sweep' = [sweep EXCEPT !.todo = @ \ {e}]
          /\ lease' = IF Evictable(e.key)
                      THEN [lease EXCEPT ![e.key] = [e.copy EXCEPT !.life = "cold", !.due = lease[e.key].due]]
                      ELSE lease
    BY <1>3 DEF Evict
  <2>2. e.key \in Keys /\ e.copy \in Row
    BY <1>0
  <2>3. sweep' \in Sweep /\ sweep'.todo = sweep.todo \ {e}
    BY <1>0, <2>1
  <2>4. CASE Evictable(e.key)
    <3>1. lease[e.key] \in Row /\ lease[e.key].due \in {"no", "soft", "hard"}
      BY <1>0, <2>2, <2>4, RowFields DEF Evictable, Life, Held
    <3>2. "cold" \in Lives
      BY DEF Lives
    <3>. DEFINE r == [e.copy EXCEPT !.life = "cold", !.due = lease[e.key].due]
    <3>3. r \in Row /\ r.sid = e.copy.sid
      BY <2>2, <3>1, <3>2 DEF Row
    <3>4. lease' = [lease EXCEPT ![e.key] = r]
      BY <2>1, <2>4
    <3>. HIDE DEF r
    <3>5. lease[e.key] # NoLease
      BY <2>4 DEF Evictable, Life, Held
    <3>. QED BY <1>0, <2>2, <2>3, <3>3, <3>4, <3>5
  <2>5. CASE ~Evictable(e.key)
    BY <1>0, <2>1, <2>3, <2>5
  <2>. QED BY <2>4, <2>5
<1>4. ASSUME NEW k \in Keys, Renew(k) \/ Elapse(k)
      PROVE  /\ lease' \in [Keys -> Row \cup {NoLease}]
             /\ \A j \in Keys : lease'[j] # NoLease => lease[j] # NoLease /\ lease'[j].sid = lease[j].sid
             /\ sweep' = sweep
  <2>1. lease[k] \in Row /\ sweep' = sweep /\ lease[k] # NoLease
    BY <1>0, <1>4 DEF Renew, Elapse, Held
  <2>2. \E r \in Row : r.sid = lease[k].sid /\ lease' = [lease EXCEPT ![k] = r]
    <3>. DEFINE D == {"no", "soft", "hard"}
    <3>1. \A d \in D, o \in BOOLEAN :
            /\ [lease[k] EXCEPT !.due = d] \in Row /\ [lease[k] EXCEPT !.due = d].sid = lease[k].sid
            /\ [lease[k] EXCEPT !.due = d, !.old = o] \in Row
            /\ [lease[k] EXCEPT !.due = d, !.old = o].sid = lease[k].sid
      BY <2>1 DEF Row
    <3>2. lease[k].due \in D
      BY <2>1 DEF Row
    <3>3. CASE Renew(k)
      BY <1>0, <1>4, <3>1, <3>2, <3>3 DEF Renew
    <3>4. CASE Elapse(k)
      BY <1>0, <1>4, <3>1, <3>2, <3>4 DEF Elapse
    <3>. QED BY <1>4, <3>3, <3>4
  <2>. QED BY <1>0, <2>1, <2>2
<1>. QED BY <1>0, <1>2, <1>3, <1>4 DEF ParkStep

\* The fields of a command and of a runtime.
LEMMA CommandFields ==
  /\ \A d \in Command : /\ d # NoRuntime /\ d.key \in Keys /\ d.sid \in 0 .. MaxSid /\ d.rt \in 0 .. MaxSid
                        /\ d.m \in Row \cup {NoLease} /\ d.cmd \in Commands
                        /\ d.at \in {"spawn", "write", "stop", "free", "delete"}
  /\ \A r \in Runtime : /\ r # NoRuntime /\ r.key \in Keys /\ r.sid \in 0 .. MaxSid /\ r.want \in 0 .. MaxSid
                        /\ r.up \in BOOLEAN /\ r.known \in BOOLEAN /\ r.kept \in BOOLEAN
BY ReviewAssumption DEF Command, Runtime

\* A step that makes no runtime and no session: runtimes go down, become
\* known while they are up, are forgotten or are parked.
Fades ==
  /\ rts' \in [Sids -> Runtime \cup {NoRuntime}]
  /\ \A n \in Sids : rts'[n] = NoRuntime <=> rts[n] = NoRuntime
  /\ \A n \in Sids : rts[n] # NoRuntime =>
       /\ rts'[n].key = rts[n].key /\ rts'[n].sid = rts[n].sid /\ rts'[n].want = rts[n].want
       /\ rts'[n].by = rts[n].by /\ (rts[n].kept => rts'[n].kept)
       /\ (rts'[n].up => rts[n].up) /\ (rts'[n].known => rts[n].known \/ rts[n].up)

\* A field of one runtime is written.
LEMMA OneFades ==
  ASSUME ReviewTypes, NEW n \in 0 .. MaxSid, n # 0 => Exists(n),
         \/ rts' = rts
         \/ rts' = [rts EXCEPT ![n].up = FALSE]
         \/ rts' = [rts EXCEPT ![n].known = FALSE]
         \/ rts' = [rts EXCEPT ![n].kept = TRUE]
         \/ (n # 0 /\ rts[n].up /\ rts' = [rts EXCEPT ![n].known = TRUE])
  PROVE  Fades
<1>1. rts \in [Sids -> Runtime \cup {NoRuntime}]
  BY DEF ReviewTypes
<1>2. CASE n = 0
  <2>1. n \notin Sids
    BY <1>2 DEF Sids
  <2>2. rts' = rts
    BY <1>1, <1>2, <2>1
  <2>. QED BY <1>1, <2>2 DEF Fades
<1>3. CASE n # 0
  <2>1. n \in Sids /\ rts[n] \in Runtime
    BY <1>1, <1>3 DEF Sids, Exists
  <2>2. CASE rts' = rts
    BY <1>1, <2>2 DEF Fades
  <2>3. CASE \E r \in Runtime : /\ rts' = [rts EXCEPT ![n] = r]
                                /\ r.key = rts[n].key /\ r.sid = rts[n].sid /\ r.want = rts[n].want
                                /\ r.by = rts[n].by /\ (rts[n].kept => r.kept)
                                /\ (r.up => rts[n].up) /\ (r.known => rts[n].known \/ rts[n].up)
    BY <1>1, <2>1, <2>3, CommandFields DEF Fades
  <2>4. CASE rts' = [rts EXCEPT ![n].up = FALSE]
    <3>. DEFINE r == [rts[n] EXCEPT !.up = FALSE]
    <3>1. /\ r \in Runtime /\ r.key = rts[n].key /\ r.sid = rts[n].sid /\ r.want = rts[n].want
          /\ r.by = rts[n].by /\ r.kept = rts[n].kept /\ ~r.up /\ r.known = rts[n].known
      BY <2>1 DEF Runtime
    <3>2. rts' = [rts EXCEPT ![n] = r]
      BY <2>4
    <3>. QED BY <2>3, <3>1, <3>2
  <2>5. CASE rts' = [rts EXCEPT ![n].known = FALSE]
    <3>. DEFINE r == [rts[n] EXCEPT !.known = FALSE]
    <3>1. /\ r \in Runtime /\ r.key = rts[n].key /\ r.sid = rts[n].sid /\ r.want = rts[n].want
          /\ r.by = rts[n].by /\ r.kept = rts[n].kept /\ r.up = rts[n].up /\ ~r.known
      BY <2>1 DEF Runtime
    <3>2. rts' = [rts EXCEPT ![n] = r]
      BY <2>5
    <3>. QED BY <2>3, <3>1, <3>2
  <2>6. CASE rts' = [rts EXCEPT ![n].kept = TRUE]
    <3>. DEFINE r == [rts[n] EXCEPT !.kept = TRUE]
    <3>1. /\ r \in Runtime /\ r.key = rts[n].key /\ r.sid = rts[n].sid /\ r.want = rts[n].want
          /\ r.by = rts[n].by /\ r.kept /\ r.up = rts[n].up /\ r.known = rts[n].known
      BY <2>1 DEF Runtime
    <3>2. rts' = [rts EXCEPT ![n] = r]
      BY <2>6
    <3>. QED BY <2>3, <3>1, <3>2
  <2>7. CASE rts[n].up /\ rts' = [rts EXCEPT ![n].known = TRUE]
    <3>. DEFINE r == [rts[n] EXCEPT !.known = TRUE]
    <3>1. /\ r \in Runtime /\ r.key = rts[n].key /\ r.sid = rts[n].sid /\ r.want = rts[n].want
          /\ r.by = rts[n].by /\ r.kept = rts[n].kept /\ r.up = rts[n].up
      BY <2>1 DEF Runtime
    <3>2. rts' = [rts EXCEPT ![n] = r]
      BY <2>7
    <3>. QED BY <2>3, <2>7, <3>1, <3>2
  <2>. QED BY <2>2, <2>4, <2>5, <2>6, <2>7
<1>. QED BY <1>2, <1>3

\* What is owned stays owned, and a runtime that nobody parked was one
\* before, when runtimes only fade.
LEMMA FadesKeeps ==
  ASSUME Fades
  PROVE  /\ \A k, s : Owned(k, s) => s = 0 \/ (s \in Sids /\ rts'[s] # NoRuntime /\ rts'[s].key = k)
         /\ \A n \in Sids : (rts'[n] # NoRuntime /\ rts'[n].up /\ rts'[n].by # "start" /\ ~rts'[n].kept)
               => (Exists(n) /\ rts[n].up /\ rts[n].by # "start" /\ ~rts[n].kept)
BY DEF Fades, Owned, Exists

\* What command c may hold of key k: its place, a session and a runtime of
\* the key, and a manifest.
Holds(d, k) ==
  d # NoRuntime =>
    /\ d.key = k /\ d.at # "delete"
    /\ d.at = "spawn" => d.cmd \in {"start", "ask", "revive", "recover"}
    /\ d.at = "write" => d.cmd \in {"start", "ask", "revive", "recover", "backfill"}
    /\ (d.at = "write" /\ d.cmd # "backfill") => d.rt # 0
    /\ d.cmd = "backfill" => d.rt = 0
    /\ d.m = NoLease => d.cmd \in {"start", "ask"} /\ d.at \in {"spawn", "write"}
    /\ Owned(k, d.sid) /\ Owned(k, d.rt) /\ (d.m # NoLease => Owned(k, d.m.sid))

\* One command moves on and may write the row and meta.json of its key:
\* the invariant is kept when what it holds and what it writes is owned by
\* the key, and can be resumed if every copy before could be.
LEMMA CommandMoves ==
  ASSUME SurvivalInv, NEW c \in Clis, NEW k \in Keys, NEW d \in Command \cup {NoRuntime},
         cli' = [cli EXCEPT ![c] = d], Fades, UNCHANGED <<files, sync, contended>>,
         cli[c] # NoRuntime => cli[c].at # "delete",
         Holds(d, k),
         \* the runtime it lets go of is parked or down
         (cli[c] # NoRuntime /\ cli[c].at = "write" /\ cli[c].rt # 0) =>
            \/ d # NoRuntime /\ d.at = "write" /\ d.rt = cli[c].rt
            \/ rts'[cli[c].rt].kept \/ ~rts'[cli[c].rt].up,
         \* what it writes
         lease' \in [Keys -> Row \cup {NoLease}], meta' \in [Keys -> 0 .. MaxSid],
         sweep' \in [at: Stages, todo: SUBSET [key: Keys, copy: Row], clean: BOOLEAN, run: Nat],
         sweep'.todo = sweep.todo,
         \A j \in Keys : j # k => lease'[j] = lease[j] /\ meta'[j] = meta[j],
         lease'[k] # NoLease => Owned(k, lease'[k].sid),
         Owned(k, meta'[k]),
         CopiesLive(k) =>
            /\ d # NoRuntime => /\ Live(d.sid) /\ (d.m # NoLease => Live(d.m.sid))
                                /\ d.rt # 0 => Live(rts[d.rt].sid)
            /\ lease'[k] # NoLease => Live(lease'[k].sid)
            /\ \/ Live(meta'[k])
               \/ /\ meta'[k] = meta[k]
                  /\ (lease'[k] # NoLease \/ (d # NoRuntime /\ d.m # NoLease)) => RowCopy(k)
  PROVE  SurvivalInv'
<1>. USE DEF SurvivalInv, ReviewInv
<1>0. /\ cli \in [Clis -> Command \cup {NoRuntime}] /\ cli'[c] = d
      /\ \A b \in Clis : b # c => cli'[b] = cli[b]
      /\ \A b \in Clis : cli[b] # NoRuntime => cli[b] \in Command
  BY DEF ReviewTypes
<1>1. ReviewTypes'
  BY <1>0 DEF ReviewTypes, Fades
<1>2. CommandShape'
  BY <1>0 DEF CommandShape, Holds
<1>3. LosersHeld'
  <2>. SUFFICES ASSUME NEW n \in Sids, rts'[n] # NoRuntime, rts'[n].up, rts'[n].by # "start", ~rts'[n].kept
                PROVE  \E b \in Clis : cli'[b] # NoRuntime /\ cli'[b].at = "write" /\ cli'[b].rt = n
    BY DEF LosersHeld, Exists
  <2>1. PICK b \in Clis : cli[b] # NoRuntime /\ cli[b].at = "write" /\ cli[b].rt = n
    BY FadesKeeps DEF LosersHeld
  <2>2. n # 0
    BY DEF Sids
  <2>. QED BY <1>0, <2>1, <2>2
<1>4. \A j, s : Owned(j, s) => s = 0 \/ (s \in Sids /\ rts'[s] # NoRuntime /\ rts'[s].key = j)
  BY FadesKeeps
<1>5. SidsOwned'
  <2>. DEFINE O(j, s) == s = 0 \/ (s \in Sids /\ rts'[s] # NoRuntime /\ rts'[s].key = j)
  <2>0. \A j, s : Owned(j, s) => O(j, s)
    BY <1>4
  <2>. HIDE DEF O
  <2>1. \A j \in Keys : /\ lease'[j] # NoLease => O(j, lease'[j].sid)
                        /\ sync'[j] # NoLease => O(j, sync'[j].sid)
                        /\ O(j, meta'[j])
    BY <2>0 DEF SidsOwned, Held
  <2>2. \A e \in sweep'.todo : O(e.key, e.copy.sid)
    BY <2>0 DEF SidsOwned
  <2>3. \A b \in Clis : cli'[b] # NoRuntime =>
          /\ O(cli'[b].key, cli'[b].sid) /\ O(cli'[b].key, cli'[b].rt)
          /\ cli'[b].m # NoLease => O(cli'[b].key, cli'[b].m.sid)
    BY <1>0, <2>0 DEF SidsOwned, Holds
  <2>4. \A n \in Sids : rts'[n] # NoRuntime => O(rts'[n].key, rts'[n].sid) /\ O(rts'[n].key, rts'[n].want)
    BY <2>0 DEF SidsOwned, Fades, Exists
  <2>5. (\A j \in Keys : /\ Held(j) => Owned(j, lease[j].sid)
                         /\ sync[j] # NoLease => Owned(j, sync[j].sid)
                         /\ Owned(j, meta[j]))'
    BY <2>1 DEF O, Owned, Held, Exists
  <2>6. (\A e \in sweep.todo : Owned(e.key, e.copy.sid))'
    BY <2>2 DEF O, Owned, Exists
  <2>7. (\A b \in Clis : cli[b] # NoRuntime =>
          /\ Owned(cli[b].key, cli[b].sid) /\ Owned(cli[b].key, cli[b].rt)
          /\ cli[b].m # NoLease => Owned(cli[b].key, cli[b].m.sid))'
    BY <2>3 DEF O, Owned, Exists
  <2>8. (\A n \in Sids : Exists(n) => Owned(rts[n].key, rts[n].sid) /\ Owned(rts[n].key, rts[n].want))'
    BY <2>4 DEF O, Owned, Exists
  <2>. QED BY <2>5, <2>6, <2>7, <2>8 DEF SidsOwned
<1>6. ASSUME NEW j \in Keys \ contended' PROVE Deleting(j)' \/ CopiesLive(j)'
  <2>1. CASE Deleting(j)
    <3>1. PICK b \in Clis : cli[b] # NoRuntime /\ cli[b].at = "delete" /\ cli[b].key = j
      BY <2>1 DEF Deleting
    <3>. QED BY <1>0, <3>1 DEF Deleting
  <2>2. CASE CopiesLive(j)
    <3>. USE DEF Live
    <3>0. \A n \in 0 .. MaxSid : (n # 0 /\ rts[n] # NoRuntime) => n \in Sids /\ rts'[n].sid = rts[n].sid
      BY DEF Fades, Sids
    <3>1. lease'[j] # NoLease => Live(lease'[j].sid)
      BY <2>2 DEF CopiesLive, Held
    <3>2. sync'[j] # NoLease => Live(sync'[j].sid)
      BY <2>2 DEF CopiesLive
    <3>3. \A e \in sweep'.todo : e.key = j => Live(e.copy.sid)
      BY <2>2 DEF CopiesLive
    <3>4. ASSUME NEW b \in Clis, cli'[b] # NoRuntime, cli'[b].key = j
          PROVE  /\ Live(cli'[b].sid)
                 /\ cli'[b].m # NoLease => Live(cli'[b].m.sid)
                 /\ cli'[b].rt # 0 => Live(rts'[cli'[b].rt].sid)
      <4>1. CASE b = c
        <5>1. j = k /\ cli'[b] = d /\ d \in Command
          BY <1>0, <3>4, <4>1 DEF Holds
        <5>2. d.rt # 0 => rts[d.rt] # NoRuntime /\ d.rt \in 0 .. MaxSid
          BY <5>1, CommandFields DEF Holds, Owned, Exists
        <5>. QED BY <2>2, <3>0, <3>4, <5>1, <5>2
      <4>2. CASE b # c
        <5>1. cli'[b] = cli[b] /\ cli[b] # NoRuntime /\ cli[b] \in Command
          BY <1>0, <3>4, <4>2
        <5>2. cli[b].rt # 0 => rts[cli[b].rt] # NoRuntime /\ cli[b].rt \in 0 .. MaxSid
          BY <5>1, CommandFields DEF SidsOwned, Owned, Exists
        <5>. QED BY <2>2, <3>0, <3>4, <5>1, <5>2 DEF CopiesLive
      <4>. QED BY <4>1, <4>2
    <3>5. \A n \in Sids : (rts'[n] # NoRuntime /\ rts'[n].key = j /\ (rts'[n].up \/ rts'[n].known)) => Live(rts'[n].sid)
      BY <2>2 DEF CopiesLive, Fades, Exists
    <3>6. RowCopy(j)' => Live(meta'[j])
      <4>1. CASE j # k
        <5>1. RowCopy(j)' => RowCopy(j)
          BY <1>0, <4>1 DEF RowCopy, Held, Holds
        <5>. QED BY <2>2, <4>1, <5>1 DEF CopiesLive
      <4>2. CASE j = k
        <5>1. (RowCopy(j)' /\ ~(lease'[k] # NoLease \/ (d # NoRuntime /\ d.m # NoLease))) => RowCopy(j)
          BY <1>0, <4>2 DEF RowCopy, Held
        <5>. QED BY <2>2, <4>2, <5>1 DEF CopiesLive
      <4>. QED BY <4>1, <4>2
    <3>. QED BY <3>1, <3>2, <3>3, <3>4, <3>5, <3>6 DEF CopiesLive, Held, Exists
  <2>. QED BY <1>6, <2>1, <2>2
<1>. QED BY <1>1, <1>2, <1>3, <1>5, <1>6

\* What a command in progress holds belongs to its key.
LEMMA HeldByCommand ==
  ASSUME SurvivalInv, NEW c \in Clis, cli[c] # NoRuntime
  PROVE  /\ cli[c] \in Command /\ cli[c].key \in Keys /\ cli[c].sid \in 0 .. MaxSid /\ cli[c].rt \in 0 .. MaxSid
         /\ cli[c].m \in Row \cup {NoLease}
         /\ Owned(cli[c].key, cli[c].sid) /\ Owned(cli[c].key, cli[c].rt)
         /\ cli[c].m # NoLease => Owned(cli[c].key, cli[c].m.sid)
         /\ cli[c].rt # 0 => /\ cli[c].rt \in Sids /\ Exists(cli[c].rt) /\ rts[cli[c].rt] \in Runtime
                             /\ rts[cli[c].rt].sid \in 0 .. MaxSid
                             /\ Owned(cli[c].key, rts[cli[c].rt].sid)
         /\ CopiesLive(cli[c].key) => /\ Live(cli[c].sid)
                                      /\ cli[c].m # NoLease => Live(cli[c].m.sid)
                                      /\ cli[c].rt # 0 => Live(rts[cli[c].rt].sid)
<1>1. cli[c] \in Command
  BY DEF SurvivalInv, ReviewInv, ReviewTypes
<1>2. /\ Owned(cli[c].key, cli[c].sid) /\ Owned(cli[c].key, cli[c].rt)
      /\ cli[c].m # NoLease => Owned(cli[c].key, cli[c].m.sid)
  BY DEF SurvivalInv, ReviewInv, SidsOwned
<1>3. cli[c].rt # 0 => /\ cli[c].rt \in Sids /\ Exists(cli[c].rt) /\ rts[cli[c].rt] \in Runtime
                       /\ rts[cli[c].rt].sid \in 0 .. MaxSid
                       /\ Owned(cli[c].key, rts[cli[c].rt].sid)
  <2>. SUFFICES ASSUME cli[c].rt # 0
                PROVE  /\ cli[c].rt \in Sids /\ Exists(cli[c].rt) /\ rts[cli[c].rt] \in Runtime
                       /\ rts[cli[c].rt].sid \in 0 .. MaxSid
                       /\ Owned(cli[c].key, rts[cli[c].rt].sid)
    OBVIOUS
  <2>1. cli[c].rt \in Sids /\ Exists(cli[c].rt) /\ rts[cli[c].rt].key = cli[c].key
    BY <1>2 DEF Owned
  <2>2. rts[cli[c].rt] \in Runtime
    BY <2>1 DEF SurvivalInv, ReviewInv, ReviewTypes, Exists
  <2>3. Owned(rts[cli[c].rt].key, rts[cli[c].rt].sid)
    BY <2>1 DEF SurvivalInv, ReviewInv, SidsOwned
  <2>. QED BY <2>1, <2>2, <2>3, CommandFields
<1>. QED BY <1>1, <1>2, <1>3, CommandFields DEF CopiesLive

\* A command begins with a copy of the row and a session that its key owns.
LEMMA BeginStep ==
  ASSUME SurvivalInv, NEW c \in Clis, NEW k \in Keys, NEW cmd \in Commands,
         NEW at \in {"spawn", "write", "stop", "free"}, NEW sid \in 0 .. MaxSid, Begin(c, cmd, k, at, sid),
         at = "spawn" => cmd \in {"start", "ask", "revive"},
         at = "write" => cmd = "backfill",
         ~Held(k) => cmd \in {"start", "ask"} /\ at = "spawn",
         Owned(k, sid), CopiesLive(k) => Live(sid)
  PROVE  SurvivalInv'
<1>. DEFINE d == [cmd |-> cmd, at |-> at, key |-> k, m |-> lease[k], sid |-> sid, rt |-> 0]
<1>1. /\ cli[c] = NoRuntime /\ cli' = [cli EXCEPT ![c] = d]
      /\ UNCHANGED <<lease, sweep, meta, rts, files, sync, contended>>
  BY DEF Begin, parkVars
<1>2. ReviewTypes
  BY DEF SurvivalInv, ReviewInv
<1>3. lease[k] \in Row \cup {NoLease} /\ 0 \in 0 .. MaxSid /\ ParkAssumption
  BY <1>2, ParkAssumption DEF ReviewTypes
<1>4. /\ d \in Command /\ d.at = at /\ d.cmd = cmd /\ d.key = k /\ d.m = lease[k] /\ d.sid = sid /\ d.rt = 0
  BY <1>3 DEF Command
<1>5. Fades
  BY <1>1, <1>2, <1>3, OneFades
<1>6. lease[k] # NoLease => Owned(k, lease[k].sid)
  BY DEF SurvivalInv, ReviewInv, SidsOwned, Held
<1>7. Holds(d, k)
  BY <1>4, <1>6 DEF Holds, Owned, Held
<1>8. CopiesLive(k) => (lease[k] # NoLease => Live(lease[k].sid))
  BY DEF CopiesLive, Held
<1>9. Owned(k, meta[k])
  BY DEF SurvivalInv, ReviewInv, SidsOwned
<1>10. /\ lease \in [Keys -> Row \cup {NoLease}] /\ meta \in [Keys -> 0 .. MaxSid]
       /\ sweep \in [at: Stages, todo: SUBSET [key: Keys, copy: Row], clean: BOOLEAN, run: Nat]
  BY <1>2 DEF ReviewTypes
<1>11. lease[k] # NoLease => RowCopy(k)
  BY DEF RowCopy, Held
<1>. HIDE DEF d
<1>. QED BY <1>1, <1>4, <1>5, <1>6, <1>7, <1>8, <1>9, <1>10, <1>11, CommandMoves

\* What result, ask and status take for the bound session of a lease.
LEMMA BoundOwned ==
  ASSUME SurvivalInv, NEW k \in Keys, NEW s \in Bound(k), Records(k) = {}
  PROVE  /\ s \in 0 .. MaxSid /\ Owned(k, s)
         /\ Held(k) /\ CopiesLive(k) => Live(s)
<1>1. s = 0 \/ (Held(k) /\ s = lease[k].sid) \/ s = meta[k]
  BY DEF Bound
<1>2. Owned(k, s)
  BY <1>1 DEF SurvivalInv, ReviewInv, SidsOwned, Owned
<1>3. Held(k) /\ CopiesLive(k) => Live(s)
  BY <1>1 DEF CopiesLive, RowCopy, Live
<1>4. 0 \in 0 .. MaxSid /\ \A n \in Sids : n \in 0 .. MaxSid
  BY ParkAssumption DEF Sids
<1>. QED BY <1>2, <1>3, <1>4 DEF Owned

\* A command that begins keeps the invariant.
LEMMA BeginsKeep ==
  ASSUME SurvivalInv, NEW c \in Clis, NEW k \in Keys,
         Start(c, k) \/ Ask(c, k) \/ Revive(c, k) \/ CmdRelease(c, k) \/ Gc(c, k) \/ Backfill(c, k)
  PROVE  SurvivalInv'
<1>0. 0 \in 0 .. MaxSid /\ Owned(k, 0) /\ Live(0)
  BY ParkAssumption DEF Owned, Live
<1>1. Held(k) => /\ lease[k].sid \in 0 .. MaxSid /\ Owned(k, lease[k].sid)
                 /\ CopiesLive(k) => Live(lease[k].sid)
  <2>1. Held(k) => lease[k] \in Row
    BY DEF SurvivalInv, ReviewInv, ReviewTypes, Held
  <2>2. Held(k) => Owned(k, lease[k].sid)
    BY DEF SurvivalInv, ReviewInv, SidsOwned
  <2>. QED BY <2>1, <2>2, RowFields DEF CopiesLive
<1>2. CASE Start(c, k)
  BY <1>0, <1>2, BeginStep DEF Start, Commands
<1>3. CASE Ask(c, k)
  <2>1. PICK s \in Bound(k) : Begin(c, "ask", k, "spawn", IF Held(k) THEN s ELSE 0)
    BY <1>3 DEF Ask
  <2>2. s \in 0 .. MaxSid /\ Owned(k, s) /\ (Held(k) /\ CopiesLive(k) => Live(s))
    BY <1>3, BoundOwned DEF Ask
  <2>3. CASE Held(k)
    BY <2>1, <2>2, <2>3, BeginStep DEF Commands
  <2>4. CASE ~Held(k)
    BY <1>0, <2>1, <2>4, BeginStep DEF Commands
  <2>. QED BY <2>3, <2>4
<1>4. CASE Revive(c, k)
  BY <1>1, <1>4, BeginStep DEF Revive, Decide, Commands
<1>5. CASE CmdRelease(c, k)
  <2>1. PICK cmd \in {"release", "purge", "recover"} : Begin(c, cmd, k, "stop", 0)
    BY <1>5 DEF CmdRelease
  <2>. QED BY <1>0, <1>5, <2>1, BeginStep DEF CmdRelease, Commands
<1>6. CASE Gc(c, k)
  BY <1>0, <1>6, BeginStep DEF Gc, Collectable, Life, Commands
<1>7. CASE Backfill(c, k)
  <2>1. PICK n \in Records(k) : rts[n].sid # 0 /\ Begin(c, "backfill", k, "write", rts[n].sid)
    BY <1>7 DEF Backfill
  <2>2. n \in Sids /\ Exists(n) /\ rts[n].key = k /\ rts[n].known
    BY DEF Records
  <2>3. rts[n].sid \in 0 .. MaxSid
    BY <2>2, CommandFields DEF SurvivalInv, ReviewInv, ReviewTypes, Exists
  <2>4. Owned(k, rts[n].sid)
    BY <2>2 DEF SurvivalInv, ReviewInv, SidsOwned
  <2>5. CopiesLive(k) => Live(rts[n].sid)
    BY <2>2 DEF CopiesLive
  <2>. QED BY <1>7, <2>1, <2>3, <2>4, <2>5, BeginStep DEF Backfill, Commands
<1>. QED BY <1>2, <1>3, <1>4, <1>5, <1>6, <1>7

\* The rows as a command leaves them when it writes none.
LEMMA RowsStay ==
  ASSUME SurvivalInv, NEW k \in Keys, UNCHANGED <<lease, sweep, meta>>
  PROVE  /\ lease' \in [Keys -> Row \cup {NoLease}] /\ meta' \in [Keys -> 0 .. MaxSid]
         /\ sweep' \in [at: Stages, todo: SUBSET [key: Keys, copy: Row], clean: BOOLEAN, run: Nat]
         /\ sweep'.todo = sweep.todo
         /\ \A j \in Keys : j # k => lease'[j] = lease[j] /\ meta'[j] = meta[j]
         /\ lease'[k] # NoLease => Owned(k, lease'[k].sid)
         /\ Owned(k, meta'[k])
         /\ CopiesLive(k) => (lease'[k] # NoLease => Live(lease'[k].sid))
         /\ meta'[k] = meta[k]
         /\ lease'[k] # NoLease => RowCopy(k)
<1>1. ReviewTypes /\ SidsOwned
  BY DEF SurvivalInv, ReviewInv
<1>2. /\ lease' \in [Keys -> Row \cup {NoLease}] /\ meta' \in [Keys -> 0 .. MaxSid]
      /\ sweep' \in [at: Stages, todo: SUBSET [key: Keys, copy: Row], clean: BOOLEAN, run: Nat]
  BY <1>1 DEF ReviewTypes
<1>3. (lease[k] # NoLease => Owned(k, lease[k].sid)) /\ Owned(k, meta[k])
  BY <1>1 DEF SidsOwned, Held
<1>. QED BY <1>2, <1>3 DEF CopiesLive, RowCopy, Held

\* A spawn that fails keeps the invariant.
LEMMA SpawnFailsKeeps ==
  ASSUME SurvivalInv, NEW c \in Clis, SpawnFails(c)
  PROVE  SurvivalInv'
<1>. DEFINE d0 == [cli[c] EXCEPT !.sid = 0]
            d  == IF cli[c].cmd = "ask" /\ cli[c].sid # 0 THEN d0 ELSE NoRuntime
            k  == cli[c].key
<1>1. /\ cli[c] # NoRuntime /\ cli[c].at = "spawn" /\ cli' = [cli EXCEPT ![c] = d]
      /\ UNCHANGED <<lease, sweep, meta, rts, files, sync, contended>>
  BY DEF SpawnFails, Done, parkVars
<1>2. /\ cli[c] \in Command /\ k \in Keys /\ Owned(k, cli[c].rt) /\ (cli[c].m # NoLease => Owned(k, cli[c].m.sid))
      /\ CopiesLive(k) => (cli[c].m # NoLease => Live(cli[c].m.sid))
                          /\ (cli[c].rt # 0 => Live(rts[cli[c].rt].sid))
  BY <1>1, HeldByCommand
<1>3. /\ d0 \in Command /\ d0.sid = 0 /\ d0.at = "spawn" /\ d0.key = k /\ d0.cmd = cli[c].cmd
      /\ d0.m = cli[c].m /\ d0.rt = cli[c].rt
  BY <1>1, <1>2, ParkAssumption DEF Command
<1>4. Fades
  BY <1>1, OneFades, ParkAssumption DEF SurvivalInv, ReviewInv
<1>5. Holds(d0, k) \/ d = NoRuntime
  BY <1>1, <1>2, <1>3 DEF Holds, Owned
<1>6. Holds(d, k) /\ d \in Command \cup {NoRuntime}
  BY <1>3, <1>5 DEF Holds
<1>7. d # NoRuntime => d = d0
  OBVIOUS
<1>8. cli[c].m # NoLease => RowCopy(k)
  BY <1>1 DEF RowCopy
<1>9. Live(0)
  BY DEF Live
<1>. HIDE DEF d, d0, k
<1>. QED BY <1>1, <1>2, <1>3, <1>4, <1>6, <1>7, <1>8, <1>9, RowsStay, CommandMoves

\* A failed write stops the runtime and keeps the invariant.
LEMMA WriteFailsKeeps ==
  ASSUME SurvivalInv, NEW c \in Clis, WriteFails(c)
  PROVE  SurvivalInv'
<1>. DEFINE d0 == [cli[c] EXCEPT !.at = "spawn", !.sid = 0, !.rt = 0]
            d  == IF cli[c].cmd = "ask" THEN d0 ELSE NoRuntime
            k  == cli[c].key
<1>1. /\ cli[c] # NoRuntime /\ cli[c].at = "write" /\ cli' = [cli EXCEPT ![c] = d]
      /\ cli[c].cmd # "backfill" /\ rts' = [rts EXCEPT ![cli[c].rt].up = FALSE]
      /\ UNCHANGED <<lease, sweep, meta, files, sync, contended>>
  BY DEF WriteFails, StopSpawned, Done, parkVars
<1>2. /\ cli[c] \in Command /\ k \in Keys /\ (cli[c].m # NoLease => Owned(k, cli[c].m.sid))
      /\ CopiesLive(k) => (cli[c].m # NoLease => Live(cli[c].m.sid))
      /\ cli[c].rt # 0 => cli[c].rt \in Sids /\ Exists(cli[c].rt) /\ rts[cli[c].rt] \in Runtime
      /\ cli[c].rt \in 0 .. MaxSid
  BY <1>1, HeldByCommand
<1>3. /\ d0 \in Command /\ d0.sid = 0 /\ d0.at = "spawn" /\ d0.key = k /\ d0.cmd = cli[c].cmd
      /\ d0.m = cli[c].m /\ d0.rt = 0
  <2>1. 0 \in 0 .. MaxSid
    BY ParkAssumption
  <2>. QED BY <1>2, <2>1 DEF Command
<1>4. ReviewTypes
  BY DEF SurvivalInv, ReviewInv
<1>5. Fades
  BY <1>1, <1>2, <1>4, OneFades
<1>6. Holds(d, k) /\ d \in Command \cup {NoRuntime} /\ (d # NoRuntime => d = d0)
  BY <1>1, <1>2, <1>3 DEF Holds, Owned
<1>7. cli[c].rt # 0 => ~rts'[cli[c].rt].up
  BY <1>1, <1>2, <1>4 DEF ReviewTypes, Runtime
<1>8. cli[c].m # NoLease => RowCopy(k)
  BY <1>1 DEF RowCopy
<1>9. Live(0)
  BY DEF Live
<1>10. CopiesLive(k) => (d # NoRuntime => /\ Live(d.sid) /\ (d.m # NoLease => Live(d.m.sid))
                                          /\ d.rt # 0 => Live(rts[d.rt].sid))
  BY <1>2, <1>3, <1>6, <1>9
<1>11. (d # NoRuntime /\ d.m # NoLease) => RowCopy(k)
  BY <1>3, <1>6, <1>8
<1>. HIDE DEF d, d0, k
<1>. QED BY <1>1, <1>2, <1>5, <1>6, <1>7, <1>10, <1>11, RowsStay, CommandMoves

\* Stopping the runtime of a review keeps the invariant.
LEMMA StopKeeps ==
  ASSUME SurvivalInv, NEW c \in Clis, StopRuntime(c)
  PROVE  SurvivalInv'
<1>. DEFINE d == [cli[c] EXCEPT !.at = "free"]
            k == cli[c].key
<1>1. /\ cli[c] # NoRuntime /\ cli[c].at = "stop" /\ cli' = [cli EXCEPT ![c] = d]
      /\ UNCHANGED <<lease, sweep, meta, files, sync, contended>>
      /\ \/ \E n \in Records(cli[c].key) : rts' = [rts EXCEPT ![n].known = FALSE]
         \/ rts' = rts
         \/ rts' = KilledByPid(cli[c].key)
  BY DEF StopRuntime, Next1, parkVars
<1>2. /\ cli[c] \in Command /\ k \in Keys /\ Owned(k, cli[c].sid) /\ Owned(k, cli[c].rt)
      /\ (cli[c].m # NoLease => Owned(k, cli[c].m.sid))
      /\ CopiesLive(k) => /\ Live(cli[c].sid) /\ (cli[c].m # NoLease => Live(cli[c].m.sid))
                          /\ cli[c].rt # 0 => Live(rts[cli[c].rt].sid)
  BY <1>1, HeldByCommand
<1>3. /\ d \in Command /\ d.sid = cli[c].sid /\ d.at = "free" /\ d.key = k /\ d.cmd = cli[c].cmd
      /\ d.m = cli[c].m /\ d.rt = cli[c].rt
  BY <1>1, <1>2 DEF Command
<1>4. ReviewTypes /\ CommandShape
  BY DEF SurvivalInv, ReviewInv
<1>5. Fades
  <2>1. CASE \E n \in Records(cli[c].key) : rts' = [rts EXCEPT ![n].known = FALSE]
    <3>1. PICK n \in Sids : Exists(n) /\ rts' = [rts EXCEPT ![n].known = FALSE]
      BY <2>1 DEF Records
    <3>2. n \in 0 .. MaxSid
      BY DEF Sids
    <3>. QED BY <1>4, <3>1, <3>2, OneFades
  <2>2. CASE rts' = rts
    BY <1>4, <2>2, ParkAssumption, OneFades
  <2>3. CASE rts' = KilledByPid(cli[c].key)
    <3>1. \A r \in Runtime : /\ [r EXCEPT !.up = FALSE] \in Runtime /\ [r EXCEPT !.up = FALSE].key = r.key
                             /\ [r EXCEPT !.up = FALSE].sid = r.sid /\ [r EXCEPT !.up = FALSE].want = r.want
                             /\ [r EXCEPT !.up = FALSE].by = r.by /\ [r EXCEPT !.up = FALSE].kept = r.kept
                             /\ ~[r EXCEPT !.up = FALSE].up /\ [r EXCEPT !.up = FALSE].known = r.known
      BY DEF Runtime
    <3>2. \A n \in Sids : rts[n] # NoRuntime => rts[n] \in Runtime
      BY <1>4 DEF ReviewTypes
    <3>3. /\ rts \in [Sids -> Runtime \cup {NoRuntime}]
          /\ rts' = [n \in Sids |-> IF rts[n] # NoRuntime /\ rts[n].key = cli[c].key
                                    THEN [rts[n] EXCEPT !.up = FALSE] ELSE rts[n]]
      BY <1>4, <2>3 DEF KilledByPid, Exists, ReviewTypes
    <3>4. \A n \in Sids : \/ rts'[n] = rts[n]
                          \/ rts[n] \in Runtime /\ rts'[n] = [rts[n] EXCEPT !.up = FALSE]
      BY <3>2, <3>3
    <3>5. rts' \in [Sids -> Runtime \cup {NoRuntime}]
      BY <3>1, <3>2, <3>3
    <3>6. ASSUME NEW n \in Sids
          PROVE  /\ rts'[n] = NoRuntime <=> rts[n] = NoRuntime
                 /\ rts[n] # NoRuntime =>
                      /\ rts'[n].key = rts[n].key /\ rts'[n].sid = rts[n].sid /\ rts'[n].want = rts[n].want
                      /\ rts'[n].by = rts[n].by /\ (rts[n].kept => rts'[n].kept)
                      /\ (rts'[n].up => rts[n].up) /\ (rts'[n].known => rts[n].known \/ rts[n].up)
      <4>1. CASE rts'[n] = rts[n]
        BY <4>1
      <4>2. CASE rts[n] \in Runtime /\ rts'[n] = [rts[n] EXCEPT !.up = FALSE]
        <5>1. rts'[n] # NoRuntime /\ rts[n] # NoRuntime
          BY <3>1, <4>2, CommandFields
        <5>. QED BY <3>1, <4>2, <5>1
      <4>. QED BY <3>4, <4>1, <4>2
    <3>. QED BY <3>5, <3>6 DEF Fades
  <2>. QED BY <1>1, <2>1, <2>2, <2>3
<1>6. Holds(d, k)
  BY <1>1, <1>2, <1>3, <1>4 DEF Holds, CommandShape
<1>7. cli[c].m # NoLease => RowCopy(k)
  BY <1>1 DEF RowCopy
<1>. HIDE DEF d, k
<1>. QED BY <1>1, <1>2, <1>3, <1>5, <1>6, <1>7, RowsStay, CommandMoves

\* The write at the end of a command keeps the invariant.
LEMMA WriteBackKeeps ==
  ASSUME SurvivalInv, NEW c \in Clis, WriteBack(c)
  PROVE  SurvivalInv'
<1>. DEFINE k == cli[c].key
            m == cli[c].m
<1>1. /\ cli[c] # NoRuntime /\ cli[c].at = "write" /\ cli' = [cli EXCEPT ![c] = NoRuntime]
      /\ UNCHANGED <<files, sync, contended>>
  BY DEF WriteBack, Done
<1>2. /\ cli[c] \in Command /\ k \in Keys /\ cli[c].sid \in 0 .. MaxSid /\ cli[c].rt \in 0 .. MaxSid
      /\ m \in Row \cup {NoLease} /\ Owned(k, cli[c].sid)
      /\ cli[c].rt # 0 => /\ cli[c].rt \in Sids /\ Exists(cli[c].rt) /\ rts[cli[c].rt] \in Runtime
                          /\ rts[cli[c].rt].sid \in 0 .. MaxSid /\ Owned(k, rts[cli[c].rt].sid)
      /\ CopiesLive(k) => /\ Live(cli[c].sid)
                          /\ cli[c].rt # 0 => Live(rts[cli[c].rt].sid)
  BY <1>1, HeldByCommand
<1>3. ReviewTypes /\ CommandShape
  BY DEF SurvivalInv, ReviewInv
<1>4. /\ cli[c].cmd \in {"start", "ask", "revive", "recover", "backfill"}
      /\ cli[c].cmd # "backfill" => cli[c].rt # 0
      /\ cli[c].cmd = "backfill" => cli[c].rt = 0
      /\ cli[c].cmd \notin {"start", "ask"} => m # NoLease
  BY <1>1, <1>3 DEF CommandShape
<1>5. \/ cli[c].cmd = "backfill" /\ UNCHANGED rts
      \/ cli[c].cmd # "backfill" /\ rts' = [rts EXCEPT ![cli[c].rt].kept = TRUE]
  BY <1>1, <1>4 DEF WriteBack
<1>6. Fades
  BY <1>2, <1>3, <1>5, OneFades
<1>7. cli[c].rt # 0 => rts'[cli[c].rt].kept
  BY <1>2, <1>3, <1>4, <1>5 DEF ReviewTypes, Runtime
<1>8. Holds(NoRuntime, k) /\ 0 \in 0 .. MaxSid /\ Owned(k, 0) /\ Live(0)
  BY ParkAssumption DEF Holds, Owned, Live
<1>9. m # NoLease => RowCopy(k)
  BY <1>1 DEF RowCopy
<1>10. meta \in [Keys -> 0 .. MaxSid] /\ Owned(k, meta[k])
  BY <1>2, <1>3 DEF ReviewTypes, SurvivalInv, ReviewInv, SidsOwned
\* The row is written with session x, and meta.json with x or not at all.
<1>11. ASSUME NEW r \in Row, Write(k, r), NEW x \in 0 .. MaxSid, r.sid = x, Owned(k, x), CopiesLive(k) => Live(x),
              meta' = [meta EXCEPT ![k] = x] \/ (meta' = meta /\ m # NoLease)
       PROVE  SurvivalInv'
  <2>1. /\ lease' \in [Keys -> Row \cup {NoLease}]
        /\ lease'[k] \in Row /\ lease'[k].sid = x
        /\ \A j \in Keys : j # k => lease'[j] = lease[j]
        /\ sweep' \in [at: Stages, todo: SUBSET [key: Keys, copy: Row], clean: BOOLEAN, run: Nat]
        /\ sweep'.todo = sweep.todo
    BY <1>2, <1>3, <1>11, WriteRows
  <2>2. /\ meta' \in [Keys -> 0 .. MaxSid] /\ \A j \in Keys : j # k => meta'[j] = meta[j]
        /\ (meta'[k] = x \/ (meta'[k] = meta[k] /\ m # NoLease))
    BY <1>2, <1>10, <1>11
  <2>3. Owned(k, meta'[k]) /\ (CopiesLive(k) => Live(meta'[k]) \/ (meta'[k] = meta[k] /\ RowCopy(k)))
    BY <1>9, <1>10, <1>11, <2>2
  <2>. HIDE DEF k, m
  <2>. QED BY <1>1, <1>2, <1>6, <1>7, <1>8, <1>11, <2>1, <2>2, <2>3, CommandMoves
\* The row is left alone.
<1>12. ASSUME UNCHANGED parkVars, NEW x \in 0 .. MaxSid, Owned(k, x), CopiesLive(k) => Live(x),
              meta' = [meta EXCEPT ![k] = x] \/ meta' = meta
       PROVE  SurvivalInv'
  <2>0. UNCHANGED <<lease, sweep>>
    BY <1>12 DEF parkVars
  <2>1. /\ lease' \in [Keys -> Row \cup {NoLease}]
        /\ sweep' \in [at: Stages, todo: SUBSET [key: Keys, copy: Row], clean: BOOLEAN, run: Nat]
        /\ lease'[k] # NoLease => Owned(k, lease'[k].sid)
        /\ CopiesLive(k) => (lease'[k] # NoLease => Live(lease'[k].sid))
        /\ lease'[k] # NoLease => RowCopy(k)
    BY <1>2, <1>3, <2>0 DEF ReviewTypes, SurvivalInv, ReviewInv, SidsOwned, CopiesLive, RowCopy, Held
  <2>2. /\ meta' \in [Keys -> 0 .. MaxSid] /\ \A j \in Keys : j # k => meta'[j] = meta[j]
        /\ meta'[k] = x \/ meta'[k] = meta[k]
    BY <1>2, <1>10, <1>12
  <2>3. Owned(k, meta'[k]) /\ (CopiesLive(k) => Live(meta'[k]) \/ meta'[k] = meta[k])
    BY <1>10, <1>12, <2>2
  <2>. HIDE DEF k, m
  <2>. QED BY <1>1, <1>2, <1>6, <1>7, <1>8, <2>0, <2>1, <2>2, <2>3, CommandMoves
<1>13. \A t \in Seen(c) : cli[c].cmd # "backfill" =>
         t \in 0 .. MaxSid /\ Owned(k, t) /\ (CopiesLive(k) => Live(t))
  BY <1>2, <1>4, <1>8 DEF Seen
<1>14. ASSUME NEW t \in 0 .. MaxSid, m # NoLease
       PROVE  /\ Flipped(c, t) \in Row
              /\ Flipped(c, t).sid = IF t # 0 THEN t ELSE cli[c].sid
  <2>. DEFINE x  == IF t # 0 THEN t ELSE cli[c].sid
              rd == IF m.round < MaxRounds THEN m.round + 1 ELSE m.round
  <2>1. x \in 0 .. MaxSid
    BY <1>2, <1>14
  <2>2. rd \in 0 .. MaxRounds /\ m \in Row
    <3>1. m \in Row
      BY <1>2, <1>14
    <3>2. m.round \in 0 .. MaxRounds
      BY <3>1 DEF Row
    <3>. HIDE DEF m
    <3>. QED BY <3>1, <3>2, ParkAssumption
  <2>3. Flipped(c, t) = [m EXCEPT !.life = "hot", !.sid = x, !.old = FALSE, !.round = rd]
    BY <2>2 DEF Flipped, Row
  <2>. HIDE DEF x, rd, m
  <2>4. Flipped(c, t) \in Row /\ Flipped(c, t).sid = x
    BY <2>1, <2>2, <2>3 DEF Row, Lives
  <2>. QED BY <2>4 DEF x
<1>15. CASE cli[c].cmd = "backfill"
  <2>1. Write(k, [m EXCEPT !.sid = cli[c].sid]) /\ meta' = [meta EXCEPT ![k] = cli[c].sid]
    BY <1>1, <1>15 DEF WriteBack, UpdateLease
  <2>2. m \in Row
    BY <1>2, <1>4, <1>15
  <2>3. [m EXCEPT !.sid = cli[c].sid] \in Row /\ [m EXCEPT !.sid = cli[c].sid].sid = cli[c].sid
    BY <1>2, <2>2, RowFields
  <2>. HIDE DEF k, m
  <2>. QED BY <1>2, <1>11, <2>1, <2>3
<1>16. CASE cli[c].cmd = "start"
  <2>0. StartWrites(c)
    BY <1>1, <1>16 DEF WriteBack
  <2>. DEFINE new(t) == [life |-> "hot", sid |-> t, old |-> FALSE, due |-> "no",
                         round |-> IF m = NoLease THEN 0 ELSE m.round]
  <2>1. PICK t \in Seen(c) : /\ IF m = NoLease THEN Acquire(k, new(t)) ELSE UpdateLease(k, new(t))
                             /\ meta' = [meta EXCEPT ![k] = t]
    BY <2>0 DEF StartWrites
  <2>2. t \in 0 .. MaxSid /\ Owned(k, t) /\ (CopiesLive(k) => Live(t))
    BY <1>13, <1>16
  <2>3. new(t) \in Row /\ new(t).sid = t
    <3>1. (IF m = NoLease THEN 0 ELSE m.round) \in 0 .. MaxRounds
      <4>1. m # NoLease => m.round \in 0 .. MaxRounds
        BY <1>2 DEF Row
      <4>. HIDE DEF m
      <4>. QED BY <4>1, ParkAssumption
    <3>. QED BY <2>2, <3>1 DEF Row, Lives
  <2>4. Write(k, new(t)) \/ UNCHANGED parkVars
    BY <2>1 DEF Acquire, UpdateLease
  <2>. HIDE DEF k, m, new
  <2>. QED BY <1>11, <1>12, <2>1, <2>2, <2>3, <2>4
<1>17. CASE cli[c].cmd = "ask"
  <2>0. AskWrites(c)
    BY <1>1, <1>17 DEF WriteBack
  <2>1. PICK t \in Seen(c) : /\ IF m = NoLease THEN UNCHANGED parkVars ELSE UpdateLease(k, Flipped(c, t))
                             /\ UNCHANGED meta
    BY <2>0 DEF AskWrites
  <2>2. t \in 0 .. MaxSid /\ Owned(k, t) /\ (CopiesLive(k) => Live(t))
    BY <1>13, <1>17
  <2>3. CASE m = NoLease
    BY <1>12, <2>1, <2>2, <2>3
  <2>4. CASE m # NoLease
    <3>1. /\ Flipped(c, t) \in Row /\ Flipped(c, t).sid \in 0 .. MaxSid /\ Owned(k, Flipped(c, t).sid)
          /\ CopiesLive(k) => Live(Flipped(c, t).sid)
      BY <1>2, <1>14, <2>2, <2>4
    <3>. HIDE DEF k, m
    <3>. QED BY <1>11, <2>1, <2>4, <3>1 DEF UpdateLease
  <2>. QED BY <2>3, <2>4
<1>18. CASE cli[c].cmd \in {"revive", "recover"}
  <2>0. ReviveWrites(c)
    BY <1>1, <1>18 DEF WriteBack
  <2>1. PICK t \in Seen(c) :
          /\ UpdateLease(k, Flipped(c, t))
          /\ meta' = IF Flipped(c, t).sid # 0 THEN [meta EXCEPT ![k] = Flipped(c, t).sid] ELSE meta
    BY <2>0 DEF ReviveWrites
  <2>2. t \in 0 .. MaxSid /\ Owned(k, t) /\ (CopiesLive(k) => Live(t)) /\ m # NoLease
    BY <1>4, <1>13, <1>18
  <2>3. /\ Flipped(c, t) \in Row /\ Flipped(c, t).sid \in 0 .. MaxSid /\ Owned(k, Flipped(c, t).sid)
        /\ CopiesLive(k) => Live(Flipped(c, t).sid)
    BY <1>2, <1>14, <2>2
  <2>4. meta' = [meta EXCEPT ![k] = Flipped(c, t).sid] \/ (meta' = meta /\ m # NoLease)
    BY <2>1, <2>2
  <2>. HIDE DEF k, m
  <2>. QED BY <1>11, <2>1, <2>3, <2>4 DEF UpdateLease
<1>. QED BY <1>4, <1>15, <1>16, <1>17, <1>18

\* A step of the sweep, the clock, the gateway or a plugin: no command moves
\* and no session is made; what the rows and the copies say afterwards was
\* said by a copy before.
LEMMA OthersMove ==
  ASSUME SurvivalInv, Fades, UNCHANGED <<cli, meta, files, contended>>,
         lease' \in [Keys -> Row \cup {NoLease}], sync' \in [Keys -> Row \cup {NoLease}],
         sweep' \in [at: Stages, todo: SUBSET [key: Keys, copy: Row], clean: BOOLEAN, run: Nat],
         \A k \in Keys : lease'[k] # NoLease =>
            RowCopy(k) /\ Owned(k, lease'[k].sid) /\ (CopiesLive(k) => Live(lease'[k].sid)),
         \A k \in Keys : sync'[k] # NoLease =>
            RowCopy(k) /\ Owned(k, sync'[k].sid) /\ (CopiesLive(k) => Live(sync'[k].sid)),
         \A e \in sweep'.todo : Owned(e.key, e.copy.sid) /\ (CopiesLive(e.key) => Live(e.copy.sid))
  PROVE  SurvivalInv'
<1>. USE DEF SurvivalInv, ReviewInv
<1>1. ReviewTypes'
  BY DEF ReviewTypes, Fades
<1>2. CommandShape'
  BY DEF CommandShape
<1>3. LosersHeld'
  BY FadesKeeps DEF LosersHeld, Exists
<1>4. \A j, s : Owned(j, s) => Owned(j, s)'
  BY FadesKeeps DEF Owned, Exists
<1>5. SidsOwned'
  <2>1. (\A j \in Keys : /\ Held(j) => Owned(j, lease[j].sid)
                         /\ sync[j] # NoLease => Owned(j, sync[j].sid)
                         /\ Owned(j, meta[j]))'
    BY <1>4 DEF SidsOwned, Held, Owned
  <2>2. (\A e \in sweep.todo : Owned(e.key, e.copy.sid))'
    BY <1>4 DEF Owned
  <2>3. (\A b \in Clis : cli[b] # NoRuntime =>
          /\ Owned(cli[b].key, cli[b].sid) /\ Owned(cli[b].key, cli[b].rt)
          /\ cli[b].m # NoLease => Owned(cli[b].key, cli[b].m.sid))'
    BY <1>4 DEF SidsOwned, Owned
  <2>4. (\A n \in Sids : Exists(n) => Owned(rts[n].key, rts[n].sid) /\ Owned(rts[n].key, rts[n].want))'
    BY <1>4 DEF SidsOwned, Fades, Owned, Exists
  <2>. QED BY <2>1, <2>2, <2>3, <2>4 DEF SidsOwned
<1>6. ASSUME NEW k \in Keys \ contended', CopiesLive(k) PROVE CopiesLive(k)'
  <2>. USE DEF Live
  <2>1. /\ lease'[k] # NoLease => Live(lease'[k].sid)
        /\ sync'[k] # NoLease => Live(sync'[k].sid)
        /\ \A e \in sweep'.todo : e.key = k => Live(e.copy.sid)
    BY <1>6
  <2>2. \A b \in Clis : (cli[b] # NoRuntime /\ cli[b].rt # 0) => rts'[cli[b].rt].sid = rts[cli[b].rt].sid
    BY HeldByCommand DEF Fades, Exists
  <2>3. \A b \in Clis : (cli[b] # NoRuntime /\ cli[b].key = k) =>
          /\ Live(cli[b].sid)
          /\ cli[b].m # NoLease => Live(cli[b].m.sid)
          /\ cli[b].rt # 0 => Live(rts'[cli[b].rt].sid)
    BY <1>6, <2>2 DEF CopiesLive
  <2>4. \A n \in Sids : (rts'[n] # NoRuntime /\ rts'[n].key = k /\ (rts'[n].up \/ rts'[n].known)) => Live(rts'[n].sid)
    BY <1>6 DEF CopiesLive, Fades, Exists
  <2>5. RowCopy(k)' => Live(meta'[k])
    <3>1. RowCopy(k)' => RowCopy(k)
      BY DEF RowCopy, Held
    <3>. QED BY <1>6, <3>1 DEF CopiesLive
  <2>. QED BY <2>1, <2>3, <2>4, <2>5 DEF CopiesLive, Held, Exists
<1>. QED BY <1>1, <1>2, <1>3, <1>5, <1>6 DEF Deleting

\* What the rows and the copies say before a step.
LEMMA RowsNow ==
  ASSUME SurvivalInv
  PROVE  /\ lease \in [Keys -> Row \cup {NoLease}] /\ sync \in [Keys -> Row \cup {NoLease}]
         /\ sweep \in [at: Stages, todo: SUBSET [key: Keys, copy: Row], clean: BOOLEAN, run: Nat]
         /\ \A k \in Keys : lease[k] # NoLease =>
              RowCopy(k) /\ Owned(k, lease[k].sid) /\ (CopiesLive(k) => Live(lease[k].sid))
         /\ \A k \in Keys : sync[k] # NoLease =>
              RowCopy(k) /\ Owned(k, sync[k].sid) /\ (CopiesLive(k) => Live(sync[k].sid))
         /\ \A e \in sweep.todo : /\ e.key \in Keys /\ e.copy \in Row
                                  /\ Owned(e.key, e.copy.sid) /\ (CopiesLive(e.key) => Live(e.copy.sid))
<1>1. ReviewTypes /\ SidsOwned
  BY DEF SurvivalInv, ReviewInv
<1>2. /\ lease \in [Keys -> Row \cup {NoLease}] /\ sync \in [Keys -> Row \cup {NoLease}]
      /\ sweep \in [at: Stages, todo: SUBSET [key: Keys, copy: Row], clean: BOOLEAN, run: Nat]
  BY <1>1 DEF ReviewTypes
<1>3. \A e \in sweep.todo : e.key \in Keys /\ e.copy \in Row
  BY <1>2
<1>. QED BY <1>1, <1>2, <1>3 DEF SidsOwned, CopiesLive, RowCopy, Held

\* Sweeps, renewals and the clock keep the invariant.
LEMMA ParkKeeps ==
  ASSUME SurvivalInv, ParkStep, UNCHANGED reviewVars
  PROVE  SurvivalInv'
<1>1. UNCHANGED <<meta, rts, files, cli, sync, issued, contended>> /\ ReviewTypes
  BY DEF reviewVars, SurvivalInv, ReviewInv
<1>2. /\ lease' \in [Keys -> Row \cup {NoLease}]
      /\ sweep' \in [at: Stages, todo: SUBSET [key: Keys, copy: Row], clean: BOOLEAN, run: Nat]
      /\ \A k \in Keys : lease'[k] # NoLease =>
           /\ lease[k] # NoLease
           /\ \/ lease'[k].sid = lease[k].sid
              \/ \E e \in sweep.todo : e.key = k /\ lease'[k].sid = e.copy.sid
      /\ \A e \in sweep'.todo :
           e \in sweep.todo \/ (lease[e.key] # NoLease /\ e.copy.sid = lease[e.key].sid)
  BY <1>1, ParkRows
<1>3. Fades
  BY <1>1, OneFades, ParkAssumption
<1>4. \A k \in Keys : lease'[k] # NoLease =>
        RowCopy(k) /\ Owned(k, lease'[k].sid) /\ (CopiesLive(k) => Live(lease'[k].sid))
  BY <1>2, RowsNow
<1>5. \A e \in sweep'.todo : e.key \in Keys
  BY <1>2
<1>6. \A e \in sweep'.todo : Owned(e.key, e.copy.sid) /\ (CopiesLive(e.key) => Live(e.copy.sid))
  BY <1>2, <1>5, RowsNow
<1>7. /\ sync' \in [Keys -> Row \cup {NoLease}]
      /\ \A k \in Keys : sync'[k] # NoLease =>
           RowCopy(k) /\ Owned(k, sync'[k].sid) /\ (CopiesLive(k) => Live(sync'[k].sid))
  BY <1>1, RowsNow
<1>. QED BY <1>1, <1>2, <1>3, <1>4, <1>6, <1>7, OthersMove

\* The end of a runtime, and of the gateway's record of it.
LEMMA DiesKeeps ==
  ASSUME SurvivalInv, NEW n \in Sids, RuntimeDies(n)
  PROVE  SurvivalInv'
<1>1. /\ UNCHANGED <<lease, sweep, meta, files, cli, sync, contended>> /\ Exists(n) /\ ReviewTypes /\ n \in 0 .. MaxSid
      /\ rts' = [rts EXCEPT ![n].up = FALSE] \/ rts' = [rts EXCEPT ![n].known = FALSE]
  BY DEF RuntimeDies, parkVars, SurvivalInv, ReviewInv, Sids
<1>2. Fades
  BY <1>1, OneFades
<1>. QED BY <1>1, <1>2, RowsNow, OthersMove

\* A registration keeps the invariant: the session the plugin reports is
\* that of a runtime which is up.
LEMMA RegistersKeeps ==
  ASSUME SurvivalInv, NEW n \in Sids, PluginRegisters(n)
  PROVE  SurvivalInv'
<1>. DEFINE k == rts[n].key
            r == [lease[k] EXCEPT !.sid = rts[n].sid]
<1>1. /\ UNCHANGED <<lease, sweep, meta, files, cli, contended>> /\ Exists(n) /\ rts[n].up
      /\ rts' = [rts EXCEPT ![n].known = TRUE]
      /\ sync' = sync \/ (Held(k) /\ sync' = [sync EXCEPT ![k] = r])
      /\ ReviewTypes /\ n \in 0 .. MaxSid /\ n # 0
  BY DEF PluginRegisters, Life, parkVars, SurvivalInv, ReviewInv, Sids
<1>2. Fades
  BY <1>1, OneFades
<1>3. rts[n] \in Runtime
  BY <1>1 DEF ReviewTypes, Exists
<1>4. k \in Keys /\ rts[n].sid \in 0 .. MaxSid
  BY <1>3, CommandFields
<1>5. Owned(k, rts[n].sid) /\ (CopiesLive(k) => Live(rts[n].sid))
  BY <1>1 DEF SurvivalInv, ReviewInv, SidsOwned, CopiesLive
<1>6. Held(k) => r \in Row /\ r.sid = rts[n].sid /\ RowCopy(k)
  <2>1. Held(k) => lease[k] \in Row
    BY <1>4, RowsNow DEF Held
  <2>2. Held(k) => r \in Row /\ r.sid = rts[n].sid
    BY <1>4, <2>1 DEF Row
  <2>. QED BY <2>2 DEF RowCopy
<1>. HIDE DEF k, r
<1>7. sync' \in [Keys -> Row \cup {NoLease}]
  BY <1>1, <1>4, <1>6, RowsNow
<1>8. \A j \in Keys : sync'[j] # NoLease =>
        RowCopy(j) /\ Owned(j, sync'[j].sid) /\ (CopiesLive(j) => Live(sync'[j].sid))
  BY <1>1, <1>4, <1>5, <1>6, RowsNow
<1>. QED BY <1>1, <1>2, <1>7, <1>8, RowsNow, OthersMove

\* The gateway's write of the manifest it read keeps the invariant.
LEMMA SyncKeeps ==
  ASSUME SurvivalInv, NEW k \in Keys, SyncWrite(k)
  PROVE  SurvivalInv'
<1>1. /\ UNCHANGED <<meta, rts, files, cli, contended>> /\ sync[k] # NoLease
      /\ Write(k, sync[k]) /\ sync' = [sync EXCEPT ![k] = NoLease] /\ ReviewTypes
  BY DEF SyncWrite, UpdateLease, SurvivalInv, ReviewInv
<1>2. sync[k] \in Row
  BY <1>1, RowsNow
<1>3. /\ lease' \in [Keys -> Row \cup {NoLease}]
      /\ lease'[k] \in Row /\ lease'[k].sid = sync[k].sid
      /\ \A j \in Keys : j # k => lease'[j] = lease[j]
      /\ sweep' \in [at: Stages, todo: SUBSET [key: Keys, copy: Row], clean: BOOLEAN, run: Nat]
      /\ sweep'.todo = sweep.todo
  BY <1>1, <1>2, WriteRows
<1>4. Fades
  BY <1>1, OneFades, ParkAssumption
<1>5. \A j \in Keys : lease'[j] # NoLease =>
        RowCopy(j) /\ Owned(j, lease'[j].sid) /\ (CopiesLive(j) => Live(lease'[j].sid))
  BY <1>1, <1>3, RowsNow
<1>6. sync' \in [Keys -> Row \cup {NoLease}] /\ \A j \in Keys : sync'[j] # NoLease => sync'[j] = sync[j]
  BY <1>1, RowsNow
<1>. QED BY <1>1, <1>3, <1>4, <1>5, <1>6, RowsNow, OthersMove

\* A runtime that makes or opens its session keeps the invariant: the
\* session is a file, and it was made for the key of the runtime.
LEMMA BindsKeeps ==
  ASSUME SurvivalInv, NEW n \in Sids, RuntimeBinds(n)
  PROVE  SurvivalInv'
<1>. DEFINE x == IF rts[n].want = 0 THEN n ELSE rts[n].want
            r == [rts[n] EXCEPT !.sid = x]
<1>1. /\ UNCHANGED <<lease, sweep, meta, cli, sync, contended>> /\ Exists(n)
      /\ rts' = [rts EXCEPT ![n] = r] /\ files' = files \cup {x}
      /\ rts[n].want # 0 => rts[n].want \in files
  BY DEF RuntimeBinds, parkVars
<1>2. ReviewTypes /\ CommandShape /\ LosersHeld /\ SidsOwned
  BY DEF SurvivalInv, ReviewInv
<1>3. rts \in [Sids -> Runtime \cup {NoRuntime}] /\ rts[n] \in Runtime /\ files \subseteq Sids
  BY <1>1, <1>2 DEF ReviewTypes, Exists
<1>4. x \in Sids /\ x \in 0 .. MaxSid /\ Owned(rts[n].key, x)
  BY <1>1, <1>2, <1>3 DEF Owned, SidsOwned, Sids
<1>5. /\ r \in Runtime /\ r.sid = x /\ r.key = rts[n].key /\ r.want = rts[n].want /\ r.up = rts[n].up
      /\ r.known = rts[n].known /\ r.by = rts[n].by /\ r.kept = rts[n].kept /\ r # NoRuntime
  <2>. HIDE DEF x
  <2>1. /\ r \in Runtime /\ r.sid = x /\ r.key = rts[n].key /\ r.want = rts[n].want /\ r.up = rts[n].up
        /\ r.known = rts[n].known /\ r.by = rts[n].by /\ r.kept = rts[n].kept
    BY <1>3, <1>4 DEF Runtime
  <2>. QED BY <2>1, CommandFields
<1>. HIDE DEF x, r
<1>6. /\ rts' \in [Sids -> Runtime \cup {NoRuntime}] /\ rts'[n] = r
      /\ \A j \in Sids : j # n => rts'[j] = rts[j]
  BY <1>1, <1>3, <1>5
<1>7. ReviewTypes'
  BY <1>1, <1>2, <1>4, <1>6 DEF ReviewTypes
<1>8. CommandShape'
  BY <1>1, <1>2 DEF CommandShape
<1>9. LosersHeld'
  BY <1>1, <1>2, <1>5, <1>6 DEF LosersHeld, Exists
<1>10. \A j, s : Owned(j, s) => Owned(j, s)'
  BY <1>1, <1>5, <1>6 DEF Owned, Exists
<1>11. SidsOwned'
  <2>1. (\A j \in Keys : /\ Held(j) => Owned(j, lease[j].sid)
                         /\ sync[j] # NoLease => Owned(j, sync[j].sid)
                         /\ Owned(j, meta[j]))'
    BY <1>1, <1>2, <1>10 DEF SidsOwned, Held, Owned
  <2>2. (\A e \in sweep.todo : Owned(e.key, e.copy.sid))'
    BY <1>1, <1>2, <1>10 DEF SidsOwned, Owned
  <2>3. (\A b \in Clis : cli[b] # NoRuntime =>
          /\ Owned(cli[b].key, cli[b].sid) /\ Owned(cli[b].key, cli[b].rt)
          /\ cli[b].m # NoLease => Owned(cli[b].key, cli[b].m.sid))'
    BY <1>1, <1>2, <1>10 DEF SidsOwned, Owned
  <2>4. (\A j \in Sids : Exists(j) => Owned(rts[j].key, rts[j].sid) /\ Owned(rts[j].key, rts[j].want))'
    BY <1>1, <1>2, <1>4, <1>5, <1>6, <1>10 DEF SidsOwned, Owned, Exists
  <2>. QED BY <2>1, <2>2, <2>3, <2>4 DEF SidsOwned
<1>12. ASSUME NEW k \in Keys \ contended', CopiesLive(k) PROVE CopiesLive(k)'
  <2>. DEFINE L(s) == s = 0 \/ s \in files'
  <2>1. \A s : Live(s) => L(s)
    BY <1>1 DEF Live
  <2>2. L(x)
    BY <1>1
  <2>. HIDE DEF L
  <2>3. /\ lease'[k] # NoLease => L(lease'[k].sid)
        /\ sync'[k] # NoLease => L(sync'[k].sid)
        /\ \A e \in sweep'.todo : e.key = k => L(e.copy.sid)
        /\ RowCopy(k)' => L(meta'[k])
    BY <1>1, <1>12, <2>1 DEF CopiesLive, RowCopy, Held
  <2>4. \A b \in Clis : (cli[b] # NoRuntime /\ cli[b].rt # 0) =>
          rts'[cli[b].rt].sid = x \/ rts'[cli[b].rt].sid = rts[cli[b].rt].sid
    BY <1>5, <1>6, HeldByCommand
  <2>5. \A b \in Clis : (cli'[b] # NoRuntime /\ cli'[b].key = k) =>
          /\ L(cli'[b].sid)
          /\ cli'[b].m # NoLease => L(cli'[b].m.sid)
          /\ cli'[b].rt # 0 => L(rts'[cli'[b].rt].sid)
    BY <1>1, <1>12, <2>1, <2>2, <2>4 DEF CopiesLive
  <2>6. \A j \in Sids : (rts'[j] # NoRuntime /\ rts'[j].key = k /\ (rts'[j].up \/ rts'[j].known)) => L(rts'[j].sid)
    BY <1>5, <1>6, <1>12, <2>1, <2>2 DEF CopiesLive, Exists
  <2>. QED BY <2>3, <2>5, <2>6 DEF CopiesLive, Held, Exists, Live, L
<1>13. \A k \in Keys : Deleting(k) => Deleting(k)'
  BY <1>1 DEF Deleting
<1>. QED BY <1>1, <1>7, <1>8, <1>9, <1>11, <1>12, <1>13 DEF SurvivalInv, ReviewInv

\* A spawned runtime is in the hands of its command.
LEMMA SpawnKeeps ==
  ASSUME SurvivalInv, NEW c \in Clis, Spawn(c)
  PROVE  SurvivalInv'
<1>. DEFINE free == {n \in Sids : ~Exists(n)}
            n == CHOOSE n \in free : \A j \in free : n <= j
            k == cli[c].key
            r == [key |-> k, sid |-> 0, want |-> cli[c].sid, up |-> TRUE, known |-> FALSE, kept |-> FALSE,
                  by |-> IF cli[c].cmd = "recover" THEN "revive" ELSE cli[c].cmd]
            d == [cli[c] EXCEPT !.rt = n, !.at = "write"]
<1>1. /\ UNCHANGED <<lease, sweep, meta, files, sync, contended>>
      /\ cli[c] # NoRuntime /\ cli[c].at = "spawn" /\ free # {}
      /\ rts' = [rts EXCEPT ![n] = r] /\ cli' = [cli EXCEPT ![c] = d]
  <2>1. /\ UNCHANGED <<lease, sweep, meta, files, sync, contended>>
        /\ cli[c] # NoRuntime /\ cli[c].at = "spawn" /\ free # {}
    BY DEF Spawn, parkVars
  <2>2. rts' = [rts EXCEPT ![n] = r] /\ cli' = [cli EXCEPT ![c].rt = n, ![c].at = "write"]
    BY DEF Spawn
  <2>3. cli \in [Clis -> Command \cup {NoRuntime}] /\ cli[c] \in Command
    BY <2>1, HeldByCommand DEF SurvivalInv, ReviewInv, ReviewTypes
  <2>. HIDE DEF n
  <2>4. cli' = [cli EXCEPT ![c] = d]
    BY <2>2, <2>3 DEF Command
  <2>. QED BY <2>1, <2>2, <2>4
<1>2. ReviewTypes /\ CommandShape /\ LosersHeld /\ SidsOwned
  BY DEF SurvivalInv, ReviewInv
<1>3. n \in Sids /\ rts[n] = NoRuntime /\ n # 0 /\ n \in 0 .. MaxSid
  <2>1. free \in SUBSET Nat
    BY DEF Sids
  <2>2. \E x \in free : \A y \in free : x <= y
    BY <1>1, <2>1, LeastExists
  <2>3. n \in free
    BY <2>2
  <2>. HIDE DEF n
  <2>. QED BY <2>3 DEF Exists, Sids
<1>4. /\ cli[c] \in Command /\ k \in Keys /\ cli[c].sid \in 0 .. MaxSid /\ Owned(k, cli[c].sid)
      /\ (cli[c].m # NoLease => Owned(k, cli[c].m.sid))
      /\ CopiesLive(k) => Live(cli[c].sid) /\ (cli[c].m # NoLease => Live(cli[c].m.sid))
      /\ cli[c].cmd \in {"start", "ask", "revive", "recover"} /\ 0 \in 0 .. MaxSid
  BY <1>1, <1>2, HeldByCommand, ParkAssumption DEF CommandShape
<1>. HIDE DEF n
<1>5. /\ r \in Runtime /\ r.key = k /\ r.sid = 0 /\ r.want = cli[c].sid /\ r # NoRuntime
  <2>1. r \in Runtime /\ r.key = k /\ r.sid = 0 /\ r.want = cli[c].sid
    BY <1>4 DEF Runtime
  <2>. QED BY <2>1, CommandFields
<1>6. /\ d \in Command /\ d.at = "write" /\ d.rt = n /\ d.key = k /\ d.sid = cli[c].sid /\ d.m = cli[c].m
      /\ d.cmd = cli[c].cmd /\ d # NoRuntime
  <2>1. /\ d \in Command /\ d.at = "write" /\ d.rt = n /\ d.key = k /\ d.sid = cli[c].sid /\ d.m = cli[c].m
        /\ d.cmd = cli[c].cmd
    BY <1>3, <1>4 DEF Command
  <2>. QED BY <2>1, CommandFields
<1>. HIDE DEF free, k, r, d
<1>7. /\ rts' \in [Sids -> Runtime \cup {NoRuntime}] /\ rts'[n] = r
      /\ \A j \in Sids : j # n => rts'[j] = rts[j]
      /\ cli' \in [Clis -> Command \cup {NoRuntime}] /\ cli'[c] = d
      /\ \A b \in Clis : b # c => cli'[b] = cli[b]
  BY <1>1, <1>2, <1>3, <1>5, <1>6 DEF ReviewTypes
<1>8. ReviewTypes'
  BY <1>1, <1>2, <1>7 DEF ReviewTypes
<1>9. CommandShape'
  BY <1>1, <1>2, <1>3, <1>4, <1>6, <1>7 DEF CommandShape
<1>10. LosersHeld'
  <2>1. ASSUME NEW j \in Sids, rts'[j] # NoRuntime, rts'[j].up, rts'[j].by # "start", ~rts'[j].kept
        PROVE  \E b \in Clis : cli'[b] # NoRuntime /\ cli'[b].at = "write" /\ cli'[b].rt = j
    <3>1. CASE j = n
      BY <1>6, <1>7, <3>1
    <3>2. CASE j # n
      <4>1. PICK b \in Clis : cli[b] # NoRuntime /\ cli[b].at = "write" /\ cli[b].rt = j
        BY <1>2, <1>7, <2>1, <3>2 DEF LosersHeld, Exists
      <4>. QED BY <1>1, <1>7, <4>1
    <3>. QED BY <3>1, <3>2
  <2>. QED BY <2>1 DEF LosersHeld, Exists
<1>11. \A j, s : Owned(j, s) => Owned(j, s)'
  BY <1>3, <1>7 DEF Owned, Exists
<1>12. SidsOwned'
  <2>1. (\A j \in Keys : /\ Held(j) => Owned(j, lease[j].sid)
                         /\ sync[j] # NoLease => Owned(j, sync[j].sid)
                         /\ Owned(j, meta[j]))'
    BY <1>1, <1>2, <1>11 DEF SidsOwned, Held, Owned
  <2>2. (\A e \in sweep.todo : Owned(e.key, e.copy.sid))'
    BY <1>1, <1>2, <1>11 DEF SidsOwned, Owned
  <2>. DEFINE O(j, s) == s = 0 \/ (s \in Sids /\ rts'[s] # NoRuntime /\ rts'[s].key = j)
  <2>a. (\A j, s : Owned(j, s) => O(j, s)) /\ O(k, n) /\ \A j : O(j, 0)
    BY <1>3, <1>5, <1>7, <1>11 DEF Owned, Exists
  <2>. HIDE DEF O
  <2>b. \A b \in Clis : cli'[b] # NoRuntime =>
          /\ O(cli'[b].key, cli'[b].sid) /\ O(cli'[b].key, cli'[b].rt)
          /\ cli'[b].m # NoLease => O(cli'[b].key, cli'[b].m.sid)
    BY <1>2, <1>4, <1>6, <1>7, <2>a DEF SidsOwned
  <2>c. \A j \in Sids : rts'[j] # NoRuntime => O(rts'[j].key, rts'[j].sid) /\ O(rts'[j].key, rts'[j].want)
    BY <1>2, <1>4, <1>5, <1>7, <2>a DEF SidsOwned, Exists
  <2>3. (\A b \in Clis : cli[b] # NoRuntime =>
          /\ Owned(cli[b].key, cli[b].sid) /\ Owned(cli[b].key, cli[b].rt)
          /\ cli[b].m # NoLease => Owned(cli[b].key, cli[b].m.sid))'
    BY <2>b DEF O, Owned, Exists
  <2>4. (\A j \in Sids : Exists(j) => Owned(rts[j].key, rts[j].sid) /\ Owned(rts[j].key, rts[j].want))'
    BY <2>c DEF O, Owned, Exists
  <2>. QED BY <2>1, <2>2, <2>3, <2>4 DEF SidsOwned
<1>13. ASSUME NEW j \in Keys \ contended', CopiesLive(j) PROVE CopiesLive(j)'
  <2>0. \A s : Live(s) <=> Live(s)'
    BY <1>1 DEF Live
  <2>1. /\ lease'[j] # NoLease => Live(lease'[j].sid)
        /\ sync'[j] # NoLease => Live(sync'[j].sid)
        /\ \A e \in sweep'.todo : e.key = j => Live(e.copy.sid)
    BY <1>1, <1>13 DEF CopiesLive, Held
  <2>2. RowCopy(j)' => Live(meta'[j])
    <3>1. RowCopy(j)' => RowCopy(j)
      BY <1>1, <1>6, <1>7 DEF RowCopy, Held, k
    <3>. QED BY <1>1, <1>13, <3>1 DEF CopiesLive
  <2>3. ASSUME NEW b \in Clis, cli'[b] # NoRuntime, cli'[b].key = j
        PROVE  /\ Live(cli'[b].sid)
               /\ cli'[b].m # NoLease => Live(cli'[b].m.sid)
               /\ cli'[b].rt # 0 => Live(rts'[cli'[b].rt].sid)
    <3>1. CASE b = c
      <4>1. j = k /\ cli'[b] = d /\ rts'[d.rt].sid = 0
        BY <1>5, <1>6, <1>7, <2>3, <3>1
      <4>2. Live(0)
        BY DEF Live
      <4>. QED BY <1>4, <1>6, <1>13, <4>1, <4>2
    <3>2. CASE b # c
      <4>1. cli'[b] = cli[b]
        BY <1>7, <3>2
      <4>2. cli[b].rt # 0 => cli[b].rt \in Sids /\ rts[cli[b].rt] # NoRuntime
        BY <2>3, <4>1, HeldByCommand DEF Exists
      <4>3. cli[b].rt # 0 => rts'[cli[b].rt] = rts[cli[b].rt]
        BY <1>3, <1>7, <4>2
      <4>. QED BY <1>13, <2>3, <4>1, <4>3 DEF CopiesLive
    <3>. QED BY <3>1, <3>2
  <2>4. \A i \in Sids : (rts'[i] # NoRuntime /\ rts'[i].key = j /\ (rts'[i].up \/ rts'[i].known)) => Live(rts'[i].sid)
    BY <1>5, <1>7, <1>13 DEF CopiesLive, Exists, Live
  <2>5. \A s : Live(s) => (s = 0 \/ s \in files')
    BY <2>0 DEF Live
  <2>. QED BY <2>1, <2>2, <2>3, <2>4, <2>5 DEF CopiesLive, Held, Exists, Live
<1>14. \A j \in Keys : Deleting(j) => Deleting(j)'
  BY <1>1, <1>7 DEF Deleting
<1>. QED BY <1>1, <1>8, <1>9, <1>10, <1>12, <1>13, <1>14 DEF SurvivalInv, ReviewInv

\* A soft release, on its own or on the way to a revival, keeps the invariant.
LEMMA ReleaseKeeps ==
  ASSUME SurvivalInv, NEW c \in Clis, Free(c), cli[c].cmd \in {"release", "recover"}
  PROVE  SurvivalInv'
<1>. DEFINE k  == cli[c].key
            m0 == [lease[k] EXCEPT !.life = "soft"]
            d0 == [cli[c] EXCEPT !.at = "spawn", !.m = m0, !.sid = lease[k].sid]
            d  == IF cli[c].cmd = "recover" /\ Held(k) THEN d0 ELSE NoRuntime
<1>1. /\ cli[c] # NoRuntime /\ cli[c].at = "free" /\ Release(k) /\ cli' = [cli EXCEPT ![c] = d]
      /\ UNCHANGED <<meta, rts, files, sync, contended>>
  <2>1. /\ cli[c] # NoRuntime /\ cli[c].at = "free" /\ Release(k)
        /\ UNCHANGED <<meta, rts, files, sync, contended>>
    BY DEF Free
  <2>2. cli[c].cmd = "release" \/ ~Held(k) => cli' = [cli EXCEPT ![c] = NoRuntime]
    BY DEF Free, Done
  <2>3. cli[c].cmd = "recover" /\ Held(k) =>
          cli' = [cli EXCEPT ![c].at = "spawn", ![c].m = [lease[k] EXCEPT !.life = "soft"], ![c].sid = lease[k].sid]
    BY DEF Free
  <2>4. cli \in [Clis -> Command \cup {NoRuntime}] /\ cli[c] \in Command
    BY <2>1, HeldByCommand DEF SurvivalInv, ReviewInv, ReviewTypes
  <2>5. [cli EXCEPT ![c].at = "spawn", ![c].m = m0, ![c].sid = lease[k].sid] = [cli EXCEPT ![c] = d0]
    <3>. HIDE DEF m0
    <3>. QED BY <2>4 DEF Command
  <2>. QED BY <2>1, <2>2, <2>3, <2>5
<1>2. /\ cli[c] \in Command /\ k \in Keys /\ Owned(k, cli[c].rt)
      /\ CopiesLive(k) => (cli[c].rt # 0 => Live(rts[cli[c].rt].sid))
  BY <1>1, HeldByCommand
<1>3. ReviewTypes
  BY DEF SurvivalInv, ReviewInv
<1>4. Held(k) => /\ lease[k] \in Row /\ lease[k].sid \in 0 .. MaxSid
                 /\ Owned(k, lease[k].sid) /\ (CopiesLive(k) => Live(lease[k].sid)) /\ RowCopy(k)
  BY <1>2, RowsNow, RowFields DEF Held
<1>5. Held(k) => m0 \in Row /\ m0.sid = lease[k].sid /\ m0 # NoLease
  <2>1. Held(k) => m0 \in Row /\ m0.sid = lease[k].sid
    BY <1>4 DEF Row, Lives
  <2>. QED BY <2>1, RowFields
<1>6. Held(k) => /\ d0 \in Command /\ d0.at = "spawn" /\ d0.m = m0 /\ d0.sid = lease[k].sid /\ d0.key = k
                 /\ d0.cmd = cli[c].cmd /\ d0.rt = cli[c].rt
  <2>. HIDE DEF m0
  <2>. QED BY <1>2, <1>4, <1>5 DEF Command
<1>7. Holds(d, k) /\ d \in Command \cup {NoRuntime}
  BY <1>2, <1>4, <1>5, <1>6 DEF Holds
<1>8. /\ lease' \in [Keys -> Row \cup {NoLease}] /\ UNCHANGED sweep
      /\ \A j \in Keys : j # k => lease'[j] = lease[j]
      /\ lease'[k] # NoLease => Held(k) /\ lease'[k].sid = lease[k].sid
  <2>1. CASE ~Held(k)
    BY <1>1, <1>3, <2>1 DEF Release, parkVars, ReviewTypes, Held
  <2>2. CASE Held(k)
    <3>. DEFINE r == [lease[k] EXCEPT !.life = "soft", !.due = "no"]
    <3>1. r \in Row /\ r.sid = lease[k].sid
      BY <1>4, <2>2 DEF Row, Lives
    <3>2. lease \in [Keys -> Row \cup {NoLease}]
      BY <1>3 DEF ReviewTypes
    <3>3. lease' = [lease EXCEPT ![k] = r] /\ UNCHANGED sweep
      BY <1>1, <2>2, <3>2 DEF Release
    <3>. HIDE DEF r
    <3>. QED BY <1>2, <2>2, <3>1, <3>2, <3>3
  <2>. QED BY <2>1, <2>2
<1>9. Fades
  BY <1>1, <1>3, OneFades, ParkAssumption
<1>10. /\ Owned(k, meta[k]) /\ meta \in [Keys -> 0 .. MaxSid]
       /\ sweep \in [at: Stages, todo: SUBSET [key: Keys, copy: Row], clean: BOOLEAN, run: Nat]
  BY <1>2, <1>3 DEF SurvivalInv, ReviewInv, SidsOwned, ReviewTypes
<1>11. CopiesLive(k) => (d # NoRuntime => /\ Live(d.sid) /\ (d.m # NoLease => Live(d.m.sid))
                                          /\ d.rt # 0 => Live(rts[d.rt].sid))
  BY <1>2, <1>4, <1>5, <1>6
<1>12. d # NoRuntime => RowCopy(k)
  BY <1>4
<1>. HIDE DEF d, d0, m0, k
<1>. QED BY <1>1, <1>2, <1>4, <1>7, <1>8, <1>9, <1>10, <1>11, <1>12, CommandMoves

\* A purge or gc deletes the transcript of a session of its own key only.
LEMMA PurgeKeeps ==
  ASSUME SurvivalInv, NEW c \in Clis, Free(c), cli[c].cmd \notin {"release", "recover"}
  PROVE  SurvivalInv'
<1>. DEFINE k == cli[c].key
            m == cli[c].m
            d == [cli[c] EXCEPT !.at = "delete"]
<1>1. /\ cli[c] # NoRuntime /\ cli[c].at = "free" /\ cli' = [cli EXCEPT ![c] = d] /\ files' = files \ {m.sid}
      /\ UNCHANGED <<lease, sweep, meta, rts, sync, contended>>
  BY DEF Free, Next1, Purged, parkVars
<1>2. ReviewTypes /\ CommandShape /\ LosersHeld /\ SidsOwned
  BY DEF SurvivalInv, ReviewInv
<1>3. cli[c] \in Command /\ k \in Keys /\ m # NoLease /\ Owned(k, m.sid)
  BY <1>1, <1>2, HeldByCommand DEF CommandShape
<1>4. /\ d \in Command /\ d.at = "delete" /\ d.rt = cli[c].rt /\ d.key = k /\ d.sid = cli[c].sid /\ d.m = m
      /\ d.cmd = cli[c].cmd /\ d # NoRuntime
  <2>1. /\ d \in Command /\ d.at = "delete" /\ d.rt = cli[c].rt /\ d.key = k /\ d.sid = cli[c].sid /\ d.m = m
        /\ d.cmd = cli[c].cmd
    BY <1>3 DEF Command
  <2>. QED BY <2>1, CommandFields
<1>5. /\ cli' \in [Clis -> Command \cup {NoRuntime}] /\ cli'[c] = d
      /\ \A b \in Clis : b # c => cli'[b] = cli[b]
  BY <1>1, <1>2, <1>4 DEF ReviewTypes
<1>. HIDE DEF d, k, m
<1>6. ReviewTypes'
  BY <1>1, <1>2, <1>5 DEF ReviewTypes
<1>7. CommandShape'
  BY <1>1, <1>2, <1>3, <1>4, <1>5 DEF CommandShape
<1>8. LosersHeld'
  BY <1>1, <1>2, <1>5 DEF LosersHeld, Exists
<1>9. SidsOwned'
  <2>1. \A b \in Clis : cli'[b] # NoRuntime =>
          /\ cli[b] # NoRuntime /\ cli'[b].key = cli[b].key /\ cli'[b].sid = cli[b].sid
          /\ cli'[b].rt = cli[b].rt /\ cli'[b].m = cli[b].m
    BY <1>1, <1>4, <1>5 DEF k, m
  <2>. QED BY <1>1, <1>2, <2>1 DEF SidsOwned, Owned, Held, Exists
<1>10. ASSUME NEW j \in Keys \ contended' PROVE Deleting(j)' \/ CopiesLive(j)'
  <2>1. CASE j = k
    BY <1>4, <1>5, <2>1 DEF Deleting
  <2>2. CASE j # k /\ Deleting(j)
    <3>1. PICK b \in Clis : cli[b] # NoRuntime /\ cli[b].at = "delete" /\ cli[b].key = j
      BY <2>2 DEF Deleting
    <3>. QED BY <1>1, <1>5, <2>2, <3>1 DEF Deleting
  <2>3. CASE j # k /\ CopiesLive(j)
    <3>. DEFINE L(s) == s = 0 \/ s \in files'
    <3>1. \A s : Owned(j, s) /\ Live(s) => L(s)
      <4>1. 0 \notin files
        BY <1>2 DEF ReviewTypes, Sids
      <4>. QED BY <1>1, <1>3, <2>3, <4>1 DEF Owned, Live
    <3>. HIDE DEF L
    <3>2. \A b \in Clis : cli'[b] # NoRuntime /\ cli'[b].key = j => b # c /\ cli'[b] = cli[b]
      BY <1>4, <1>5, <2>3
    <3>3. /\ lease'[j] # NoLease => L(lease'[j].sid)
          /\ sync'[j] # NoLease => L(sync'[j].sid)
          /\ \A e \in sweep'.todo : e.key = j => L(e.copy.sid)
      BY <1>1, <1>2, <2>3, <3>1 DEF CopiesLive, Held, SidsOwned
    <3>4. RowCopy(j)' => L(meta'[j])
      <4>1. RowCopy(j)' => RowCopy(j)
        BY <1>1, <3>2 DEF RowCopy, Held
      <4>. QED BY <1>1, <1>2, <2>3, <3>1, <4>1 DEF CopiesLive, SidsOwned
    <3>5. ASSUME NEW b \in Clis, cli'[b] # NoRuntime, cli'[b].key = j
          PROVE  /\ L(cli'[b].sid)
                 /\ cli'[b].m # NoLease => L(cli'[b].m.sid)
                 /\ cli'[b].rt # 0 => L(rts'[cli'[b].rt].sid)
      <4>1. cli'[b] = cli[b] /\ cli[b] # NoRuntime /\ cli[b].key = j
        BY <3>2, <3>5
      <4>2. /\ Owned(j, cli[b].sid) /\ (cli[b].m # NoLease => Owned(j, cli[b].m.sid))
            /\ cli[b].rt # 0 => Owned(j, rts[cli[b].rt].sid)
        BY <4>1, HeldByCommand
      <4>. QED BY <1>1, <2>3, <3>1, <4>1, <4>2 DEF CopiesLive
    <3>6. \A n \in Sids : (rts'[n] # NoRuntime /\ rts'[n].key = j /\ (rts'[n].up \/ rts'[n].known)) => L(rts'[n].sid)
      BY <1>1, <1>2, <2>3, <3>1 DEF CopiesLive, SidsOwned, Exists
    <3>. QED BY <3>3, <3>4, <3>5, <3>6 DEF CopiesLive, Held, Exists, Live, L
  <2>. QED BY <1>1, <1>10, <2>1, <2>2, <2>3 DEF SurvivalInv
<1>. QED BY <1>6, <1>7, <1>8, <1>9, <1>10 DEF SurvivalInv, ReviewInv

\* Deleting the row leaves no copy behind, or counts as contended.
LEMMA DeleteKeeps ==
  ASSUME SurvivalInv, NEW c \in Clis, DeleteLease(c)
  PROVE  SurvivalInv'
<1>. DEFINE k == cli[c].key
<1>1. /\ cli[c] # NoRuntime /\ cli[c].at = "delete" /\ cli' = [cli EXCEPT ![c] = NoRuntime]
      /\ lease' = [lease EXCEPT ![k] = NoLease]
      /\ contended' = IF CopyHeld(c, k) THEN contended \cup {k} ELSE contended
      /\ UNCHANGED <<sweep, meta, rts, files, sync>>
  BY DEF DeleteLease, Delete, Done
<1>2. ReviewTypes /\ CommandShape /\ LosersHeld /\ SidsOwned
  BY DEF SurvivalInv, ReviewInv
<1>3. k \in Keys
  BY <1>1, HeldByCommand
<1>. HIDE DEF k
<1>4. /\ cli' \in [Clis -> Command \cup {NoRuntime}] /\ cli'[c] = NoRuntime
      /\ \A b \in Clis : b # c => cli'[b] = cli[b]
      /\ lease' \in [Keys -> Row \cup {NoLease}] /\ lease'[k] = NoLease
      /\ \A j \in Keys : j # k => lease'[j] = lease[j]
  BY <1>1, <1>2, <1>3 DEF ReviewTypes
<1>5. ReviewTypes'
  BY <1>1, <1>2, <1>4 DEF ReviewTypes
<1>6. CommandShape'
  BY <1>2, <1>4 DEF CommandShape
<1>7. LosersHeld'
  BY <1>1, <1>2, <1>4 DEF LosersHeld, Exists
<1>8. SidsOwned'
  BY <1>1, <1>2, <1>4 DEF SidsOwned, Owned, Held, Exists
<1>9. ASSUME NEW j \in Keys \ contended' PROVE Deleting(j)' \/ CopiesLive(j)'
  <2>0. \A b \in Clis : cli'[b] # NoRuntime => b # c /\ cli'[b] = cli[b]
    BY <1>4
  <2>1. CASE j = k
    <3>1. ~CopyHeld(c, k)
      BY <1>1, <1>9, <2>1
    <3>2. /\ sync'[j] = NoLease /\ lease'[j] = NoLease
          /\ \A e \in sweep'.todo : e.key # j
          /\ \A b \in Clis : cli'[b] # NoRuntime => cli'[b].key # j
          /\ \A n \in Sids : ~(rts'[n] # NoRuntime /\ rts'[n].key = j /\ (rts'[n].up \/ rts'[n].known))
      BY <1>1, <1>4, <2>0, <2>1, <3>1 DEF CopyHeld, Exists
    <3>. QED BY <3>2 DEF CopiesLive, RowCopy, Held, Exists
  <2>2. CASE j # k /\ Deleting(j)
    <3>1. PICK b \in Clis : cli[b] # NoRuntime /\ cli[b].at = "delete" /\ cli[b].key = j
      BY <2>2 DEF Deleting
    <3>. QED BY <1>4, <2>2, <3>1 DEF Deleting, k
  <2>3. CASE j # k /\ CopiesLive(j)
    <3>1. RowCopy(j)' => RowCopy(j)
      BY <1>1, <1>4, <2>0, <2>3 DEF RowCopy, Held
    <3>2. lease'[j] = lease[j]
      BY <1>4, <2>3
    <3>. QED BY <1>1, <2>0, <2>3, <3>1, <3>2 DEF CopiesLive, Held, Exists, Live
  <2>. QED BY <1>1, <1>9, <2>1, <2>2, <2>3 DEF SurvivalInv
<1>. QED BY <1>5, <1>6, <1>7, <1>8, <1>9 DEF SurvivalInv, ReviewInv

\* Every step keeps the invariant.
LEMMA SurvivalStep == SurvivalInv /\ [OracleNext]_oracleVars => SurvivalInv'
<1>. SUFFICES ASSUME SurvivalInv, [OracleNext]_oracleVars PROVE SurvivalInv'
  OBVIOUS
<1>1. CASE ParkStep /\ UNCHANGED reviewVars
  BY <1>1, ParkKeeps
<1>2. CASE \E n \in Sids : RuntimeBinds(n) \/ RuntimeDies(n) \/ PluginRegisters(n)
  BY <1>2, BindsKeeps, DiesKeeps, RegistersKeeps
<1>3. CASE \E k \in Keys : SyncWrite(k)
  BY <1>3, SyncKeeps
<1>4. ASSUME NEW c \in Clis, NEW k \in Reviewed,
             Start(c, k) \/ Ask(c, k) \/ Revive(c, k) \/ CmdRelease(c, k) \/ Gc(c, k) \/ Backfill(c, k)
      PROVE  SurvivalInv'
  BY <1>4, BeginsKeep, ReviewAssumption
<1>5. ASSUME NEW c \in Clis,
             \/ Spawn(c) \/ SpawnFails(c) \/ WriteBack(c) \/ WriteFails(c)
             \/ StopRuntime(c) \/ Free(c) \/ DeleteLease(c)
      PROVE  SurvivalInv'
  BY <1>5, SpawnKeeps, SpawnFailsKeeps, WriteBackKeeps, WriteFailsKeeps, StopKeeps, ReleaseKeeps, PurgeKeeps, DeleteKeeps
<1>6. CASE UNCHANGED oracleVars
  <2>1. UNCHANGED <<lease, sweep, meta, rts, files, cli, sync, contended>> /\ ReviewTypes
    BY <1>6 DEF oracleVars, parkVars, reviewVars, SurvivalInv, ReviewInv
  <2>2. Fades
    BY <2>1, OneFades, ParkAssumption
  <2>. QED BY <2>1, <2>2, RowsNow, OthersMove
<1>. QED BY <1>1, <1>2, <1>3, <1>4, <1>5, <1>6 DEF OracleNext

\* It holds when nothing is parked.
LEMMA SurvivalInit == OracleInit => SurvivalInv
<1>. SUFFICES ASSUME OracleInit PROVE SurvivalInv
  OBVIOUS
<1>1. /\ lease = [k \in Keys |-> NoLease] /\ sweep = [at |-> "idle", todo |-> {}, clean |-> FALSE, run |-> 0]
      /\ meta = [k \in Keys |-> 0] /\ rts = [n \in Sids |-> NoRuntime] /\ files = {}
      /\ cli = [c \in Clis |-> NoRuntime] /\ sync = [k \in Keys |-> NoLease]
  BY DEF OracleInit, ParkInit, NoSweep
<1>2. ReviewTypes
  <2>1. sweep \in [at: Stages, todo: SUBSET [key: Keys, copy: Row], clean: BOOLEAN, run: Nat]
    BY <1>1 DEF Stages
  <2>2. 0 \in 0 .. MaxSid
    BY ParkAssumption
  <2>. QED BY <1>1, <2>1, <2>2 DEF ReviewTypes
<1>3. CommandShape /\ LosersHeld
  BY <1>1 DEF CommandShape, LosersHeld, Exists
<1>4. SidsOwned
  BY <1>1 DEF SidsOwned, Held, Owned, Exists
<1>5. \A k \in Keys : CopiesLive(k)
  BY <1>1 DEF CopiesLive, RowCopy, Held, Live, Exists
<1>. QED BY <1>2, <1>3, <1>4, <1>5 DEF SurvivalInv, ReviewInv

\* The invariant holds in every state of the oracle commands.
LEMMA SurvivalHolds == ReviewSpec => []SurvivalInv
BY SurvivalInit, SurvivalStep, PTL DEF ReviewSpec

\* As long as nobody else held a copy of a lease when release --purge or gc
\* deleted its row, a lease names a session that can still be resumed: for
\* any number of reviews, commands and runtimes.
THEOREM SessionsSurvive == ReviewSpec => []SessionSurvives
<1>1. SurvivalInv => SessionSurvives
  BY DEF SurvivalInv, SessionSurvives, Deleting, CopiesLive, Live
<1>. QED BY <1>1, SurvivalHolds, PTL

\* A runtime that an ask or a revive spawned and could not park is never left
\* running without its command, whatever fails after the spawn.
THEOREM LosersStopped == ReviewSpec => []LosersAreStopped
<1>1. SurvivalInv => LosersAreStopped
  BY DEF SurvivalInv, ReviewInv, LosersHeld, LosersAreStopped
<1>. QED BY <1>1, SurvivalHolds, PTL

\* A sweep never brings a released lease back, whatever copy it selected.
THEOREM ReleasedStaysReleased == ReviewSpec => ReleasedIsNotEvicted
<1>1. SurvivalInv /\ [OracleNext]_oracleVars =>
        [Evict => \A k \in Keys : Life(k, {"soft"}) => lease'[k] = lease[k]]_oracleVars
  <2>. SUFFICES ASSUME SurvivalInv, Evict, NEW k \in Keys, Life(k, {"soft"}) PROVE lease'[k] = lease[k]
    OBVIOUS
  <2>1. PICK e \in sweep.todo :
          lease' = IF Evictable(e.key)
                   THEN [lease EXCEPT ![e.key] = [e.copy EXCEPT !.life = "cold", !.due = lease[e.key].due]]
                   ELSE lease
    BY DEF Evict
  <2>2. lease \in [Keys -> Row \cup {NoLease}]
    BY RowsNow
  <2>3. Evictable(e.key) => e.key # k
    BY DEF Evictable, Life
  <2>. QED BY <2>1, <2>2, <2>3
<1>. QED BY <1>1, SurvivalHolds, PTL DEF ReviewSpec, ReleasedIsNotEvicted

-----------------------------------------------------------------------------
(* The limit of hot leases *)

\* Outside Excess there are no more hot leases than the limit: the oldest of
\* them is older than all the others.
LEMMA ExcessLeavesLimit ==
  ASSUME lru \in Orders
  PROVE  Cardinality(HotKeys \ Excess) <= MaxHot
<1>. DEFINE S == HotKeys \ Excess
<1>1. HotKeys \subseteq Keys /\ IsFiniteSet(HotKeys) /\ IsFiniteSet(S)
  <2>1. HotKeys \subseteq Keys
    BY DEF HotKeys
  <2>. QED BY <2>1, FS_Subset, ParkAssumption
<1>2. CASE S = {}
  BY <1>2, FS_EmptySet, ParkAssumption
<1>3. CASE S # {}
  <2>1. \A k \in Keys : lru[k] \in Nat
    BY DEF Orders
  <2>2. PICK k \in S : \A j \in S : lru[k] <= lru[j]
    <3>. DEFINE I == {lru[j] : j \in S}
    <3>1. I \in SUBSET Nat /\ I # {}
      BY <1>1, <1>3, <2>1
    <3>2. PICK a \in I : \A b \in I : a <= b
      BY <3>1, LeastExists
    <3>. QED BY <3>2
  <2>. DEFINE T == {j \in HotKeys : lru[k] < lru[j]}
  <2>3. IsFiniteSet(T) /\ Cardinality(T) \in Nat /\ Cardinality(T) < MaxHot
    <3>1. IsFiniteSet(T)
      BY <1>1, FS_Subset
    <3>2. Cardinality(T) \in Nat
      BY <3>1, FS_CardinalityType
    <3>. QED BY <3>1, <3>2, ParkAssumption DEF Excess
  <2>4. S \ {k} \subseteq T
    BY <1>1, <2>1, <2>2 DEF Orders
  <2>5. Cardinality(S \ {k}) <= Cardinality(T)
    BY <2>3, <2>4, FS_Subset
  <2>6. Cardinality(S \ {k}) = Cardinality(S) - 1 /\ Cardinality(S) \in Nat
    BY <1>1, FS_RemoveElement, FS_CardinalityType
  <2>. HIDE DEF S, T
  <2>. QED BY <2>3, <2>5, <2>6, ParkAssumption DEF S
<1>. QED BY <1>2, <1>3

\* Fewer leases are not more.
LEMMA FewerIsFewer ==
  ASSUME NEW S \in SUBSET Keys, NEW T \in SUBSET S, Cardinality(S) <= MaxHot
  PROVE  Cardinality(T) <= MaxHot
<1>1. IsFiniteSet(S) /\ IsFiniteSet(T) /\ Cardinality(T) <= Cardinality(S)
  BY FS_Subset, ParkAssumption
<1>. QED BY <1>1, FS_CardinalityType, ParkAssumption

\* Activity keeps the order an order.
LEMMA TouchKeepsOrder ==
  ASSUME lru \in Orders, NEW k \in Keys, Touch(k)
  PROVE  lru' \in Orders
<1>1. Newest \in Nat /\ Newest # 0
  BY FS_CardinalityType, FS_EmptySet, ParkAssumption DEF Newest
<1>2. \A j \in Keys : lru[j] \in 1 .. Newest
  BY DEF Orders
<1>3. \A j \in Keys : lru'[j] = IF j = k THEN Newest ELSE IF lru[j] > lru[k] THEN lru[j] - 1 ELSE lru[j]
  BY DEF Touch
<1>4. lru' \in [Keys -> 1 .. Newest]
  BY <1>1, <1>2 DEF Touch
<1>5. ASSUME NEW i \in Keys, NEW j \in Keys, lru'[i] = lru'[j], i # j PROVE FALSE
  <2>1. lru[i] # lru[j] /\ (i # k => lru[i] # lru[k]) /\ (j # k => lru[j] # lru[k])
    BY <1>5 DEF Orders
  <2>. QED BY <1>1, <1>2, <1>3, <1>5, <2>1
<1>. QED BY <1>4, <1>5 DEF Orders

\* A step outside the sweep parks something, which is noticed, or only makes
\* rows less hot; it touches at most one key.
LEMMA RowsCool ==
  ASSUME SurvivalInv, [OracleNext]_oracleVars, ~SweepStage, ~Evict
  PROVE  /\ lru' = lru \/ \E k \in Keys : Touch(k)
         /\ \/ ~sweep'.clean
            \/ UNCHANGED sweep /\ HotKeys' \subseteq HotKeys
<1>0. /\ ReviewTypes /\ lease \in [Keys -> Row \cup {NoLease}]
      /\ sweep \in [at: Stages, todo: SUBSET [key: Keys, copy: Row], clean: BOOLEAN, run: Nat]
      /\ \A k \in Keys : lease[k] # NoLease => lease[k] \in Row
  BY DEF SurvivalInv, ReviewInv, ReviewTypes
<1>1. CASE UNCHANGED parkVars
  BY <1>1 DEF parkVars, HotKeys, Life, Held
<1>2. ASSUME NEW k \in Keys, NEW m, Write(k, m)
      PROVE  Touch(k) /\ ~sweep'.clean
  BY <1>0, <1>2 DEF Write
<1>3. ASSUME NEW k \in Keys, NEW r \in Row \cup {NoLease}, lease' = [lease EXCEPT ![k] = r], UNCHANGED sweep,
             (r # NoLease /\ r.life = "hot") => lease[k] # NoLease /\ lease[k].life = "hot"
      PROVE  HotKeys' \subseteq HotKeys
  BY <1>0, <1>3 DEF HotKeys, Life, Held
<1>4. ASSUME NEW k \in Keys, Release(k), Held(k)
      PROVE  Touch(k) /\ UNCHANGED sweep /\ HotKeys' \subseteq HotKeys
  <2>. DEFINE r == [lease[k] EXCEPT !.life = "soft", !.due = "no"]
  <2>1. lease[k] \in Row
    BY <1>0, <1>4 DEF Held
  <2>2. r \in Row /\ r.life = "soft"
    BY <2>1 DEF Row, Lives
  <2>3. lease' = [lease EXCEPT ![k] = r] /\ Touch(k) /\ UNCHANGED sweep
    BY <1>0, <1>4 DEF Release
  <2>. HIDE DEF r
  <2>. QED BY <1>3, <2>2, <2>3
<1>5. ASSUME NEW k \in Keys, Release(k), ~Held(k)
      PROVE  UNCHANGED parkVars
  BY <1>5 DEF Release
<1>6. ASSUME NEW k \in Keys, Delete(k)
      PROVE  UNCHANGED <<lru, sweep>> /\ HotKeys' \subseteq HotKeys
  BY <1>0, <1>3, <1>6 DEF Delete
<1>7. ASSUME NEW k \in Keys, Renew(k) \/ Elapse(k)
      PROVE  (Touch(k) \/ UNCHANGED lru) /\ UNCHANGED sweep /\ HotKeys' \subseteq HotKeys
  <2>1. lease[k] \in Row /\ lease[k] # NoLease
    BY <1>0, <1>7 DEF Renew, Elapse, Held
  <2>2. \E r \in Row : r.life = lease[k].life /\ lease' = [lease EXCEPT ![k] = r]
    <3>. DEFINE D == {"no", "soft", "hard"}
    <3>1. \A x \in D, o \in BOOLEAN :
            /\ [lease[k] EXCEPT !.due = x] \in Row /\ [lease[k] EXCEPT !.due = x].life = lease[k].life
            /\ [lease[k] EXCEPT !.due = x, !.old = o] \in Row
            /\ [lease[k] EXCEPT !.due = x, !.old = o].life = lease[k].life
      BY <2>1 DEF Row
    <3>2. lease[k].due \in D
      BY <2>1 DEF Row
    <3>3. CASE Renew(k)
      BY <1>0, <3>1, <3>2, <3>3 DEF Renew
    <3>4. CASE Elapse(k)
      BY <1>0, <3>1, <3>2, <3>4 DEF Elapse
    <3>. QED BY <1>7, <3>3, <3>4
  <2>3. (Touch(k) \/ UNCHANGED lru) /\ UNCHANGED sweep
    BY <1>7 DEF Renew, Elapse
  <2>. QED BY <1>3, <2>1, <2>2, <2>3
<1>8. ASSUME NEW c \in Clis, WriteBack(c)
      PROVE  UNCHANGED parkVars \/ \E m : Write(cli[c].key, m)
  BY <1>8 DEF WriteBack, StartWrites, AskWrites, ReviveWrites, Acquire, UpdateLease
<1>9. \/ UNCHANGED parkVars
      \/ \E k \in Keys : Renew(k) \/ Elapse(k) \/ SyncWrite(k)
      \/ \E c \in Clis : WriteBack(c) \/ Free(c) \/ DeleteLease(c)
  BY DEF OracleNext, ParkStep, oracleVars, RuntimeBinds, RuntimeDies, PluginRegisters, Start, Ask, Revive,
         CmdRelease, Gc, Backfill, Begin, Spawn, SpawnFails, WriteFails, StopRuntime
<1>10. ASSUME NEW c \in Clis, WriteBack(c) \/ Free(c) \/ DeleteLease(c)
       PROVE  /\ cli[c].key \in Keys
              /\ \/ UNCHANGED parkVars \/ (\E m : Write(cli[c].key, m))
                 \/ Release(cli[c].key) \/ Delete(cli[c].key)
  <2>1. cli[c] # NoRuntime
    BY <1>10 DEF WriteBack, Free, DeleteLease
  <2>2. CASE Free(c)
    BY <2>1, <2>2, HeldByCommand DEF Free
  <2>. QED BY <1>8, <1>10, <2>1, <2>2, HeldByCommand DEF DeleteLease
<1>. QED BY <1>1, <1>2, <1>4, <1>5, <1>6, <1>7, <1>9, <1>10 DEF SyncWrite, UpdateLease, parkVars

\* Every step keeps the limit.
LEMMA LimitStep == SurvivalInv /\ LimitInv /\ [OracleNext]_oracleVars => LimitInv'
<1>. SUFFICES ASSUME SurvivalInv, LimitInv, [OracleNext]_oracleVars PROVE LimitInv'
  OBVIOUS
<1>0. /\ ReviewTypes /\ lease \in [Keys -> Row \cup {NoLease}] /\ lru \in Orders
      /\ sweep \in [at: Stages, todo: SUBSET [key: Keys, copy: Row], clean: BOOLEAN, run: Nat]
      /\ HotKeys \in SUBSET Keys /\ Remaining \in SUBSET Keys
  BY DEF SurvivalInv, ReviewInv, ReviewTypes, LimitInv, HotKeys, Remaining
<1>1. CASE SweepStage
  <2>0. UNCHANGED lru /\ sweep.todo = {}
    BY <1>1 DEF SweepStage
  <2>1. CASE sweep.at = "expired" /\ Purge("cold") /\ sweep' = [sweep EXCEPT !.at = "lru", !.todo = Copies(Excess)]
    <3>1. HotKeys' = HotKeys
      BY <1>0, <2>1 DEF Purge, HotKeys, Life, Held
    <3>2. sweep'.at = "lru" /\ sweep'.todo = Copies(Excess)
      BY <1>0, <2>1
    <3>3. Remaining' \subseteq HotKeys \ Excess
      <4>1. \A k \in Excess : \E e \in Copies(Excess) : e.key = k
        <5>1. \A k \in Excess : [key |-> k, copy |-> lease[k]] \in Copies(Excess)
          BY DEF Copies
        <5>. QED BY <5>1
      <4>. QED BY <3>1, <3>2, <4>1 DEF Remaining
    <3>4. Cardinality(Remaining') <= MaxHot
      BY <1>0, <3>3, ExcessLeavesLimit, FewerIsFewer
    <3>. QED BY <1>0, <2>0, <3>2, <3>4 DEF LimitInv, SweepKeepsLimit
  <2>2. CASE sweep.at = "lru" /\ UNCHANGED lease /\ sweep' = [sweep EXCEPT !.at = "rounds", !.todo = Copies(OverRounds)]
    <3>1. HotKeys' = HotKeys /\ Remaining = HotKeys
      BY <2>0, <2>2 DEF HotKeys, Life, Held, Remaining
    <3>2. sweep'.at = "rounds" /\ sweep'.clean = sweep.clean
      BY <1>0, <2>2
    <3>. QED BY <1>0, <2>0, <2>2, <3>1, <3>2 DEF LimitInv, SweepKeepsLimit
  <2>3. CASE sweep' = [at |-> "expired", todo |-> Copies(Expired), clean |-> TRUE, run |-> sweep.run + 1]
    BY <1>0, <2>0, <2>3 DEF LimitInv, SweepKeepsLimit
  <2>4. CASE sweep' = [at |-> "idle", todo |-> {}, clean |-> FALSE, run |-> sweep.run]
    BY <1>0, <2>0, <2>4 DEF LimitInv, SweepKeepsLimit
  <2>. QED BY <1>1, <2>1, <2>2, <2>3, <2>4 DEF SweepStage, NoSweep
<1>2. CASE Evict
  <2>1. PICK e \in sweep.todo :
          /\ sweep' = [sweep EXCEPT !.todo = @ \ {e}] /\ UNCHANGED lru
          /\ lease' = IF Evictable(e.key)
                      THEN [lease EXCEPT ![e.key] = [e.copy EXCEPT !.life = "cold", !.due = lease[e.key].due]]
                      ELSE lease
    BY <1>2 DEF Evict
  <2>2. e.key \in Keys /\ e.copy \in Row
    BY <1>0
  <2>3. sweep'.at = sweep.at /\ sweep'.clean = sweep.clean /\ sweep'.todo = sweep.todo \ {e}
    BY <1>0, <2>1
  <2>4. HotKeys' \subseteq HotKeys \ {e.key}
    <3>1. CASE Evictable(e.key)
      <4>. DEFINE r == [e.copy EXCEPT !.life = "cold", !.due = lease[e.key].due]
      <4>1. r.life = "cold"
        BY <2>2 DEF Row
      <4>2. lease' = [lease EXCEPT ![e.key] = r]
        BY <2>1, <3>1
      <4>. HIDE DEF r
      <4>. QED BY <1>0, <2>2, <4>1, <4>2 DEF HotKeys, Life, Held
    <3>2. CASE ~Evictable(e.key)
      BY <2>1, <3>2 DEF Evictable, HotKeys, Life, Held
    <3>. QED BY <3>1, <3>2
  <2>5. Remaining' \subseteq Remaining
    BY <2>3, <2>4 DEF Remaining
  <2>6. /\ Cardinality(Remaining) <= MaxHot => Cardinality(Remaining') <= MaxHot
        /\ Cardinality(HotKeys) <= MaxHot => Cardinality(HotKeys') <= MaxHot
    BY <1>0, <2>4, <2>5, FewerIsFewer
  <2>. QED BY <1>0, <2>1, <2>3, <2>6 DEF LimitInv, SweepKeepsLimit
<1>3. CASE ~SweepStage /\ ~Evict
  <2>1. /\ lru' = lru \/ \E k \in Keys : Touch(k)
        /\ \/ ~sweep'.clean
           \/ UNCHANGED sweep /\ HotKeys' \subseteq HotKeys
    BY <1>3, RowsCool
  <2>2. lru' \in Orders
    BY <1>0, <2>1, TouchKeepsOrder
  <2>3. CASE ~sweep'.clean
    BY <2>2, <2>3 DEF LimitInv, SweepKeepsLimit
  <2>4. CASE UNCHANGED sweep /\ HotKeys' \subseteq HotKeys
    <3>1. Remaining' \subseteq Remaining
      BY <2>4 DEF Remaining
    <3>2. /\ Cardinality(Remaining) <= MaxHot => Cardinality(Remaining') <= MaxHot
          /\ Cardinality(HotKeys) <= MaxHot => Cardinality(HotKeys') <= MaxHot
      BY <1>0, <2>4, <3>1, FewerIsFewer
    <3>. QED BY <2>2, <2>4, <3>2 DEF LimitInv, SweepKeepsLimit
  <2>. QED BY <2>1, <2>3, <2>4
<1>. QED BY <1>1, <1>2, <1>3

\* A sweep during which nothing was parked ends with at most max_hot_parked
\* hot leases, however many reviews there are and whatever the commands do.
THEOREM SweepReachesLimit == ReviewSpec => []SweepKeepsLimit
<1>1. OracleInit => LimitInv
  BY DEF OracleInit, ParkInit, NoSweep, LimitInv, SweepKeepsLimit
<1>2. LimitInv => SweepKeepsLimit
  BY DEF LimitInv
<1>. QED BY <1>1, <1>2, LimitStep, SurvivalHolds, PTL DEF ReviewSpec
=============================================================================

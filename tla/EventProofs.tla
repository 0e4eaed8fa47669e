---------------------------- MODULE EventProofs ----------------------------
(* Proofs about the calls on another host, the event table with its two     *)
(* readers and the receiver of a mailbox stream, for any clients, sources,  *)
(* messages and bounds.                                                     *)
EXTENDS RemoteWire, EventStore, StreamSubscription, FiniteSetTheorems, WellFoundedInduction, TLAPS

-----------------------------------------------------------------------------
(* The receiver of a mailbox stream *)

\* The places are looked at in the order in which a message moves through
\* them, and the inbox once more.
LEMMA LooksInOrder ==
  /\ LooksAt(1) = "inbox" /\ LooksAt(2) = "processing" /\ LooksAt(3) = "archive" /\ LooksAt(4) = "inbox"
  /\ \A n \in 1 .. 4 : n = 1 \/ n = 2 \/ n = 3 \/ n = 4
BY DEF LooksAt, Places

\* What has been looked at, by the step of the look.
LEMMA LookedPlaces ==
  ASSUME NEW m, check # <<>>, check[1] = m, check[2] \in 1 .. 5
  PROVE  /\ "inbox" \in Looked(m) <=> check[2] > 1
         /\ "processing" \in Looked(m) <=> check[2] > 2
         /\ "archive" \in Looked(m) <=> check[2] > 3
<1>1. Looked(m) = {LooksAt(n) : n \in {k \in 1 .. 4 : k < check[2]}}
  BY DEF Looked
<1>2. \A p : p \in Looked(m) <=> \E n \in 1 .. 4 : n < check[2] /\ p = LooksAt(n)
  BY <1>1
<1>. QED BY <1>2, LooksInOrder

\* Nothing has been looked at of a message that is not looked for.
LEMMA NotLooked ==
  ASSUME NEW m, check = <<>> \/ check[1] # m
  PROVE  Looked(m) = {}
BY DEF Looked

\* A step that leaves the copies and the look alone keeps the invariant.
LEMMA CopiesKept ==
  ASSUME CopiesInv, UNCHANGED <<loc, check>>, shaky' = shaky
  PROVE  CopiesInv'
BY DEF CopiesInv, Looked

\* Every step of the stream, the receiver and the local agent keeps the
\* invariant.
LEMMA CopiesStep == CopiesInv /\ [StreamNext]_streamVars => CopiesInv'
<1>. SUFFICES ASSUME CopiesInv, [StreamNext]_streamVars PROVE CopiesInv'
  OBVIOUS
<1>. DEFINE Copies(m) == /\ \A p, q \in loc[m] : p = q
                         /\ loc[m] \cap Looked(m) = {}
<1>0. /\ loc \in [Msgs -> SUBSET {"inbox", "processing", "archive"}]
      /\ check = <<>> \/ check[2] \in 1 .. 5
      /\ \A m \in Msgs \ shaky : Copies(m)
  BY DEF CopiesInv
<1>1. ASSUME check' = <<>>, UNCHANGED <<loc, shaky>> PROVE CopiesInv'
  <2>1. \A m : Looked(m)' = {}
    BY <1>1 DEF Looked
  <2>. QED BY <1>0, <1>1, <2>1 DEF CopiesInv
<1>2. CASE Handle
  <2>. DEFINE m == Head(rx.todo)
  <2>1. check' = (IF m \in rx.seen THEN <<>> ELSE <<m, 1>>) /\ UNCHANGED <<loc, shaky>>
    BY <1>2 DEF Handle
  <2>2. CASE m \in rx.seen
    BY <1>1, <2>1, <2>2
  <2>3. CASE m \notin rx.seen
    <3>1. check' = <<m, 1>>
      BY <2>1, <2>3
    <3>2. check'[2] = 1 /\ 1 \in 1 .. 5
      BY <3>1
    <3>3. \A x : Looked(x)' = {}
      BY <3>2 DEF Looked
    <3>. QED BY <1>0, <2>1, <3>2, <3>3 DEF CopiesInv
  <2>. QED BY <2>2, <2>3
<1>3. CASE Look
  <2>. DEFINE m == check[1]
              n == check[2]
  <2>1. check # <<>> /\ n \in 1 .. 5 /\ UNCHANGED shaky
    BY <1>0, <1>3 DEF Look
  <2>2. CASE check' = <<>> /\ UNCHANGED loc
    BY <1>1, <2>1, <2>2
  <2>3. CASE n < 5 /\ LooksAt(n) \notin loc[m] /\ check' = <<m, n + 1>> /\ UNCHANGED loc
    <3>1. check' # <<>> /\ check'[1] = m /\ check'[2] = n + 1 /\ n \in 1 .. 4 /\ n + 1 \in 1 .. 5
      BY <2>1, <2>3
    <3>2. ASSUME NEW x \in Msgs \ shaky PROVE loc[x] \cap Looked(x)' = {}
      <4>1. CASE x # m
        BY <3>1, <4>1 DEF Looked
      <4>2. CASE x = m
        <5>1. \A p \in Looked(x)' : p = LooksAt(n) \/ p \in Looked(x)
          BY <2>1, <3>1, <4>2 DEF Looked
        <5>. QED BY <1>0, <2>3, <3>2, <4>2, <5>1
      <4>. QED BY <4>1, <4>2
    <3>. QED BY <1>0, <2>1, <2>3, <3>1, <3>2 DEF CopiesInv
  <2>4. CASE n = 5 /\ check' = <<>> /\ loc' = [loc EXCEPT ![m] = @ \cup {"inbox"}]
    <3>1. \A x : Looked(x)' = {}
      BY <2>4 DEF Looked
    <3>2. loc' \in [Msgs -> SUBSET {"inbox", "processing", "archive"}]
      BY <1>0, <2>4
    <3>3. ASSUME NEW x \in Msgs \ shaky PROVE \A p, q \in loc'[x] : p = q
      <4>1. CASE x # m
        BY <1>0, <2>4, <4>1
      <4>2. CASE x = m
        <5>1. "inbox" \in Looked(x) /\ "processing" \in Looked(x) /\ "archive" \in Looked(x)
          BY <2>1, <2>4, <4>2, LookedPlaces
        <5>2. loc[x] = {}
          BY <1>0, <3>3, <5>1
        <5>3. loc'[x] = {"inbox"}
          BY <1>0, <2>4, <3>3, <4>2, <5>2
        <5>. QED BY <5>3
      <4>. QED BY <4>1, <4>2
    <3>. QED BY <2>1, <2>4, <3>1, <3>2, <3>3 DEF CopiesInv
  <2>. QED BY <1>3, <2>2, <2>3, <2>4 DEF Look
<1>4. ASSUME NEW m \in Msgs, NEW from, NEW to, Move(m, from, to),
             <<from, to>> \in {<<"inbox", "processing">>, <<"processing", "archive">>, <<"processing", "inbox">>}
      PROVE  CopiesInv'
  <2>1. /\ from \in loc[m] /\ loc' = [loc EXCEPT ![m] = (@ \ {from}) \cup {to}] /\ UNCHANGED check
        /\ shaky' = IF from = "processing" /\ to = "inbox" /\ check # <<>> /\ check[1] = m
                    THEN shaky \cup {m} ELSE shaky
    BY <1>4 DEF Move
  <2>2. to \in {"inbox", "processing", "archive"}
    BY <1>4
  <2>3. loc' \in [Msgs -> SUBSET {"inbox", "processing", "archive"}]
    BY <1>0, <2>1, <2>2
  <2>4. \A x : Looked(x)' = Looked(x)
    BY <2>1 DEF Looked
  <2>5. ASSUME NEW x \in Msgs \ shaky' PROVE (\A p, q \in loc'[x] : p = q) /\ loc'[x] \cap Looked(x) = {}
    <3>0. x \notin shaky
      BY <2>1, <2>5
    <3>1. CASE x # m
      BY <1>0, <2>1, <3>0, <3>1
    <3>2. CASE x = m
      <4>1. loc[x] = {from} /\ from \notin Looked(x)
        BY <1>0, <2>1, <3>0, <3>2
      <4>2. loc'[x] = {to}
        BY <1>0, <2>1, <3>2, <4>1
      <4>3. CASE check = <<>> \/ check[1] # m
        BY <3>2, <4>2, <4>3, NotLooked
      <4>4. CASE check # <<>> /\ check[1] = m
        <5>1. ~(from = "processing" /\ to = "inbox")
          BY <2>1, <2>5, <3>2, <4>4
        <5>2. (from = "inbox" /\ to = "processing") \/ (from = "processing" /\ to = "archive")
          BY <1>4, <5>1
        <5>3. to \notin Looked(x)
          BY <1>0, <3>2, <4>1, <4>4, <5>2, LookedPlaces
        <5>. QED BY <4>2, <5>3
      <4>. QED BY <4>3, <4>4
    <3>. QED BY <3>1, <3>2
  <2>. QED BY <1>0, <2>1, <2>3, <2>4, <2>5 DEF CopiesInv
<1>5. CASE Restart
  BY <1>1, <1>5 DEF Restart
<1>6. ASSUME NEW m \in Msgs, RemoteSend(m) \/ RemoteClaim(m) PROVE CopiesInv'
  BY <1>6, CopiesKept DEF RemoteSend, RemoteClaim
<1>7. CASE PollInbox
  BY <1>7, CopiesKept DEF PollInbox
<1>8. CASE Connect \/ Break
  BY <1>8, CopiesKept DEF Connect, Break
<1>9. CASE Receive
  BY <1>9, CopiesKept DEF Receive
<1>10. CASE UNCHANGED streamVars
  BY <1>10, CopiesKept DEF streamVars
<1>. QED BY <1>2, <1>3, <1>4, <1>5, <1>6, <1>7, <1>8, <1>9, <1>10, StreamAssumption DEF StreamNext

\* A replay, after a reconnect, a restart or a pruned id, never gives the
\* local agent a second copy of a message, unless the agent released it while
\* the receiver was looking for it (receiver.py, _is_msg_on_disk).
THEOREM ReplaysAreDropped == StreamSpec => []ReplayIsNotRedelivered
<1>1. StreamInit => CopiesInv
  <2>. SUFFICES ASSUME StreamInit PROVE CopiesInv
    OBVIOUS
  <2>1. check = <<>> /\ loc = [m \in Msgs |-> {}]
    BY DEF StreamInit
  <2>. QED BY <2>1 DEF CopiesInv
<1>2. CopiesInv => ReplayIsNotRedelivered
  <2>. SUFFICES ASSUME CopiesInv, NEW m \in Msgs \ shaky PROVE Cardinality(loc[m]) <= 1
    BY DEF ReplayIsNotRedelivered
  <2>1. CASE loc[m] = {}
    BY <2>1, FS_EmptySet
  <2>2. ASSUME NEW p \in loc[m] PROVE Cardinality(loc[m]) <= 1
    <3>1. loc[m] = {p}
      BY <2>2 DEF CopiesInv
    <3>2. Cardinality({p}) = 1
      BY FS_Singleton
    <3>. QED BY <3>1, <3>2
  <2>. QED BY <2>1, <2>2
<1>. QED BY <1>1, <1>2, CopiesStep, PTL DEF StreamSpec

-----------------------------------------------------------------------------
(* The event table *)

\* A set of natural numbers that is not empty has a least element.
LEMMA LeastOf ==
  ASSUME NEW S \in SUBSET Nat, S # {}
  PROVE  \E x \in S : \A y \in S : x <= y
<1>1. IsWellFoundedOn(OpToRel(<, Nat), Nat)
  BY NatLessThanWellFounded
<1>2. PICK x \in S : \A y \in S : ~(<<y, x>> \in OpToRel(<, Nat))
  BY <1>1, WFMin
<1>3. \A y \in S : ~(y < x)
  BY <1>2 DEF OpToRel
<1>. QED BY <1>3

\* The greatest of some numbers up to a bound is one of them, and no other is
\* greater.
LEMMA MaxIsOne ==
  ASSUME NEW N \in Nat, NEW S \in SUBSET (0 .. N), S # {}
  PROVE  Max(S) \in S /\ \A y \in S : y <= Max(S)
<1>. DEFINE T == {N - y : y \in S}
<1>0. PICK y \in S : TRUE
  OBVIOUS
<1>1. T \in SUBSET Nat /\ N - y \in T
  OBVIOUS
<1>2. PICK t \in T : \A u \in T : t <= u
  BY <1>1, LeastOf
<1>3. PICK x \in S : t = N - x
  BY <1>2
<1>4. \A z \in S : N - x <= N - z
  BY <1>2, <1>3
<1>5. \A z \in S : x >= z
  BY <1>4
<1>. QED BY <1>5 DEF Max

\* The number of a new row is beyond those of its source, and not beyond its
\* id.
LEMMA NextSequenceFacts ==
  ASSUME TableInv, NEW src
  PROVE  /\ NextSequence(src) \in 1 .. lastId + 1
         /\ \A r \in rows : r.src = src => r.seq < NextSequence(src)
<1>. DEFINE S == {r.seq : r \in Of(src)} \cup {0}
<1>1. lastId \in Nat /\ rows \subseteq Row /\ \A r \in rows : r.seq <= lastId /\ r.seq \in Nat
  BY EventAssumption DEF TableInv, EventTypeOK, Row
<1>2. S \in SUBSET (0 .. lastId) /\ S # {}
  BY <1>1 DEF Of
<1>3. Max(S) \in S /\ \A y \in S : y <= Max(S)
  BY <1>1, <1>2, MaxIsOne
<1>4. NextSequence(src) = Max(S) + 1
  BY DEF NextSequence
<1>5. \A r \in rows : r.src = src => r.seq \in S
  BY DEF Of
<1>. HIDE DEF S
<1>6. Max(S) \in 0 .. lastId
  BY <1>2, <1>3
<1>7. NextSequence(src) \in 1 .. lastId + 1
  BY <1>1, <1>4, <1>6
<1>8. ASSUME NEW r \in rows, r.src = src PROVE r.seq < NextSequence(src)
  <2>1. r.seq <= Max(S)
    BY <1>3, <1>5, <1>8
  <2>. QED BY <1>1, <1>4, <1>6, <2>1
<1>. QED BY <1>7, <1>8

\* The first state of the table satisfies the invariants.
LEMMA TableInitInv == EventInit => TableInv /\ WatchInv /\ PeerInv
<1>. SUFFICES ASSUME EventInit PROVE TableInv /\ WatchInv /\ PeerInv
  OBVIOUS
<1>. USE EventAssumption DEF EventInit
<1>1. 0 \in 0 .. MaxAppends
  OBVIOUS
<1>2. watch \in [on: BOOLEAN, cursor: 0 .. MaxAppends, page: SUBSET Row]
  BY <1>1
<1>3. EventTypeOK
  BY <1>1, <1>2 DEF EventTypeOK
<1>4. IsFiniteSet(rows)
  BY FS_EmptySet
<1>5. WatchInv
  BY DEF WatchInv, Shown, Ids
<1>6. PeerInv
  BY DEF PeerInv, PeerKeepsWhatItGot
<1>. QED BY <1>3, <1>4, <1>5, <1>6 DEF TableInv

\* An append keeps the invariants: its id and its number are new.
LEMMA AppendStep ==
  ASSUME TableInv, NEW s \in Sources, NEW k \in EventKinds, AppendLocal(s, k)
  PROVE  /\ TableInv'
         /\ WatchInv => WatchInv'
         /\ PeerInv => PeerInv'
<1>. DEFINE new == [id |-> lastId + 1, src |-> s, seq |-> NextSequence(s), kind |-> k]
<1>1. /\ lastId < MaxAppends /\ lastId' = lastId + 1 /\ rows' = rows \cup {new}
      /\ UNCHANGED <<old, watch, saved, printed, behind, shipped, peer, forgot>>
  BY DEF AppendLocal
<1>2. /\ EventTypeOK /\ IsFiniteSet(rows) /\ rows \subseteq Row /\ lastId \in Nat /\ MaxAppends \in Nat
      /\ \A r \in rows : r.id <= lastId /\ r.seq <= r.id /\ r.id \in Nat /\ r.seq \in Nat
      /\ \A q, r \in rows : q.id = r.id \/ (q.src = r.src /\ q.seq = r.seq) => q = r
  BY EventAssumption DEF TableInv, EventTypeOK, Row
<1>3. /\ NextSequence(s) \in 1 .. lastId + 1
      /\ \A r \in rows : r.src = s => r.seq < NextSequence(s)
  BY NextSequenceFacts
<1>4. new \in Row /\ new.id = lastId + 1 /\ new.src = s /\ new.seq = NextSequence(s)
  BY <1>1, <1>2, <1>3 DEF Row
<1>. HIDE DEF new
<1>5. TableInv'
  <2>1. EventTypeOK'
    BY <1>1, <1>2, <1>4 DEF EventTypeOK
  <2>2. IsFiniteSet(rows')
    BY <1>1, <1>2, FS_AddElement
  <2>3. \A r \in rows' : r.id <= lastId' /\ r.seq <= r.id
    BY <1>1, <1>2, <1>3, <1>4
  <2>4. ASSUME NEW q \in rows', NEW r \in rows', q.id = r.id \/ (q.src = r.src /\ q.seq = r.seq)
        PROVE  q = r
    BY <1>1, <1>2, <1>3, <1>4, <2>4
  <2>. QED BY <2>1, <2>2, <2>3, <2>4 DEF TableInv
<1>6. ASSUME WatchInv PROVE WatchInv'
  <2>1. ASSUME NEW c \in Nat, Shown(c) PROVE Shown(c)'
    <3>1. \A i \in Ids(rows') : i \in Ids(rows) \/ i = lastId + 1
      BY <1>1, <1>4 DEF Ids
    <3>2. (\A i \in Ids(rows') : i <= c => i \in printed \cup behind) /\ c <= lastId + 1
      BY <1>2, <2>1, <3>1 DEF Shown
    <3>. QED BY <1>1, <3>2 DEF Shown, Ids
  <2>2. saved \in Nat /\ watch.cursor \in Nat
    BY <1>2 DEF EventTypeOK
  <2>3. Shown(saved)' /\ Shown(watch.cursor)'
    BY <1>1, <1>6, <2>1, <2>2 DEF WatchInv, Shown
  <2>4. ASSUME NEW q \in watch.page, NEW r \in rows', watch.cursor < r.id, r.id <= q.id
        PROVE  r.id \in Ids(watch.page)
    <3>1. q.id <= lastId /\ q.id \in Nat
      BY <1>2, <1>6 DEF WatchInv, Row
    <3>2. r # new
      BY <1>2, <1>4, <2>4, <3>1
    <3>. QED BY <1>1, <1>6, <2>4, <3>2 DEF WatchInv
  <2>5. \A q \in watch.page : q.id <= lastId + 1
    BY <1>2, <1>6 DEF WatchInv, Row
  <2>. QED BY <1>1, <1>6, <2>3, <2>4, <2>5 DEF WatchInv, Ids
<1>7. ASSUME PeerInv PROVE PeerInv'
  <2>1. ASSUME NEW p \in peer, NEW r \in rows', p.src \notin forgot, r.src = p.src, r.seq = p.seq
        PROVE  r.id = p.id
    <3>1. CASE r \in rows
      BY <1>7, <2>1, <3>1 DEF PeerInv
    <3>2. CASE r = new
      <4>1. PICK q \in rows : q.src = p.src /\ p.seq <= q.seq
        BY <1>7, <2>1 DEF PeerInv
      <4>2. q.seq < NextSequence(s) /\ p.seq \in Nat
        BY <1>2, <1>3, <1>4, <2>1, <3>2, <4>1 DEF EventTypeOK
      <4>. QED BY <1>2, <1>3, <1>4, <2>1, <3>2, <4>1, <4>2
    <3>. QED BY <1>1, <3>1, <3>2
  <2>2. ASSUME NEW r \in rows', r.id \in shipped, r.src \notin forgot
        PROVE  [src |-> r.src, seq |-> r.seq, id |-> r.id] \in peer
    <3>1. CASE r \in rows
      BY <1>7, <2>2, <3>1 DEF PeerInv, PeerKeepsWhatItGot
    <3>2. CASE r = new
      <4>1. lastId + 1 <= lastId
        BY <1>4, <1>7, <2>2, <3>2 DEF PeerInv
      <4>. QED BY <1>2, <4>1
    <3>. QED BY <1>1, <3>1, <3>2
  <2>3. \A i \in shipped : i <= lastId + 1
    BY <1>2, <1>7 DEF PeerInv, EventTypeOK
  <2>4. \A p \in peer : p.src \notin forgot => \E r \in rows' : r.src = p.src /\ p.seq <= r.seq
    BY <1>1, <1>7 DEF PeerInv
  <2>. QED BY <1>1, <2>1, <2>2, <2>3, <2>4 DEF PeerInv, PeerKeepsWhatItGot
<1>. QED BY <1>5, <1>6, <1>7

\* Retention keeps the invariants: a source that loses its newest row is
\* marked.
LEMMA SweepStep ==
  ASSUME TableInv, Sweep
  PROVE  /\ TableInv'
         /\ WatchInv => WatchInv'
         /\ PeerInv => PeerInv'
<1>1. /\ rows' \subseteq rows /\ UNCHANGED <<lastId, old, watch, saved, printed, behind, shipped, peer>>
      /\ forgot' = forgot \cup {r.src : r \in {x \in rows \ rows' : \A q \in Of(x.src) : q.seq <= x.seq}}
  BY DEF Sweep, Capped, Unexpired
<1>2. /\ EventTypeOK /\ IsFiniteSet(rows) /\ rows \subseteq Row /\ MaxAppends \in Nat
      /\ \A r \in rows : r.seq \in 0 .. MaxAppends /\ r.src \in Sources
  BY EventAssumption DEF TableInv, EventTypeOK, Row
<1>3. forgot \subseteq forgot'
  BY <1>1
<1>4. TableInv'
  <2>1. forgot' \subseteq Sources
    BY <1>1, <1>2 DEF EventTypeOK
  <2>2. EventTypeOK'
    BY <1>1, <1>2, <2>1 DEF EventTypeOK
  <2>3. IsFiniteSet(rows')
    BY <1>1, <1>2, FS_Subset
  <2>. QED BY <1>1, <2>2, <2>3 DEF TableInv
<1>5. ASSUME WatchInv PROVE WatchInv'
  <2>1. Ids(rows') \subseteq Ids(rows)
    BY <1>1 DEF Ids
  <2>2. Shown(saved)' /\ Shown(watch.cursor)'
    BY <1>1, <1>5, <2>1 DEF WatchInv, Shown, Ids
  <2>. QED BY <1>1, <1>5, <2>2 DEF WatchInv, Ids
<1>6. ASSUME PeerInv PROVE PeerInv'
  <2>1. ASSUME NEW p \in peer, p.src \notin forgot'
        PROVE  \E r \in rows' : r.src = p.src /\ p.seq <= r.seq
    <3>. DEFINE S == {r.seq : r \in Of(p.src)}
    <3>1. PICK r \in rows : r.src = p.src /\ p.seq <= r.seq
      BY <1>3, <1>6, <2>1 DEF PeerInv
    <3>2. r.seq \in S /\ S \in SUBSET (0 .. MaxAppends)
      BY <1>2, <3>1 DEF Of
    <3>3. Max(S) \in S /\ \A y \in S : y <= Max(S)
      BY <1>2, <3>2, MaxIsOne
    <3>4. PICK x \in Of(p.src) : x.seq = Max(S)
      BY <3>3
    <3>5. \A q \in Of(x.src) : q.seq <= x.seq
      BY <3>3, <3>4 DEF Of
    <3>6. x \in rows /\ x.src = p.src
      BY <3>4 DEF Of
    <3>7. x \in rows'
      BY <1>1, <2>1, <3>5, <3>6
    <3>8. p.seq \in Nat /\ r.seq \in Nat /\ x.seq \in Nat /\ r.seq <= x.seq
      BY <1>2, <2>1, <3>1, <3>2, <3>3, <3>4, <3>6 DEF EventTypeOK
    <3>9. p.seq <= x.seq
      BY <3>1, <3>8
    <3>. QED BY <3>6, <3>7, <3>9
  <2>. QED BY <1>1, <1>3, <1>6, <2>1 DEF PeerInv, PeerKeepsWhatItGot
<1>. QED BY <1>4, <1>5, <1>6

\* The rows of a page are rows of the table beyond the cursor, and every row
\* between the cursor and one of them is on it.
LEMMA PageFacts ==
  ASSUME TableInv, NEW c \in Nat
  PROVE  /\ Page(c) \subseteq rows
         /\ \A q \in Page(c), r \in rows : c < r.id /\ r.id <= q.id => r \in Page(c)
<1>. DEFINE after == {r \in rows : r.id > c}
            Upto(r) == {q \in after : q.id <= r.id}
<1>0. \A r \in rows : r.id \in Nat
  BY DEF TableInv, EventTypeOK, Row
<1>1. Page(c) = {r \in after : Cardinality(Upto(r)) <= PageLimit} /\ PageLimit \in Nat
  BY EventAssumption DEF Page
<1>2. Page(c) \subseteq rows
  BY <1>1
<1>3. ASSUME NEW q \in Page(c), NEW r \in rows, c < r.id, r.id <= q.id PROVE r \in Page(c)
  <2>1. r \in after /\ q \in after /\ q \in rows
    BY <1>0, <1>1, <1>3
  <2>2. Upto(r) \subseteq Upto(q)
    BY <1>0, <1>3, <2>1
  <2>3. IsFiniteSet(Upto(q))
    BY FS_Subset DEF TableInv
  <2>4. /\ Cardinality(Upto(r)) <= Cardinality(Upto(q))
        /\ Cardinality(Upto(r)) \in Nat /\ Cardinality(Upto(q)) \in Nat
    BY <2>2, <2>3, FS_Subset, FS_CardinalityType
  <2>5. Cardinality(Upto(q)) <= PageLimit
    BY <1>1
  <2>. HIDE DEF after, Upto
  <2>. QED BY <1>1, <2>1, <2>4, <2>5
<1>. QED BY <1>2, <1>3

\* The steps of the watch keep the invariants: the cursor moves to the end of
\* a page that has been shown.
LEMMA WatchStep ==
  ASSUME TableInv, WatchNext
  PROVE  /\ TableInv'
         /\ WatchInv => WatchInv'
         /\ PeerInv => PeerInv'
<1>1. UNCHANGED <<rows, lastId, old, shipped, peer, forgot>>
  BY DEF WatchNext, WatchStart, WatchPoll, WatchPrint, WatchEnd
<1>2. /\ EventTypeOK /\ rows \subseteq Row /\ MaxAppends \in Nat /\ lastId \in Nat
      /\ \A r \in rows : r.id \in 1 .. MaxAppends /\ r.id <= lastId
      /\ \A r \in Row : r.id \in 1 .. MaxAppends
      /\ saved \in 0 .. MaxAppends /\ watch.cursor \in 0 .. MaxAppends /\ watch.page \subseteq Row
  BY EventAssumption DEF TableInv, EventTypeOK, Row
<1>. DEFINE Off == [on |-> FALSE, cursor |-> 0, page |-> {}]
            End == NextCursor(watch.cursor, watch.page)
            Typed == /\ watch' \in [on: BOOLEAN, cursor: 0 .. MaxAppends, page: SUBSET Row]
                     /\ saved' \in 0 .. MaxAppends /\ printed' \cup behind' \subseteq 1 .. MaxAppends
<1>3. Typed => TableInv' /\ (PeerInv => PeerInv')
  BY <1>1, <1>2 DEF TableInv, EventTypeOK, PeerInv, PeerKeepsWhatItGot
<1>4. 0 \in 0 .. MaxAppends /\ TRUE \in BOOLEAN /\ FALSE \in BOOLEAN
  BY <1>2
<1>5. WatchInv => Shown(0)
  BY <1>2 DEF Shown, Ids
<1>6. CASE WatchStart
  <2>1. PICK c \in {saved, 0} : /\ watch' = [on |-> TRUE, cursor |-> c, page |-> {}]
                                /\ UNCHANGED <<rows, lastId, old, saved, printed, behind, shipped, peer, forgot>>
    BY <1>6 DEF WatchStart
  <2>2. Typed
    BY <1>2, <1>4, <2>1 DEF EventTypeOK
  <2>3. WatchInv => WatchInv'
    BY <1>5, <2>1 DEF WatchInv, Shown, Ids
  <2>. QED BY <1>3, <2>2, <2>3
<1>7. CASE WatchEnd
  <2>1. /\ watch' = Off
        /\ UNCHANGED <<rows, lastId, old, saved, printed, behind, shipped, peer, forgot>>
    BY <1>7 DEF WatchEnd
  <2>2. Typed
    BY <1>2, <1>4, <2>1 DEF EventTypeOK
  <2>3. WatchInv => WatchInv'
    BY <1>5, <2>1 DEF WatchInv, Shown, Ids
  <2>. QED BY <1>3, <2>2, <2>3
<1>8. CASE WatchPoll
  <2>. DEFINE page == Page(watch.cursor)
  <2>1. /\ watch' = [watch EXCEPT !.page = page]
        /\ UNCHANGED <<rows, lastId, old, saved, printed, behind, shipped, peer, forgot>>
    BY <1>8 DEF WatchPoll
  <2>2. /\ page \subseteq rows
        /\ \A q \in page, r \in rows : watch.cursor < r.id /\ r.id <= q.id => r \in page
    BY <1>2, PageFacts
  <2>. HIDE DEF page
  <2>3. watch'.page = page /\ watch'.cursor = watch.cursor /\ watch'.on = watch.on
    BY <1>2, <2>1 DEF EventTypeOK
  <2>4. Typed
    BY <1>2, <2>1, <2>2 DEF EventTypeOK
  <2>5. WatchInv => WatchInv'
    BY <1>2, <2>1, <2>2, <2>3 DEF WatchInv, Shown, Ids
  <2>. QED BY <1>3, <2>4, <2>5
<1>9. CASE WatchPrint
  <2>1. PICK q \in watch.page : TRUE
    BY <1>9 DEF WatchPrint
  <2>2. /\ Ids(watch.page) \subseteq 1 .. MaxAppends /\ q.id \in Ids(watch.page)
        /\ Ids(watch.page) \cup {watch.cursor} \in SUBSET (0 .. MaxAppends)
    BY <1>2, <2>1 DEF Ids
  <2>3. /\ End \in Ids(watch.page) \cup {watch.cursor}
        /\ \A i \in Ids(watch.page) \cup {watch.cursor} : i <= End
    BY <1>2, <2>2, MaxIsOne DEF NextCursor
  <2>4. /\ printed' \cup behind' = printed \cup behind \cup Ids(watch.page) /\ saved' \in {saved, End}
        /\ \/ watch' = Off
           \/ watch' = [watch EXCEPT !.page = {}, !.cursor = End]
    <3>1. CASE /\ printed' = printed \cup Ids(watch.page)
               /\ watch' = [watch EXCEPT !.page = {}, !.cursor = End]
               /\ saved' \in {saved, End} /\ UNCHANGED behind
      BY <3>1
    <3>2. ASSUME NEW stop \in watch.page,
                 printed' = printed \cup {i \in Ids(watch.page) : i <= stop.id},
                 behind' = behind \cup {i \in Ids(watch.page) : i > stop.id},
                 watch' = Off, saved' \in {saved, End}
          PROVE  printed' \cup behind' = printed \cup behind \cup Ids(watch.page)
      <4>1. stop.id \in Nat /\ \A i \in Ids(watch.page) : i \in Nat
        BY <1>2, <2>2, <3>2
      <4>2. \A i \in Ids(watch.page) : i <= stop.id \/ i > stop.id
        BY <4>1
      <4>. QED BY <3>2, <4>2
    <3>. QED BY <1>9, <3>1, <3>2 DEF WatchPrint
  <2>. HIDE DEF End
  <2>5. End \in 0 .. MaxAppends /\ printed \cup behind \subseteq 1 .. MaxAppends
    BY <1>2, <2>2, <2>3 DEF EventTypeOK
  <2>6. /\ watch' \in [on: BOOLEAN, cursor: 0 .. MaxAppends, page: SUBSET Row]
        /\ watch'.cursor \in {0, End} /\ watch'.page = {}
    <3>1. CASE watch' = Off
      BY <1>4, <3>1
    <3>2. CASE watch' = [watch EXCEPT !.page = {}, !.cursor = End]
      BY <1>2, <2>5, <3>2 DEF EventTypeOK
    <3>. QED BY <2>4, <3>1, <3>2
  <2>7. Typed
    BY <1>2, <2>2, <2>4, <2>5, <2>6
  <2>8. ASSUME WatchInv PROVE WatchInv'
    <3>1. End <= lastId
      <4>1. End \in Ids(watch.page) => End <= lastId
        BY <2>8 DEF WatchInv, Ids
      <4>2. watch.cursor <= lastId
        BY <2>8 DEF WatchInv, Shown
      <4>. QED BY <2>3, <4>1, <4>2
    <3>2. ASSUME NEW r \in rows, r.id <= End PROVE r.id \in printed' \cup behind'
      <4>1. CASE r.id <= watch.cursor
        BY <2>4, <2>8, <4>1 DEF WatchInv, Shown, Ids
      <4>2. CASE watch.cursor < r.id
        <5>1. End # watch.cursor
          BY <1>2, <2>5, <3>2, <4>2
        <5>2. PICK p \in watch.page : p.id = End
          BY <2>3, <5>1 DEF Ids
        <5>3. r.id \in Ids(watch.page)
          BY <2>8, <3>2, <4>2, <5>2 DEF WatchInv
        <5>. QED BY <2>4, <5>3
      <4>. QED BY <1>2, <4>1, <4>2
    <3>3. ASSUME NEW c, c \in {saved, 0, End} PROVE c <= lastId /\ \A i \in Ids(rows) : i <= c => i \in printed' \cup behind'
      <4>1. CASE c = End
        BY <3>1, <3>2, <4>1 DEF Ids
      <4>2. CASE c = saved
        BY <2>4, <2>8, <4>2 DEF WatchInv, Shown
      <4>3. CASE c = 0
        BY <1>5, <2>4, <2>8, <4>3 DEF Shown
      <4>. QED BY <3>3, <4>1, <4>2, <4>3
    <3>4. Shown(saved)' /\ Shown(watch.cursor)'
      BY <1>1, <2>4, <2>6, <3>3 DEF Shown, Ids
    <3>. QED BY <2>6, <3>4 DEF WatchInv
  <2>. QED BY <1>3, <2>7, <2>8
<1>. QED BY <1>6, <1>7, <1>8, <1>9 DEF WatchNext

\* An event that the peer receives keeps the invariants.
LEMMA ReceiveStep ==
  ASSUME TableInv, PeerReceives
  PROVE  /\ TableInv'
         /\ WatchInv => WatchInv'
         /\ PeerInv => PeerInv'
<1>1. UNCHANGED <<rows, lastId, old, watch, saved, printed, behind, forgot>>
  BY DEF PeerReceives
<1>2. PICK cursor \in {0} \cup shipped : \E r \in Page(cursor) : peer' = Ingested(peer, r) /\ shipped' = shipped \cup {r.id}
  BY DEF PeerReceives
<1>3. cursor \in Nat /\ MaxAppends \in Nat
  BY EventAssumption DEF TableInv, EventTypeOK
<1>4. PICK r \in rows : peer' = Ingested(peer, r) /\ shipped' = shipped \cup {r.id}
  BY <1>2, <1>3, PageFacts
<1>. DEFINE copy == [src |-> r.src, seq |-> r.seq, id |-> r.id]
            Entry == [src: Sources, seq: 1 .. MaxAppends, id: 1 .. MaxAppends]
<1>5. /\ EventTypeOK /\ r.id \in 1 .. MaxAppends /\ r.id <= lastId /\ peer \subseteq Entry /\ copy \in Entry
      /\ \A q \in rows : q.id = r.id \/ (q.src = r.src /\ q.seq = r.seq) => q = r
      /\ r.seq \in Nat
  BY DEF TableInv, EventTypeOK, Row
<1>6. peer' = IF \E p \in peer : p.src = r.src /\ p.seq = r.seq THEN peer ELSE peer \cup {copy}
  BY <1>4 DEF Ingested
<1>7. copy.src = r.src /\ copy.seq = r.seq /\ copy.id = r.id
  OBVIOUS
<1>8. TableInv'
  <2>1. peer' \subseteq Entry /\ shipped' \subseteq 1 .. MaxAppends
    BY <1>4, <1>5, <1>6 DEF EventTypeOK
  <2>2. EventTypeOK'
    BY <1>1, <1>5, <2>1 DEF EventTypeOK
  <2>. QED BY <1>1, <2>2 DEF TableInv
<1>9. WatchInv => WatchInv'
  BY <1>1 DEF WatchInv, Shown, Ids
<1>10. ASSUME PeerInv PROVE PeerInv'
  <2>1. \A i \in shipped' : i <= lastId'
    BY <1>1, <1>4, <1>5, <1>10 DEF PeerInv
  <2>2. r.src \notin forgot => copy \in peer'
    <3>1. ASSUME NEW p \in peer, p.src = r.src, p.seq = r.seq, r.src \notin forgot PROVE p = copy
      <4>1. p.id = r.id
        BY <1>10, <3>1 DEF PeerInv
      <4>. QED BY <1>5, <3>1, <4>1
    <3>. HIDE DEF copy
    <3>. QED BY <1>6, <3>1
  <2>. HIDE DEF copy
  <2>3. ASSUME NEW p \in peer', NEW q \in rows, p.src \notin forgot, q.src = p.src, q.seq = p.seq PROVE q.id = p.id
    BY <1>5, <1>6, <1>7, <1>10, <2>3 DEF PeerInv
  <2>4. ASSUME NEW p \in peer', p.src \notin forgot PROVE \E q \in rows : q.src = p.src /\ p.seq <= q.seq
    BY <1>5, <1>6, <1>7, <1>10, <2>4 DEF PeerInv
  <2>5. ASSUME NEW q \in rows, q.id \in shipped', q.src \notin forgot
        PROVE  [src |-> q.src, seq |-> q.seq, id |-> q.id] \in peer'
    <3>1. CASE q.id = r.id
      BY <1>5, <2>2, <2>5, <3>1 DEF copy
    <3>2. CASE q.id \in shipped
      BY <1>6, <1>10, <2>5, <3>2 DEF PeerInv, PeerKeepsWhatItGot
    <3>. QED BY <1>4, <2>5, <3>1, <3>2
  <2>. QED BY <1>1, <2>1, <2>3, <2>4, <2>5 DEF PeerInv, PeerKeepsWhatItGot
<1>. QED BY <1>8, <1>9, <1>10

\* Every step of the table and its readers keeps the invariants.
LEMMA EventStep ==
  ASSUME TableInv, [EventNext]_eventVars
  PROVE  /\ TableInv'
         /\ WatchInv => WatchInv'
         /\ PeerInv => PeerInv'
<1>1. ASSUME NEW k \in DOMAIN old, Age(k) PROVE TableInv' /\ (WatchInv => WatchInv') /\ (PeerInv => PeerInv')
  <2>1. /\ old' = [old EXCEPT ![k] = lastId]
        /\ UNCHANGED <<rows, lastId, watch, saved, printed, behind, shipped, peer, forgot>>
    BY <1>1 DEF Age
  <2>2. EventTypeOK'
    BY <2>1 DEF TableInv, EventTypeOK
  <2>. QED BY <2>1, <2>2 DEF TableInv, WatchInv, Shown, Ids, PeerInv, PeerKeepsWhatItGot
<1>2. CASE UNCHANGED eventVars
  BY <1>2 DEF eventVars, TableInv, EventTypeOK, WatchInv, Shown, Ids, PeerInv, PeerKeepsWhatItGot
<1>. QED BY <1>1, <1>2, AppendStep, SweepStep, WatchStep, ReceiveStep DEF EventNext, StoreNext

\* A watch that resumes from its file has shown every event of the table
\* behind that cursor, but those behind the event that ended it on the same
\* page, through interrupts, failed saves and retention (cmd_events_watch,
\* list_after).
THEOREM WatchIsComplete == EventSpec => []WatchSkipsNothing
<1>1. WatchInv => WatchSkipsNothing
  BY DEF WatchInv, Shown, WatchSkipsNothing
<1>. QED BY <1>1, TableInitInv, EventStep, PTL DEF EventSpec

\* The peer has every event that was shipped to it, replays included, as long
\* as its source never lost the newest row to retention (append_local,
\* ingest_remote, sweep).
THEOREM PeerIsComplete == EventSpec => []PeerKeepsWhatItGot
<1>1. PeerInv => PeerKeepsWhatItGot
  BY DEF PeerInv
<1>. QED BY <1>1, TableInitInv, EventStep, PTL DEF EventSpec

\* The table and its readers keep their types: ids and numbers stay within the
\* number of events appended, and no id is given twice.
THEOREM TableTypes == EventSpec => []TableInv
BY TableInitInv, EventStep, PTL DEF EventSpec

-----------------------------------------------------------------------------
(* A call on another host *)

\* What a frame is made of.
LEMMA FrameFacts ==
  /\ \A f \in Frames : f[2] \in Codes
  /\ \A t \in {"ready", "old", "noise", "torn", "accepted", "progress", "session", "error"} :
        <<t, 0>> \in Frames
  /\ \A c \in Codes : <<"result", c>> \in Frames
BY DEF Frames, Codes

\* Frames that are no results, or the outcome, may follow on the wire.
LEMMA TruthfulConcat ==
  ASSUME NEW w \in Seq(Frames), NEW s \in Seq(Frames), NEW code, Truthful(w, code), Truthful(s, code)
  PROVE  w \o s \in Seq(Frames) /\ Truthful(w \o s, code)
<1>1. w \o s \in Seq(Frames) /\ Len(w \o s) = Len(w) + Len(s) /\ Len(w) \in Nat /\ Len(s) \in Nat
  OBVIOUS
<1>2. ASSUME NEW i \in 1 .. Len(w \o s), (w \o s)[i][1] = "result" PROVE (w \o s)[i][2] = code
  <2>1. CASE i <= Len(w)
    <3>1. i \in 1 .. Len(w) /\ (w \o s)[i] = w[i]
      BY <1>1, <1>2, <2>1
    <3>. QED BY <1>2, <3>1 DEF Truthful
  <2>2. CASE i > Len(w)
    <3>1. i - Len(w) \in 1 .. Len(s) /\ (w \o s)[i] = s[i - Len(w)]
      BY <1>1, <1>2, <2>2
    <3>. QED BY <1>2, <3>1 DEF Truthful
  <2>. QED BY <1>1, <1>2, <2>1, <2>2
<1>. QED BY <1>1, <1>2 DEF Truthful

\* One frame that is no result, or the outcome.
LEMMA TruthfulOne ==
  ASSUME NEW f \in Frames, NEW code, f[1] = "result" => f[2] = code
  PROVE  <<f>> \in Seq(Frames) /\ Truthful(<<f>>, code)
<1>1. <<f>> \in Seq(Frames) /\ Len(<<f>>) = 1 /\ <<f>>[1] = f
  OBVIOUS
<1>. QED BY <1>1 DEF Truthful

\* While there is no outcome there is no result on the wire, so that any
\* outcome is still true of it.
LEMMA TruthfulLater ==
  ASSUME NEW w \in Seq(Frames), Truthful(w, NoCode), NEW code
  PROVE  Truthful(w, code)
<1>1. \A i \in 1 .. Len(w) : w[i][2] \in Codes
  BY FrameFacts
<1>. QED BY <1>1 DEF Truthful, Codes, NoCode

\* What is cut from either end of the wire leaves it truthful.
LEMMA TruthfulParts ==
  ASSUME NEW w \in Seq(Frames), NEW code, Truthful(w, code)
  PROVE  /\ w # <<>> => /\ Head(w) \in Frames /\ (Head(w)[1] = "result" => Head(w)[2] = code)
                        /\ Tail(w) \in Seq(Frames) /\ Truthful(Tail(w), code)
         /\ \A n \in 0 .. Len(w) : SubSeq(w, 1, n) \in Seq(Frames) /\ Truthful(SubSeq(w, 1, n), code)
<1>1. ASSUME w # <<>>
      PROVE  /\ Head(w) \in Frames /\ (Head(w)[1] = "result" => Head(w)[2] = code)
             /\ Tail(w) \in Seq(Frames) /\ Truthful(Tail(w), code)
  <2>1. Head(w) \in Frames /\ Head(w) = w[1] /\ 1 \in 1 .. Len(w)
    BY <1>1
  <2>2. /\ Tail(w) \in Seq(Frames) /\ Len(Tail(w)) = Len(w) - 1 /\ Len(w) \in Nat
        /\ \A i \in 1 .. Len(w) - 1 : Tail(w)[i] = w[i + 1] /\ i + 1 \in 1 .. Len(w)
    BY <1>1
  <2>3. Truthful(Tail(w), code)
    BY <2>2 DEF Truthful
  <2>. QED BY <2>1, <2>2, <2>3 DEF Truthful
<1>2. ASSUME NEW n \in 0 .. Len(w)
      PROVE  SubSeq(w, 1, n) \in Seq(Frames) /\ Truthful(SubSeq(w, 1, n), code)
  <2>1. /\ SubSeq(w, 1, n) \in Seq(Frames) /\ Len(SubSeq(w, 1, n)) = n
        /\ \A i \in 1 .. n : SubSeq(w, 1, n)[i] = w[i] /\ i \in 1 .. Len(w)
    BY <1>2
  <2>. QED BY <2>1 DEF Truthful
<1>. QED BY <1>1, <1>2

\* What one line does to the client's exit code: nothing, 1, the local
\* client's -1 for an error, or the result.
LEMMA ReadFacts ==
  ASSUME WireTypeOK, got.bad < MaxBad, NEW f \in Frames
  PROVE  /\ Read(f) \in [code: Codes \cup {NoCode}, terminal: BOOLEAN, error: BOOLEAN, bad: 0 .. MaxBad,
                         invalid: BOOLEAN, old: BOOLEAN, any: BOOLEAN]
         /\ \/ Read(f).code = got.code /\ Read(f).terminal = got.terminal /\ (got.error => Read(f).error)
            \/ Read(f).code = 1
            \/ Read(f).code = -1 /\ via = "local" /\ Read(f).error
            \/ f[1] = "result" /\ Read(f).code = f[2]
<1>. DEFINE Got == [code: Codes \cup {NoCode}, terminal: BOOLEAN, error: BOOLEAN, bad: 0 .. MaxBad,
                    invalid: BOOLEAN, old: BOOLEAN, any: BOOLEAN]
            clear == [got EXCEPT !.bad = 0, !.any = TRUE]
            heard == [got EXCEPT !.any = TRUE]
            Fine(g) == /\ g \in Got
                       /\ \/ g.code = got.code /\ g.terminal = got.terminal /\ (got.error => g.error)
                          \/ g.code = 1
                          \/ g.code = -1 /\ via = "local" /\ g.error
                          \/ f[1] = "result" /\ g.code = f[2]
<1>1. got \in Got /\ MaxBad \in Nat /\ f[2] \in Codes
  BY WireAssumption, FrameFacts DEF WireTypeOK
<1>2. ErrorCode \in Codes /\ (ErrorCode = 1 \/ (ErrorCode = -1 /\ via = "local"))
  BY DEF ErrorCode, Codes
<1>3. ASSUME NEW g \in Got, g.code = got.code, g.terminal = got.terminal, g.error = got.error
      PROVE  /\ Fine(g) /\ Fine([g EXCEPT !.old = TRUE]) /\ Fine([g EXCEPT !.old = TRUE, !.code = 1])
             /\ Fine([g EXCEPT !.terminal = TRUE, !.error = TRUE, !.code = ErrorCode])
             /\ f[1] = "result" => Fine([g EXCEPT !.terminal = TRUE, !.code = f[2]])
  <2>0. 1 \in Codes
    BY DEF Codes
  <2>1. Fine(g)
    BY <1>3
  <2>2. Fine([g EXCEPT !.old = TRUE])
    BY <1>3
  <2>3. Fine([g EXCEPT !.old = TRUE, !.code = 1])
    BY <1>3, <2>0
  <2>4. Fine([g EXCEPT !.terminal = TRUE, !.error = TRUE, !.code = ErrorCode])
    BY <1>2, <1>3
  <2>5. f[1] = "result" => Fine([g EXCEPT !.terminal = TRUE, !.code = f[2]])
    BY <1>1, <1>3
  <2>. QED BY <2>1, <2>2, <2>3, <2>4, <2>5
<1>4. clear \in Got /\ clear.code = got.code /\ clear.terminal = got.terminal /\ clear.error = got.error
  <2>1. 0 \in 0 .. MaxBad
    BY <1>1
  <2>. QED BY <1>1, <2>1
<1>5. heard \in Got /\ heard.code = got.code /\ heard.terminal = got.terminal /\ heard.error = got.error
  BY <1>1
<1>6. Fine([got EXCEPT !.any = TRUE, !.bad = @ + 1,
                       !.invalid = @ \/ (f[1] = "torn" /\ via = "sshMailbox")])
  <2>1. got.bad + 1 \in 0 .. MaxBad /\ (got.invalid \/ (f[1] = "torn" /\ via = "sshMailbox")) \in BOOLEAN
    BY <1>1
  <2>. QED BY <1>1, <2>1
<1>7. \/ Read(f) = [got EXCEPT !.any = TRUE, !.bad = @ + 1,
                               !.invalid = @ \/ (f[1] = "torn" /\ via = "sshMailbox")]
      \/ \E g \in {clear, heard} :
            \/ Read(f) = g \/ Read(f) = [g EXCEPT !.old = TRUE] \/ Read(f) = [g EXCEPT !.old = TRUE, !.code = 1]
            \/ Read(f) = [g EXCEPT !.terminal = TRUE, !.error = TRUE, !.code = ErrorCode]
            \/ f[1] = "result" /\ Read(f) = [g EXCEPT !.terminal = TRUE, !.code = f[2]]
  <2>. HIDE DEF clear, heard
  <2>1. CASE via = "relay"
    <3>1. Read(f) = CASE f[1] = "old" -> [heard EXCEPT !.old = TRUE, !.code = 1]
                      [] f[1] = "error" -> [heard EXCEPT !.terminal = TRUE, !.error = TRUE, !.code = ErrorCode]
                      [] f[1] = "result" /\ ~got.old -> [heard EXCEPT !.terminal = TRUE, !.code = f[2]]
                      [] OTHER -> heard
      BY <2>1 DEF Read, RelayRead, heard
    <3>. QED BY <3>1
  <2>2. CASE via # "relay"
    <3>. DEFINE bad == [got EXCEPT !.any = TRUE, !.bad = @ + 1,
                               !.invalid = @ \/ (f[1] = "torn" /\ via = "sshMailbox")]
    <3>1. Read(f) = CASE f[1] \in {"noise", "torn"} -> bad
                      [] f[1] = "old" -> [clear EXCEPT !.old = TRUE]
                      [] f[1] = "error" -> [clear EXCEPT !.terminal = TRUE, !.error = TRUE, !.code = ErrorCode]
                      [] f[1] = "result" -> [clear EXCEPT !.terminal = TRUE, !.code = f[2]]
                      [] OTHER -> clear
      BY <2>2 DEF Read, DirectRead, Undecodable, clear
    <3>2. Read(f) = bad \/ Read(f) # bad
      OBVIOUS
    <3>. HIDE DEF bad
    <3>3. Read(f) = bad \/ \E g \in {clear, heard} :
            \/ Read(f) = g \/ Read(f) = [g EXCEPT !.old = TRUE]
            \/ Read(f) = [g EXCEPT !.terminal = TRUE, !.error = TRUE, !.code = ErrorCode]
            \/ f[1] = "result" /\ Read(f) = [g EXCEPT !.terminal = TRUE, !.code = f[2]]
      BY <3>1
    <3>. QED BY <3>3 DEF bad
  <2>. QED BY <2>1, <2>2
<1>8. Fine(Read(f))
  <2>. HIDE DEF clear, heard, Fine, Got
  <2>1. ASSUME NEW g \in {clear, heard}
        PROVE  /\ Fine(g) /\ Fine([g EXCEPT !.old = TRUE]) /\ Fine([g EXCEPT !.old = TRUE, !.code = 1])
               /\ Fine([g EXCEPT !.terminal = TRUE, !.error = TRUE, !.code = ErrorCode])
               /\ f[1] = "result" => Fine([g EXCEPT !.terminal = TRUE, !.code = f[2]])
    BY <1>3, <1>4, <1>5
  <2>. QED BY <1>6, <1>7, <2>1
<1>. QED BY <1>8

\* A client that has read nothing.
LEMMA BlankFacts ==
  /\ Blank \in [code: Codes \cup {NoCode}, terminal: BOOLEAN, error: BOOLEAN, bad: 0 .. MaxBad,
                invalid: BOOLEAN, old: BOOLEAN, any: BOOLEAN]
  /\ Blank.code # 0 /\ ~Blank.terminal /\ (Blank.code = NoCode => via = "relay")
<1>1. 0 \in 0 .. MaxBad /\ FALSE \in BOOLEAN
  BY WireAssumption
<1>2. Unset \in Codes \cup {NoCode} /\ Unset # 0 /\ (Unset = NoCode => via = "relay")
  BY DEF Unset, Codes, NoCode
<1>. QED BY <1>1, <1>2 DEF Blank

\* The first state of a call satisfies the invariant.
LEMMA WireInitInv == WireInit => WireInv
<1>. SUFFICES ASSUME WireInit PROVE WireInv
  OBVIOUS
<1>1. /\ via \in Vias /\ alias = "primary" /\ helper = [at |-> "boot", beats |-> 0] /\ link = Up
      /\ got = Blank /\ answer = Pending /\ outcome = NoCode
  BY DEF WireInit
<1>2. PICK n \in 0 .. MaxNoise : wire = Noise(n)
  BY DEF WireInit
<1>3. n \in Nat /\ <<"noise", 0>> \in Frames /\ <<"noise", 0>>[1] # "result" /\ 0 \in 0 .. MaxBeats
  BY WireAssumption, FrameFacts
<1>4. wire \in Seq(Frames) /\ Truthful(wire, outcome)
  BY <1>2, <1>3 DEF Noise, Truthful
<1>5. WireTypeOK
  BY <1>1, <1>3, <1>4, BlankFacts DEF WireTypeOK
<1>6. SuccessIsReal
  BY <1>1 DEF SuccessIsReal, Pending
<1>. QED BY <1>1, <1>4, <1>5, <1>6, BlankFacts DEF WireInv

\* A code that a client concludes with is a code, and 0 only for a reason.
LEMMA CodeFacts ==
  ASSUME WireInv, link # Up
  PROVE  /\ Code \in Codes
         /\ Code = 0 => \/ outcome = 0
                        \/ outcome = -1 /\ via # "relay"
                        \/ via = "local" /\ got.error
                        \/ via = "relay" /\ ~got.any
<1>1. /\ link \in Codes /\ got.code \in Codes \cup {NoCode}
      /\ got.code = 0 => outcome = 0
      /\ got.terminal /\ got.code = -1 => outcome = -1 \/ (via = "local" /\ got.error)
  BY DEF WireInv, WireTypeOK
<1>2. CASE via = "relay"
  <2>1. Code = IF got.code # NoCode THEN got.code ELSE IF link = 0 /\ got.any THEN 1 ELSE link
    BY <1>2 DEF Code, RelayCode
  <2>. QED BY <1>1, <1>2, <2>1 DEF Codes, NoCode
<1>3. CASE via # "relay"
  <2>1. Code = IF MailboxCode # -1 THEN MailboxCode ELSE IF ~got.terminal /\ link = 0 THEN 1 ELSE link
    BY <1>3 DEF Code, DirectCode
  <2>2. MailboxCode = IF got.invalid /\ got.code \in {-1, 0} THEN 1 ELSE got.code
    BY DEF MailboxCode
  <2>3. got.code # NoCode
    BY <1>3 DEF WireInv
  <2>. QED BY <1>1, <1>3, <2>1, <2>2, <2>3 DEF Codes, NoCode
<1>. QED BY <1>2, <1>3

\* Every step of the helper, the link and the client keeps the invariant.
LEMMA WireStep == WireInv /\ [WireNext]_wireVars => WireInv'
<1>. SUFFICES ASSUME WireInv, [WireNext]_wireVars PROVE WireInv'
  OBVIOUS
<1>. DEFINE Helper == [at: {"boot", "asked", "accepted", "running", "exit", "hung", "gone"}, beats: 0 .. MaxBeats]
            Early == {"boot", "asked", "accepted", "running"}
            Got == [code: Codes \cup {NoCode}, terminal: BOOLEAN, error: BOOLEAN, bad: 0 .. MaxBad,
                    invalid: BOOLEAN, old: BOOLEAN, any: BOOLEAN]
<1>0. /\ via \in Vias /\ alias \in {"primary", "fallback"} /\ helper \in Helper /\ wire \in Seq(Frames)
      /\ link \in {Up} \cup Codes /\ got \in Got /\ answer \in Codes \cup {Pending, Raised}
      /\ outcome \in Codes \cup {NoCode} /\ (helper.at \in Early => outcome = NoCode)
      /\ Truthful(wire, outcome) /\ (got.code = 0 => outcome = 0) /\ (got.code = NoCode => via = "relay")
      /\ got.terminal /\ got.code = -1 => outcome = -1 \/ (via = "local" /\ got.error)
  BY DEF WireInv, WireTypeOK
<1>1. CASE UNCHANGED wireVars
  BY <1>1 DEF wireVars, WireInv, WireTypeOK, SuccessIsReal, Truthful
<1>. SUFFICES ASSUME WireNext, answer = Pending PROVE WireInv'
  BY <1>1 DEF WireNext
\* the helper says something, with or without an outcome
<1>2. ASSUME NEW s \in Seq(Frames), Truthful(s, outcome'), wire' = wire \o s,
             outcome' \in Codes \cup {NoCode}, outcome' = outcome \/ outcome = NoCode,
             helper' \in Helper, helper'.at \in Early => outcome' = NoCode,
             UNCHANGED <<via, alias, link, got, answer>>
      PROVE  WireInv'
  <2>1. Truthful(wire, outcome')
    BY <1>0, <1>2, TruthfulLater
  <2>2. wire' \in Seq(Frames) /\ Truthful(wire, outcome)'
    <3>1. wire \o s \in Seq(Frames) /\ Truthful(wire \o s, outcome')
      BY <1>0, <1>2, <2>1, TruthfulConcat
    <3>. QED BY <1>2, <3>1 DEF Truthful
  <2>3. (got.code = 0 => outcome' = 0)
        /\ (got.terminal /\ got.code = -1 => outcome' = -1 \/ (via = "local" /\ got.error))
    BY <1>0, <1>2 DEF NoCode
  <2>4. SuccessIsReal'
    BY <1>2 DEF SuccessIsReal, Pending
  <2>. QED BY <1>0, <1>2, <2>2, <2>3, <2>4 DEF WireInv, WireTypeOK
\* the helper, the link or the wire changes and says nothing new
<1>3. ASSUME helper' \in Helper, helper'.at \in Early => helper.at \in Early,
             link' \in {Up} \cup Codes, wire' \in Seq(Frames), Truthful(wire', outcome),
             UNCHANGED <<via, got, answer, outcome>>, alias' = alias
      PROVE  WireInv'
  <2>1. Truthful(wire, outcome)'
    BY <1>3 DEF Truthful
  <2>2. SuccessIsReal'
    BY <1>3 DEF SuccessIsReal, Pending
  <2>. QED BY <1>0, <1>3, <2>1, <2>2 DEF WireInv, WireTypeOK
<1>4. ASSUME NEW step \in {"boot", "asked", "accepted", "running", "exit", "hung", "gone"}
      PROVE  [helper EXCEPT !.at = step] \in Helper /\ [helper EXCEPT !.at = step].at = step
  BY <1>0
<1>5. ASSUME NEW t \in {"ready", "old", "noise", "torn", "accepted", "progress", "session", "error"}, NEW code
      PROVE  <<<<t, 0>>>> \in Seq(Frames) /\ Truthful(<<<<t, 0>>>>, code)
  <2>1. <<t, 0>> \in Frames /\ <<t, 0>>[1] # "result"
    BY <1>5, FrameFacts
  <2>. HIDE DEF Truthful
  <2>. QED BY <2>1, TruthfulOne
<1>6. ASSUME NEW t \in {"ready", "old", "noise", "torn", "accepted", "progress", "session", "error"},
             NEW step \in {"boot", "asked", "accepted", "running", "exit", "hung", "gone"},
             step \in Early => helper.at \in Early, Say(step, <<<<t, 0>>>>), UNCHANGED outcome
      PROVE  WireInv'
  <2>1. /\ helper' = [helper EXCEPT !.at = step] /\ wire' = wire \o <<<<t, 0>>>>
        /\ UNCHANGED <<via, alias, link, got, answer>>
    BY <1>6 DEF Say
  <2>2. helper' \in Helper /\ helper'.at = step
    BY <1>4, <2>1
  <2>. QED BY <1>0, <1>2, <1>5, <1>6, <2>1, <2>2
<1>7. CASE Ready
  BY <1>6, <1>7 DEF Ready
<1>8. ASSUME NEW c \in Codes, outcome' = c, wire' \in Sent(<<"result", c>>), helper.at \in Early,
             helper' = [helper EXCEPT !.at = "exit"], UNCHANGED <<via, alias, link, got, answer>>
      PROVE  WireInv'
  <2>1. helper' \in Helper /\ helper'.at = "exit"
    BY <1>4, <1>8
  <2>2. <<<<"result", c>>>> \in Seq(Frames) /\ Truthful(<<<<"result", c>>>>, outcome')
    <3>1. <<"result", c>> \in Frames /\ <<"result", c>>[2] = outcome'
      BY <1>8, FrameFacts
    <3>. QED BY <3>1, TruthfulOne
  <2>3. CASE wire' = wire \o <<<<"result", c>>>>
    BY <1>0, <1>2, <1>8, <2>1, <2>2, <2>3
  <2>4. CASE wire' = wire \o <<<<"error", 0>>>>
    BY <1>0, <1>2, <1>5, <1>8, <2>1, <2>4
  <2>. QED BY <1>8, <2>3, <2>4 DEF Sent
<1>9. CASE Request
  <2>1. CASE Say("exit", <<<<"error", 0>>>>) /\ UNCHANGED outcome
    BY <1>6, <2>1
  <2>2. CASE Say("accepted", <<<<"accepted", 0>>>>) /\ UNCHANGED outcome
    BY <1>6, <1>9, <2>2 DEF Request
  <2>3. CASE HandleMailbox
    <3>1. PICK c \in {0, 1} : outcome' = c /\ wire' \in Sent(<<"result", c>>)
      BY <2>3 DEF HandleMailbox
    <3>2. c \in Codes
      BY DEF Codes
    <3>. QED BY <1>8, <1>9, <2>3, <3>1, <3>2 DEF HandleMailbox, Request
  <2>. QED BY <1>9, <2>1, <2>2, <2>3 DEF Request
<1>10. CASE Prepare
  <2>1. CASE Say("exit", <<<<"error", 0>>>>)
    BY <1>6, <1>10, <2>1 DEF Prepare
  <2>2. CASE Say("running", <<>>)
    <3>1. /\ helper' = [helper EXCEPT !.at = "running"] /\ wire' = wire \o <<>>
          /\ UNCHANGED <<via, alias, link, got, answer, outcome>> /\ helper.at = "accepted"
      BY <1>10, <2>2 DEF Say, Prepare
    <3>2. helper' \in Helper /\ helper'.at = "running" /\ wire' = wire
      BY <1>0, <1>4, <3>1
    <3>. QED BY <1>0, <1>3, <3>1, <3>2
  <2>. QED BY <1>10, <2>1, <2>2 DEF Prepare
<1>11. CASE Heartbeat
  <2>1. /\ helper' = [helper EXCEPT !.beats = @ + 1] /\ wire' = wire \o <<<<"progress", 0>>>>
        /\ helper.beats < MaxBeats /\ UNCHANGED <<via, alias, link, got, answer, outcome>>
    BY <1>11 DEF Heartbeat
  <2>2. helper.beats + 1 \in 0 .. MaxBeats
    BY <1>0, <2>1, WireAssumption
  <2>3. helper' \in Helper /\ helper'.at = helper.at
    BY <1>0, <2>1, <2>2
  <2>. QED BY <1>0, <1>2, <1>5, <2>1, <2>3
<1>12. CASE TaskEnds
  <2>1. CASE Say("exit", <<<<"error", 0>>>>) /\ UNCHANGED outcome
    BY <1>6, <2>1
  <2>2. ASSUME NEW c \in Codes, outcome' = c,
               wire' \in Sent(<<"result", c>>) \cup {wire \o <<<<"session", 0>>, <<"result", c>>>>},
               helper' = [helper EXCEPT !.at = "exit"], UNCHANGED <<via, alias, link, got, answer>>
        PROVE  WireInv'
    <3>0. helper.at \in Early
      BY <1>12 DEF TaskEnds
    <3>1. CASE wire' \in Sent(<<"result", c>>)
      BY <1>8, <2>2, <3>0, <3>1
    <3>2. CASE wire' = wire \o <<<<"session", 0>>, <<"result", c>>>>
      <4>. DEFINE s == <<<<"session", 0>>, <<"result", c>>>>
      <4>1. <<"session", 0>> \in Frames /\ <<"result", c>> \in Frames
        BY FrameFacts
      <4>2. s \in Seq(Frames) /\ Len(s) = 2 /\ s[1] = <<"session", 0>> /\ s[2] = <<"result", c>>
        BY <4>1
      <4>3. Truthful(s, outcome')
        <5>1. \A i \in 1 .. 2 : i = 1 \/ i = 2
          OBVIOUS
        <5>. HIDE DEF s
        <5>. QED BY <2>2, <4>2, <5>1 DEF Truthful
      <4>4. helper' \in Helper /\ helper'.at = "exit"
        BY <1>4, <2>2
      <4>. HIDE DEF s
      <4>. QED BY <1>0, <1>2, <2>2, <3>0, <3>2, <4>2, <4>3, <4>4 DEF s
    <3>. QED BY <2>2, <3>1, <3>2
  <2>. QED BY <1>12, <2>1, <2>2 DEF TaskEnds
<1>13. CASE HelperExits
  <2>1. /\ helper' = [helper EXCEPT !.at = "gone"] /\ link' = 0
        /\ UNCHANGED <<via, alias, wire, got, answer, outcome>>
    BY <1>13 DEF HelperExits
  <2>2. helper' \in Helper /\ helper'.at = "gone" /\ link' \in Codes
    BY <1>4, <2>1 DEF Codes
  <2>. QED BY <1>0, <1>3, <2>1, <2>2
<1>14. CASE HelperDies
  <2>1. /\ helper' = [helper EXCEPT !.at = "gone"] /\ link' \in {0, 1}
        /\ UNCHANGED <<via, alias, wire, got, answer, outcome>>
    BY <1>14 DEF HelperDies
  <2>2. helper' \in Helper /\ helper'.at = "gone" /\ link' \in Codes
    BY <1>4, <2>1 DEF Codes
  <2>. QED BY <1>0, <1>3, <2>1, <2>2
<1>15. CASE LinkBreaks
  <2>1. /\ helper' = [helper EXCEPT !.at = "gone"] /\ link' = 255
        /\ \E n \in 0 .. Len(wire) : wire' = SubSeq(wire, 1, n)
        /\ UNCHANGED <<via, alias, got, answer, outcome>>
    BY <1>15 DEF LinkBreaks
  <2>2. helper' \in Helper /\ helper'.at = "gone" /\ link' \in Codes
    BY <1>4, <2>1 DEF Codes
  <2>3. wire' \in Seq(Frames) /\ Truthful(wire', outcome)
    BY <1>0, <2>1, TruthfulParts
  <2>. QED BY <1>3, <2>1, <2>2, <2>3
<1>16. CASE Hang
  <2>1. helper' = [helper EXCEPT !.at = "hung"] /\ UNCHANGED <<via, alias, wire, link, got, answer, outcome>>
    BY <1>16 DEF Hang
  <2>2. helper' \in Helper /\ helper'.at = "hung"
    BY <1>4, <2>1
  <2>. QED BY <1>0, <1>3, <2>1, <2>2
<1>17. CASE Garble
  <2>1. PICK t \in {"noise", "torn"} : wire' = [wire EXCEPT ![Len(wire)] = <<t, 0>>]
    BY <1>17 DEF Garble
  <2>2. wire # <<>> /\ UNCHANGED <<via, alias, helper, link, got, answer, outcome>>
    BY <1>17 DEF Garble
  <2>3. <<t, 0>> \in Frames /\ <<t, 0>>[1] # "result"
    BY FrameFacts
  <2>4. /\ wire' \in Seq(Frames) /\ Len(wire') = Len(wire)
        /\ \A i \in 1 .. Len(wire) : wire'[i] = wire[i] \/ wire'[i] = <<t, 0>>
    BY <1>0, <2>1, <2>2, <2>3
  <2>5. Truthful(wire', outcome)
    BY <1>0, <2>3, <2>4 DEF Truthful
  <2>. QED BY <1>0, <1>3, <2>2, <2>4, <2>5
<1>18. CASE ReadLine
  <2>1. /\ wire # <<>> /\ got.bad < MaxBad /\ got' = Read(Head(wire)) /\ wire' = Tail(wire)
        /\ UNCHANGED <<via, alias, helper, link, answer, outcome>>
    BY <1>18 DEF ReadLine, Parsing
  <2>2. /\ Head(wire) \in Frames /\ (Head(wire)[1] = "result" => Head(wire)[2] = outcome)
        /\ wire' \in Seq(Frames) /\ Truthful(wire', outcome)
    BY <1>0, <2>1, TruthfulParts
  <2>3. /\ got' \in Got
        /\ \/ got'.code = got.code /\ got'.terminal = got.terminal /\ (got.error => got'.error)
           \/ got'.code = 1
           \/ got'.code = -1 /\ via = "local" /\ got'.error
           \/ Head(wire)[1] = "result" /\ got'.code = Head(wire)[2]
    BY <2>1, <2>2, ReadFacts DEF WireInv
  <2>4. /\ got'.code = 0 => outcome = 0
        /\ got'.terminal /\ got'.code = -1 => outcome = -1 \/ (via = "local" /\ got'.error)
        /\ got'.code = NoCode => via = "relay"
    <3>1. Head(wire)[2] \in Codes
      BY <2>2, FrameFacts
    <3>2. \A c \in Codes : c # NoCode
      BY DEF Codes, NoCode
    <3>3. 1 \in Codes /\ -1 \in Codes
      BY DEF Codes
    <3>. QED BY <1>0, <2>2, <2>3, <3>1, <3>2, <3>3
  <2>5. Truthful(wire, outcome)'
    BY <2>1, <2>2 DEF Truthful
  <2>6. SuccessIsReal'
    BY <2>1 DEF SuccessIsReal, Pending
  <2>. QED BY <1>0, <2>1, <2>2, <2>3, <2>4, <2>5, <2>6 DEF WireInv, WireTypeOK
<1>19. ASSUME answer' \in {-1, Raised}, UNCHANGED <<via, helper, wire, link, got, outcome>>,
              alias' = alias
       PROVE  WireInv'
  <2>1. answer' \in Codes \cup {Pending, Raised} /\ answer' # 0
    BY <1>19 DEF Codes, Raised
  <2>2. Truthful(wire, outcome)' /\ SuccessIsReal'
    BY <1>0, <1>19, <2>1 DEF Truthful, SuccessIsReal
  <2>. QED BY <1>0, <1>19, <2>1, <2>2 DEF WireInv, WireTypeOK
<1>20. CASE Timeout
  BY <1>19, <1>20 DEF Timeout
<1>21. CASE GiveUp
  <2>1. CASE answer' = Raised /\ UNCHANGED <<got, wire>>
    BY <1>19, <1>21, <2>1 DEF GiveUp
  <2>2. CASE wire' = <<>> /\ got' = [got EXCEPT !.bad = 0] /\ UNCHANGED answer
    <3>1. UNCHANGED <<via, alias, helper, link, outcome>>
      BY <1>21 DEF GiveUp
    <3>2. 0 \in 0 .. MaxBad
      BY WireAssumption
    <3>3. got' \in Got /\ got'.code = got.code /\ got'.terminal = got.terminal /\ got'.error = got.error
      BY <1>0, <2>2, <3>2
    <3>4. wire' \in Seq(Frames) /\ Truthful(wire, outcome)'
      BY <2>2 DEF Truthful
    <3>5. SuccessIsReal'
      BY <2>2 DEF SuccessIsReal, Pending
    <3>. QED BY <1>0, <2>2, <3>1, <3>3, <3>4, <3>5 DEF WireInv, WireTypeOK
  <2>. QED BY <1>21, <2>1, <2>2 DEF GiveUp
<1>22. CASE Conclude
  <2>0. link # Up /\ UNCHANGED <<via, wire>> /\ wire = <<>>
    BY <1>22 DEF Conclude
  <2>1. CASE /\ alias' = "fallback" /\ helper' = [at |-> "boot", beats |-> 0]
             /\ link' = Up /\ got' = Blank /\ outcome' = NoCode /\ UNCHANGED answer
    <3>1. 0 \in 0 .. MaxBeats
      BY WireAssumption
    <3>2. helper' \in Helper
      BY <2>1, <3>1
    <3>3. Truthful(wire, outcome)'
      BY <2>0 DEF Truthful
    <3>4. SuccessIsReal'
      BY <2>1 DEF SuccessIsReal, Pending
    <3>. QED BY <1>0, <2>0, <2>1, <3>2, <3>3, <3>4, BlankFacts DEF WireInv, WireTypeOK
  <2>2. CASE answer' = Code /\ UNCHANGED <<alias, helper, link, got, outcome>>
    <3>1. SuccessIsReal' /\ answer' \in Codes
      BY <2>0, <2>2, CodeFacts DEF SuccessIsReal
    <3>2. Truthful(wire, outcome)'
      BY <2>0 DEF Truthful
    <3>. QED BY <1>0, <2>0, <2>2, <3>1, <3>2 DEF WireInv, WireTypeOK
  <2>. QED BY <1>22, <2>1, <2>2 DEF Conclude
<1>23. CASE MasterFails
  <2>1. CASE alias' = "fallback" /\ UNCHANGED answer
    <3>1. UNCHANGED <<via, helper, wire, link, got, outcome>>
      BY <1>23 DEF MasterFails
    <3>2. Truthful(wire, outcome)' /\ SuccessIsReal'
      BY <1>0, <2>1, <3>1 DEF Truthful, SuccessIsReal, Pending
    <3>. QED BY <1>0, <2>1, <3>1, <3>2 DEF WireInv, WireTypeOK
  <2>2. CASE answer' = Raised /\ UNCHANGED alias
    BY <1>19, <1>23, <2>2 DEF MasterFails
  <2>. QED BY <1>23, <2>1, <2>2 DEF MasterFails
<1>. QED
  BY <1>7, <1>9, <1>10, <1>11, <1>12, <1>13, <1>14, <1>15, <1>16, <1>17, <1>18, <1>20, <1>21, <1>22, <1>23
  DEF WireNext, HelperStep, ClientStep

\* The caller is told 0 only if the task or command ended with 0, whatever was
\* lost, cut or garbled on the way, but for a task that ended with -1, the
\* local client's error frame and a relay that says nothing (remote_exec.py,
\* transport/ssh.py, local.py, relay.py).
THEOREM SuccessIsTrue == WireSpec => []SuccessIsReal
<1>1. WireInv => SuccessIsReal
  BY DEF WireInv
<1>. QED BY <1>1, WireInitInv, WireStep, PTL DEF WireSpec

=============================================================================

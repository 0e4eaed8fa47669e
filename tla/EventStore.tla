----------------------------- MODULE EventStore -----------------------------
(***************************************************************************)
(* The gateway's event table (gateway/events.py) with the two readers that *)
(* resume from a cursor: "events watch" (gateway/cli.py), which keeps its  *)
(* cursor in a file, and a peer that follows the runtime leg of a stream   *)
(* (remote_exec.py) and ingests what it receives into its own table.       *)
(*                                                                         *)
(* Every statement of the store runs in one transaction under its lock.    *)
(***************************************************************************)
EXTENDS Naturals, FiniteSets, FiniteSetsExt

CONSTANTS Sources,     \* a runtime and its generation, on this host
          PageLimit,   \* limit of list_after
          MaxRows,     \* MAX_TOTAL_EVENTS
          MaxAppends   \* bound: events appended

ASSUME EventAssumption == PageLimit \in Nat \ {0} /\ MaxRows \in Nat \ {0} /\ MaxAppends \in Nat

VARIABLES
    rows,      \* the table: event_id, source, source_sequence, kind
    lastId,    \* AUTOINCREMENT: an id is never given again
    old,       \* rows up to this id are past the retention of their kind
    watch,     \* "events watch": cursor in memory, page being printed
    saved,     \* watch-cursor-<key>.json
    printed,   \* ids the watch has shown
    behind,    \* ids on a page behind the event that ended a watch
    shipped,   \* ids the stream has shipped to the peer
    peer,      \* the peer's table: source, source_sequence, and which event
    forgot     \* sources whose newest row was deleted

eventVars == <<rows, lastId, old, watch, saved, printed, behind, shipped, peer, forgot>>

\* What retention tells apart: TOOL_UPDATED and the terminal kinds expire,
\* at their own age; the lifecycle kinds do not.
EventKinds == {"tool", "terminal", "lifecycle"}
Row   == [id: 1 .. MaxAppends, src: Sources, seq: 1 .. MaxAppends, kind: EventKinds]

EventTypeOK ==
    /\ rows \subseteq Row /\ lastId \in 0 .. MaxAppends
    /\ old \in [{"tool", "terminal"} -> 0 .. MaxAppends]
    /\ watch \in [on: BOOLEAN, cursor: 0 .. MaxAppends, page: SUBSET Row]
    /\ saved \in 0 .. MaxAppends /\ printed \cup behind \cup shipped \subseteq 1 .. MaxAppends
    /\ peer \subseteq [src: Sources, seq: 1 .. MaxAppends, id: 1 .. MaxAppends]
    /\ forgot \subseteq Sources

EventInit ==
    /\ rows = {} /\ lastId = 0 /\ old = [k \in {"tool", "terminal"} |-> 0]
    /\ watch = [on |-> FALSE, cursor |-> 0, page |-> {}] /\ saved = 0
    /\ printed = {} /\ behind = {} /\ shipped = {} /\ peer = {} /\ forgot = {}

Of(src)  == {r \in rows : r.src = src}
Ids(set) == {r.id : r \in set}

-----------------------------------------------------------------------------
(* The store *)

\* COALESCE(MAX(source_sequence), 0) + 1 within the source.
\* Mutant: the rows are counted.
NextSequenceMut(src) == Cardinality(Of(src)) + 1
NextSequence(src) == Max({r.seq : r \in Of(src)} \cup {0}) + 1

AppendLocal(src, kind) ==
    /\ lastId < MaxAppends
    /\ lastId' = lastId + 1
    /\ rows' = rows \cup {[id |-> lastId + 1, src |-> src, seq |-> NextSequence(src), kind |-> kind]}
    /\ UNCHANGED <<old, watch, saved, printed, behind, shipped, peer, forgot>>

\* Seven, or ninety, days pass.
Age(kind) ==
    /\ old[kind] < lastId
    /\ old' = [old EXCEPT ![kind] = lastId]
    /\ UNCHANGED <<rows, lastId, watch, saved, printed, behind, shipped, peer, forgot>>

Unexpired == {r \in rows : r.kind \in DOMAIN old => r.id > old[r.kind]}

\* The rows beyond the cap go, the oldest first.
Capped(set) == {r \in set : Cardinality({q \in set : q.id >= r.id}) <= MaxRows}

Sweep ==
    /\ rows' = Capped(Unexpired)
    /\ forgot' = forgot \cup {r.src : r \in {x \in rows \ rows' : \A q \in Of(x.src) : q.seq <= x.seq}}
    /\ UNCHANGED <<lastId, old, watch, saved, printed, behind, shipped, peer>>

\* list_after: the oldest rows behind the cursor, and the cursor of the last.
Page(cursor) ==
    LET after == {r \in rows : r.id > cursor}
    IN  {r \in after : Cardinality({q \in after : q.id <= r.id}) <= PageLimit}

\* Mutant: the cursor of an incomplete page is the newest id of the table.
NextCursorMut(cursor, page) == Max(Ids(rows) \cup {cursor})
NextCursor(cursor, page) == Max(Ids(page) \cup {cursor})

-----------------------------------------------------------------------------
(* events watch *)

\* Started without --cursor: the file, or 0 when it cannot be read.
WatchStart ==
    /\ ~watch.on
    /\ \E c \in {saved, 0} : watch' = [on |-> TRUE, cursor |-> c, page |-> {}]
    /\ UNCHANGED <<rows, lastId, old, saved, printed, behind, shipped, peer, forgot>>

\* One poll: the page is printed, up to an event of --exit-on if it has one,
\* and the cursor of the whole page is saved; the save may fail (OSError).
WatchPoll ==
    /\ watch.on /\ watch.page = {} /\ Page(watch.cursor) # {}
    /\ watch' = [watch EXCEPT !.page = Page(watch.cursor)]
    /\ UNCHANGED <<rows, lastId, old, saved, printed, behind, shipped, peer, forgot>>

WatchPrint ==
    /\ watch.page # {}
    /\ LET cursor == NextCursor(watch.cursor, watch.page)
       IN  \/ /\ printed' = printed \cup Ids(watch.page)
              /\ watch' = [watch EXCEPT !.page = {}, !.cursor = cursor]
              /\ saved' \in {saved, cursor} /\ UNCHANGED behind
           \/ \E stop \in watch.page :
                /\ stop.kind = "terminal"
                /\ printed' = printed \cup {i \in Ids(watch.page) : i <= stop.id}
                /\ behind' = behind \cup {i \in Ids(watch.page) : i > stop.id}
                /\ watch' = [on |-> FALSE, cursor |-> 0, page |-> {}]
                /\ saved' \in {saved, cursor}
    /\ UNCHANGED <<rows, lastId, old, shipped, peer, forgot>>

\* Interrupted, or the gateway does not answer.
WatchEnd ==
    /\ watch.on
    /\ watch' = [on |-> FALSE, cursor |-> 0, page |-> {}]
    /\ UNCHANGED <<rows, lastId, old, saved, printed, behind, shipped, peer, forgot>>

-----------------------------------------------------------------------------
(* The peer *)

\* ingest_remote: idempotent on source and sequence number.
\* Mutant: the row is looked up by its number alone.
IngestedMut(table, r) ==
    IF \E p \in table : p.seq = r.seq THEN table
    ELSE table \cup {[src |-> r.src, seq |-> r.seq, id |-> r.id]}
Ingested(table, r) ==
    IF \E p \in table : p.src = r.src /\ p.seq = r.seq THEN table
    ELSE table \cup {[src |-> r.src, seq |-> r.seq, id |-> r.id]}

\* _poll_runtime_events sends the rows after the cursor one by one; after a
\* reconnect it may start at an earlier cursor.
PeerReceives ==
    /\ \E cursor \in {0} \cup shipped :
         \E r \in Page(cursor) :
             /\ \A q \in Page(cursor) : q.id < r.id => q.id \in shipped
             /\ peer' = Ingested(peer, r) /\ shipped' = shipped \cup {r.id}
    /\ UNCHANGED <<rows, lastId, old, watch, saved, printed, behind, forgot>>

StoreNext(sources) ==
    \/ \E s \in sources, k \in EventKinds : AppendLocal(s, k)
    \/ \E k \in DOMAIN old : Age(k)
    \/ Sweep

\* The two readers only read the table: neither changes what the other sees.
WatchNext == WatchStart \/ WatchPoll \/ WatchPrint \/ WatchEnd

EventNext == StoreNext(Sources) \/ WatchNext \/ PeerReceives

EventSpec == EventInit /\ [][EventNext]_eventVars

-----------------------------------------------------------------------------
(* Properties *)

\* A watch that resumes from its file has shown every event that is still in
\* the table behind that cursor, through interrupts, failed saves and
\* retention, except those behind the event that ended it, on the same page
\* (cmd_events_watch, list_after).
WatchSkipsNothing == \A i \in Ids(rows) : i <= saved => i \in printed \cup behind

\* The peer has every event that was shipped to it, replays included, as long as
\* the source never lost its newest row to retention: then its number is given
\* again and the peer takes the new event for the old one (append_local,
\* ingest_remote, sweep).
PeerKeepsWhatItGot ==
    \A r \in rows : r.id \in shipped /\ r.src \notin forgot
                      => [src |-> r.src, seq |-> r.seq, id |-> r.id] \in peer

\* The inductive invariants behind them.  The ids of the table grow, and a
\* source numbers its rows once.
TableInv ==
    /\ EventTypeOK /\ IsFiniteSet(rows)
    /\ \A r \in rows : r.id <= lastId /\ r.seq <= r.id
    /\ \A q, r \in rows : q.id = r.id \/ (q.src = r.src /\ q.seq = r.seq) => q = r

\* The cursor of the watch, in the file and in memory, has only shown events
\* behind it, and the page that is being printed has every event between the
\* cursor and its own last one.
Shown(cursor) == cursor <= lastId /\ \A i \in Ids(rows) : i <= cursor => i \in printed \cup behind
WatchInv ==
    /\ Shown(saved) /\ Shown(watch.cursor) /\ watch.page \subseteq Row
    /\ \A q \in watch.page : q.id <= lastId
    /\ \A q \in watch.page, r \in rows : watch.cursor < r.id /\ r.id <= q.id => r.id \in Ids(watch.page)

\* What the peer has from a source that never lost its newest row is numbered
\* as here, and not beyond the newest row.
PeerInv ==
    /\ \A i \in shipped : i <= lastId
    /\ \A p \in peer, r \in rows : p.src \notin forgot /\ r.src = p.src /\ r.seq = p.seq => r.id = p.id
    /\ \A p \in peer : p.src \notin forgot => \E r \in rows : r.src = p.src /\ p.seq <= r.seq
    /\ PeerKeepsWhatItGot
=============================================================================

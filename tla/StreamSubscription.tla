------------------------- MODULE StreamSubscription -------------------------
(***************************************************************************)
(* A mailbox stream from a remote host to a local receiver: the polling    *)
(* helper (remote_exec.py), the reconnecting client (SSHStream in          *)
(* transport/ssh.py) and SwarmReceiver, which puts what it receives in the *)
(* local inbox (swarm/receiver.py).                                        *)
(*                                                                         *)
(* One subscription covers the inboxes of every member, in a fixed order,  *)
(* with one cursor.  A file is listed in the order of its last write, and  *)
(* its cursor is in it from the second write on (see MailboxSend).         *)
(***************************************************************************)
EXTENDS Naturals, Sequences, FiniteSets, SequencesExt

CONSTANTS Msgs,
          Claimable,  \* bound: the messages a remote reader may claim
          Readable,   \* bound: the messages the local agent may handle
          NInboxes,   \* inboxes 1 .. NInboxes, the subscribed agent's first
          MaxSeen,    \* _SEEN_IDS_MAX_SIZE
          MaxFaults   \* lost connections, and restarts of the receiver

ASSUME StreamAssumption ==
    /\ Claimable \subseteq Msgs /\ Readable \subseteq Msgs
    /\ NInboxes \in Nat \ {0} /\ MaxSeen \in Nat \ {0}
    /\ MaxFaults \in Nat

VARIABLES
    box,     \* remote files: where, in which inbox, cursor, last write
    clock,   \* [cursor: cursors issued, write: file writes so far]
    sub,     \* the helper's subscription and its poll in progress
    pipe,    \* stdout of ssh: events on their way
    stream,  \* SSHStream: resume cursor, ids seen, in order
    rx,      \* SwarmReceiver: ids seen, events of poll() still to handle
    check,   \* the message being handled and the place looked at next
    loc,     \* the local agent's copies: message -> places
    shaky,   \* messages released locally while they were looked for
    faults   \* faults so far

streamVars == <<box, clock, sub, pipe, stream, rx, check, loc, shaky, faults>>

Inboxes == 1 .. NInboxes
Cursors == 0 .. Cardinality(Msgs)
Places  == <<"inbox", "processing", "archive">>
Event   == [msg: Msgs, cursor: Cursors]

StreamTypeOK ==
    /\ box \in [Msgs -> [at: {"none", "plain", "issued", "cursor", "gone"}, inbox: Inboxes,
                         cursor: Cursors, write: Nat]]
    /\ sub.on \in BOOLEAN /\ sub.cursor \in Cursors /\ sub.next \in Inboxes /\ sub.last \in Cursors
    /\ sub.cache \subseteq Msgs \X Nat
    /\ \A i \in DOMAIN pipe : pipe[i] \in Event
    /\ stream.cursor \in Cursors /\ \A i \in DOMAIN stream.seen : stream.seen[i] \in Msgs
    /\ rx.seen \subseteq Msgs /\ \A i \in DOMAIN rx.todo : rx.todo[i] \in Msgs
    /\ check \in (Msgs \X (1 .. 5)) \cup {<<>>}
    /\ loc \in [Msgs -> SUBSET {"inbox", "processing", "archive"}]
    /\ shaky \subseteq Msgs

NoSub  == [on |-> FALSE, cursor |-> 0, cache |-> {}, next |-> 1, last |-> 0]
NoFile == [at |-> "none", inbox |-> 1, cursor |-> 0, write |-> 0]

StreamInit ==
    /\ box = [m \in Msgs |-> NoFile] /\ clock = [cursor |-> 0, write |-> 0]
    /\ sub = NoSub /\ pipe = <<>>
    /\ stream = [cursor |-> 0, seen |-> <<>>]
    /\ rx = [seen |-> {}, todo |-> <<>>] /\ check = <<>>
    /\ loc = [m \in Msgs |-> {}] /\ shaky = {}
    /\ faults = 0

-----------------------------------------------------------------------------
(* The remote mailbox: a send writes twice, with its cursor issued between; *)
(* a remote reader may claim the file                                      *)

RemoteSend(m) ==
    /\ \/ /\ box[m].at = "none"
          /\ \E i \in Inboxes :
               box' = [box EXCEPT ![m] = [at |-> "plain", inbox |-> i, cursor |-> 0,
                                          write |-> clock.write + 1]]
          /\ clock' = [clock EXCEPT !.write = @ + 1]
       \/ /\ box[m].at = "plain"
          /\ box' = [box EXCEPT ![m].at = "issued", ![m].cursor = clock.cursor + 1]
          /\ clock' = [clock EXCEPT !.cursor = @ + 1]
       \/ /\ box[m].at = "issued"
          /\ box' = [box EXCEPT ![m].at = "cursor", ![m].write = clock.write + 1]
          /\ clock' = [clock EXCEPT !.write = @ + 1]
    /\ UNCHANGED <<sub, pipe, stream, rx, check, loc, shaky, faults>>

RemoteClaim(m) ==
    /\ box[m].at = "cursor"
    /\ box' = [box EXCEPT ![m].at = "gone"]
    /\ UNCHANGED <<clock, sub, pipe, stream, rx, check, loc, shaky, faults>>

-----------------------------------------------------------------------------
(* The helper: _poll_mailbox, one inbox per step *)

Listed(i) == {m \in Msgs : box[m].inbox = i /\ box[m].at \in {"plain", "issued", "cursor"}}

\* The stat cache: a file is parsed again when it was written again.
\* Mutant: a file is parsed once.
CachedMut(m) == \E w \in 0 .. clock.write : <<m, w>> \in sub.cache
Cached(m) == <<m, box[m].write>> \in sub.cache

\* _cursor_gt: cursors are compared as numbers; the initial cursor is 0.
CursorGt(a, b) == a > b

\* A message without a cursor is not sent, and neither is one behind the
\* subscription's cursor, which stays as it was at the start of the poll.
Emitted(i) == {m \in Listed(i) : box[m].at = "cursor" /\ ~Cached(m) /\ CursorGt(box[m].cursor, sub.cursor)}

PollInbox ==
    /\ sub.on
    /\ LET out  == SetToSortSeq(Emitted(sub.next), LAMBDA a, b : box[a].write < box[b].write)
           last == IF out = <<>> THEN sub.last ELSE box[out[Len(out)]].cursor
       IN  /\ pipe' = pipe \o [j \in DOMAIN out |-> [msg |-> out[j], cursor |-> box[out[j]].cursor]]
           /\ sub' = [sub EXCEPT
                !.cache = {p \in @ : box[p[1]].inbox = sub.next => p[1] \in Listed(sub.next)}
                            \cup {<<m, box[m].write>> : m \in Listed(sub.next)},
                !.next = IF @ = NInboxes THEN 1 ELSE @ + 1,
                !.last = IF sub.next = NInboxes THEN 0 ELSE last,
                !.cursor = IF sub.next = NInboxes /\ last # 0 THEN last ELSE @]
    /\ UNCHANGED <<box, clock, stream, rx, check, loc, shaky, faults>>

-----------------------------------------------------------------------------
(* SSHStream *)

\* The helper's stream command: a subscription with an empty stat cache.
Subscribed(cursor) == [NoSub EXCEPT !.on = TRUE, !.cursor = cursor]

\* open() and _reconnect(), which tries again until it gets the ready banner:
\* a new helper is subscribed at the resume cursor.
Connect ==
    /\ ~sub.on
    /\ sub' = Subscribed(stream.cursor)
    /\ UNCHANGED <<box, clock, pipe, stream, rx, check, loc, shaky, faults>>

\* ssh exits, or is killed for having been silent: what it had written is lost.
Break ==
    /\ sub.on /\ faults < MaxFaults
    /\ sub' = NoSub /\ pipe' = <<>>
    /\ faults' = faults + 1
    /\ UNCHANGED <<box, clock, stream, rx, check, loc, shaky>>

\* _prune_seen_ids: the older half goes.
Pruned(seen) == IF Len(seen) <= MaxSeen THEN seen ELSE SubSeq(seen, Len(seen) \div 2 + 1, Len(seen))

\* One event of poll(): a duplicate is dropped, and its cursor with it.
Receive ==
    /\ pipe # <<>>
    /\ pipe' = Tail(pipe)
    /\ IF \E i \in DOMAIN stream.seen : stream.seen[i] = Head(pipe).msg
       THEN UNCHANGED <<stream, rx>>
       ELSE /\ stream' = [cursor |-> Head(pipe).cursor, seen |-> Pruned(Append(stream.seen, Head(pipe).msg))]
            /\ rx' = [rx EXCEPT !.todo = Append(@, Head(pipe).msg)]
    /\ UNCHANGED <<box, clock, sub, check, loc, shaky, faults>>

-----------------------------------------------------------------------------
(* SwarmReceiver: look for the message on disk, then write it *)

\* Where _is_msg_on_disk looks, in its order; the fourth look is dest.exists().
\* Mutant: the archive is looked at first.
LooksAtMut(n) == IF n = 4 THEN "inbox" ELSE Places[4 - n]
LooksAt(n) == IF n = 4 THEN "inbox" ELSE Places[n]

Handle ==
    /\ check = <<>> /\ rx.todo # <<>>
    /\ LET m == Head(rx.todo)
       IN  /\ check' = IF m \in rx.seen THEN <<>> ELSE <<m, 1>>
           /\ rx' = [seen |-> rx.seen \cup {m}, todo |-> Tail(rx.todo)]
    /\ UNCHANGED <<box, clock, sub, pipe, stream, loc, shaky, faults>>

\* The write may fail: it is logged, and the id stays seen.
Look ==
    /\ check # <<>>
    /\ LET m == check[1]
       IN  \/ /\ check[2] < 5
              /\ check' = IF LooksAt(check[2]) \in loc[m] THEN <<>> ELSE <<m, check[2] + 1>>
              /\ UNCHANGED loc
           \/ /\ check[2] = 5 /\ check' = <<>>
              /\ loc' \in {loc, [loc EXCEPT ![m] = @ \cup {"inbox"}]}
    /\ UNCHANGED <<box, clock, sub, pipe, stream, rx, shaky, faults>>

\* The receiver is started again, from the cursor "0".
Restart ==
    /\ faults < MaxFaults
    /\ faults' = faults + 1
    /\ sub' = NoSub /\ pipe' = <<>>
    /\ stream' = [cursor |-> 0, seen |-> <<>>] /\ rx' = [seen |-> {}, todo |-> <<>>]
    /\ check' = <<>>
    /\ UNCHANGED <<box, clock, loc, shaky>>

\* The local agent claims, finalizes and releases (MailboxClaims).
Move(m, from, to) ==
    /\ from \in loc[m]
    /\ loc' = [loc EXCEPT ![m] = (@ \ {from}) \cup {to}]
    /\ shaky' = IF from = "processing" /\ to = "inbox" /\ check # <<>> /\ check[1] = m
                THEN shaky \cup {m} ELSE shaky
    /\ UNCHANGED <<box, clock, sub, pipe, stream, rx, check, faults>>

StreamNext ==
    \/ \E m \in Msgs : RemoteSend(m)
    \/ \E m \in Claimable : RemoteClaim(m)
    \/ \E m \in Readable : \/ Move(m, "inbox", "processing") \/ Move(m, "processing", "archive")
                           \/ Move(m, "processing", "inbox")
    \/ PollInbox \/ Connect \/ Break \/ Receive \/ Handle \/ Look \/ Restart

StreamSpec == StreamInit /\ [][StreamNext]_streamVars

-----------------------------------------------------------------------------
(* Properties *)

\* A replay, after a reconnect, a restart or a pruned id, never gives the
\* local agent a message it already has or has finished, unless it released
\* the message while the receiver was looking for it (receiver.py:188-279).
ReplayIsNotRedelivered == \A m \in Msgs \ shaky : Cardinality(loc[m]) <= 1

\* A message that carries its cursor reaches the receiver through breaks and
\* reconnects, unless it is claimed remotely first or a later cursor has been
\* taken over before it (remote_exec.py:590-675, ssh.py:749-840).
StreamDelivers ==
    \A m \in Msgs : (box[m].at = "cursor")
        ~> (m \in rx.seen \/ box[m].at = "gone" \/ stream.cursor > box[m].cursor)

\* The inductive invariant behind ReplayIsNotRedelivered: a message that was
\* not released while it was looked for is in none of the places that were
\* looked at, because it only moves on, to a place that is looked at later.
Looked(m) == {LooksAt(n) : n \in {k \in 1 .. 4 : check # <<>> /\ check[1] = m /\ k < check[2]}}
CopiesInv ==
    /\ loc \in [Msgs -> SUBSET {"inbox", "processing", "archive"}]
    /\ check = <<>> \/ check[2] \in 1 .. 5
    /\ \A m \in Msgs \ shaky : /\ \A p, q \in loc[m] : p = q
                               /\ loc[m] \cap Looked(m) = {}

=============================================================================

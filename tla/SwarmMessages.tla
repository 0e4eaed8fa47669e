---------------------------- MODULE SwarmMessages ----------------------------
(***************************************************************************)
(* Messages through one long-lived kernel, the gateway's (swarm/kernel.py):*)
(* a send takes its recipients and one message id for each of them under   *)
(* the kernel's lock and delivers outside it, so sends overlap; an agent   *)
(* polls its inbox with a cursor.                                          *)
(*                                                                         *)
(* An id is a number; ids are given in any order, as random identifiers    *)
(* are.  The sink is the delivery engine, which takes a message id only    *)
(* once, in front of the store, which stamps an envelope and then writes   *)
(* it.                                                                     *)
(***************************************************************************)
EXTENDS Naturals, Sequences, FiniteSets, SequencesExt, Functions

CONSTANTS Members,     \* roster and room of the session
          InChannel,   \* members of the channel
          Ids,         \* message ids
          PollLimit,   \* limit of poll
          MaxTime      \* bound: seconds that pass

VARIABLES
    now,        \* the second
    topic,      \* subscribers of the topic of notices
    ids,        \* ids given out
    flight,     \* copies under way: recipient, id, created_at (0: not yet)
    taken,      \* ids the delivery engine has accepted
    inbox,      \* per agent, by modification time
    reader      \* per agent: the cursor it was given, ids it was given

messageVars == <<now, topic, ids, flight, taken, inbox, reader>>

Envelope == [at: 1 .. MaxTime, id: Ids]

MessagesTypeOK ==
    /\ now \in 1 .. MaxTime /\ topic \subseteq Members /\ ids \cup taken \subseteq Ids
    /\ flight \subseteq [to: Members, id: Ids, at: 0 .. MaxTime]
    /\ inbox \in [Members -> Seq(Envelope)]
    /\ reader \in [Members -> [at: 0 .. MaxTime, id: {0} \cup Ids, got: SUBSET Ids]]

MessagesInit ==
    /\ now = 1 /\ topic = {} /\ ids = {} /\ flight = {} /\ taken = {}
    /\ inbox = [m \in Members |-> <<>>]
    /\ reader = [m \in Members |-> [at |-> 0, id |-> 0, got |-> {}]]

Second ==
    /\ now < MaxTime /\ now' = now + 1
    /\ UNCHANGED <<topic, ids, flight, taken, inbox, reader>>

-----------------------------------------------------------------------------
\* subscribe(topics=...)
Subscribe(m) ==
    /\ m \notin topic /\ topic' = topic \cup {m}
    /\ UNCHANGED <<now, ids, flight, taken, inbox, reader>>

\* Under the lock: one id for each recipient.
Routed(recipients) ==
    \E f \in Injection(recipients, Ids \ ids) :
         /\ flight' = flight \cup {[to |-> m, id |-> f[m], at |-> 0] : m \in recipients}
         /\ ids' = ids \cup Range(f)

Direct(sender, to) ==
    /\ Routed({to})
    /\ UNCHANGED <<now, topic, taken, inbox, reader>>

Broadcast(sender) ==
    /\ Routed(Members \ {sender})
    /\ UNCHANGED <<now, topic, taken, inbox, reader>>

Channel(sender) ==
    /\ sender \in InChannel
    /\ Routed(InChannel \ {sender})
    /\ UNCHANGED <<now, topic, taken, inbox, reader>>

\* The subscribers, or the room when there are none.  The sender is removed
\* from the set of subscribers itself, not from a copy.
Notice(sender) ==
    /\ Routed((IF topic # {} THEN topic ELSE Members) \ {sender})
    /\ topic' = topic \ {sender}
    /\ UNCHANGED <<now, taken, inbox, reader>>

\* The sink: an id the engine has accepted before is answered from its marker.
Stamp(c) ==
    /\ c.at = 0
    /\ taken' = taken \cup {c.id}
    /\ flight' = (flight \ {c}) \cup (IF c.id \in taken THEN {} ELSE {[c EXCEPT !.at = now]})
    /\ UNCHANGED <<now, topic, ids, inbox, reader>>

Write(c) ==
    /\ c.at # 0
    /\ inbox' = [inbox EXCEPT ![c.to] = Append(@, [at |-> c.at, id |-> c.id])]
    /\ flight' = flight \ {c}
    /\ UNCHANGED <<now, topic, ids, taken, reader>>

-----------------------------------------------------------------------------
\* (created_at, msg_id) <= cursor
Behind(e, r) == e.at < r.at \/ (e.at = r.at /\ e.id <= r.id)

\* poll: the first messages of the inbox that are not behind the cursor; the
\* new cursor is that of the last one.
Poll(m) ==
    LET r    == reader[m]
        new  == SelectSeq(inbox[m], LAMBDA e : ~Behind(e, r))
        page == SubSeq(new, 1, IF Len(new) < PollLimit THEN Len(new) ELSE PollLimit)
    IN  /\ page # <<>>
        /\ reader' = [reader EXCEPT ![m] = [at |-> Last(page).at, id |-> Last(page).id,
                                            got |-> @.got \cup {e.id : e \in Range(page)}]]
        /\ UNCHANGED <<now, topic, ids, flight, taken, inbox>>

MessagesNext ==
    \/ Second
    \/ \E m \in Members : Subscribe(m) \/ Broadcast(m) \/ Channel(m) \/ Notice(m) \/ Poll(m)
    \/ \E m, to \in Members : Direct(m, to)
    \/ \E c \in flight : Stamp(c) \/ Write(c)

-----------------------------------------------------------------------------
(* Properties *)

\* "Cursor is a composite key so that messages arriving in the same second are
\* never skipped" (poll).
PollSkipsNothing ==
    \A m \in Members : \A e \in Range(inbox[m]) : e.at = reader[m].at /\ Behind(e, reader[m]) => e.id \in reader[m].got
=============================================================================

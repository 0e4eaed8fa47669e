----------------------------- MODULE SwarmKernel -----------------------------
(***************************************************************************)
(* The control data of one swarm session (swarm/kernel.py).  Every command *)
(* of the command line, and the gateway, has a kernel of its own: it loads *)
(* session.json and swarm-meta.json once, keeps channels, routes and       *)
(* tokens in memory and merges them into swarm-meta.json under a file      *)
(* lock.  The files are shared, the memory is not, and it is never         *)
(* refreshed.                                                              *)
(***************************************************************************)
EXTENDS Naturals, FiniteSets

CONSTANTS Kernels,    \* processes
          NoKernel,
          Agents,     \* of the roster, the manager aside
          Hosts, NoHost,
          Chans,      \* channels
          MaxLoads    \* bound: kernels started

ASSUME KernelAssumption == NoKernel \notin Kernels /\ NoHost \notin Hosts /\ MaxLoads \in Nat

VARIABLES
    session,    \* session.json: written, and with which policy
    meta,       \* swarm-meta.json
    mem,        \* what each kernel loaded or did itself
    call,       \* the call a kernel is in, and what it read of the meta file
    metaLock,   \* .swarm-meta.lock
    loads,
    made        \* channels, tokens and agents whose call has returned

kernelVars == <<session, meta, mem, call, metaLock, loads, made>>

Meta == [routing: [Agents -> Hosts \cup {NoHost}], channels: SUBSET Chans, tokens: SUBSET Agents]
NoMeta == [routing |-> [a \in Agents |-> NoHost], channels |-> {}, tokens |-> {}]

NoCall == [op |-> "idle", step |-> "", read |-> NoMeta, arg |-> NoKernel]
Ops  == {"create", "routing", "deleted", "channels", "tokens"}

KernelTypeOK ==
    /\ session \in {"none", "bare", "open", "restricted"} /\ meta \in Meta
    /\ mem \in [Kernels -> [up: BOOLEAN, policy: {"none", "open", "restricted"}, data: Meta]]
    /\ call \in [Kernels -> [op: Ops \cup {"idle"}, step: {"", "lock", "write"},
                             read: Meta, arg: Agents \cup Chans \cup {NoKernel}]]
    /\ metaLock \in Kernels \cup {NoKernel} /\ loads \in 0 .. MaxLoads
    /\ made \subseteq Agents \cup Chans \cup (Agents \X {"token"})

KernelInit ==
    /\ session \in {"none", "bare"} /\ meta = NoMeta
    /\ mem = [k \in Kernels |-> [up |-> FALSE, policy |-> "none", data |-> NoMeta]]
    /\ call = [k \in Kernels |-> NoCall] /\ metaLock = NoKernel /\ loads = 0 /\ made = {}

-----------------------------------------------------------------------------
\* The policy of session.json; without one (a session made by the mailbox
\* command) the session is open.
Policy == IF session \in {"none", "restricted"} THEN session ELSE "open"

\* _load_persisted_sessions
Load(k) ==
    /\ ~mem[k].up /\ loads < MaxLoads
    /\ loads' = loads + 1
    /\ mem' = [mem EXCEPT ![k] = [up |-> TRUE, policy |-> Policy,
                                  data |-> IF session = "none" THEN NoMeta ELSE meta]]
    /\ UNCHANGED <<session, meta, call, metaLock, made>>

Busy(k, op, arg) == call' = [call EXCEPT ![k] = [op |-> op, step |-> "lock", read |-> NoMeta, arg |-> arg]]

Known(k) == mem[k].up /\ call[k] = NoCall /\ mem[k].policy # "none"

\* create_session: the check for an existing session is on the memory;
\* session_init writes or merges session.json under its own lock; the memory
\* has the policy of this call.
CreateSession(k) ==
    /\ mem[k].up /\ call[k] = NoCall /\ mem[k].policy = "none"
    /\ \E p \in {"open", "restricted"} :
         session' = p /\ mem' = [mem EXCEPT ![k].policy = p]
    /\ Busy(k, "create", NoKernel)
    /\ UNCHANGED <<meta, metaLock, loads, made>>

\* register: refused with a wrong token; the memory is changed at once.
Register(k, a, h, token) ==
    /\ Known(k)
    /\ a \in mem[k].data.tokens => token
    /\ mem' = [mem EXCEPT ![k].data.routing[a] = h]
    /\ Busy(k, "routing", a)
    /\ UNCHANGED <<session, meta, metaLock, loads, made>>

Unregister(k, a) ==
    /\ Known(k)
    /\ mem' = [mem EXCEPT ![k].data.routing[a] = NoHost]
    /\ Busy(k, "deleted", a)
    /\ UNCHANGED <<session, meta, metaLock, loads, made>>

CreateChannel(k, c) ==
    /\ Known(k) /\ c \notin mem[k].data.channels
    /\ mem' = [mem EXCEPT ![k].data.channels = @ \cup {c}]
    /\ Busy(k, "channels", c)
    /\ UNCHANGED <<session, meta, metaLock, loads, made>>

SetRegistrationToken(k, a) ==
    /\ Known(k)
    /\ mem' = [mem EXCEPT ![k].data.tokens = @ \cup {a}]
    /\ Busy(k, "tokens", a)
    /\ UNCHANGED <<session, meta, metaLock, loads, made>>

-----------------------------------------------------------------------------
(* _persist_meta: lock, read, update, replace *)

\* Mutant: the file is read without the lock.
PersistLockFree(k) ==
    /\ call[k].step = "lock"
    /\ metaLock' = metaLock
    /\ call' = [call EXCEPT ![k].step = "write", ![k].read = meta]
    /\ UNCHANGED <<session, meta, mem, loads, made>>
PersistLock(k) ==
    /\ call[k].step = "lock" /\ metaLock = NoKernel
    /\ metaLock' = k
    /\ call' = [call EXCEPT ![k].step = "write", ![k].read = meta]
    /\ UNCHANGED <<session, meta, mem, loads, made>>

\* The update of each caller, on what was read: _persist_routing writes every
\* route of the memory and removes the agents of "deleted", _persist_channels
\* every channel, set_registration_token its own token.
Updated(k, read) ==
    LET data == mem[k].data
        routes == [a \in Agents |-> IF call[k].op = "deleted" /\ a = call[k].arg THEN NoHost
                                    ELSE IF data.routing[a] # NoHost THEN data.routing[a] ELSE read.routing[a]]
    IN  CASE call[k].op \in {"routing", "deleted"} -> [read EXCEPT !.routing = routes]
          [] call[k].op = "channels" -> [read EXCEPT !.channels = @ \cup data.channels]
          [] call[k].op = "tokens" -> [read EXCEPT !.tokens = @ \cup {call[k].arg}]
          [] OTHER -> read

Achieved(c) == CASE c.op \in {"routing", "channels"} -> {c.arg}
                 [] c.op = "tokens" -> {<<c.arg, "token">>}
                 [] OTHER -> {}

PersistWrite(k) ==
    /\ call[k].step = "write"
    /\ meta' = Updated(k, call[k].read)
    /\ metaLock' = IF metaLock = k THEN NoKernel ELSE metaLock
    /\ made' = IF call[k].op = "deleted" THEN made \ {call[k].arg} ELSE made \cup Achieved(call[k])
    /\ call' = [call EXCEPT ![k] = NoCall]
    /\ UNCHANGED <<session, mem, loads>>

\* The process ends, or is killed: the system releases its lock.
Stop(k) ==
    /\ mem[k].up
    /\ mem' = [mem EXCEPT ![k] = [up |-> FALSE, policy |-> "none", data |-> NoMeta]]
    /\ call' = [call EXCEPT ![k] = NoCall]
    /\ metaLock' = IF metaLock = k THEN NoKernel ELSE metaLock
    /\ UNCHANGED <<session, meta, loads, made>>

KernelNext ==
    \E k \in Kernels :
      \/ Load(k) \/ CreateSession(k) \/ PersistLock(k) \/ PersistWrite(k) \/ Stop(k)
      \/ \E a \in Agents : Unregister(k, a) \/ SetRegistrationToken(k, a)
      \/ \E a \in Agents, h \in Hosts, token \in BOOLEAN : Register(k, a, h, token)
      \/ \E c \in Chans : CreateChannel(k, c)

KernelSpec == KernelInit /\ [][KernelNext]_kernelVars

-----------------------------------------------------------------------------
(* Properties *)

\* What a kernel has recorded stays in swarm-meta.json, whatever kernels with
\* an older memory write after it and wherever one is killed: the channels,
\* the tokens and a route of every agent that was registered and not
\* unregistered since (_persist_meta, _persist_routing,
\* _persist_channels).
RecordedStays ==
    \A x \in made :
        \/ x \in meta.channels
        \/ x \in {<<a, "token">> : a \in meta.tokens}
        \/ x \in {a \in Agents : meta.routing[a] # NoHost}

\* The inductive invariant behind it: who is about to write the file has the
\* lock and what the file still says, and the memory of a kernel that is in a
\* call has what the call is to record.
Owed(k) ==
    /\ mem[k].up \/ call[k] = NoCall
    /\ call[k].step = "write" => metaLock = k /\ call[k].read = meta
    /\ call[k].op \in {"routing", "deleted", "tokens"} => call[k].arg \in Agents
    /\ call[k].op = "routing" => mem[k].data.routing[call[k].arg] # NoHost
    /\ call[k].op = "channels" => call[k].arg \in mem[k].data.channels
KernelInv == KernelTypeOK /\ (\A k \in Kernels : Owed(k)) /\ RecordedStays

=============================================================================

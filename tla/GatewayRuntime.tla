--------------------------- MODULE GatewayRuntime ---------------------------
(***************************************************************************)
(* The runtime table of AgentGateway (gateway/service.py) and the           *)
(* supervisor that starts the agent processes (runtime/supervisor.py).      *)
(*                                                                         *)
(* A record is the three dimensions presence x binding x agent_state plus   *)
(* the legacy status, the registered generation, the owner identity and the *)
(* backend.  Time is the age of last_activity: 0 inside the offline timeout *)
(* (300 s), 1 past it, 2 past the dead timeout (600 s).  The cold-start     *)
(* grace of the sweep asks for a record younger than 180 s; no record is    *)
(* younger than its last activity is old, so past 300 s it never applies.   *)
(* An owner is one incarnation of the supervisor, its pid and nonce         *)
(* together.  Every handler runs under _runtimes_lock and is one step,      *)
(* except runtime_stop, which keeps a reference to the record object across *)
(* the call that stops the process.  The mirror rows in ControlStore are    *)
(* written and never read back, so they are not state here.                 *)
(***************************************************************************)
EXTENDS Naturals, FiniteSets

CONSTANTS Runtimes,        \* runtime ids a launcher hands out
          Park,            \* the id _restore_runtimes_from_park makes up
          None,
          MaxIncarnations, \* supervisor starts per runtime
          MaxRestarts      \* gateway restarts

ASSUME RuntimeAssumption ==
    /\ Park \notin Runtimes
    /\ MaxIncarnations \in Nat \ {0}
    /\ MaxRestarts \in Nat

VARIABLES
    rec,       \* _runtimes: id -> record or None
    sup,       \* the supervisor of each runtime: up, starts, identity.json,
               \* and every identity it ever wrote
    stopping,  \* the runtime_stop call in flight: its id, and whether the
               \* record it holds is still the record of the id
    restarts   \* gateway restarts so far

rtVars == <<rec, sup, stopping, restarts>>

Ids         == Runtimes \cup {Park}
Statuses    == {"active", "offline", "stopped", "unknown"}
Presences   == {"alive", "stale", "dead"}
Bindings    == {"pending", "bound", "lost"}
AgentStates == {"agent_running", "idle", "ended"}
\* The backend, and for omp whether the plugin reported capabilities but
\* not the two a hot delivery needs.
Backends    == {"omp", "omp_limited", "native"}
SpecGen     == 1            \* RuntimeSpec.generation, fixed in spec.json
Gens        == 0 .. MaxIncarnations
Owners      == 1 .. MaxIncarnations
OldestIdle  == 2

Record ==
    [gen: Gens, owner: Owners \cup {None}, status: Statuses, presence: Presences,
     binding: Bindings, agent: AgentStates, backend: Backends, idle: 0 .. OldestIdle]

Identity == [gen: Gens, owner: Owners]

RuntimeTypeOK ==
    /\ rec \in [Ids -> Record \cup {None}]
    /\ sup \in [Runtimes -> [up: BOOLEAN, inc: 0 .. MaxIncarnations,
                             issued: SUBSET Identity, id: Identity \cup {None}]]
    /\ stopping \in [r: Ids, same: BOOLEAN] \cup {None}
    /\ restarts \in 0 .. MaxRestarts

RuntimeInit ==
    /\ rec = [r \in Ids |-> None]
    /\ sup = [r \in Runtimes |-> [up |-> FALSE, inc |-> 0, issued |-> {}, id |-> None]]
    /\ stopping = None
    /\ restarts = 0

-----------------------------------------------------------------------------
(* The supervisor (runtime/supervisor.py main) *)

\* A start over an identity.json whose owner is dead takes the next
\* generation; over none, or over one whose pid is in use again, the
\* generation of the spec.
StartGeneration(r, pidReused) ==
    IF sup[r].id # None /\ ~pidReused THEN sup[r].id.gen + 1 ELSE SpecGen

SupervisorStart(r) ==
    /\ ~sup[r].up
    /\ sup[r].inc < MaxIncarnations
    /\ \E pidReused \in BOOLEAN :
         LET id == [gen |-> StartGeneration(r, pidReused), owner |-> sup[r].inc + 1]
         IN  sup' = [sup EXCEPT ![r] = [up |-> TRUE, inc |-> @.inc + 1,
                                        issued |-> @.issued \cup {id}, id |-> id]]
    /\ UNCHANGED <<rec, stopping, restarts>>

-----------------------------------------------------------------------------
(* The record *)

Known(r) == rec[r] # None

\* A new record object takes the place of the old one under the id.
Replace(r, record) ==
    /\ rec' = [rec EXCEPT ![r] = record]
    /\ stopping' = IF stopping # None /\ stopping.r = r
                   THEN [stopping EXCEPT !.same = FALSE] ELSE stopping
    /\ UNCHANGED <<sup, restarts>>

\* The same object, changed in place.
Update(r, record) ==
    /\ rec' = [rec EXCEPT ![r] = record]
    /\ UNCHANGED <<sup, stopping, restarts>>

Fresh(gen, owner, binding, backend) ==
    [gen |-> gen, owner |-> owner, status |-> "active", presence |-> "alive",
     binding |-> binding, agent |-> "idle", backend |-> backend, idle |-> 0]

\* _is_hot: the three dimensions, a backend with a plugin, and the
\* capabilities when any were reported.
IsHot(record) ==
    /\ record.presence = "alive"
    /\ record.binding = "bound"
    /\ record.agent \in AgentStates
    /\ record.backend = "omp"

-----------------------------------------------------------------------------
(* runtime.register: the staleness and owner checks, then a whole new        *)
(* record.  The handshake of a dead incarnation may still be in the server. *)

\* Mutant: an equal generation is not asked for its owner.
MayRegisterMut(r, id) == Known(r) => id.gen >= rec[r].gen
MayRegister(r, id) ==
    Known(r) => /\ id.gen >= rec[r].gen
                /\ id.gen = rec[r].gen => rec[r].owner \in {None, id.owner}

RuntimeRegister(r) ==
    \E id \in sup[r].issued, binding \in {"bound", "pending"}, backend \in {"omp", "omp_limited"} :
        /\ MayRegister(r, id)
        /\ Replace(r, Fresh(id.gen, id.owner, binding, backend))

\* runtime.declare: refreshes a record it finds, else a native placeholder.
RuntimeDeclare(r) ==
    IF Known(r)
    THEN Update(r, [rec[r] EXCEPT !.status = "active", !.idle = 0, !.presence = "alive",
                                  !.binding = "bound", !.agent = "idle"])
    ELSE r \in Runtimes /\ Replace(r, Fresh(0, None, "bound", "native"))

\* runtime.spawn: the record of a new id, without owner and unbound.
RuntimeSpawn(r) ==
    /\ ~Known(r) /\ sup[r].inc = 0
    /\ Replace(r, Fresh(SpecGen, None, "pending", "omp"))

\* runtime.heartbeat: presence, and an offline record comes back.
RuntimeHeartbeat(r) ==
    /\ Known(r) /\ sup[r].inc > 0
    /\ Update(r, [rec[r] EXCEPT !.idle = 0, !.presence = "alive",
                                !.status = IF @ = "offline" THEN "active" ELSE @])

LifecycleEvents ==
    {"session_ready", "agent_start", "turn_start", "turn_end", "agent_end",
     "session_shutdown", "registry_parked", "registry_removed", "process_exit", "heartbeat"}

\* _reduce_lifecycle: what each lifecycle event does to the dimensions.
Reduce(record, event) ==
    CASE event = "heartbeat"     -> [record EXCEPT !.presence = "alive"]
      [] event = "session_ready" -> [record EXCEPT !.presence = "alive", !.agent = "idle"]
      [] event \in {"agent_start", "turn_start"} -> [record EXCEPT !.agent = "agent_running"]
      [] event \in {"turn_end", "agent_end"}     -> [record EXCEPT !.agent = "idle"]
      [] OTHER                                   -> [record EXCEPT !.agent = "ended"]

\* runtime.lifecycle asks neither generation nor owner, and leaves status.
RuntimeLifecycle(r) ==
    /\ Known(r) /\ sup[r].inc > 0
    /\ \E event \in LifecycleEvents :
         Update(r, [Reduce(rec[r], event) EXCEPT !.idle = IF event = "heartbeat" THEN 0 ELSE @])

\* An accepted runtime.event is activity, whatever it says besides.
Observe(r, agent, binding) ==
    rec' = [rec EXCEPT ![r].idle = 0, ![r].agent = agent, ![r].binding = binding]

AcceptsEvent(r, gen) == Known(r) /\ rec[r].gen = gen

\* A plugin reports under the generation of its identity.
RuntimeEvent(r) ==
    /\ \E id \in sup[r].issued : AcceptsEvent(r, id.gen)
    /\ \E agent \in AgentStates, binding \in Bindings : Observe(r, agent, binding)
    /\ UNCHANGED <<sup, stopping, restarts>>

\* The agent ends.  The supervisor reports it with the generation of the
\* spec, best effort; a killed supervisor reports nothing.
AgentExit(r) ==
    /\ sup[r].up
    /\ sup' = [sup EXCEPT ![r].up = FALSE]
    /\ \/ AcceptsEvent(r, SpecGen) /\ Observe(r, rec[r].agent, rec[r].binding)
       \/ UNCHANGED rec
    /\ UNCHANGED <<stopping, restarts>>

-----------------------------------------------------------------------------
(* Stopping.  runtime_stop asks a RuntimeRegistry it has just built, which   *)
(* holds no handle and raises: the process is not touched, the record that  *)
(* was looked up first is marked stopped.                                   *)

RuntimeStopBegin(r) ==
    /\ Known(r) /\ stopping = None
    /\ stopping' = [r |-> r, same |-> TRUE]
    /\ UNCHANGED <<rec, sup, restarts>>

\* The held object is changed; the purge that ends the handler keeps it.
RuntimeStopEnd ==
    /\ stopping # None
    /\ rec' = [r \in Ids |->
          CASE r = stopping.r ->
                 IF Known(r) /\ stopping.same
                 THEN [rec[r] EXCEPT !.status = "stopped", !.agent = "ended", !.presence = "dead"]
                 ELSE rec[r]
            [] r # stopping.r /\ Known(r) /\ rec[r].status = "stopped" -> None
            [] OTHER -> rec[r]]
    /\ stopping' = None
    /\ UNCHANGED <<sup, restarts>>

Stopped == {r \in Ids : Known(r) /\ rec[r].status = "stopped"}

RuntimePurgeStopped ==
    /\ Stopped # {}
    /\ rec' = [r \in Ids |-> IF r \in Stopped THEN None ELSE rec[r]]
    /\ UNCHANGED <<sup, stopping, restarts>>

-----------------------------------------------------------------------------
(* The sweep thread and the passing of time *)

\* Active past the offline timeout becomes offline and stale; offline and
\* stale past the dead timeout becomes dead.
\* Mutant: the second pass asks for an active record.
DecayMut(record) ==
    IF record.status = "active" /\ record.idle > 0
    THEN [record EXCEPT !.status = "offline", !.presence = "stale"] ELSE record
Decay(record) ==
    LET swept == IF record.status = "active" /\ record.idle > 0
                 THEN [record EXCEPT !.status = "offline", !.presence = "stale"] ELSE record
    IN  IF swept.status = "offline" /\ swept.presence = "stale" /\ swept.idle = OldestIdle
        THEN [swept EXCEPT !.presence = "dead"] ELSE swept

\* _sweep_once: decay every record, drop the stopped.
SweepOnce ==
    /\ rec' = [r \in Ids |-> IF ~Known(r) \/ r \in Stopped THEN None ELSE Decay(rec[r])]
    /\ rec' # rec
    /\ UNCHANGED <<sup, stopping, restarts>>

Tick ==
    /\ rec' = [r \in Ids |-> IF Known(r) /\ rec[r].idle < OldestIdle
                             THEN [rec[r] EXCEPT !.idle = @ + 1] ELSE rec[r]]
    /\ rec' # rec
    /\ UNCHANGED <<sup, stopping, restarts>>

-----------------------------------------------------------------------------
(* A restart of the gateway: the table is memory only; a HOT_PARKED lease   *)
(* with a backend session comes back as a placeholder of its own id.        *)

Placeholder ==
    [Fresh(1, None, "bound", "omp") EXCEPT
        !.status = "unknown", !.presence = "stale", !.agent = "ended", !.idle = OldestIdle]

GatewayRestart ==
    /\ restarts < MaxRestarts
    /\ restarts' = restarts + 1
    /\ stopping' = None
    /\ \E parked \in BOOLEAN :
         rec' = [r \in Ids |-> IF parked /\ r = Park THEN Placeholder ELSE None]
    /\ UNCHANGED sup

RuntimeNext ==
    \/ \E r \in Runtimes :
         \/ SupervisorStart(r) \/ AgentExit(r) \/ RuntimeRegister(r) \/ RuntimeSpawn(r)
         \/ RuntimeHeartbeat(r) \/ RuntimeLifecycle(r) \/ RuntimeEvent(r)
    \/ \E r \in Ids : RuntimeDeclare(r) \/ RuntimeStopBegin(r)
    \/ RuntimeStopEnd \/ RuntimePurgeStopped \/ SweepOnce \/ Tick

RuntimeSpec == RuntimeInit /\ [][RuntimeNext \/ GatewayRestart]_rtVars

-----------------------------------------------------------------------------
(* Properties *)

\* From one state to the next a record that stays takes a later generation, or
\* keeps the owner of its own.
OwnerMoves(r) ==
    (Known(r) /\ rec'[r] # None) =>
        /\ rec'[r].gen >= rec[r].gen
        /\ (rec'[r].gen = rec[r].gen /\ rec[r].owner # None) => rec'[r].owner = rec[r].owner

\* Two owners never follow each other inside one generation of a known
\* record, and no registration, declaration or late handshake of a dead
\* supervisor takes a record back to an older generation
\* (runtime_register, service.py:640-661, and the generation bump of
\* supervisor.py:391-414).
OwnershipMovesForward == [][\A r \in Runtimes : OwnerMoves(r)]_rtVars

\* A runtime that stays silent past the dead timeout does not stay active:
\* it is declared dead, is heard of again or leaves the table
\* (the sweep thread, service.py:440-488).
SilentIsDeclaredDead ==
    \A r \in Ids :
        (Known(r) /\ rec[r].status = "active" /\ rec[r].idle = OldestIdle)
            ~> (\/ ~Known(r) \/ rec[r].status = "unknown"
                \/ rec[r].presence = "dead" \/ rec[r].idle < OldestIdle)

-----------------------------------------------------------------------------
(* The inductive invariant behind OwnershipMovesForward *)

\* A supervisor's identities never run ahead of its starts.
RuntimeInv ==
    /\ RuntimeTypeOK
    /\ \A r \in Runtimes : sup[r].id # None => sup[r].id.gen <= sup[r].inc
=============================================================================

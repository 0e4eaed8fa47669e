---------------------------- MODULE OracleReview ----------------------------
(***************************************************************************)
(* The oracle commands that move a review through its life (oracle.py):    *)
(* start, ask when no runtime is live, revive, release, wait with          *)
(* --auto-recover, gc and the lazy backfill of result and status, each a   *)
(* process of its own over the park leases, the transcripts on disk, the   *)
(* agent processes and the gateway's records of them.                      *)
(*                                                                         *)
(* A command looks its manifest up once and writes a changed copy back at  *)
(* the end.  A hot ask changes none of this state (GatewayCommands models  *)
(* it), nor does an ask without --model over a manifest with a config      *)
(* fingerprint: it raises UnboundLocalError at oracle.py:1462 and again at *)
(* 1622, before any runtime is spawned.                                    *)
(***************************************************************************)
EXTENDS ParkRegistry

CONSTANTS Clis,        \* command processes
          Reviewed,    \* the keys the commands are about; the others are just parked
          NoRuntime,
          MaxCommands  \* commands per behaviour


VARIABLES
    meta,      \* meta.json: key -> bound backend session
    rts,       \* runtimes by number: process and gateway record
    files,     \* backend sessions with a transcript on disk
    cli,       \* process -> its command
    sync,      \* key -> the manifest runtime.register read and will write
    issued,    \* commands so far
    contended  \* keys whose row was deleted while another caller held a
               \* copy of it, or of the session it named

reviewVars == <<meta, rts, files, cli, sync, issued, contended>>
oracleVars == <<parkVars, reviewVars>>

Commands == {"start", "ask", "revive", "release", "purge", "recover", "gc", "backfill"}
Sids     == 1 .. MaxSid   \* a new session has the number of the runtime that makes it
Runtime  == [key: Keys, sid: 0 .. MaxSid, want: 0 .. MaxSid, up: BOOLEAN, known: BOOLEAN,
             by: {"start", "ask", "revive"}, kept: BOOLEAN]
Command  == [cmd: Commands, at: {"spawn", "write", "stop", "free", "delete"}, key: Keys,
             m: Row \cup {NoLease}, sid: 0 .. MaxSid, rt: 0 .. MaxSid]

ASSUME ReviewAssumption ==
    /\ MaxCommands \in Nat /\ Reviewed \subseteq Keys
    /\ NoLease \notin Row /\ NoRuntime \notin Runtime \cup Command

OracleTypeOK ==
    /\ ParkTypeOK
    /\ meta \in [Keys -> 0 .. MaxSid]
    /\ rts \in [Sids -> Runtime \cup {NoRuntime}]
    /\ files \subseteq Sids
    /\ cli \in [Clis -> Command \cup {NoRuntime}]
    /\ sync \in [Keys -> Row \cup {NoLease}]
    /\ issued \in 0 .. MaxCommands
    /\ contended \subseteq Keys

OracleInit ==
    /\ ParkInit
    /\ meta = [k \in Keys |-> 0]
    /\ rts = [n \in Sids |-> NoRuntime]
    /\ files = {}
    /\ cli = [c \in Clis |-> NoRuntime]
    /\ sync = [k \in Keys |-> NoLease]
    /\ issued = 0
    /\ contended = {}

-----------------------------------------------------------------------------
(* The agent processes and the gateway's view of them (external) *)

Exists(n)  == rts[n] # NoRuntime
Records(k) == {n \in Sids : Exists(n) /\ rts[n].key = k /\ rts[n].known}

\* The backend makes its session, or opens the one it was asked to resume.
RuntimeBinds(n) ==
    /\ Exists(n) /\ rts[n].up /\ rts[n].sid = 0
    /\ rts[n].want # 0 => rts[n].want \in files
    /\ LET s == IF rts[n].want = 0 THEN n ELSE rts[n].want
       IN  rts' = [rts EXCEPT ![n].sid = s] /\ files' = files \cup {s}
    /\ UNCHANGED <<parkVars, meta, cli, sync, issued, contended>>

RuntimeDies(n) ==
    /\ Exists(n)
    /\ \/ rts[n].up /\ rts' = [rts EXCEPT ![n].up = FALSE]
       \/ ~rts[n].up /\ rts[n].known /\ rts' = [rts EXCEPT ![n].known = FALSE]
    /\ UNCHANGED <<parkVars, meta, files, cli, sync, issued, contended>>

\* runtime.register by the plugin: the record is known again, and with a
\* session id a HOT_PARKED manifest is read to be written back.
PluginRegisters(n) ==
    /\ Exists(n) /\ rts[n].up
    /\ LET k == rts[n].key
           read == rts[n].sid # 0 /\ Life(k, {"hot"})
       IN  /\ ~rts[n].known \/ (read /\ sync[k] = NoLease /\ lease[k].sid # rts[n].sid)
           /\ rts' = [rts EXCEPT ![n].known = TRUE]
           /\ sync' = IF read /\ sync[k] = NoLease
                      THEN [sync EXCEPT ![k] = [lease[k] EXCEPT !.sid = rts[n].sid]] ELSE sync
    /\ UNCHANGED <<parkVars, meta, files, cli, issued, contended>>

SyncWrite(k) ==
    /\ sync[k] # NoLease
    /\ UpdateLease(k, sync[k])
    /\ sync' = [sync EXCEPT ![k] = NoLease]
    /\ UNCHANGED <<meta, rts, files, cli, issued, contended>>

-----------------------------------------------------------------------------
(* A command: its checks and its lookup *)

\* _resolve_bound_session_id: manifest, then meta.json, then the gateway.
Bound(k) ==
    IF Held(k) /\ lease[k].sid # 0 THEN {lease[k].sid}
    ELSE IF meta[k] # 0 THEN {meta[k]}
    ELSE {rts[n].sid : n \in Records(k)} \cup (IF Records(k) = {} THEN {0} ELSE {})

\* revive_or_spawn: hot is refused by the caller, a known session is
\* resumed, anything else is rebuilt from the snapshot.
Decide(k) == lease[k].sid

\* gc takes released rows past their activity window.
Collectable(k) == Life(k, {"soft"}) /\ lease[k].old

Begin(c, cmd, k, at, sid) ==
    /\ cli[c] = NoRuntime /\ issued < MaxCommands
    /\ cli' = [cli EXCEPT ![c] = [cmd |-> cmd, at |-> at, key |-> k, m |-> lease[k],
                                  sid |-> sid, rt |-> 0]]
    /\ issued' = issued + 1
    /\ UNCHANGED <<parkVars, meta, rts, files, sync, contended>>

Start(c, k) == Begin(c, "start", k, "spawn", 0)

\* ask: no live record, so warm when a session is bound to a lease.
Ask(c, k) ==
    /\ Records(k) = {}
    /\ \E s \in Bound(k) : Begin(c, "ask", k, "spawn", IF Held(k) THEN s ELSE 0)

Revive(c, k) ==
    /\ Held(k) /\ (Life(k, {"hot"}) => Records(k) = {})
    /\ Begin(c, "revive", k, "spawn", Decide(k))

\* release, soft or --purge; recover is release and revive of one wait.
CmdRelease(c, k) ==
    /\ Held(k)
    /\ \E cmd \in {"release", "purge", "recover"} : Begin(c, cmd, k, "stop", 0)

Gc(c, k) == Collectable(k) /\ Begin(c, "gc", k, "free", 0)

\* result, wait and status over a lease and a meta.json without a session.
Backfill(c, k) ==
    /\ Held(k) /\ lease[k].sid = 0 /\ meta[k] = 0
    /\ \E n \in Records(k) : rts[n].sid # 0 /\ Begin(c, "backfill", k, "write", rts[n].sid)

-----------------------------------------------------------------------------
(* A command: spawning, and writing the copy back *)

Done(c) == cli' = [cli EXCEPT ![c] = NoRuntime]
Next1(c, at) == cli' = [cli EXCEPT ![c].at = at]

\* RuntimeRegistry.spawn fails: a warm ask goes on cold, the others end.
SpawnFails(c) ==
    /\ cli[c] # NoRuntime /\ cli[c].at = "spawn"
    /\ IF cli[c].cmd = "ask" /\ cli[c].sid # 0 THEN cli' = [cli EXCEPT ![c].sid = 0] ELSE Done(c)
    /\ UNCHANGED <<parkVars, meta, rts, files, sync, issued, contended>>

Spawn(c) ==
    /\ cli[c] # NoRuntime /\ cli[c].at = "spawn"
    /\ LET free == {n \in Sids : ~Exists(n)}
           n == CHOOSE n \in free : \A j \in free : n <= j
       IN  /\ free # {}
           /\ rts' = [rts EXCEPT ![n] =
                 [key |-> cli[c].key, sid |-> 0, want |-> cli[c].sid, up |-> TRUE,
                  known |-> FALSE, kept |-> FALSE,
                  by |-> IF cli[c].cmd = "recover" THEN "revive" ELSE cli[c].cmd]]
           /\ cli' = [cli EXCEPT ![c].rt = n, ![c].at = "write"]
    /\ UNCHANGED <<parkVars, meta, files, sync, issued, contended>>

\* What a command knows of the session of the runtime it spawned: the id,
\* or nothing when the window closed first.
Seen(c) == {0, rts[cli[c].rt].sid}

\* start: a copy is updated, without one the lease is acquired, and a
\* refusal is not looked at.
StartWrites(c) ==
    LET k == cli[c].key
        new(s) == [life |-> "hot", sid |-> s, old |-> FALSE, due |-> "no",
                   round |-> IF cli[c].m = NoLease THEN 0 ELSE cli[c].m.round]
    IN  \E s \in Seen(c) :
          /\ IF cli[c].m = NoLease THEN Acquire(k, new(s)) ELSE UpdateLease(k, new(s))
          /\ meta' = [meta EXCEPT ![k] = s]

\* The manifest after an ask or a revive: the session that was resumed is
\* kept when no other is known; a cold rebuild has none.
Flipped(c, s) ==
    [cli[c].m EXCEPT !.life = "hot", !.sid = IF s # 0 THEN s ELSE cli[c].sid,
                     !.old = FALSE, !.round = IF @ < MaxRounds THEN @ + 1 ELSE @]

AskWrites(c) ==
    \E s \in Seen(c) :
        /\ IF cli[c].m = NoLease THEN UNCHANGED parkVars ELSE UpdateLease(cli[c].key, Flipped(c, s))
        /\ UNCHANGED meta

ReviveWrites(c) ==
    \E s \in Seen(c) :
        /\ UpdateLease(cli[c].key, Flipped(c, s))
        /\ meta' = IF Flipped(c, s).sid # 0 THEN [meta EXCEPT ![cli[c].key] = Flipped(c, s).sid] ELSE meta

WriteBack(c) ==
    /\ cli[c] # NoRuntime /\ cli[c].at = "write"
    /\ CASE cli[c].cmd = "backfill" ->
              /\ UpdateLease(cli[c].key, [cli[c].m EXCEPT !.sid = cli[c].sid])
              /\ meta' = [meta EXCEPT ![cli[c].key] = cli[c].sid]
              /\ UNCHANGED rts
         [] cli[c].cmd = "start" -> StartWrites(c) /\ rts' = [rts EXCEPT ![cli[c].rt].kept = TRUE]
         [] cli[c].cmd = "ask" -> AskWrites(c) /\ rts' = [rts EXCEPT ![cli[c].rt].kept = TRUE]
         [] OTHER -> ReviveWrites(c) /\ rts' = [rts EXCEPT ![cli[c].rt].kept = TRUE]
    /\ Done(c)
    /\ UNCHANGED <<files, sync, issued, contended>>

\* The write, or a step after it, raises.  A warm ask and both kinds of
\* revive stop what they spawned, the ask then goes on cold.
\* Mutant: the runtime is left running.
StopSpawnedMut(n) == rts
StopSpawned(n) == [rts EXCEPT ![n].up = FALSE]

WriteFails(c) ==
    /\ cli[c] # NoRuntime /\ cli[c].at = "write"
    /\ cli[c].cmd \in {"ask", "revive", "recover"} /\ (cli[c].cmd = "ask" => cli[c].sid # 0)
    /\ rts' = StopSpawned(cli[c].rt)
    /\ IF cli[c].cmd = "ask" THEN cli' = [cli EXCEPT ![c].at = "spawn", ![c].sid = 0, ![c].rt = 0]
                             ELSE Done(c)
    /\ UNCHANGED <<parkVars, meta, files, sync, issued, contended>>

-----------------------------------------------------------------------------
(* A command: stopping and freeing *)

\* The processes of the review, found by pid file or tmux pane, are killed.
KilledByPid(k) ==
    [n \in Sids |-> IF Exists(n) /\ rts[n].key = k THEN [rts[n] EXCEPT !.up = FALSE] ELSE rts[n]]

\* The gateway forgets the newest record and touches no process; only when
\* it does not answer are the processes killed.
StopRuntime(c) ==
    /\ cli[c] # NoRuntime /\ cli[c].at = "stop"
    /\ \/ \E n \in Records(cli[c].key) : rts' = [rts EXCEPT ![n].known = FALSE]
       \/ Records(cli[c].key) = {} /\ cli[c].cmd # "recover" /\ UNCHANGED rts
       \/ cli[c].cmd # "recover" /\ rts' = KilledByPid(cli[c].key)
    /\ Next1(c, "free")
    /\ UNCHANGED <<parkVars, meta, files, sync, issued, contended>>

\* The transcript of the manifest that was looked up.
Purged(c) == files \ {cli[c].m.sid}

\* A copy of the lease of k, or of the session it names, is held by somebody
\* else than c: a record of the gateway outlives a purge that could not reach it.
CopyHeld(c, k) ==
    \/ sync[k] # NoLease
    \/ \E e \in sweep.todo : e.key = k
    \/ \E d \in Clis \ {c} : cli[d] # NoRuntime /\ cli[d].key = k
    \/ \E n \in Sids : Exists(n) /\ rts[n].key = k /\ (rts[n].up \/ rts[n].known)

\* release(soft) changes the row as it is now; --purge and gc delete the
\* transcript of the copy first, the row after.
Free(c) ==
    /\ cli[c] # NoRuntime /\ cli[c].at = "free"
    /\ LET k == cli[c].key
       IN  CASE cli[c].cmd = "release" -> Release(k) /\ Done(c) /\ UNCHANGED <<files, contended>>
             [] cli[c].cmd = "recover" ->
                  /\ Release(k) /\ UNCHANGED <<files, contended>>
                  /\ IF Held(k) THEN cli' = [cli EXCEPT ![c].at = "spawn",
                                                        ![c].m = [lease[k] EXCEPT !.life = "soft"],
                                                        ![c].sid = lease[k].sid]
                                ELSE Done(c)
             [] OTHER ->
                  /\ files' = Purged(c)
                  /\ Next1(c, "delete") /\ UNCHANGED <<parkVars, contended>>
    /\ UNCHANGED <<meta, rts, sync, issued>>

DeleteLease(c) ==
    /\ cli[c] # NoRuntime /\ cli[c].at = "delete"
    /\ Delete(cli[c].key)
    /\ contended' = IF CopyHeld(c, cli[c].key) THEN contended \cup {cli[c].key} ELSE contended
    /\ Done(c)
    /\ UNCHANGED <<meta, rts, files, sync, issued>>

OracleNext ==
    \/ ParkStep /\ UNCHANGED reviewVars
    \/ \E n \in Sids : RuntimeBinds(n) \/ RuntimeDies(n) \/ PluginRegisters(n)
    \/ \E k \in Keys : SyncWrite(k)
    \/ \E c \in Clis :
         \/ \E k \in Reviewed : \/ Start(c, k) \/ Ask(c, k) \/ Revive(c, k)
                                \/ CmdRelease(c, k) \/ Gc(c, k) \/ Backfill(c, k)
         \/ Spawn(c) \/ SpawnFails(c) \/ WriteBack(c) \/ WriteFails(c)
         \/ StopRuntime(c) \/ Free(c) \/ DeleteLease(c)

ReviewSpec == OracleInit /\ [][OracleNext]_oracleVars

-----------------------------------------------------------------------------
(* Properties *)

\* A runtime that an ask or a revive spawned and could not park is not left
\* running: whatever fails after the spawn, on the way to the cold path
\* too, it is stopped (oracle.py:1577-1587, 4747-4753, 4815-4820).
LosersAreStopped ==
    \A n \in Sids :
        (Exists(n) /\ rts[n].up /\ rts[n].by # "start" /\ ~rts[n].kept)
            => \E c \in Clis : cli[c] # NoRuntime /\ cli[c].rt = n

\* As long as nobody else held a copy of a lease when release --purge or gc
\* deleted its row, a lease names a session that can still be resumed
\* (oracle.py:3789-3817, 4139-4150; the copies are the exposed case, the
\* gateway's record of a runtime one of them).
SessionSurvives ==
    \A k \in Keys \ contended :
        (Held(k) /\ lease[k].sid # 0 /\ ~\E c \in Clis : cli[c] # NoRuntime /\ cli[c].at = "delete")
            => lease[k].sid \in files

\* A lease that was released stays released through every sweep: eviction
\* of a copy read while it was hot does not bring it back as resumable
\* (registry.py:370-381).
ReleasedIsNotEvicted ==
    [][Evict => \A k \in Keys : Life(k, {"soft"}) => lease'[k] = lease[k]]_oracleVars
-----------------------------------------------------------------------------
(* The inductive invariants behind LosersAreStopped and SessionSurvives *)

\* What the state is, the order of the rows by activity apart.
ReviewTypes ==
    /\ lease \in [Keys -> Row \cup {NoLease}]
    /\ sweep \in [at: Stages, todo: SUBSET [key: Keys, copy: Row], clean: BOOLEAN, run: Nat]
    /\ meta \in [Keys -> 0 .. MaxSid]
    /\ rts \in [Sids -> Runtime \cup {NoRuntime}]
    /\ files \subseteq Sids
    /\ cli \in [Clis -> Command \cup {NoRuntime}]
    /\ sync \in [Keys -> Row \cup {NoLease}]

\* Where a command is, and what it holds there: a runtime once it has
\* spawned one, the manifest unless it works without.
CommandShape ==
    \A c \in Clis : cli[c] # NoRuntime =>
        /\ cli[c].at = "spawn" => cli[c].cmd \in {"start", "ask", "revive", "recover"}
        /\ cli[c].at = "write" => cli[c].cmd \in {"start", "ask", "revive", "recover", "backfill"}
        /\ (cli[c].at = "write" /\ cli[c].cmd # "backfill") => cli[c].rt # 0
        /\ cli[c].cmd = "backfill" => cli[c].rt = 0
        /\ cli[c].m = NoLease => cli[c].cmd \in {"start", "ask"} /\ cli[c].at \in {"spawn", "write"}

\* A runtime that is not parked is still in the hands of the command that
\* spawned it, before its write.
LosersHeld ==
    \A n \in Sids :
        (Exists(n) /\ rts[n].up /\ rts[n].by # "start" /\ ~rts[n].kept)
            => \E c \in Clis : cli[c] # NoRuntime /\ cli[c].at = "write" /\ cli[c].rt = n

\* Every session that is named anywhere for a key was made for that key.
Owned(k, s) == s = 0 \/ (s \in Sids /\ Exists(s) /\ rts[s].key = k)

SidsOwned ==
    /\ \A k \in Keys : /\ Held(k) => Owned(k, lease[k].sid)
                       /\ sync[k] # NoLease => Owned(k, sync[k].sid)
                       /\ Owned(k, meta[k])
    /\ \A e \in sweep.todo : Owned(e.key, e.copy.sid)
    /\ \A c \in Clis : cli[c] # NoRuntime =>
          /\ Owned(cli[c].key, cli[c].sid) /\ Owned(cli[c].key, cli[c].rt)
          /\ cli[c].m # NoLease => Owned(cli[c].key, cli[c].m.sid)
    /\ \A n \in Sids : Exists(n) => Owned(rts[n].key, rts[n].sid) /\ Owned(rts[n].key, rts[n].want)

\* Every session a copy of a row of k names can be resumed: the row, the
\* copies of the gateway, of the sweep and of the commands, the runtimes a
\* command or the gateway can still ask, and meta.json next to any of them.
Live(s) == s = 0 \/ s \in files

RowCopy(k) ==
    Held(k) \/ sync[k] # NoLease \/ \E c \in Clis : cli[c] # NoRuntime /\ cli[c].key = k /\ cli[c].m # NoLease

CopiesLive(k) ==
    /\ Held(k) => Live(lease[k].sid)
    /\ sync[k] # NoLease => Live(sync[k].sid)
    /\ \A e \in sweep.todo : e.key = k => Live(e.copy.sid)
    /\ \A c \in Clis : (cli[c] # NoRuntime /\ cli[c].key = k) =>
          /\ Live(cli[c].sid)
          /\ cli[c].m # NoLease => Live(cli[c].m.sid)
          /\ cli[c].rt # 0 => Live(rts[cli[c].rt].sid)
    /\ \A n \in Sids : (Exists(n) /\ rts[n].key = k /\ (rts[n].up \/ rts[n].known)) => Live(rts[n].sid)
    /\ RowCopy(k) => Live(meta[k])

\* The row of k is about to be deleted: its transcript is gone already.
Deleting(k) == \E c \in Clis : cli[c] # NoRuntime /\ cli[c].at = "delete" /\ cli[c].key = k

ReviewInv == ReviewTypes /\ CommandShape /\ LosersHeld /\ SidsOwned
SurvivalInv == ReviewInv /\ \A k \in Keys \ contended : Deleting(k) \/ CopiesLive(k)
=============================================================================

---------------------------- MODULE ParkRegistry ----------------------------
(***************************************************************************)
(* The park lease table (park/registry.py): one SQLite row per review key, *)
(* every operation under the key's flock and one step.  A caller that      *)
(* looked a manifest up keeps a copy and writes it back later; so does     *)
(* sweep(), which selects rows first and evicts them one by one after.     *)
(*                                                                         *)
(* A row is its manifest (life, backend session, round, and whether        *)
(* last_activity_at is more than two days old) and what its columns say    *)
(* of time: due = "soft" past soft_expires, "hard" past hard_expires or,   *)
(* for a released row, past the retention window.                          *)
(***************************************************************************)
EXTENDS Naturals, FiniteSets

CONSTANTS Keys,       \* review keys
          NoLease,
          MaxHot,     \* PARK_DEFAULTS["max_hot_parked"]
          MaxRounds,  \* PARK_DEFAULTS["max_rounds"]
          MaxSid,     \* backend sessions are 1 .. MaxSid, 0 is none
          MaxSweeps   \* sweeps per behaviour

ASSUME ParkAssumption ==
    /\ MaxHot \in Nat /\ MaxRounds \in Nat \ {0} /\ MaxSid \in Nat /\ MaxSweeps \in Nat
    /\ IsFiniteSet(Keys)

VARIABLES
    lease,   \* park_leases: key -> row or NoLease
    lru,     \* the order of the keys by last_activity: 1 is the oldest
    sweep    \* the sweep in progress: its stage, the copies it still has to
             \* evict, and whether nothing was parked since it began
             \* (run: sweeps so far)

parkVars == <<lease, lru, sweep>>

Lives  == {"hot", "cold", "soft"}
Row    == [life: Lives, sid: 0 .. MaxSid, round: 0 .. MaxRounds, old: BOOLEAN,
           due: {"no", "soft", "hard"}]
Stages == {"idle", "expired", "lru", "rounds"}

Newest == Cardinality(Keys)
Orders == {o \in [Keys -> 1 .. Newest] : \A j, k \in Keys : o[j] = o[k] => j = k}

ParkTypeOK ==
    /\ lease \in [Keys -> Row \cup {NoLease}]
    /\ lru \in Orders
    /\ sweep.at \in Stages /\ sweep.clean \in BOOLEAN /\ sweep.run \in 0 .. MaxSweeps
    /\ sweep.todo \subseteq [key: Keys, copy: Row]

NoSweep == [at |-> "idle", todo |-> {}, clean |-> FALSE, run |-> 0]

ParkInit ==
    /\ lease = [k \in Keys |-> NoLease]
    /\ lru \in Orders
    /\ sweep = NoSweep

Held(k)      == lease[k] # NoLease
Life(k, set) == Held(k) /\ lease[k].life \in set
HotKeys      == {k \in Keys : Life(k, {"hot"})}

\* last_activity = now.
Touch(k) ==
    lru' = [j \in Keys |-> IF j = k THEN Newest ELSE IF lru[j] > lru[k] THEN lru[j] - 1 ELSE lru[j]]

-----------------------------------------------------------------------------
(* Operations, each under the lock of its key *)

\* A manifest is written over the row, with new expiry times.
Write(k, m) ==
    /\ lease' = [lease EXCEPT ![k] = [m EXCEPT !.due = "no"]]
    /\ Touch(k)
    /\ sweep' = [sweep EXCEPT !.clean = FALSE]

\* acquire: only where there is no row or a released one.
Acquire(k, m) ==
    IF Life(k, {"hot", "cold"}) THEN UNCHANGED parkVars ELSE Write(k, m)

\* update: over whatever row there is; acquire when there is none.
UpdateLease(k, m) == Write(k, m)

Renew(k) ==
    /\ Held(k)
    /\ lease' = [lease EXCEPT ![k].due =
                    IF lease[k].life = "soft" \/ @ = "soft" THEN "no" ELSE @]
    /\ Touch(k)
    /\ UNCHANGED sweep

\* release(mode="soft"); last_activity_at in the manifest stays as it was.
Release(k) ==
    IF ~Held(k) THEN UNCHANGED parkVars
    ELSE /\ lease' = [lease EXCEPT ![k].life = "soft", ![k].due = "no"]
         /\ Touch(k)
         /\ UNCHANGED sweep

\* Mutant: the row is only released.
DeleteMut(k) == Release(k)
Delete(k) ==
    /\ lease' = [lease EXCEPT ![k] = NoLease]
    /\ UNCHANGED <<lru, sweep>>

-----------------------------------------------------------------------------
(* sweep() *)

Copies(keys) == {[key |-> k, copy |-> lease[k]] : k \in keys}

\* What each stage selects for eviction.
Expired    == {k \in HotKeys : lease[k].due # "no"}
\* Mutant: one more than the limit stays hot.
ExcessMut == {k \in HotKeys : Cardinality({j \in HotKeys : lru[k] < lru[j]}) > MaxHot}
Excess    == {k \in HotKeys : Cardinality({j \in HotKeys : lru[k] < lru[j]}) >= MaxHot}
OverRounds == {k \in HotKeys : lease[k].round >= MaxRounds}

\* A stage begins with its SELECT.  The two DELETEs, of cold rows past
\* hard_expires and of released rows past the retention window, run with
\* the statement before them in one step.
Purge(life) ==
    lease' = [k \in Keys |-> IF Life(k, {life}) /\ lease[k].due = "hard" THEN NoLease ELSE lease[k]]

SweepStage ==
    /\ sweep.todo = {}
    /\ \/ /\ sweep.at = "idle" /\ sweep.run < MaxSweeps /\ UNCHANGED lease
          /\ sweep' = [at |-> "expired", todo |-> Copies(Expired), clean |-> TRUE, run |-> sweep.run + 1]
       \/ /\ sweep.at = "expired" /\ Purge("cold")
          /\ sweep' = [sweep EXCEPT !.at = "lru", !.todo = Copies(Excess)]
       \/ /\ sweep.at = "lru" /\ UNCHANGED lease
          /\ sweep' = [sweep EXCEPT !.at = "rounds", !.todo = Copies(OverRounds)]
       \/ /\ sweep.at = "rounds" /\ Purge("soft")
          /\ sweep' = [NoSweep EXCEPT !.run = sweep.run]
    /\ UNCHANGED lru

\* The conditional UPDATE of _evict_one: the copy that was selected goes
\* back as cold, where the row is still hot.
\* Mutant: the row is not asked whether it is still hot.
EvictableMut(k) == Held(k)
Evictable(k) == Life(k, {"hot"})

Evict ==
    \E e \in sweep.todo :
        /\ sweep' = [sweep EXCEPT !.todo = @ \ {e}]
        /\ lease' = IF Evictable(e.key)
                    THEN [lease EXCEPT ![e.key] = [e.copy EXCEPT !.life = "cold", !.due = lease[e.key].due]]
                    ELSE lease
        /\ UNCHANGED lru

\* Time passes for one row: soft_expires, then hard_expires, the two days
\* of gc and the retention window.
Elapse(k) ==
    /\ Held(k)
    /\ \/ lease[k].due = "no" /\ lease' = [lease EXCEPT ![k].due = "soft"]
       \/ lease[k].due = "soft" /\ lease' = [lease EXCEPT ![k].due = "hard", ![k].old = TRUE]
    /\ UNCHANGED <<lru, sweep>>

ParkStep == SweepStage \/ Evict \/ \E k \in Keys : Renew(k) \/ Elapse(k)

-----------------------------------------------------------------------------
(* Properties *)

\* When a sweep ends and nothing was parked since it began, no more than
\* max_hot_parked leases are hot: the LRU stage selects the right rows and
\* evicting them is not undone (registry.py:301-316).
SweepKeepsLimit ==
    (sweep.at = "rounds" /\ sweep.clean) => Cardinality(HotKeys) <= MaxHot
-----------------------------------------------------------------------------
(* The inductive invariant behind SweepKeepsLimit *)

\* The hot leases the sweep does not hold for eviction.
Remaining == {k \in HotKeys : \A e \in sweep.todo : e.key # k}

LimitInv ==
    /\ lru \in Orders
    /\ (sweep.at = "lru" /\ sweep.clean) => Cardinality(Remaining) <= MaxHot
    /\ SweepKeepsLimit
=============================================================================

---------------------------- MODULE GatewayTables ----------------------------
(***************************************************************************)
(* Two small tables of AgentGateway (gateway/service.py): the write merges, *)
(* kept in memory under a lock and saved to one file through one temporary  *)
(* name, and the role claims of session.claim, kept in memory only.  The    *)
(* hub peers are saved and restored by the same steps.                      *)
(*                                                                         *)
(* A save is a snapshot under the lock, then open-and-truncate of the       *)
(* temporary file, the write, and the rename, with no lock.  A writer keeps *)
(* writing to the file it opened wherever a rename has put it since.        *)
(***************************************************************************)
EXTENDS Naturals, FiniteSets

CONSTANTS Keys,       \* (session, target_path) pairs
          Values,     \* artifact hashes
          Threads,    \* handler threads
          Runners,    \* owners of session.claim
          Nobody, Torn, Absent, \* no value; a file being written; no file
          MaxBoots,   \* gateway restarts
          MaxClock, Ttl

\* No file content is one of the marks for none, and no claim is.
ASSUME TableAssumption ==
    /\ Torn \notin [Keys -> Values \cup {Nobody}]
    /\ Absent \notin [Keys -> Values \cup {Nobody}] \cup {Torn}
    /\ Nobody \notin Values \cup [owner: Runners, until: Nat]
    /\ MaxBoots \in Nat /\ MaxClock \in Nat /\ Ttl \in 1 .. MaxClock

VARIABLES
    mem,        \* _merges: key -> value or Nobody
    json,       \* the saved file: a snapshot, or Torn while a writer is in it
    tmp,        \* the file under the temporary name: snapshot, Torn or Absent
    saver,      \* thread -> its save in progress
    accepted,   \* key -> values a caller was told are recorded, since the last reset
    overlapped, \* two saves have been in progress at once
    boots,      \* restarts so far
    claim,      \* _claims of one role: [owner, until] or Nobody
    told,       \* runner -> until when it was told it holds the role
    clock,
    forgotten   \* the claim table was lost or released without an owner

fileVars  == <<mem, json, tmp, saver, accepted, overlapped>>
claimVars == <<claim, told, clock, forgotten>>
tableVars == <<fileVars, claimVars, boots>>

Snapshot == [Keys -> Values \cup {Nobody}]
Empty    == [k \in Keys |-> Nobody]
Idle     == [at |-> "idle", snap |-> Empty, key |-> Nobody, file |-> "tmp"]

TablesTypeOK ==
    /\ mem \in Snapshot
    /\ json \in Snapshot \cup {Torn}
    /\ tmp \in Snapshot \cup {Torn, Absent}
    /\ saver \in [Threads -> [at: {"idle", "snap", "open", "write", "rename"}, snap: Snapshot,
                              key: Keys \cup {Nobody}, file: {"tmp", "json", "gone"}]]
    /\ accepted \in [Keys -> SUBSET Values]
    /\ overlapped \in BOOLEAN /\ forgotten \in BOOLEAN
    /\ boots \in 0 .. MaxBoots
    /\ claim \in [owner: Runners, until: Nat] \cup {Nobody}
    /\ told \in [Runners -> Nat]
    /\ clock \in 0 .. MaxClock

TablesInit ==
    /\ mem = Empty /\ json = Empty /\ tmp = Absent
    /\ saver = [t \in Threads |-> Idle]
    /\ accepted = [k \in Keys |-> {}]
    /\ overlapped = FALSE
    /\ boots = 0
    /\ claim = Nobody /\ told = [o \in Runners |-> 0] /\ clock = 0 /\ forgotten = FALSE

-----------------------------------------------------------------------------
(* write.merge and merge.reset: the change under the lock, then the save   *)

StartSave(t, k) ==
    /\ saver' = [saver EXCEPT ![t] = [at |-> "snap", snap |-> Empty, key |-> k, file |-> "tmp"]]
    /\ overlapped' = (overlapped \/ \E u \in Threads : saver[u].at # "idle")
    /\ UNCHANGED <<json, tmp, claimVars, boots>>

\* A recorded value is kept against another one; an equal one is merged again.
\* Mutant: the conflict is not asked.
MayMergeMut(k, v) == TRUE
MayMerge(k, v) == mem[k] \in {Nobody, v}

WriteMerge(t, k, v) ==
    /\ saver[t].at = "idle"
    /\ MayMerge(k, v)
    /\ mem' = [mem EXCEPT ![k] = v]
    /\ StartSave(t, k)
    /\ UNCHANGED accepted

MergeReset(t, k) ==
    /\ saver[t].at = "idle" /\ mem[k] # Nobody
    /\ mem' = [mem EXCEPT ![k] = Nobody]
    /\ accepted' = [accepted EXCEPT ![k] = {}]
    /\ StartSave(t, Nobody)

\* _save_merges, step by step.
TakeSnapshot(t) ==
    /\ saver[t].at = "snap"
    /\ saver' = [saver EXCEPT ![t].at = "open", ![t].snap = mem]
    /\ UNCHANGED <<mem, json, tmp, accepted, overlapped, claimVars, boots>>

OpenTmp(t) ==
    /\ saver[t].at = "open"
    /\ tmp' = Torn
    /\ saver' = [saver EXCEPT ![t].at = "write", ![t].file = "tmp"]
    /\ UNCHANGED <<mem, json, accepted, overlapped, claimVars, boots>>

WriteTmp(t) ==
    /\ saver[t].at = "write"
    /\ tmp'  = IF saver[t].file = "tmp" THEN saver[t].snap ELSE tmp
    /\ json' = IF saver[t].file = "json" THEN saver[t].snap ELSE json
    /\ saver' = [saver EXCEPT ![t].at = "rename"]
    /\ UNCHANGED <<mem, accepted, overlapped, claimVars, boots>>

\* os.replace; when another thread has taken the temporary file away the
\* OSError is logged.  Either way the caller is told merged.
Rename(t) ==
    /\ saver[t].at = "rename"
    /\ json' = IF tmp = Absent THEN json ELSE tmp
    /\ tmp' = Absent
    /\ saver' = [u \in Threads |->
          CASE u = t -> Idle
            [] u # t /\ saver[u].at \in {"write", "rename"} /\ tmp # Absent ->
                 [saver[u] EXCEPT !.file = IF @ = "tmp" THEN "json" ELSE "gone"]
            [] OTHER -> saver[u]]
    /\ accepted' = IF saver[t].key = Nobody THEN accepted
                   ELSE [accepted EXCEPT ![saver[t].key] =
                            @ \cup ({saver[t].snap[saver[t].key]} \ {Nobody})]
    /\ UNCHANGED <<mem, overlapped, claimVars, boots>>

-----------------------------------------------------------------------------
(* session.claim and session.release *)

\* Mutant: an expired claim is not needed to take a role over.
MayClaimMut(o) == TRUE
MayClaim(o) == claim # Nobody => (claim.owner = o \/ claim.until <= clock)

SessionClaim(o) ==
    /\ MayClaim(o)
    /\ claim' = [owner |-> o, until |-> clock + Ttl]
    /\ told' = [told EXCEPT ![o] = clock + Ttl]
    /\ UNCHANGED <<clock, forgotten, fileVars, boots>>

\* The owner gives up the role; a release without an owner drops any claim.
SessionRelease(o) ==
    /\ claim # Nobody
    /\ \/ claim.owner = o /\ told' = [told EXCEPT ![o] = 0] /\ UNCHANGED forgotten
       \/ forgotten' = TRUE /\ UNCHANGED told
    /\ claim' = Nobody
    /\ UNCHANGED <<clock, fileVars, boots>>

ClockTick ==
    /\ clock < MaxClock
    /\ clock' = clock + 1
    /\ UNCHANGED <<claim, told, forgotten, fileVars, boots>>

\* The sweep prunes what has expired.
PruneClaims ==
    /\ claim # Nobody /\ claim.until <= clock
    /\ claim' = Nobody
    /\ UNCHANGED <<told, clock, forgotten, fileVars, boots>>

-----------------------------------------------------------------------------
\* _restore_merges; a torn file restores nothing.
\* Mutant: nothing is restored.
RestoredMut == Empty
Restored == IF json = Torn THEN Empty ELSE json

Reboot ==
    /\ boots < MaxBoots
    /\ boots' = boots + 1
    /\ mem' = Restored
    /\ saver' = [t \in Threads |-> Idle]
    /\ claim' = Nobody
    /\ forgotten' = TRUE
    /\ UNCHANGED <<json, tmp, accepted, overlapped, told, clock>>

FileNext ==
    \E t \in Threads :
        \/ \E k \in Keys : MergeReset(t, k) \/ \E v \in Values : WriteMerge(t, k, v)
        \/ TakeSnapshot(t) \/ OpenTmp(t) \/ WriteTmp(t) \/ Rename(t)

ClaimNext ==
    \/ \E o \in Runners : SessionClaim(o) \/ SessionRelease(o)
    \/ ClockTick \/ PruneClaims

TablesNext == FileNext \/ ClaimNext \/ Reboot

TablesSpec == TablesInit /\ [][TablesNext]_tableVars

-----------------------------------------------------------------------------
(* Properties *)

\* As long as saves have not overlapped, two callers are never told that
\* different artifacts are merged at one path without a reset between, also
\* when the gateway restarts between or inside the saves
\* (service.py:2092-2150; overlapping saves are the exposed case: an older
\* snapshot may be renamed last).
SerialMergesSurvive ==
    ~overlapped => \A k \in Keys : Cardinality(accepted[k]) <= 1

\* Two runners never both believe they hold a role at one time unless the
\* gateway lost its claims in a restart or was asked to release the role
\* without naming its owner (service.py:2014-2067).
ClaimIsExclusive ==
    ~forgotten => \A o, p \in Runners :
        (told[o] > clock /\ told[p] > clock) => o = p

-----------------------------------------------------------------------------
(* The inductive invariants behind SerialMergesSurvive and ClaimIsExclusive *)

\* Saves that never overlapped: at most one is in progress, on a snapshot that
\* is still the table, and its temporary file is its own.
SerialSave ==
    ~overlapped =>
        /\ \A t, u \in Threads : (saver[t].at # "idle" /\ saver[u].at # "idle") => t = u
        /\ \A t \in Threads :
             /\ saver[t].at \in {"open", "write", "rename"} => saver[t].snap = mem
             /\ saver[t].at \in {"write", "rename"} => saver[t].file = "tmp"
             /\ saver[t].at = "rename" => tmp = mem

\* ... and a value somebody was told of is in the table and in the file, so
\* neither a merge nor a restart can contradict it.
ToldIsSaved ==
    ~overlapped =>
        /\ json # Torn
        /\ \A k \in Keys : \A v \in accepted[k] : mem[k] = v /\ json[k] = v

MergeInv == TablesTypeOK /\ SerialSave /\ ToldIsSaved

\* Who was told that it holds the role still has the claim.
ClaimInv ==
    /\ TablesTypeOK
    /\ ~forgotten => \A o \in Runners :
         told[o] > clock => claim = [owner |-> o, until |-> told[o]]
=============================================================================

--------------------------- MODULE GatewayProofs ---------------------------
(* Proofs about the gateway's runtime table, durable commands, saved merges *)
(* and role claims, for any callers, requests, keys and bounds.             *)
EXTENDS GatewayRuntime, GatewayCommands, GatewayTables, FiniteSetTheorems, TLAPS

\* A set whose elements are all equal to one value has at most one element.
LEMMA AtMostOne ==
  ASSUME NEW S, NEW x, \A y \in S : y = x
  PROVE  Cardinality(S) <= 1
<1>1. IsFiniteSet({x}) /\ Cardinality({x}) = 1 /\ S \subseteq {x}
  BY FS_Singleton
<1>. QED BY <1>1, FS_Subset

-----------------------------------------------------------------------------
(* Saved merges and role claims *)

\* The initial tables have their types.
LEMMA TablesInitType == TablesInit => TablesTypeOK
<1>. SUFFICES ASSUME TablesInit PROVE TablesTypeOK
  OBVIOUS
<1>. USE DEF TablesInit
<1>1. Empty \in Snapshot
  BY DEF Empty, Snapshot
<1>2. Idle \in [at: {"idle", "snap", "open", "write", "rename"}, snap: Snapshot,
                key: Keys \cup {Nobody}, file: {"tmp", "json", "gone"}]
  BY <1>1 DEF Idle
<1>3. overlapped \in BOOLEAN /\ forgotten \in BOOLEAN
  OBVIOUS
<1>. QED BY <1>1, <1>2, <1>3, TableAssumption DEF TablesTypeOK

\* What a thread does to its own save keeps the type of the saves.
LEMMA SaverType ==
  ASSUME TablesTypeOK
  PROVE  /\ Empty \in Snapshot
         /\ Idle \in [at: {"idle", "snap", "open", "write", "rename"}, snap: Snapshot,
                      key: Keys \cup {Nobody}, file: {"tmp", "json", "gone"}]
         /\ [t \in Threads |-> Idle] \in
              [Threads -> [at: {"idle", "snap", "open", "write", "rename"}, snap: Snapshot,
                           key: Keys \cup {Nobody}, file: {"tmp", "json", "gone"}]]
<1>1. Empty \in Snapshot
  BY DEF Empty, Snapshot
<1>. QED BY <1>1 DEF Idle

\* Every step of the tables keeps the types.
LEMMA TablesTypeStep == TablesTypeOK /\ [TablesNext]_tableVars => TablesTypeOK'
<1>. SUFFICES ASSUME TablesTypeOK, [TablesNext]_tableVars PROVE TablesTypeOK'
  OBVIOUS
<1>. USE DEF TablesTypeOK
<1>1. ASSUME NEW t \in Threads, NEW k \in Keys \cup {Nobody}, StartSave(t, k)
      PROVE  /\ saver' \in [Threads -> [at: {"idle", "snap", "open", "write", "rename"},
                              snap: Snapshot, key: Keys \cup {Nobody}, file: {"tmp", "json", "gone"}]]
             /\ overlapped' \in BOOLEAN
  <2>2. [at |-> "snap", snap |-> Empty, key |-> k, file |-> "tmp"] \in
          [at: {"idle", "snap", "open", "write", "rename"}, snap: Snapshot,
           key: Keys \cup {Nobody}, file: {"tmp", "json", "gone"}]
    BY SaverType
  <2>3. saver' = [saver EXCEPT ![t] = [at |-> "snap", snap |-> Empty, key |-> k, file |-> "tmp"]]
    BY <1>1 DEF StartSave
  <2>4. overlapped' \in BOOLEAN
    BY <1>1 DEF StartSave
  <2>. QED BY <2>2, <2>3, <2>4
<1>2. ASSUME NEW t \in Threads, NEW k \in Keys, NEW v \in Values, WriteMerge(t, k, v)
      PROVE  TablesTypeOK'
  <2>1. mem' \in Snapshot
    BY <1>2 DEF WriteMerge, Snapshot
  <2>. QED BY <1>1, <1>2, <2>1 DEF WriteMerge, StartSave, claimVars
<1>3. ASSUME NEW t \in Threads, NEW k \in Keys, MergeReset(t, k)
      PROVE  TablesTypeOK'
  <2>1. mem' \in Snapshot /\ accepted' \in [Keys -> SUBSET Values]
    BY <1>3 DEF MergeReset, Snapshot
  <2>. QED BY <1>1, <1>3, <2>1 DEF MergeReset, StartSave, claimVars
<1>4. ASSUME NEW t \in Threads, TakeSnapshot(t) PROVE TablesTypeOK'
  BY <1>4 DEF TakeSnapshot, claimVars
<1>5. ASSUME NEW t \in Threads, OpenTmp(t) PROVE TablesTypeOK'
  BY <1>5 DEF OpenTmp, claimVars
<1>6. ASSUME NEW t \in Threads, WriteTmp(t) PROVE TablesTypeOK'
  BY <1>6 DEF WriteTmp, claimVars
<1>7. ASSUME NEW t \in Threads, Rename(t) PROVE TablesTypeOK'
  <2>1. saver' \in [Threads -> [at: {"idle", "snap", "open", "write", "rename"},
                      snap: Snapshot, key: Keys \cup {Nobody}, file: {"tmp", "json", "gone"}]]
    BY <1>7, SaverType DEF Rename
  <2>2. accepted' \in [Keys -> SUBSET Values]
    <3>1. saver[t].key # Nobody => saver[t].key \in Keys /\ saver[t].snap[saver[t].key] \in Values \cup {Nobody}
      BY DEF Snapshot
    <3>. QED BY <1>7, <3>1 DEF Rename
  <2>3. json' \in Snapshot \cup {Torn} /\ tmp' \in Snapshot \cup {Torn, Absent}
    BY <1>7 DEF Rename
  <2>. QED BY <1>7, <2>1, <2>2, <2>3 DEF Rename, claimVars
<1>8. CASE ClaimNext
  <2>1. ASSUME NEW o \in Runners, SessionClaim(o) PROVE TablesTypeOK'
    BY <2>1, TableAssumption DEF SessionClaim, fileVars
  <2>2. ASSUME NEW o \in Runners, SessionRelease(o) PROVE TablesTypeOK'
    <3>1. forgotten' \in BOOLEAN
      BY <2>2, Zenon DEF SessionRelease
    <3>2. told' \in [Runners -> Nat]
      BY <2>2 DEF SessionRelease
    <3>. QED BY <2>2, <3>1, <3>2 DEF SessionRelease, fileVars
  <2>3. CASE ClockTick
    BY <2>3, TableAssumption DEF ClockTick, fileVars
  <2>4. CASE PruneClaims
    BY <2>4 DEF PruneClaims, fileVars
  <2>. QED BY <1>8, <2>1, <2>2, <2>3, <2>4 DEF ClaimNext
<1>9. CASE Reboot
  <2>1. Restored \in Snapshot
    BY SaverType DEF Restored
  <2>2. boots' \in 0 .. MaxBoots
    BY <1>9, TableAssumption DEF Reboot
  <2>. QED BY <1>9, <2>1, <2>2, SaverType DEF Reboot
<1>10. CASE UNCHANGED tableVars
  BY <1>10 DEF tableVars, fileVars, claimVars
<1>. QED BY <1>2, <1>3, <1>4, <1>5, <1>6, <1>7, <1>8, <1>9, <1>10 DEF TablesNext, FileNext

\* A step keeps that a runner which was told it holds the role has the claim.
LEMMA ClaimStep == ClaimInv /\ [TablesNext]_tableVars => ClaimInv'
<1>. SUFFICES ASSUME ClaimInv, [TablesNext]_tableVars PROVE ClaimInv'
  OBVIOUS
<1>. USE DEF ClaimInv
<1>0. TablesTypeOK'
  BY TablesTypeStep
<1>1. ASSUME NEW o \in Runners, SessionClaim(o) PROVE ClaimInv'
  <2>. SUFFICES ASSUME ~forgotten', NEW p \in Runners, told'[p] > clock'
                PROVE  claim' = [owner |-> p, until |-> told'[p]]
    BY <1>0
  <2>1. CASE p = o
    BY <1>1, <2>1 DEF SessionClaim, TablesTypeOK
  <2>2. CASE p # o
    <3>1. claim = [owner |-> p, until |-> told[p]] /\ told[p] > clock /\ told[p] \in Nat /\ clock \in Nat
      BY <1>1, <2>2 DEF SessionClaim, TablesTypeOK
    <3>2. claim # Nobody
      BY <3>1, TableAssumption
    <3>. QED BY <1>1, <2>2, <3>1, <3>2 DEF SessionClaim, MayClaim
  <2>. QED BY <2>1, <2>2
<1>2. ASSUME NEW o \in Runners, SessionRelease(o) PROVE ClaimInv'
  BY <1>0, <1>2, TableAssumption DEF SessionRelease, TablesTypeOK
<1>3. CASE ClockTick
  BY <1>0, <1>3 DEF ClockTick, TablesTypeOK
<1>4. CASE PruneClaims
  BY <1>0, <1>4 DEF PruneClaims, TablesTypeOK
<1>5. CASE Reboot
  BY <1>0, <1>5 DEF Reboot
<1>6. CASE UNCHANGED claimVars
  BY <1>0, <1>6 DEF claimVars
<1>7. CASE FileNext
  BY <1>6, <1>7 DEF FileNext, MergeReset, WriteMerge, StartSave, TakeSnapshot, OpenTmp, WriteTmp, Rename
<1>. QED BY <1>1, <1>2, <1>3, <1>4, <1>5, <1>6, <1>7 DEF TablesNext, ClaimNext, tableVars

\* Two runners never both believe that they hold a role, for any number of
\* runners, any clock and lifetime, unless the gateway forgot its claims.
THEOREM RoleHasOneOwner == TablesSpec => []ClaimIsExclusive
<1>1. TablesInit => ClaimInv
  <2>1. TablesInit => TablesTypeOK
    BY TablesInitType
  <2>. QED BY <2>1 DEF TablesInit, ClaimInv
<1>2. ClaimInv => ClaimIsExclusive
  BY DEF ClaimInv, ClaimIsExclusive
<1>. QED BY <1>1, <1>2, ClaimStep, PTL DEF TablesSpec

\* A save that starts while no other is in progress keeps saves serial.
LEMMA StartSerial ==
  ASSUME TablesTypeOK, NEW t \in Threads, NEW k, StartSave(t, k)
  PROVE  /\ SerialSave'
         /\ ~overlapped' => ~overlapped
<1>. SUFFICES ASSUME ~overlapped'
              PROVE  SerialSave' /\ ~overlapped
  BY DEF SerialSave
<1>1. ~overlapped /\ \A u \in Threads : saver[u].at = "idle"
  BY DEF StartSave
<1>2. saver'[t].at = "snap" /\ \A u \in Threads : u # t => saver'[u] = saver[u]
  BY DEF StartSave, TablesTypeOK
<1>. QED BY <1>1, <1>2 DEF SerialSave

\* Every step keeps what is known of saves that never overlapped.
LEMMA MergeStep == MergeInv /\ [TablesNext]_tableVars => MergeInv'
<1>. SUFFICES ASSUME MergeInv, [TablesNext]_tableVars PROVE MergeInv'
  OBVIOUS
<1>. USE DEF MergeInv
<1>0. TablesTypeOK'
  BY TablesTypeStep
<1>1. ASSUME NEW t \in Threads, NEW k \in Keys, NEW v \in Values, WriteMerge(t, k, v)
      PROVE  MergeInv'
  <2>1. SerialSave' /\ (~overlapped' => ~overlapped)
    BY <1>1, StartSerial DEF WriteMerge
  <2>2. ToldIsSaved'
    BY <1>1, <2>1, TableAssumption DEF WriteMerge, MayMerge, StartSave, ToldIsSaved, TablesTypeOK, Snapshot
  <2>. QED BY <1>0, <2>1, <2>2
<1>2. ASSUME NEW t \in Threads, NEW k \in Keys, MergeReset(t, k)
      PROVE  MergeInv'
  <2>1. SerialSave' /\ (~overlapped' => ~overlapped)
    BY <1>2, StartSerial DEF MergeReset
  <2>2. ToldIsSaved'
    BY <1>2, <2>1 DEF MergeReset, StartSave, ToldIsSaved, TablesTypeOK, Snapshot
  <2>. QED BY <1>0, <2>1, <2>2
<1>3. ASSUME NEW t \in Threads, TakeSnapshot(t) PROVE MergeInv'
  <2>1. /\ saver'[t].at = "open" /\ saver'[t].snap = mem
        /\ \A u \in Threads : u # t => saver'[u] = saver[u]
    BY <1>3 DEF TakeSnapshot, TablesTypeOK
  <2>. QED BY <1>0, <1>3, <2>1 DEF TakeSnapshot, SerialSave, ToldIsSaved
<1>4. ASSUME NEW t \in Threads, OpenTmp(t) PROVE MergeInv'
  <2>1. /\ saver'[t].at = "write" /\ saver'[t].snap = saver[t].snap /\ saver'[t].file = "tmp"
        /\ \A u \in Threads : u # t => saver'[u] = saver[u]
    BY <1>4 DEF OpenTmp, TablesTypeOK
  <2>. QED BY <1>0, <1>4, <2>1 DEF OpenTmp, SerialSave, ToldIsSaved
<1>5. ASSUME NEW t \in Threads, WriteTmp(t) PROVE MergeInv'
  <2>1. /\ saver'[t].at = "rename" /\ saver'[t].snap = saver[t].snap
        /\ saver'[t].file = saver[t].file
        /\ \A u \in Threads : u # t => saver'[u] = saver[u]
    BY <1>5 DEF WriteTmp, TablesTypeOK
  <2>2. ~overlapped => saver[t].file = "tmp" /\ saver[t].snap = mem
    BY <1>5 DEF WriteTmp, SerialSave
  <2>. QED BY <1>0, <1>5, <2>1, <2>2 DEF WriteTmp, SerialSave, ToldIsSaved
<1>6. ASSUME NEW t \in Threads, Rename(t) PROVE MergeInv'
  <2>. SUFFICES ASSUME ~overlapped'
                PROVE  SerialSave' /\ ToldIsSaved'
    BY <1>0 DEF SerialSave, ToldIsSaved
  <2>1. /\ ~overlapped /\ saver[t].at = "rename" /\ saver[t].snap = mem /\ tmp = mem
        /\ \A u \in Threads : u # t => saver[u].at = "idle"
    BY <1>6 DEF Rename, SerialSave
  <2>2. mem' = mem /\ json' = mem /\ mem # Torn
    BY <1>6, <2>1, TableAssumption DEF Rename, TablesTypeOK, Snapshot
  <2>3. \A u \in Threads : saver'[u].at = "idle"
    BY <1>6, <2>1 DEF Rename, Idle
  <2>4. \A k \in Keys : \A v \in accepted'[k] : v \in accepted[k] \/ v = mem[k]
    BY <1>6, <2>1 DEF Rename, TablesTypeOK
  <2>5. ToldIsSaved'
    BY <2>1, <2>2, <2>4 DEF ToldIsSaved
  <2>. QED BY <2>3, <2>5 DEF SerialSave
<1>7. CASE Reboot
  <2>1. \A t \in Threads : saver'[t].at = "idle"
    BY <1>7 DEF Reboot, Idle
  <2>2. SerialSave'
    BY <2>1 DEF SerialSave
  <2>3. ToldIsSaved'
    BY <1>7 DEF Reboot, Restored, ToldIsSaved
  <2>. QED BY <1>0, <2>2, <2>3
<1>8. CASE UNCHANGED fileVars
  BY <1>0, <1>8 DEF fileVars, SerialSave, ToldIsSaved
<1>9. CASE ClaimNext
  BY <1>8, <1>9 DEF ClaimNext, SessionClaim, SessionRelease, ClockTick, PruneClaims
<1>. QED BY <1>1, <1>2, <1>3, <1>4, <1>5, <1>6, <1>7, <1>8, <1>9 DEF TablesNext, FileNext, tableVars

\* Callers are never told of two artifacts at one path without a reset between,
\* for any keys, threads and restarts, as long as saves do not overlap.
THEOREM MergesSurvive == TablesSpec => []SerialMergesSurvive
<1>1. TablesInit => MergeInv
  <2>. SUFFICES ASSUME TablesInit PROVE MergeInv
    OBVIOUS
  <2>1. TablesTypeOK
    BY TablesInitType
  <2>2. SerialSave
    BY DEF TablesInit, SerialSave, Idle
  <2>3. ToldIsSaved
    BY TableAssumption DEF TablesInit, ToldIsSaved, Empty
  <2>. QED BY <2>1, <2>2, <2>3 DEF MergeInv
<1>2. MergeInv => SerialMergesSurvive
  <2>1. ASSUME MergeInv, ~overlapped, NEW k \in Keys PROVE Cardinality(accepted[k]) <= 1
    <3>1. \A v \in accepted[k] : v = mem[k]
      BY <2>1 DEF MergeInv, ToldIsSaved
    <3>. QED BY <3>1, AtMostOne
  <2>. QED BY <2>1 DEF SerialMergesSurvive
<1>. QED BY <1>1, <1>2, MergeStep, PTL DEF TablesSpec

\* The merge table, its file and the claims keep their types.
THEOREM TablesTypes == TablesSpec => []TablesTypeOK
BY TablesInitType, TablesTypeStep, PTL DEF TablesSpec

-----------------------------------------------------------------------------
(* Durable commands *)

\* update_command on a row that exists writes its state and nothing else.
LEMMA UpdateRow ==
  ASSUME CommandTypeOK, NEW q \in Requests, NEW state \in States, cmd[q] # Nil,
         UpdateCommand(q, state)
  PROVE  /\ cmd' \in [Requests -> [state: States, body: Bodies] \cup {Nil}]
         /\ cmd'[q] # Nil /\ cmd'[q].state = state /\ cmd'[q].body = cmd[q].body
         /\ \A p \in Requests : p # q => cmd'[p] = cmd[p]
<1>1. cmd[q] \in [state: States, body: Bodies]
  BY DEF CommandTypeOK
<1>2. cmd'[q] = [cmd[q] EXCEPT !.state = state] /\ \A p \in Requests : p # q => cmd'[p] = cmd[p]
  BY DEF UpdateCommand, CommandTypeOK
<1>3. cmd'[q] \in [state: States, body: Bodies] /\ cmd'[q].state = state /\ cmd'[q].body = cmd[q].body
  BY <1>1, <1>2
<1>4. cmd' \in [Requests -> [state: States, body: Bodies] \cup {Nil}]
  BY <1>3 DEF UpdateCommand, CommandTypeOK
<1>. QED BY <1>2, <1>3, <1>4, CommandAssumption

\* Updating rows leaves what the other parts of the invariant say, as long
\* as nobody moves forward in its call and no message is mailed.
LEMMA UpdateInv ==
  ASSUME CommandInv, NEW q \in Requests, NEW state \in States, cmd[q] # Nil,
         UpdateCommand(q, state), state = "TURN_TRIGGERED" => plugin[q] = "turned",
         pc' \in [Senders -> Steps],
         job' \in [Senders -> [req: Requests, body: Bodies] \cup {Nil}],
         \A s \in Senders : pc'[s] # "idle" =>
            /\ pc[s] # "idle" /\ job'[s] = job[s] /\ (pc'[s] \in Inserted => pc[s] \in Inserted)
            /\ pc'[s] \in {"backend", "mailbox"} => pc[s] \in {"backend", "mailbox"},
         ack' \in [Channels -> [req: Requests, from: States, to: States] \cup {Nil}],
         \A c \in Channels : ack'[c] # Nil => ack'[c] = ack[c],
         UNCHANGED <<mail, plugin, crashes>>
  PROVE  CommandInv'
<1>. USE DEF CommandInv
<1>1. /\ cmd' \in [Requests -> [state: States, body: Bodies] \cup {Nil}]
      /\ cmd'[q] # Nil /\ cmd'[q].state = state /\ cmd'[q].body = cmd[q].body
      /\ \A p \in Requests : p # q => cmd'[p] = cmd[p]
  BY UpdateRow
<1>2. CommandTypeOK'
  BY <1>1 DEF CommandTypeOK
<1>3. CallHasJob'
  BY DEF CallHasJob
<1>4. \A p \in Requests : cmd[p] # Nil => cmd'[p] # Nil /\ cmd'[p].body = cmd[p].body
  BY <1>1
<1>5. OwnsRow'
  <2>. SUFFICES ASSUME NEW s \in Senders, pc'[s] \in Inserted
                PROVE  /\ cmd'[job'[s].req] # Nil /\ cmd'[job'[s].req].body = job'[s].body
                       /\ \A t \in Senders : (pc'[t] \in Inserted /\ job'[t].req = job'[s].req) => t = s
                       /\ pc'[s] \in {"backend", "mailbox"} => mail'[job'[s].req] = {}
    BY DEF OwnsRow
  <2>1. "idle" \notin Inserted
    BY DEF Inserted
  <2>2. pc[s] \in Inserted /\ job'[s] = job[s] /\ job[s].req \in Requests
    BY <2>1 DEF CallHasJob
  <2>3. \A t \in Senders : pc'[t] \in Inserted => pc[t] \in Inserted /\ job'[t] = job[t]
    BY <2>1
  <2>. QED BY <1>4, <2>1, <2>2, <2>3 DEF OwnsRow
<1>6. MailHasRow'
  BY <1>4 DEF MailHasRow, CommandTypeOK
<1>7. AckIsTrue' /\ TriggeredIsConfirmed'
  BY <1>1 DEF AckIsTrue, TriggeredIsConfirmed
<1>. QED BY <1>2, <1>3, <1>5, <1>6, <1>7

\* A sender that goes on, or returns, keeps the types of the calls.
LEMMA SenderMoves ==
  ASSUME CommandTypeOK, NEW s \in Senders, NEW step \in Steps, Goto(s, step) \/ Return(s)
  PROVE  /\ pc' \in [Senders -> Steps]
         /\ job' \in [Senders -> [req: Requests, body: Bodies] \cup {Nil}]
         /\ \A t \in Senders : t # s => pc'[t] = pc[t] /\ job'[t] = job[t]
         /\ pc'[s] = "idle" \/ (pc'[s] = step /\ job'[s] = job[s])
<1>1. CASE Goto(s, step)
  BY <1>1 DEF Goto, CommandTypeOK
<1>2. CASE Return(s)
  BY <1>2 DEF Return, CommandTypeOK, Steps
<1>. QED BY <1>1, <1>2

\* A step that only moves a sender without a mail or an insert keeps the
\* invariant.
LEMMA MoveOnly ==
  ASSUME CommandInv, UNCHANGED <<cmd, mail, plugin, crashes>>,
         pc' \in [Senders -> Steps],
         job' \in [Senders -> [req: Requests, body: Bodies] \cup {Nil}],
         \A s \in Senders : pc'[s] # "idle" =>
            /\ job'[s] \in [req: Requests, body: Bodies]
            /\ pc'[s] \in Inserted => pc[s] \in Inserted /\ job'[s] = job[s]
            /\ pc'[s] \in {"backend", "mailbox"} => pc[s] \in {"backend", "mailbox"},
         ack' \in [Channels -> [req: Requests, from: States, to: States] \cup {Nil}],
         \A c \in Channels : ack'[c] # Nil => ack'[c] = ack[c]
  PROVE  CommandInv'
<1>. USE DEF CommandInv
<1>1. CommandTypeOK'
  BY DEF CommandTypeOK
<1>2. CallHasJob'
  BY DEF CallHasJob
<1>3. OwnsRow'
  <2>1. "idle" \notin Inserted
    BY DEF Inserted
  <2>. QED BY <2>1 DEF OwnsRow
<1>4. MailHasRow' /\ AckIsTrue' /\ TriggeredIsConfirmed'
  BY DEF MailHasRow, AckIsTrue, TriggeredIsConfirmed
<1>. QED BY <1>1, <1>2, <1>3, <1>4

\* Every step of the commands keeps the invariant.
LEMMA CommandStep == CommandInv /\ [CommandNext]_cmdVars => CommandInv'
<1>. SUFFICES ASSUME CommandInv, [CommandNext]_cmdVars PROVE CommandInv'
  OBVIOUS
<1>. USE DEF CommandInv
<1>0. /\ ack \in [Channels -> [req: Requests, from: States, to: States] \cup {Nil}]
      /\ pc \in [Senders -> Steps]
      /\ job \in [Senders -> [req: Requests, body: Bodies] \cup {Nil}]
      /\ \A s \in Senders : pc[s] # "idle" => job[s].req \in Requests
      /\ \A s \in Senders : pc[s] \in Inserted => cmd[job[s].req] # Nil /\ job[s].req \in Requests
      /\ "idle" \notin Inserted
  BY DEF CommandTypeOK, CallHasJob, OwnsRow, Inserted
<1>1. ASSUME NEW s \in Senders, Send(s) PROVE CommandInv'
  <2>1. PICK q \in Requests, b \in Bodies :
          pc' = [pc EXCEPT ![s] = "enqueue"] /\ job' = [job EXCEPT ![s] = [req |-> q, body |-> b]]
    BY <1>1 DEF Send
  <2>2. pc' \in [Senders -> Steps] /\ job' \in [Senders -> [req: Requests, body: Bodies] \cup {Nil}]
    BY <1>0, <2>1 DEF Steps
  <2>3. /\ pc'[s] = "enqueue" /\ job'[s] \in [req: Requests, body: Bodies]
        /\ \A t \in Senders : t # s => pc'[t] = pc[t] /\ job'[t] = job[t]
    BY <1>0, <2>1
  <2>4. \A t \in Senders : pc'[t] # "idle" =>
            /\ job'[t] \in [req: Requests, body: Bodies]
            /\ pc'[t] \in Inserted => pc[t] \in Inserted /\ job'[t] = job[t]
            /\ pc'[t] \in {"backend", "mailbox"} => pc[t] \in {"backend", "mailbox"}
    BY <2>3 DEF CallHasJob, Inserted
  <2>. QED BY <1>0, <1>1, <2>2, <2>4, MoveOnly DEF Send
<1>2. ASSUME NEW s \in Senders, Enqueue(s) PROVE CommandInv'
  <2>. DEFINE q == job[s].req
  <2>0. pc[s] = "enqueue" /\ q \in Requests /\ job[s].body \in Bodies /\ "backend" \in Steps
        /\ UNCHANGED <<mail, plugin, ack, crashes>>
    BY <1>2 DEF Enqueue, CallHasJob, Steps
  <2>1. CASE cmd[q] # Nil
    <3>1. UNCHANGED cmd /\ Return(s)
      BY <1>2, <2>1 DEF Enqueue
    <3>2. /\ pc' \in [Senders -> Steps]
          /\ job' \in [Senders -> [req: Requests, body: Bodies] \cup {Nil}]
          /\ pc'[s] = "idle" /\ \A t \in Senders : t # s => pc'[t] = pc[t] /\ job'[t] = job[t]
      BY <2>0, <3>1, SenderMoves DEF Return, CommandTypeOK
    <3>. QED BY <1>0, <2>0, <3>1, <3>2, MoveOnly DEF CallHasJob
  <2>2. CASE cmd[q] = Nil
    <3>1. cmd' = [cmd EXCEPT ![q] = [state |-> "QUEUED", body |-> job[s].body]] /\ Goto(s, "backend")
      BY <1>2, <2>2 DEF Enqueue
    <3>2. /\ cmd' \in [Requests -> [state: States, body: Bodies] \cup {Nil}]
          /\ cmd'[q] # Nil /\ cmd'[q].body = job[s].body /\ cmd'[q].state = "QUEUED"
          /\ \A p \in Requests : p # q => cmd'[p] = cmd[p]
      <4>1. [state |-> "QUEUED", body |-> job[s].body] \in [state: States, body: Bodies]
        BY <2>0 DEF States
      <4>2. [state |-> "QUEUED", body |-> job[s].body] # Nil
        BY <4>1, CommandAssumption
      <4>. QED BY <2>0, <3>1, <4>1, <4>2 DEF CommandTypeOK
    <3>3. /\ pc' \in [Senders -> Steps] /\ job' = job /\ pc'[s] = "backend"
          /\ \A t \in Senders : t # s => pc'[t] = pc[t]
      BY <2>0, <3>1, SenderMoves DEF Goto, CommandTypeOK
    <3>4. mail[q] = {} /\ \A t \in Senders : pc[t] \in Inserted => job[t].req # q
      BY <1>0, <2>0, <2>2 DEF MailHasRow
    <3>5. CommandTypeOK' /\ CallHasJob'
      BY <2>0, <3>2, <3>3 DEF CommandTypeOK, CallHasJob
    <3>6. OwnsRow'
      BY <1>0, <2>0, <3>2, <3>3, <3>4 DEF OwnsRow
    <3>7. MailHasRow'
      BY <2>0, <2>2, <3>2, <3>4 DEF MailHasRow, CommandTypeOK
    <3>8. AckIsTrue' /\ TriggeredIsConfirmed'
      BY <2>0, <3>2 DEF AckIsTrue, TriggeredIsConfirmed
    <3>. QED BY <3>5, <3>6, <3>7, <3>8
  <2>. QED BY <2>1, <2>2
<1>3. ASSUME NEW s \in Senders, NEW from \in Inserted, NEW step \in Inserted,
             NEW state \in States, pc[s] = from,
             step \in {"backend", "mailbox"} => from \in {"backend", "mailbox"},
             UpdateCommand(job[s].req, state), state # "TURN_TRIGGERED",
             Goto(s, step) \/ Return(s), UNCHANGED <<mail, plugin, ack, crashes>>
      PROVE  CommandInv'
  <2>0. step \in Steps /\ pc[s] # "idle"
    BY <1>3 DEF Inserted, Steps
  <2>1. /\ pc' \in [Senders -> Steps]
        /\ job' \in [Senders -> [req: Requests, body: Bodies] \cup {Nil}]
        /\ \A t \in Senders : t # s => pc'[t] = pc[t] /\ job'[t] = job[t]
        /\ pc'[s] = "idle" \/ (pc'[s] = step /\ job'[s] = job[s])
    BY <1>3, <2>0, SenderMoves
  <2>. QED BY <1>0, <1>3, <2>0, <2>1, UpdateInv
<1>4. ASSUME NEW s \in Senders, NEW from \in Inserted, NEW step \in Inserted, pc[s] = from,
             step \in {"backend", "mailbox"} => from \in {"backend", "mailbox"},
             Goto(s, step) \/ Return(s), UNCHANGED <<cmd, mail, plugin, ack, crashes>>
      PROVE  CommandInv'
  <2>0. step \in Steps /\ pc[s] # "idle" /\ job[s] \in [req: Requests, body: Bodies]
    BY <1>4 DEF Inserted, Steps, CallHasJob
  <2>1. /\ pc' \in [Senders -> Steps]
        /\ job' \in [Senders -> [req: Requests, body: Bodies] \cup {Nil}]
        /\ \A t \in Senders : t # s => pc'[t] = pc[t] /\ job'[t] = job[t]
        /\ pc'[s] = "idle" \/ (pc'[s] = step /\ job'[s] = job[s])
    BY <1>4, <2>0, SenderMoves
  <2>. QED BY <1>0, <1>4, <2>0, <2>1, MoveOnly DEF CallHasJob
<1>5. ASSUME NEW s \in Senders, CheckBackend(s) PROVE CommandInv'
  <2>. USE DEF Inserted, States
  <2>. QED BY <1>5, <1>3, <1>4 DEF CheckBackend
<1>6. ASSUME NEW s \in Senders, Mail(s) PROVE CommandInv'
  <2>0. /\ pc[s] = "mailbox" /\ UNCHANGED <<plugin, ack, crashes>>
        /\ "mailbox" \in Inserted /\ "persisted" \in Inserted /\ "FAILED_SAFE" \in States
    BY <1>6 DEF Mail, Inserted, States
  <2>1. CASE UpdateCommand(job[s].req, "FAILED_SAFE") /\ Return(s) /\ UNCHANGED mail
    BY <1>3, <2>0, <2>1
  <2>2. CASE /\ mail' = [mail EXCEPT ![job[s].req] = @ \cup {[body |-> job[s].body, by |-> s]}]
             /\ Goto(s, "persisted") /\ UNCHANGED cmd
    <3>. DEFINE q == job[s].req
                m == [body |-> job[s].body, by |-> s]
    <3>0. job[s] \in [req: Requests, body: Bodies] /\ q \in Requests /\ "persisted" \in Steps
          /\ cmd[q] # Nil /\ cmd[q].body = job[s].body /\ mail[q] = {}
          /\ m \in [body: Bodies, by: Senders] /\ m.body = job[s].body
      BY <1>0, <2>0 DEF CallHasJob, OwnsRow, Steps
    <3>1. /\ mail' \in [Requests -> SUBSET [body: Bodies, by: Senders]]
          /\ mail'[q] = {m} /\ \A p \in Requests : p # q => mail'[p] = mail[p]
      BY <2>2, <3>0 DEF CommandTypeOK
    <3>2. /\ pc' \in [Senders -> Steps] /\ job' = job /\ pc'[s] = "persisted"
          /\ \A t \in Senders : t # s => pc'[t] = pc[t]
      BY <2>2, <3>0, SenderMoves DEF Goto, CommandTypeOK
    <3>3. CommandTypeOK' /\ CallHasJob'
      BY <2>0, <2>2, <3>0, <3>1, <3>2 DEF CommandTypeOK, CallHasJob
    <3>. HIDE DEF q, m
    <3>4. OwnsRow'
      <4>0. q = job[s].req
        BY DEF q
      <4>. SUFFICES ASSUME NEW t \in Senders, pc'[t] \in Inserted
                    PROVE  /\ cmd'[job'[t].req] # Nil /\ cmd'[job'[t].req].body = job'[t].body
                           /\ \A u \in Senders : (pc'[u] \in Inserted /\ job'[u].req = job'[t].req) => u = t
                           /\ pc'[t] \in {"backend", "mailbox"} => mail'[job'[t].req] = {}
        BY DEF OwnsRow
      <4>1. \A u \in Senders : pc'[u] \in Inserted => pc[u] \in Inserted
        BY <2>0, <3>2
      <4>2. pc'[t] \in {"backend", "mailbox"} => pc[t] = pc'[t] /\ t # s /\ job[t].req # q
        BY <2>0, <3>2, <4>0, <4>1 DEF OwnsRow
      <4>. QED BY <1>0, <2>2, <3>1, <3>2, <4>1, <4>2 DEF OwnsRow
    <3>5. MailHasRow'
      BY <2>0, <2>2, <3>0, <3>1 DEF MailHasRow
    <3>6. AckIsTrue' /\ TriggeredIsConfirmed'
      BY <2>0, <2>2 DEF AckIsTrue, TriggeredIsConfirmed
    <3>. QED BY <3>3, <3>4, <3>5, <3>6
  <2>. QED BY <1>6, <2>1, <2>2 DEF Mail
<1>7. ASSUME NEW s \in Senders, Persisted(s) \/ Gate(s) \/ Revive(s) PROVE CommandInv'
  <2>. USE DEF Inserted, States
  <2>1. CASE Persisted(s)
    BY <2>1, <1>3 DEF Persisted
  <2>2. CASE Gate(s)
    BY <2>2, <1>3, <1>4 DEF Gate
  <2>3. CASE Revive(s)
    BY <2>3, <1>3 DEF Revive
  <2>. QED BY <1>7, <2>1, <2>2, <2>3
<1>8. ASSUME NEW q \in Requests, PluginTakes(q) \/ PluginTurns(q) PROVE CommandInv'
  <2>1. /\ plugin' \in [Requests -> {"none", "has", "turned"}]
        /\ \A p \in Requests : plugin[p] = "turned" => plugin'[p] = "turned"
        /\ UNCHANGED <<cmd, mail, pc, job, ack, crashes>>
    BY <1>8 DEF PluginTakes, PluginTurns, CommandTypeOK
  <2>2. AckIsTrue' /\ TriggeredIsConfirmed'
    BY <2>1 DEF AckIsTrue, TriggeredIsConfirmed, CommandTypeOK
  <2>. QED BY <2>1, <2>2 DEF CommandTypeOK, CallHasJob, OwnsRow, MailHasRow
<1>9. ASSUME NEW c \in Channels, AckRead(c) PROVE CommandInv'
  <2>0. PICK q \in Requests : \E to \in Reports(q) :
          cmd[q] # Nil /\ ack' = [ack EXCEPT ![c] = [req |-> q, from |-> cmd[q].state, to |-> to]]
    BY <1>9 DEF AckRead
  <2>1. PICK to \in Reports(q) :
          cmd[q] # Nil /\ ack' = [ack EXCEPT ![c] = [req |-> q, from |-> cmd[q].state, to |-> to]]
    BY <2>0
  <2>2. to \in States /\ cmd[q].state \in States /\ (to = "TURN_TRIGGERED" => plugin[q] = "turned")
    <3>1. to \in States /\ (to = "TURN_TRIGGERED" => plugin[q] = "turned")
      BY DEF Reports, States
    <3>2. cmd[q] \in [state: States, body: Bodies]
      BY <2>1 DEF CommandTypeOK
    <3>. QED BY <3>1, <3>2
  <2>3. /\ ack' \in [Channels -> [req: Requests, from: States, to: States] \cup {Nil}]
        /\ ack'[c].req = q /\ ack'[c].to = to /\ \A d \in Channels : d # c => ack'[d] = ack[d]
    BY <1>0, <2>1, <2>2
  <2>4. UNCHANGED <<cmd, mail, plugin, pc, job, crashes>>
    BY <1>9 DEF AckRead
  <2>5. MailHasRow' /\ AckIsTrue'
    BY <2>1, <2>2, <2>3, <2>4 DEF MailHasRow, AckIsTrue
  <2>. QED BY <2>3, <2>4, <2>5 DEF CommandTypeOK, CallHasJob, OwnsRow, TriggeredIsConfirmed
<1>10. ASSUME NEW c \in Channels, AckWrite(c) PROVE CommandInv'
  <2>1. /\ ack[c] # Nil /\ UpdateCommand(ack[c].req, ack[c].to) /\ ack' = [ack EXCEPT ![c] = Nil]
        /\ UNCHANGED <<mail, plugin, pc, job, crashes>>
    BY <1>10 DEF AckWrite
  <2>2. ack[c].req \in Requests /\ ack[c].to \in States
    BY <1>0, <2>1
  <2>3. cmd[ack[c].req] # Nil /\ (ack[c].to = "TURN_TRIGGERED" => plugin[ack[c].req] = "turned")
    BY <2>1 DEF MailHasRow, AckIsTrue
  <2>4. /\ ack' \in [Channels -> [req: Requests, from: States, to: States] \cup {Nil}]
        /\ \A d \in Channels : ack'[d] # Nil => ack'[d] = ack[d]
    BY <1>0, <2>1
  <2>. QED BY <1>0, <2>1, <2>2, <2>3, <2>4, UpdateInv
<1>11. CASE GatewayCrash
  <2>1. crashes' \in 0 .. MaxCrashes
    BY <1>11, CommandAssumption DEF GatewayCrash, CommandTypeOK
  <2>2. CommandTypeOK'
    BY <1>11, <2>1 DEF GatewayCrash, CommandTypeOK, Steps
  <2>. QED BY <1>0, <1>11, <2>2
       DEF GatewayCrash, CallHasJob, OwnsRow, MailHasRow, AckIsTrue, TriggeredIsConfirmed
<1>12. CASE UNCHANGED cmdVars
  BY <1>12 DEF cmdVars, CommandTypeOK, CallHasJob, OwnsRow, MailHasRow, AckIsTrue, TriggeredIsConfirmed
<1>. QED BY <1>1, <1>2, <1>5, <1>6, <1>7, <1>8, <1>9, <1>10, <1>11, <1>12 DEF CommandNext

\* The invariant holds before the first call.
LEMMA CommandStart == CommandInit => CommandInv
BY CommandAssumption
DEF CommandInit, CommandInv, CommandTypeOK, Steps, CallHasJob, OwnsRow, Inserted, MailHasRow, AckIsTrue,
    TriggeredIsConfirmed

\* A request id is mailed at most once, with the body of its row, for any
\* number of concurrent callers, channels and crashes.
THEOREM RequestInjectedOnce == CommandSpec => []InjectedOnce
<1>1. CommandInv => InjectedOnce
  <2>. SUFFICES ASSUME CommandInv, NEW q \in Requests
                PROVE  /\ Cardinality(mail[q]) <= 1
                       /\ \A m \in mail[q] : m.body = cmd[q].body
    BY DEF InjectedOnce
  <2>1. \A m \in mail[q] : m.body = cmd[q].body /\ mail[q] = {m}
    BY DEF CommandInv, MailHasRow
  <2>2. CASE mail[q] = {}
    BY <2>1, <2>2, AtMostOne
  <2>3. CASE mail[q] # {}
    <3>1. PICK x \in mail[q] : TRUE
      BY <2>3
    <3>2. \A y \in mail[q] : y = x
      BY <2>1
    <3>. QED BY <2>1, <3>2, AtMostOne
  <2>. QED BY <2>2, <2>3
<1>. QED BY <1>1, CommandStart, CommandStep, PTL DEF CommandSpec

\* No command says TURN_TRIGGERED before the plugin started its turn, whatever
\* acknowledgements cross each other.
THEOREM TurnIsConfirmed == CommandSpec => []TriggeredIsConfirmed
<1>1. CommandInv => TriggeredIsConfirmed
  BY DEF CommandInv
<1>. QED BY <1>1, CommandStart, CommandStep, PTL DEF CommandSpec

-----------------------------------------------------------------------------
(* The runtime table *)

\* The generations and owners of the runtime records are in order.
LEMMA GenOrder ==
  /\ \A r \in Runtimes : r \in Ids
  /\ \A record \in Record : record.gen \in Nat /\ record.gen >= record.gen
  /\ 0 \in Gens /\ SpecGen \in Gens /\ 0 \in 0 .. OldestIdle /\ OldestIdle \in 0 .. OldestIdle
BY RuntimeAssumption DEF Ids, Record, Gens, SpecGen, OldestIdle

\* A change of the record of one id keeps the types of the table, and moves
\* ownership forward when the new record does.
LEMMA RecordMoves ==
  ASSUME RuntimeInv, NEW q \in Ids, NEW record \in Record, Replace(q, record) \/ Update(q, record),
         Known(q) => /\ record.gen >= rec[q].gen
                     /\ (record.gen = rec[q].gen /\ rec[q].owner # None) => record.owner = rec[q].owner
  PROVE  RuntimeInv' /\ \A r \in Runtimes : OwnerMoves(r)
<1>1. rec' = [rec EXCEPT ![q] = record] /\ rec \in [Ids -> Record \cup {None}]
  BY DEF RuntimeInv, RuntimeTypeOK, Replace, Update
<1>2. stopping' \in [r: Ids, same: BOOLEAN] \cup {None}
  BY DEF RuntimeInv, RuntimeTypeOK, Replace, Update
<1>3. RuntimeInv'
  BY <1>1, <1>2 DEF RuntimeInv, RuntimeTypeOK, Replace, Update
<1>4. ASSUME NEW r \in Runtimes PROVE OwnerMoves(r)
  BY <1>1, GenOrder DEF OwnerMoves, Known
<1>. QED BY <1>3, <1>4

\* A step that drops records, or keeps their generation and owner, moves no
\* ownership.
LEMMA KeptOwners ==
  ASSUME RuntimeInv,
         \A r \in Ids : \/ rec'[r] = None
                        \/ Known(r) /\ rec'[r].gen = rec[r].gen /\ rec'[r].owner = rec[r].owner
  PROVE  \A r \in Runtimes : OwnerMoves(r)
<1>1. ASSUME NEW r \in Runtimes PROVE OwnerMoves(r)
  <2>1. Known(r) => rec[r] \in Record
    BY GenOrder DEF Known, RuntimeInv, RuntimeTypeOK
  <2>. QED BY <2>1, GenOrder DEF OwnerMoves
<1>. QED BY <1>1

\* A fresh record is a record.
LEMMA FreshType ==
  ASSUME NEW gen \in Gens, NEW owner \in Owners \cup {None}, NEW binding \in Bindings,
         NEW backend \in Backends
  PROVE  /\ Fresh(gen, owner, binding, backend) \in Record
         /\ Fresh(gen, owner, binding, backend).gen = gen
         /\ Fresh(gen, owner, binding, backend).owner = owner
BY DEF Fresh, Record, Statuses, Presences, AgentStates, OldestIdle

\* The sweep changes the liveness of a record and never its owner.
LEMMA DecayKeepsOwner ==
  ASSUME NEW record \in Record
  PROVE  Decay(record) \in Record /\ Decay(record).gen = record.gen
         /\ Decay(record).owner = record.owner
<1>. DEFINE swept == IF record.status = "active" /\ record.idle > 0
                     THEN [record EXCEPT !.status = "offline", !.presence = "stale"] ELSE record
<1>1. swept \in Record /\ swept.gen = record.gen /\ swept.owner = record.owner
  BY DEF Record, Statuses, Presences
<1>2. Decay(record) = IF swept.status = "offline" /\ swept.presence = "stale" /\ swept.idle = OldestIdle
                      THEN [swept EXCEPT !.presence = "dead"] ELSE swept
  BY DEF Decay
<1>. HIDE DEF swept
<1>. QED BY <1>1, <1>2 DEF Record, Presences

\* So does a lifecycle event.
LEMMA ReduceKeepsOwner ==
  ASSUME NEW record \in Record, NEW event \in LifecycleEvents
  PROVE  Reduce(record, event) \in Record /\ Reduce(record, event).gen = record.gen
         /\ Reduce(record, event).owner = record.owner
BY DEF Reduce, Record, Presences, AgentStates

\* Every step keeps the invariant and moves ownership only forward.
LEMMA RuntimeStep ==
  RuntimeInv /\ [RuntimeNext \/ GatewayRestart]_rtVars
    => RuntimeInv' /\ \A r \in Runtimes : OwnerMoves(r)
<1>. SUFFICES ASSUME RuntimeInv, [RuntimeNext \/ GatewayRestart]_rtVars
              PROVE  RuntimeInv' /\ \A r \in Runtimes : OwnerMoves(r)
  OBVIOUS
<1>. DEFINE Good == RuntimeInv' /\ \A r \in Runtimes : OwnerMoves(r)
<1>0. /\ rec \in [Ids -> Record \cup {None}]
      /\ sup \in [Runtimes -> [up: BOOLEAN, inc: 0 .. MaxIncarnations,
                               issued: SUBSET Identity, id: Identity \cup {None}]]
      /\ stopping \in [r: Ids, same: BOOLEAN] \cup {None}
      /\ restarts \in 0 .. MaxRestarts
      /\ \A r \in Ids : Known(r) => rec[r] \in Record
      /\ \A r \in Runtimes : sup[r].issued \subseteq Identity
  BY DEF RuntimeInv, RuntimeTypeOK, Known
<1>1. ASSUME NEW r \in Runtimes, SupervisorStart(r) PROVE Good
  <2>1. PICK pidReused \in BOOLEAN :
          sup' = [sup EXCEPT ![r] =
                    [up |-> TRUE, inc |-> @.inc + 1,
                     issued |-> @.issued \cup {[gen |-> StartGeneration(r, pidReused), owner |-> sup[r].inc + 1]},
                     id |-> [gen |-> StartGeneration(r, pidReused), owner |-> sup[r].inc + 1]]]
    BY <1>1 DEF SupervisorStart
  <2>. DEFINE g == StartGeneration(r, pidReused)
              n == sup[r].inc + 1
              id == [gen |-> g, owner |-> n]
  <2>2. n \in 1 .. MaxIncarnations /\ n \in 0 .. MaxIncarnations
    BY <1>0, <1>1, RuntimeAssumption DEF SupervisorStart
  <2>3. g \in Gens /\ g <= n
    <3>1. sup[r].id # None => sup[r].id.gen \in Gens /\ sup[r].id.gen <= sup[r].inc
      BY <1>0 DEF RuntimeInv, Identity
    <3>. QED BY <1>0, <2>2, <3>1, RuntimeAssumption DEF StartGeneration, Gens, SpecGen
  <2>. HIDE DEF g, n
  <2>4. id \in Identity
    BY <2>2, <2>3 DEF Identity, Owners
  <2>5. sup' = [sup EXCEPT ![r] = [up |-> TRUE, inc |-> n, issued |-> sup[r].issued \cup {id}, id |-> id]]
    BY <2>1, <1>0 DEF g, n
  <2>6. sup[r].issued \cup {id} \in SUBSET Identity
    BY <1>0, <2>4
  <2>7. [up |-> TRUE, inc |-> n, issued |-> sup[r].issued \cup {id}, id |-> id] \in
          [up: BOOLEAN, inc: 0 .. MaxIncarnations, issued: SUBSET Identity, id: Identity \cup {None}]
    BY <2>2, <2>4, <2>6
  <2>8. RuntimeTypeOK'
    BY <1>0, <1>1, <2>5, <2>7 DEF SupervisorStart, RuntimeTypeOK
  <2>9. \A q \in Runtimes : sup'[q].id # None => sup'[q].id.gen <= sup'[q].inc
    BY <1>0, <2>3, <2>5 DEF RuntimeInv
  <2>10. \A q \in Runtimes : OwnerMoves(q)
    BY <1>0, <1>1, GenOrder DEF SupervisorStart, OwnerMoves
  <2>. QED BY <2>8, <2>9, <2>10 DEF RuntimeInv
<1>2. ASSUME NEW r \in Runtimes, RuntimeRegister(r) PROVE Good
  <2>1. PICK id \in sup[r].issued, binding \in {"bound", "pending"}, backend \in {"omp", "omp_limited"} :
          MayRegister(r, id) /\ Replace(r, Fresh(id.gen, id.owner, binding, backend))
    BY <1>2 DEF RuntimeRegister
  <2>2. id.gen \in Gens /\ id.owner \in Owners /\ binding \in Bindings /\ backend \in Backends /\ r \in Ids
    BY <1>0, GenOrder DEF Identity, Bindings, Backends
  <2>3. /\ Fresh(id.gen, id.owner, binding, backend) \in Record
        /\ Fresh(id.gen, id.owner, binding, backend).gen = id.gen
        /\ Fresh(id.gen, id.owner, binding, backend).owner = id.owner
    BY <2>2, FreshType
  <2>4. Known(r) => /\ id.gen >= rec[r].gen
                    /\ (id.gen = rec[r].gen /\ rec[r].owner # None) => id.owner = rec[r].owner
    BY <2>1 DEF MayRegister
  <2>. QED BY <2>1, <2>2, <2>3, <2>4, RecordMoves
<1>3. ASSUME NEW r \in Ids, RuntimeDeclare(r) PROVE Good
  <2>1. CASE Known(r)
    <3>. DEFINE record == [rec[r] EXCEPT !.status = "active", !.idle = 0, !.presence = "alive",
                                         !.binding = "bound", !.agent = "idle"]
    <3>1. rec[r] \in Record
      BY <1>0, <2>1
    <3>2. record \in Record /\ record.gen = rec[r].gen /\ record.owner = rec[r].owner
      BY <3>1, GenOrder DEF Record, Statuses, Presences, Bindings, AgentStates
    <3>3. Update(r, record)
      BY <1>3, <2>1 DEF RuntimeDeclare
    <3>. HIDE DEF record
    <3>. QED BY <3>1, <3>2, <3>3, GenOrder, RecordMoves
  <2>2. CASE ~Known(r)
    <3>1. Replace(r, Fresh(0, None, "bound", "native"))
      BY <1>3, <2>2 DEF RuntimeDeclare
    <3>2. Fresh(0, None, "bound", "native") \in Record
      BY FreshType, GenOrder DEF Bindings, Backends
    <3>. QED BY <2>2, <3>1, <3>2, RecordMoves
  <2>. QED BY <2>1, <2>2
<1>4. ASSUME NEW r \in Runtimes, RuntimeSpawn(r) PROVE Good
  <2>1. ~Known(r) /\ Replace(r, Fresh(SpecGen, None, "pending", "omp")) /\ r \in Ids
    BY <1>4, GenOrder DEF RuntimeSpawn
  <2>2. Fresh(SpecGen, None, "pending", "omp") \in Record
    BY FreshType, GenOrder DEF Bindings, Backends
  <2>. QED BY <2>1, <2>2, RecordMoves
<1>5. ASSUME NEW r \in Runtimes, RuntimeHeartbeat(r) PROVE Good
  <2>. DEFINE record == [rec[r] EXCEPT !.idle = 0, !.presence = "alive",
                                       !.status = IF @ = "offline" THEN "active" ELSE @]
  <2>1. rec[r] \in Record /\ r \in Ids
    BY <1>0, <1>5, GenOrder DEF RuntimeHeartbeat
  <2>2. record \in Record /\ record.gen = rec[r].gen /\ record.owner = rec[r].owner
    BY <2>1, GenOrder DEF Record, Statuses, Presences
  <2>3. Update(r, record)
    BY <1>5 DEF RuntimeHeartbeat
  <2>. HIDE DEF record
  <2>. QED BY <2>1, <2>2, <2>3, GenOrder, RecordMoves
<1>6. ASSUME NEW r \in Runtimes, RuntimeLifecycle(r) PROVE Good
  <2>1. rec[r] \in Record /\ r \in Ids
    BY <1>0, <1>6, GenOrder DEF RuntimeLifecycle
  <2>2. PICK event \in LifecycleEvents :
          Update(r, [Reduce(rec[r], event) EXCEPT !.idle = IF event = "heartbeat" THEN 0 ELSE @])
    BY <1>6 DEF RuntimeLifecycle
  <2>. DEFINE reduced == Reduce(rec[r], event)
              record == [reduced EXCEPT !.idle = IF event = "heartbeat" THEN 0 ELSE @]
  <2>3. reduced \in Record /\ reduced.gen = rec[r].gen /\ reduced.owner = rec[r].owner
    BY <2>1, ReduceKeepsOwner
  <2>4. Update(r, record)
    BY <2>2
  <2>. HIDE DEF reduced
  <2>5. record \in Record /\ record.gen = rec[r].gen /\ record.owner = rec[r].owner
    BY <2>3 DEF Record, OldestIdle
  <2>. HIDE DEF record
  <2>. QED BY <2>1, <2>4, <2>5, GenOrder, RecordMoves
<1>7. ASSUME NEW r \in Runtimes, Known(r), NEW agent \in AgentStates, NEW binding \in Bindings,
             Observe(r, agent, binding)
      PROVE  rec' \in [Ids -> Record \cup {None}] /\ \A q \in Runtimes : OwnerMoves(q)
  <2>. DEFINE record == [rec[r] EXCEPT !.idle = 0, !.agent = agent, !.binding = binding]
  <2>1. rec[r] \in Record /\ r \in Ids
    BY <1>0, <1>7, GenOrder
  <2>2. rec' = [rec EXCEPT ![r] = record]
    BY <1>0, <1>7, <2>1 DEF Observe
  <2>3. record \in Record /\ record.gen = rec[r].gen /\ record.owner = rec[r].owner
    BY <2>1, <1>7, GenOrder DEF Record
  <2>. HIDE DEF record
  <2>4. ASSUME NEW q \in Runtimes PROVE OwnerMoves(q)
    BY <1>0, <2>1, <2>2, <2>3, GenOrder DEF OwnerMoves
  <2>. QED BY <1>0, <2>2, <2>3, <2>4
<1>8. ASSUME NEW r \in Runtimes, RuntimeEvent(r) PROVE Good
  BY <1>7, <1>8 DEF RuntimeEvent, AcceptsEvent, RuntimeInv, RuntimeTypeOK
<1>9. ASSUME NEW r \in Runtimes, AgentExit(r) PROVE Good
  <2>1. /\ sup' \in [Runtimes -> [up: BOOLEAN, inc: 0 .. MaxIncarnations,
                                  issued: SUBSET Identity, id: Identity \cup {None}]]
        /\ \A q \in Runtimes : sup'[q].id = sup[q].id /\ sup'[q].inc = sup[q].inc
    BY <1>0, <1>9 DEF AgentExit
  <2>2. rec' \in [Ids -> Record \cup {None}] /\ \A q \in Runtimes : OwnerMoves(q)
    <3>1. CASE AcceptsEvent(r, SpecGen) /\ Observe(r, rec[r].agent, rec[r].binding)
      <4>1. Known(r) /\ r \in Ids
        BY <3>1, GenOrder DEF AcceptsEvent
      <4>2. rec[r].agent \in AgentStates /\ rec[r].binding \in Bindings
        BY <1>0, <4>1 DEF Record
      <4>. QED BY <1>7, <3>1, <4>1, <4>2
    <3>2. CASE UNCHANGED rec
      BY <1>0, <3>2, GenOrder DEF OwnerMoves
    <3>. QED BY <1>9, <3>1, <3>2 DEF AgentExit
  <2>. QED BY <1>0, <1>9, <2>1, <2>2 DEF AgentExit, RuntimeInv, RuntimeTypeOK
<1>10. ASSUME NEW r \in Ids, RuntimeStopBegin(r) PROVE Good
  <2>1. stopping' \in [r: Ids, same: BOOLEAN] \cup {None}
    BY <1>10 DEF RuntimeStopBegin
  <2>2. \A q \in Runtimes : OwnerMoves(q)
    BY <1>0, <1>10, GenOrder DEF RuntimeStopBegin, OwnerMoves
  <2>. QED BY <1>0, <1>10, <2>1, <2>2 DEF RuntimeStopBegin, RuntimeInv, RuntimeTypeOK
<1>11. ASSUME rec' \in [Ids -> Record \cup {None}], UNCHANGED sup,
              \A r \in Ids : \/ rec'[r] = None
                             \/ Known(r) /\ rec'[r].gen = rec[r].gen /\ rec'[r].owner = rec[r].owner,
              stopping' \in {stopping, None}, restarts' \in 0 .. MaxRestarts
       PROVE  Good
  BY <1>0, <1>11, KeptOwners DEF RuntimeInv, RuntimeTypeOK
<1>12. CASE RuntimeStopEnd
  <2>. DEFINE Ended(q) == [rec[q] EXCEPT !.status = "stopped", !.agent = "ended", !.presence = "dead"]
  <2>1. \A q \in Ids : Known(q) => /\ Ended(q) \in Record /\ Ended(q).gen = rec[q].gen
                                   /\ Ended(q).owner = rec[q].owner
    BY <1>0 DEF Record, Statuses, Presences, AgentStates
  <2>2. rec' = [r \in Ids |->
          CASE r = stopping.r -> IF Known(r) /\ stopping.same THEN Ended(r) ELSE rec[r]
            [] r # stopping.r /\ Known(r) /\ rec[r].status = "stopped" -> None
            [] OTHER -> rec[r]]
    BY <1>12 DEF RuntimeStopEnd
  <2>. HIDE DEF Ended
  <2>3. \A r \in Ids : rec'[r] \in {None, rec[r]} \/ (Known(r) /\ rec'[r] = Ended(r))
    BY <2>2
  <2>4. rec' \in [Ids -> Record \cup {None}]
    BY <1>0, <2>1, <2>2
  <2>5. \A r \in Ids : \/ rec'[r] = None
                       \/ Known(r) /\ rec'[r].gen = rec[r].gen /\ rec'[r].owner = rec[r].owner
    BY <2>1, <2>3 DEF Known
  <2>. QED BY <1>0, <1>11, <1>12, <2>4, <2>5 DEF RuntimeStopEnd
<1>13. CASE RuntimePurgeStopped
  <2>1. rec' = [r \in Ids |-> IF r \in Stopped THEN None ELSE rec[r]]
    BY <1>13 DEF RuntimePurgeStopped
  <2>. QED BY <1>0, <1>11, <1>13, <2>1 DEF RuntimePurgeStopped, Known
<1>14. CASE SweepOnce
  <2>1. rec' = [r \in Ids |-> IF ~Known(r) \/ r \in Stopped THEN None ELSE Decay(rec[r])]
    BY <1>14 DEF SweepOnce
  <2>2. \A r \in Ids : Known(r) => /\ Decay(rec[r]) \in Record /\ Decay(rec[r]).gen = rec[r].gen
                                   /\ Decay(rec[r]).owner = rec[r].owner
    BY <1>0, DecayKeepsOwner
  <2>. QED BY <1>0, <1>11, <1>14, <2>1, <2>2 DEF SweepOnce
<1>15. CASE Tick
  <2>. DEFINE Older(q) == [rec[q] EXCEPT !.idle = @ + 1]
  <2>1. rec' = [r \in Ids |-> IF Known(r) /\ rec[r].idle < OldestIdle THEN Older(r) ELSE rec[r]]
    BY <1>15 DEF Tick
  <2>2. \A q \in Ids : Known(q) /\ rec[q].idle < OldestIdle =>
          Older(q) \in Record /\ Older(q).gen = rec[q].gen /\ Older(q).owner = rec[q].owner
    BY <1>0 DEF Record, OldestIdle
  <2>. HIDE DEF Older
  <2>3. rec' \in [Ids -> Record \cup {None}]
    BY <1>0, <2>1, <2>2
  <2>4. \A r \in Ids : \/ rec'[r] = None
                       \/ Known(r) /\ rec'[r].gen = rec[r].gen /\ rec'[r].owner = rec[r].owner
    BY <2>1, <2>2 DEF Known
  <2>. QED BY <1>0, <1>11, <1>15, <2>3, <2>4 DEF Tick
<1>16. CASE GatewayRestart
  <2>1. PICK parked \in BOOLEAN : rec' = [r \in Ids |-> IF parked /\ r = Park THEN Placeholder ELSE None]
    BY <1>16 DEF GatewayRestart
  <2>2. Placeholder \in Record
    <3>1. 1 \in Gens
      BY GenOrder DEF SpecGen
    <3>2. Fresh(1, None, "bound", "omp") \in Record
      BY <3>1, FreshType DEF Bindings, Backends
    <3>. QED BY <3>2, GenOrder DEF Placeholder, Record, Statuses, Presences, AgentStates
  <2>3. rec' \in [Ids -> Record \cup {None}]
    BY <2>1, <2>2
  <2>4. \A r \in Runtimes : OwnerMoves(r)
    BY <2>1, GenOrder, RuntimeAssumption DEF OwnerMoves
  <2>5. restarts' \in 0 .. MaxRestarts
    BY <1>0, <1>16, RuntimeAssumption DEF GatewayRestart
  <2>. QED BY <1>0, <1>16, <2>3, <2>4, <2>5 DEF GatewayRestart, RuntimeInv, RuntimeTypeOK
<1>17. CASE UNCHANGED rtVars
  <2>1. \A r \in Runtimes : OwnerMoves(r)
    BY <1>0, <1>17, GenOrder DEF rtVars, OwnerMoves
  <2>. QED BY <1>17, <2>1 DEF rtVars, RuntimeInv, RuntimeTypeOK, Known
<1>. QED BY <1>1, <1>2, <1>3, <1>4, <1>5, <1>6, <1>8, <1>9, <1>10, <1>12, <1>13, <1>14, <1>15, <1>16,
            <1>17 DEF RuntimeNext

\* The runtime table, the supervisors and a stop in flight keep their types,
\* and no identity runs ahead of the starts of its supervisor.
THEOREM RuntimeTypes == RuntimeSpec => []RuntimeInv
<1>1. RuntimeInit => RuntimeInv
  BY RuntimeAssumption DEF RuntimeInit, RuntimeInv, RuntimeTypeOK
<1>. QED BY <1>1, RuntimeStep, PTL DEF RuntimeSpec

\* Ownership of a runtime only moves forward, for any runtimes, supervisor
\* restarts, late handshakes and gateway restarts.
THEOREM OwnershipForward == RuntimeSpec => OwnershipMovesForward
<1>1. RuntimeInv /\ [RuntimeNext \/ GatewayRestart]_rtVars
        => [\A r \in Runtimes : OwnerMoves(r)]_rtVars
  BY RuntimeStep
<1>. QED BY <1>1, RuntimeTypes, PTL DEF RuntimeSpec, OwnershipMovesForward

=============================================================================

----------------------------- MODULE ManagerPull -----------------------------
(***************************************************************************)
(* "swarm launch --pull" (cli.py, swarm/kernel.py): workers on another     *)
(* host report into the manager's inbox there, and the manager's loop      *)
(* claims one message a time over ssh, appends it to the canonical history *)
(* and finalizes it on the other host, or releases it when the history     *)
(* refused it.  Each of the calls may fail, or time out after it took      *)
(* effect.                                                                 *)
(*                                                                         *)
(* A message is its place in the inbox's order, which a release keeps.     *)
(***************************************************************************)
EXTENDS Naturals, FiniteSets, FiniteSetsExt

CONSTANTS NMsgs,      \* messages of the workers
          Foreign,    \* those the manager does not ingest (sender, recipient)
          MaxFaults   \* bound: calls that fail, crashes, expired leases

ASSUME PullAssumption == NMsgs \in Nat /\ Foreign \subseteq 1 .. NMsgs /\ MaxFaults \in Nat

VARIABLES
    remote,    \* where each message is on the other host
    history,   \* canonical history of the session, here
    mgr,       \* the loop: its step, messages pulled, messages persisted
    pullFaults

pullVars == <<remote, history, mgr, pullFaults>>

Msg == 1 .. NMsgs

PullTypeOK ==
    /\ remote \in [Msg -> {"unsent", "inbox", "claimed", "archive"}] /\ history \subseteq Msg
    /\ mgr \in [at: {"pull", "ingest", "settle", "done", "down"}, held: SUBSET Msg, kept: SUBSET Msg]
    /\ pullFaults \in 0 .. MaxFaults

PullInit ==
    /\ remote = [m \in Msg |-> "unsent"] /\ history = {}
    /\ mgr = [at |-> "pull", held |-> {}, kept |-> {}] /\ pullFaults = 0

Fault == pullFaults < MaxFaults /\ pullFaults' = pullFaults + 1
NoFault == UNCHANGED pullFaults

Report(m) ==
    /\ remote[m] = "unsent" /\ \A q \in 1 .. m - 1 : remote[q] # "unsent"
    /\ remote' = [remote EXCEPT ![m] = "inbox"]
    /\ UNCHANGED <<history, mgr, pullFaults>>

Unread == {m \in Msg : remote[m] = "inbox"}

\* Mutant: the newest message is claimed.
NewestOf(set) == Max(set)
OldestOf(set) == Min(set)

\* pull_remote: "mailbox read" claims the oldest message; the answer may be
\* lost with the claim taken, or the call may fail before it.
PullRemote ==
    /\ mgr.at = "pull"
    /\ \/ Unread = {} /\ mgr' = [mgr EXCEPT !.at = "ingest"] /\ UNCHANGED remote /\ NoFault
       \/ /\ Unread # {}
          /\ LET m == OldestOf(Unread)
             IN  \/ /\ remote' = [remote EXCEPT ![m] = "claimed"]
                    /\ mgr' = [mgr EXCEPT !.at = "ingest", !.held = {m}] /\ NoFault
                 \/ /\ remote' \in {remote, [remote EXCEPT ![m] = "claimed"]}
                    /\ mgr' = [mgr EXCEPT !.at = "ingest"] /\ Fault
    /\ UNCHANGED history

\* ingest: a message of another sender or recipient is skipped, and so is one
\* that the history has already.
Ingest ==
    /\ mgr.at = "ingest"
    /\ LET kept == (mgr.held \ Foreign) \ history
       IN  /\ history' = history \cup kept
           /\ mgr' = [mgr EXCEPT !.at = "settle", !.kept = kept]
    /\ UNCHANGED <<remote, pullFaults>>

\* Mutant: what was pulled is finalized.
SettledAll(m) == "archive"
Settled(m) == IF m \in mgr.kept THEN "archive" ELSE "inbox"

\* finalize_remote or release_remote; both need the claim.
Settle(m) ==
    /\ mgr.at = "settle" /\ m \in mgr.held
    /\ LET after == IF remote[m] = "claimed" THEN [remote EXCEPT ![m] = Settled(m)] ELSE remote
       IN  \/ remote' = after /\ NoFault
           \/ remote' \in {remote, after} /\ Fault
    /\ mgr' = [mgr EXCEPT !.held = @ \ {m}]
    /\ UNCHANGED history

\* The history is read for the workers' reports.
Check ==
    /\ mgr.at = "settle" /\ mgr.held = {}
    /\ mgr' = [at |-> IF Msg \ Foreign \subseteq history THEN "done" ELSE "pull", held |-> {}, kept |-> {}]
    /\ UNCHANGED <<remote, history, pullFaults>>

\* The claim's lease has run out and recover-stale puts the message back.
LeaseEnds(m) ==
    /\ remote[m] = "claimed" /\ (m \in mgr.held => pullFaults < MaxFaults)
    /\ remote' = [remote EXCEPT ![m] = "inbox"]
    /\ pullFaults' = IF m \in mgr.held THEN pullFaults + 1 ELSE pullFaults
    /\ UNCHANGED <<history, mgr>>

\* The loop is killed, and started again.
Killed ==
    /\ mgr.at \notin {"down", "done"} /\ Fault
    /\ mgr' = [at |-> "down", held |-> {}, kept |-> {}]
    /\ UNCHANGED <<remote, history>>
Restart ==
    /\ mgr.at = "down" /\ mgr' = [mgr EXCEPT !.at = "pull"]
    /\ UNCHANGED <<remote, history, pullFaults>>

LoopStep == PullRemote \/ Ingest \/ (\E m \in Msg : Settle(m)) \/ Check

PullNext == LoopStep \/ Killed \/ Restart \/ \E m \in Msg : Report(m) \/ LeaseEnds(m)

PullSpec == PullInit /\ [][PullNext]_pullVars

-----------------------------------------------------------------------------
(* Properties *)

\* A message that is finalized on the worker's host is in the history,
\* whatever call failed, timed out or was repeated (_swarm_launch, ingest).
FinalizedIsIngested == \A m \in Msg : remote[m] = "archive" => m \in history

\* Every report is ingested, through failed calls, lost answers, expired
\* leases and restarts, unless the loop stays down, nobody runs recover-stale
\* for a claim whose answer was lost, or a message in front of the report is
\* stuck: one that the manager refuses, or one whose finalize failed and
\* that the history therefore refuses.  Such a message is released to the head
\* of the inbox and claimed again each time (_swarm_launch, ingest).
Stuck(q) == q \in Foreign \/ (q \in history /\ remote[q] # "archive")
ReportIsIngested ==
    \A m \in Msg \ Foreign :
        remote[m] = "inbox" ~> \/ m \in history
                               \/ \E q \in 1 .. m - 1 : []Stuck(q)
                               \/ [](remote[m] = "claimed") \/ [](mgr.at = "down")

\* The inductive invariant behind FinalizedIsIngested: what the loop is about
\* to finalize was appended to the history before.
PullInv == PullTypeOK /\ mgr.kept \subseteq history /\ FinalizedIsIngested

=============================================================================

--------------------------- MODULE GatewayCommands ---------------------------
(***************************************************************************)
(* The durable command machine of runtime.send: AgentGateway.runtime_send,  *)
(* runtime_command_ack and the TURN_TRIGGERED branch of runtime_event        *)
(* (gateway/service.py) over ControlStore.commands (control_store.py).       *)
(*                                                                         *)
(* Each call of the control store is one transaction and one step; what a   *)
(* handler read before it may have changed.  What runtime_send reads of the *)
(* runtime table is a choice over what GatewayRuntime's records allow: a    *)
(* backend, and the outcome of the hot gate.  The plugin on the other side  *)
(* of the mailbox is external: it takes a message, starts a turn for it,    *)
(* and acknowledges only what it did.                                       *)
(***************************************************************************)
EXTENDS Naturals, FiniteSets

CONSTANTS Requests,     \* request_id values
          Bodies,       \* payload hashes
          Senders,      \* threads inside runtime_send
          Channels,     \* threads inside runtime_command_ack / runtime_event
          Nil,
          MaxCrashes    \* gateway crashes

VARIABLES
    cmd,       \* commands table: request -> row or Nil (on disk)
    mail,      \* messages written to the agent's inbox per request: bodies, in a set of [body, by]
    plugin,    \* request -> "none" | "has" (message taken) | "turned" (turn started)
    pc,        \* sender -> where it is in runtime_send
    job,       \* sender -> [req, body] of its call
    ack,       \* channel -> Nil or the acknowledgement read and not yet written
    crashes

cmdVars == <<cmd, mail, plugin, pc, job, ack, crashes>>

States == {"QUEUED", "CLAIMED", "REVIVING", "TRIGGERING", "TURN_TRIGGERED",
           "FAILED_SAFE", "AMBIGUOUS", "TRIGGER_UNKNOWN"}

\* No row of the table is the mark for none.
ASSUME CommandAssumption ==
    MaxCrashes \in Nat /\ Nil \notin [state: States, body: Bodies]

\* CMD_TRANSITIONS
Transitions ==
    [s \in States |->
        CASE s = "QUEUED"     -> {"CLAIMED", "FAILED_SAFE", "AMBIGUOUS"}
          [] s = "CLAIMED"    -> {"REVIVING", "TRIGGERING", "FAILED_SAFE", "AMBIGUOUS"}
          [] s = "REVIVING"   -> {"TRIGGERING", "FAILED_SAFE", "AMBIGUOUS"}
          [] s = "TRIGGERING" -> {"TURN_TRIGGERED", "AMBIGUOUS", "TRIGGER_UNKNOWN"}
          [] OTHER            -> {}]

\* CMD_ACK_CHAIN, by position
Chain == [QUEUED |-> 1, CLAIMED |-> 2, REVIVING |-> 3, TRIGGERING |-> 4, TURN_TRIGGERED |-> 5]

\* _advance_ack_chain: a later state of the chain is reached through the
\* states between.
Advances(from, to) ==
    /\ from \in DOMAIN Chain /\ to \in DOMAIN Chain
    /\ Chain[from] < Chain[to]

\* runtime_command_ack accepts a transition or a jump along the chain.
Accepts(from, to) == to \in Transitions[from] \/ Advances(from, to)

Steps == {"idle", "enqueue", "backend", "mailbox", "persisted", "gate", "revive"}

CommandTypeOK ==
    /\ cmd \in [Requests -> [state: States, body: Bodies] \cup {Nil}]
    /\ mail \in [Requests -> SUBSET [body: Bodies, by: Senders]]
    /\ plugin \in [Requests -> {"none", "has", "turned"}]
    /\ pc \in [Senders -> Steps]
    /\ job \in [Senders -> [req: Requests, body: Bodies] \cup {Nil}]
    /\ ack \in [Channels -> [req: Requests, from: States, to: States] \cup {Nil}]
    /\ crashes \in 0 .. MaxCrashes

CommandInit ==
    /\ cmd = [q \in Requests |-> Nil]
    /\ mail = [q \in Requests |-> {}]
    /\ plugin = [q \in Requests |-> "none"]
    /\ pc = [s \in Senders |-> "idle"]
    /\ job = [s \in Senders |-> Nil]
    /\ ack = [c \in Channels |-> Nil]
    /\ crashes = 0

-----------------------------------------------------------------------------
(* runtime_send *)

Goto(s, step) == pc' = [pc EXCEPT ![s] = step] /\ UNCHANGED job

\* _command_result: the answer is read off the row and changes nothing.
Return(s) ==
    /\ pc' = [pc EXCEPT ![s] = "idle"]
    /\ job' = [job EXCEPT ![s] = Nil]

\* update_command: the state is written, whatever the row says by now.
UpdateCommand(q, state) == cmd' = [cmd EXCEPT ![q].state = state]

\* get_command: a request with a row answers with it, or refuses another
\* body; either way the call ends, so only a new request goes on.
Send(s) ==
    /\ pc[s] = "idle"
    /\ \E q \in Requests, b \in Bodies :
         /\ cmd[q] = Nil
         /\ pc' = [pc EXCEPT ![s] = "enqueue"]
         /\ job' = [job EXCEPT ![s] = [req |-> q, body |-> b]]
    /\ UNCHANGED <<cmd, mail, plugin, ack, crashes>>

\* enqueue_command: INSERT OR IGNORE, and the loser answers with the row.
\* Mutant: the row is replaced, and both go on.
EnqueueMut(s) ==
    /\ pc[s] = "enqueue"
    /\ cmd' = [cmd EXCEPT ![job[s].req] = [state |-> "QUEUED", body |-> job[s].body]]
    /\ Goto(s, "backend")
    /\ UNCHANGED <<mail, plugin, ack, crashes>>
Enqueue(s) ==
    /\ pc[s] = "enqueue"
    /\ LET q == job[s].req
       IN  IF cmd[q] = Nil
           THEN /\ cmd' = [cmd EXCEPT ![q] = [state |-> "QUEUED", body |-> job[s].body]]
                /\ Goto(s, "backend")
           ELSE UNCHANGED cmd /\ Return(s)
    /\ UNCHANGED <<mail, plugin, ack, crashes>>

\* A backend without a plugin is refused before anything is mailed.
CheckBackend(s) ==
    /\ pc[s] = "backend"
    /\ \/ Goto(s, "mailbox") /\ UNCHANGED cmd
       \/ UpdateCommand(job[s].req, "FAILED_SAFE") /\ Return(s)
    /\ UNCHANGED <<mail, plugin, ack, crashes>>

\* MailboxService.send writes the TASK, or fails without writing.
Mail(s) ==
    /\ pc[s] = "mailbox"
    /\ \/ /\ mail' = [mail EXCEPT ![job[s].req] = @ \cup {[body |-> job[s].body, by |-> s]}]
          /\ Goto(s, "persisted") /\ UNCHANGED cmd
       \/ /\ UpdateCommand(job[s].req, "FAILED_SAFE") /\ Return(s)
          /\ UNCHANGED mail
    /\ UNCHANGED <<plugin, ack, crashes>>

Persisted(s) ==
    /\ pc[s] = "persisted"
    /\ UpdateCommand(job[s].req, "QUEUED") /\ Goto(s, "gate")
    /\ UNCHANGED <<mail, plugin, ack, crashes>>

\* The hot gate, after wait_binding: not hot stays QUEUED, hot and ended is
\* revived, hot and awake answers with the row as it is.
\* Mutant: a hot delivery is reported as triggered.
GateMut(s) ==
    /\ pc[s] = "gate"
    /\ UpdateCommand(job[s].req, "TURN_TRIGGERED") /\ Return(s)
    /\ UNCHANGED <<mail, plugin, ack, crashes>>
Gate(s) ==
    /\ pc[s] = "gate"
    /\ \/ UpdateCommand(job[s].req, "QUEUED") /\ Return(s)
       \/ UpdateCommand(job[s].req, "REVIVING") /\ Goto(s, "revive")
       \/ UNCHANGED cmd /\ Return(s)
    /\ UNCHANGED <<mail, plugin, ack, crashes>>

\* park_revive answers hot or warm, cold, or fails.
Revive(s) ==
    /\ pc[s] = "revive"
    /\ \E state \in {"REVIVING", "QUEUED", "FAILED_SAFE"} :
         UpdateCommand(job[s].req, state) /\ Return(s)
    /\ UNCHANGED <<mail, plugin, ack, crashes>>

-----------------------------------------------------------------------------
(* The plugin (external) and its acknowledgements *)

PluginTakes(q) ==
    /\ mail[q] # {} /\ plugin[q] = "none"
    /\ plugin' = [plugin EXCEPT ![q] = "has"]
    /\ UNCHANGED <<cmd, mail, pc, job, ack, crashes>>

PluginTurns(q) ==
    /\ plugin[q] = "has"
    /\ plugin' = [plugin EXCEPT ![q] = "turned"]
    /\ UNCHANGED <<cmd, mail, pc, job, ack, crashes>>

\* What the plugin may truthfully report of q.
Reports(q) ==
    IF plugin[q] = "turned" THEN {"TURN_TRIGGERED", "AMBIGUOUS"}
    ELSE {"CLAIMED", "REVIVING", "TRIGGERING", "FAILED_SAFE", "AMBIGUOUS", "TRIGGER_UNKNOWN"}

\* runtime_event takes a TURN_TRIGGERED event along the chain only.
TakesTurnEvent(from, to) == to = "TURN_TRIGGERED" /\ Advances(from, to)

\* get_command and the checks of runtime_command_ack or runtime_event ...
AckRead(c) ==
    /\ ack[c] = Nil
    /\ \E q \in Requests : \E to \in Reports(q) :
         /\ plugin[q] # "none" /\ cmd[q] # Nil
         /\ Accepts(cmd[q].state, to) \/ TakesTurnEvent(cmd[q].state, to)
         /\ ack' = [ack EXCEPT ![c] = [req |-> q, from |-> cmd[q].state, to |-> to]]
    /\ UNCHANGED <<cmd, mail, plugin, pc, job, crashes>>

\* ... then update_command, which does not look at the row again.
AckWrite(c) ==
    /\ ack[c] # Nil
    /\ UpdateCommand(ack[c].req, ack[c].to)
    /\ ack' = [ack EXCEPT ![c] = Nil]
    /\ UNCHANGED <<mail, plugin, pc, job, crashes>>

\* The gateway process dies: threads are lost, table and mailbox stay.
GatewayCrash ==
    /\ crashes < MaxCrashes
    /\ crashes' = crashes + 1
    /\ pc' = [s \in Senders |-> "idle"]
    /\ job' = [s \in Senders |-> Nil]
    /\ ack' = [c \in Channels |-> Nil]
    /\ UNCHANGED <<cmd, mail, plugin>>

CommandNext ==
    \/ \E s \in Senders :
         \/ Send(s) \/ Enqueue(s) \/ CheckBackend(s) \/ Mail(s)
         \/ Persisted(s) \/ Gate(s) \/ Revive(s)
    \/ \E q \in Requests : PluginTakes(q) \/ PluginTurns(q)
    \/ \E c \in Channels : AckRead(c) \/ AckWrite(c)
    \/ GatewayCrash

CommandSpec == CommandInit /\ [][CommandNext]_cmdVars

-----------------------------------------------------------------------------
(* Properties *)

\* A request id is mailed at most once, and what is mailed is the body its
\* row stands for, however often runtime.send is called with it, by
\* concurrent callers and across crashes (service.py:1233-1262).
InjectedOnce ==
    \A q \in Requests :
        /\ Cardinality(mail[q]) <= 1
        /\ \A m \in mail[q] : m.body = cmd[q].body

\* A command says TURN_TRIGGERED only when the plugin started a turn for
\* it; no path of runtime.send reports an unconfirmed delivery as triggered
\* (service.py:1207-1211, 1351-1357).
TriggeredIsConfirmed ==
    \A q \in Requests :
        cmd[q] # Nil /\ cmd[q].state = "TURN_TRIGGERED" => plugin[q] = "turned"

-----------------------------------------------------------------------------
(* The inductive invariant behind InjectedOnce and TriggeredIsConfirmed *)

\* The steps of runtime_send behind its own INSERT.
Inserted == {"backend", "mailbox", "persisted", "gate", "revive"}

\* A sender inside its call has a job.
CallHasJob == \A s \in Senders : pc[s] # "idle" => job[s] \in [req: Requests, body: Bodies]

\* Whoever is past its INSERT owns the row: the row has its body, nobody else
\* is past the INSERT for it, and before the mail step nothing was mailed.
OwnsRow ==
    \A s \in Senders : pc[s] \in Inserted =>
        /\ cmd[job[s].req] # Nil /\ cmd[job[s].req].body = job[s].body
        /\ \A t \in Senders : (pc[t] \in Inserted /\ job[t].req = job[s].req) => t = s
        /\ pc[s] \in {"backend", "mailbox"} => mail[job[s].req] = {}

\* What is mailed or acknowledged has a row, and is mailed once.
MailHasRow ==
    /\ \A q \in Requests : \A m \in mail[q] :
         cmd[q] # Nil /\ m.body = cmd[q].body /\ mail[q] = {m}
    /\ \A c \in Channels : ack[c] # Nil => cmd[ack[c].req] # Nil

\* An acknowledgement of a turn that waits to be written is true.
AckIsTrue ==
    \A c \in Channels :
        (ack[c] # Nil /\ ack[c].to = "TURN_TRIGGERED") => plugin[ack[c].req] = "turned"

CommandInv ==
    CommandTypeOK /\ CallHasJob /\ OwnsRow /\ MailHasRow /\ AckIsTrue /\ TriggeredIsConfirmed
=============================================================================

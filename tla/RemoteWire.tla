----------------------------- MODULE RemoteWire -----------------------------
(***************************************************************************)
(* One call that is executed by the helper, "aimeshchat-remote-exec"       *)
(* (remote_exec.py): a task or a mailbox command goes in as one JSON line, *)
(* frames come back on standard output, and the client turns what arrives  *)
(* into one exit code.  There are four clients: a task over ssh, with its  *)
(* fallback alias, a mailbox command over ssh (transport/ssh.py), a task   *)
(* on this host (transport/local.py) and a call through a relay's terminal *)
(* (transport/relay.py).                                                   *)
(***************************************************************************)
EXTENDS Integers, Sequences, FiniteSets

CONSTANTS Vias,       \* the clients explored, of the four
          MaxBad,     \* MAX_CONSECUTIVE_BAD_FRAMES
          MaxNoise,   \* bound: lines in front of the helper's output
          MaxBeats    \* bound: heartbeats of a running task

ASSUME WireAssumption ==
    /\ Vias \subseteq {"ssh", "sshMailbox", "local", "relay"}
    /\ MaxBad \in Nat \ {0} /\ MaxNoise \in Nat /\ MaxBeats \in Nat

VARIABLES
    via,      \* the client
    alias,    \* "primary", or "fallback" once the call was moved
    helper,   \* the helper: its step, heartbeats sent
    wire,     \* lines the client has not read
    link,     \* ssh, relay-login or the local process: up, or its exit code
    got,      \* the client: exit code so far, terminal frame, bad lines
    answer,   \* what the caller was told
    outcome   \* how the task ended, on the current host

wireVars == <<via, alias, helper, wire, link, got, answer, outcome>>

\* Exit codes: success, failure, -1 (a timeout, or the hang-up signal) and
\* 255, which ssh uses for its own failures.
Codes   == {0, 1, -1, 255}
NoCode  == 1000
Up      == 1001
Pending == 1002
Raised  == 1003   \* TransportError

Frames == {<<t, 0>> : t \in {"ready", "old", "noise", "torn", "accepted", "progress", "session", "error"}}
            \cup {<<"result", c>> : c \in Codes}

WireTypeOK ==
    /\ via \in Vias /\ alias \in {"primary", "fallback"}
    /\ helper \in [at: {"boot", "asked", "accepted", "running", "exit", "hung", "gone"}, beats: 0 .. MaxBeats]
    /\ wire \in Seq(Frames) /\ link \in {Up} \cup Codes
    /\ got \in [code: Codes \cup {NoCode}, terminal: BOOLEAN, error: BOOLEAN, bad: 0 .. MaxBad,
                invalid: BOOLEAN, old: BOOLEAN, any: BOOLEAN]
    /\ answer \in Codes \cup {Pending, Raised} /\ outcome \in Codes \cup {NoCode}

\* exit_code starts as -1, except in the relay's client, which knows "none".
Unset == IF via = "relay" THEN NoCode ELSE -1
Blank == [code |-> Unset, terminal |-> FALSE, error |-> FALSE, bad |-> 0,
          invalid |-> FALSE, old |-> FALSE, any |-> FALSE]

Noise(n) == [i \in 1 .. n |-> <<"noise", 0>>]

WireInit ==
    /\ via \in Vias /\ alias = "primary"
    /\ helper = [at |-> "boot", beats |-> 0]
    /\ wire \in {Noise(n) : n \in 0 .. MaxNoise} /\ link = Up
    /\ got = Blank /\ answer = Pending /\ outcome = NoCode

-----------------------------------------------------------------------------
(* The helper *)

\* _send: a frame that is too long is replaced by an error frame.
Sent(frame) == {wire \o <<frame>>, wire \o <<<<"error", 0>>>>}

Say(step, frames) ==
    /\ helper' = [helper EXCEPT !.at = step]
    /\ wire' = wire \o frames
    /\ UNCHANGED <<via, alias, link, got, answer>>

\* The banner carries the wire version of the remote installation.
Ready ==
    /\ helper.at = "boot"
    /\ \E t \in {"ready", "old"} : Say("asked", <<<<t, 0>>>>)
    /\ UNCHANGED outcome

\* _handle_mailbox: the command is executed, and then answered.
HandleMailbox ==
    /\ via = "sshMailbox"
    /\ \E c \in {0, 1} : outcome' = c /\ wire' \in Sent(<<"result", c>>)
    /\ helper' = [helper EXCEPT !.at = "exit"]
    /\ UNCHANGED <<via, alias, link, got, answer>>

\* main: a request that cannot be decoded, or of another version, is answered
\* by an error; a run is accepted and a mailbox command executed.
Request ==
    /\ helper.at = "asked"
    /\ \/ Say("exit", <<<<"error", 0>>>>) /\ UNCHANGED outcome
       \/ via # "sshMailbox" /\ Say("accepted", <<<<"accepted", 0>>>>) /\ UNCHANGED outcome
       \/ HandleMailbox

\* The workdir does not exist, the backend is unknown, or the task starts.
Prepare ==
    /\ helper.at = "accepted"
    /\ Say("exit", <<<<"error", 0>>>>) \/ Say("running", <<>>)
    /\ UNCHANGED outcome

Heartbeat ==
    /\ helper.at = "running" /\ helper.beats < MaxBeats
    /\ helper' = [helper EXCEPT !.beats = @ + 1]
    /\ wire' = wire \o <<<<"progress", 0>>>>
    /\ UNCHANGED <<via, alias, link, got, answer, outcome>>

\* The task ends, by itself or at its deadline: the session, then the result.
TaskEnds ==
    /\ helper.at = "running"
    /\ \/ Say("exit", <<<<"error", 0>>>>) /\ UNCHANGED outcome
       \/ \E c \in Codes :
            /\ outcome' = c
            /\ wire' \in Sent(<<"result", c>>) \cup {wire \o <<<<"session", 0>>, <<"result", c>>>>}
            /\ helper' = [helper EXCEPT !.at = "exit"]
            /\ UNCHANGED <<via, alias, link, got, answer>>

\* End of standard input: the helper returns, and the link ends with it.
HelperExits ==
    /\ helper.at = "exit" /\ link = Up
    /\ helper' = [helper EXCEPT !.at = "gone"] /\ link' = 0
    /\ UNCHANGED <<via, alias, wire, got, answer, outcome>>

-----------------------------------------------------------------------------
(* What can go wrong on the way *)

\* The helper is killed or not found; relay-login may end silently with 0.
HelperDies ==
    /\ helper.at # "gone" /\ link = Up
    /\ helper' = [helper EXCEPT !.at = "gone"]
    /\ link' = 1 \/ (link' = 0 /\ via = "relay" /\ wire = <<>> /\ helper.at = "boot")
    /\ UNCHANGED <<via, alias, wire, got, answer, outcome>>

\* The connection drops: ssh exits with 255 and the last lines are lost.
LinkBreaks ==
    /\ via # "local" /\ link = Up
    /\ helper' = [helper EXCEPT !.at = "gone"] /\ link' = 255
    /\ \E n \in 0 .. Len(wire) : wire' = SubSeq(wire, 1, n)
    /\ UNCHANGED <<via, alias, got, answer, outcome>>

\* The path is dead and nobody notices.
Hang ==
    /\ link = Up /\ helper.at \notin {"gone", "hung"}
    /\ helper' = [helper EXCEPT !.at = "hung"]
    /\ UNCHANGED <<via, alias, wire, link, got, answer, outcome>>

\* The last line arrives cut or garbled.
Garble ==
    /\ wire # <<>> /\ wire[Len(wire)][1] \notin {"noise", "torn"}
    /\ wire' = [wire EXCEPT ![Len(wire)] = <<IF @[1] = "result" THEN "torn" ELSE "noise", 0>>]
    /\ UNCHANGED <<via, alias, helper, link, got, answer, outcome>>

-----------------------------------------------------------------------------
(* The client *)

\* An error frame: 1; the local client leaves its exit code at -1.
ErrorCode == IF via = "local" THEN -1 ELSE 1

Undecodable(frame) == frame[1] \in {"noise", "torn"}

\* What one line does to a client that has the helper's output to itself.  A
\* line that cannot be decoded but mentions a mailbox result is remembered.
DirectRead(frame) ==
    LET good == [got EXCEPT !.bad = 0, !.any = TRUE]
    IN  CASE Undecodable(frame) ->
               [got EXCEPT !.any = TRUE, !.bad = @ + 1,
                           !.invalid = @ \/ (frame[1] = "torn" /\ via = "sshMailbox")]
          [] frame[1] = "old" -> [good EXCEPT !.old = TRUE]
          [] frame[1] = "error" -> [good EXCEPT !.terminal = TRUE, !.error = TRUE, !.code = ErrorCode]
          [] frame[1] = "result" -> [good EXCEPT !.terminal = TRUE, !.code = frame[2]]
          [] OTHER -> good

\* The relay's client takes a line it cannot decode for the relay's own output,
\* and goes on after an old banner, but ignores a result then.
RelayRead(frame) ==
    LET good == [got EXCEPT !.any = TRUE]
    IN  CASE frame[1] = "old" -> [good EXCEPT !.old = TRUE, !.code = 1]
          [] frame[1] = "error" -> [good EXCEPT !.terminal = TRUE, !.error = TRUE, !.code = ErrorCode]
          [] frame[1] = "result" /\ ~got.old -> [good EXCEPT !.terminal = TRUE, !.code = frame[2]]
          [] OTHER -> good

Read(frame) == IF via = "relay" THEN RelayRead(frame) ELSE DirectRead(frame)

Parsing == answer = Pending /\ got.bad < MaxBad /\ ~(got.old /\ via # "relay")

ReadLine ==
    /\ Parsing /\ wire # <<>>
    /\ got' = Read(Head(wire)) /\ wire' = Tail(wire)
    /\ UNCHANGED <<via, alias, helper, link, answer, outcome>>

\* Nothing came for the idle window (a task over ssh), or the call took too
\* long (the other clients): the process is killed.
\* Mutant: the window is looked at when a line arrives.
TimeoutMut ==
    /\ answer = Pending /\ link = Up /\ wire # <<>>
    /\ answer' = IF via = "relay" THEN -1 ELSE Raised
    /\ UNCHANGED <<via, alias, helper, wire, link, got, outcome>>
Timeout ==
    /\ answer = Pending /\ link = Up
    /\ via = "ssh" => wire = <<>>
    /\ answer' = IF via = "relay" THEN -1 ELSE Raised
    /\ UNCHANGED <<via, alias, helper, wire, link, got, outcome>>

\* An old banner is a TransportError.  After too many bad lines the rest is
\* dropped, and a task over ssh that is still up is killed.
GiveUp ==
    /\ answer = Pending /\ ~Parsing
    /\ \/ (got.old \/ (via = "ssh" /\ link = Up)) /\ answer' = Raised /\ UNCHANGED <<got, wire>>
       \/ ~got.old /\ link # Up /\ wire' = <<>> /\ got' = [got EXCEPT !.bad = 0] /\ UNCHANGED answer
    /\ UNCHANGED <<via, alias, helper, link, outcome>>

\* The exit code of a finished exchange: the one that was received, after a
\* broken mailbox result 1; without a terminal frame never the link's 0.
MailboxCode == IF got.invalid /\ got.code \in {-1, 0} THEN 1 ELSE got.code
DirectCode ==
    IF MailboxCode # -1 THEN MailboxCode
    ELSE IF ~got.terminal /\ link = 0 THEN 1 ELSE link

\* A relay that said nothing at all keeps its exit code.
RelayCode ==
    IF got.code # NoCode THEN got.code
    ELSE IF link = 0 /\ got.any THEN 1 ELSE link

\* Mutant: an exchange without a terminal frame has the exit code of the link.
CodeMut == IF got.code = Unset THEN link ELSE got.code
Code == IF via = "relay" THEN RelayCode ELSE DirectCode

\* execute: exit 255 with an ssh error in stderr, which may be the task's own.
TriesFallback(matches) == via = "ssh" /\ alias = "primary" /\ Code = 255 /\ matches

Conclude ==
    /\ answer = Pending /\ Parsing /\ link # Up /\ wire = <<>>
    /\ \E matches \in BOOLEAN :
         IF TriesFallback(matches)
         THEN /\ alias' = "fallback" /\ helper' = [at |-> "boot", beats |-> 0]
              /\ link' = Up /\ got' = Blank /\ outcome' = NoCode /\ UNCHANGED answer
         ELSE answer' = Code /\ UNCHANGED <<alias, helper, link, got, outcome>>
    /\ UNCHANGED <<via, wire>>

\* The control master cannot be created: the fallback, if the host has one, or
\* an error.
MasterFails ==
    /\ helper.at = "boot" /\ answer = Pending /\ got = Blank
    /\ \/ via = "ssh" /\ alias = "primary" /\ alias' = "fallback" /\ UNCHANGED answer
       \/ via \in {"ssh", "sshMailbox"} /\ answer' = Raised /\ UNCHANGED alias
    /\ UNCHANGED <<via, helper, wire, link, got, outcome>>

HelperStep == Ready \/ Request \/ Prepare \/ TaskEnds \/ HelperExits
ClientStep == ReadLine \/ GiveUp \/ Conclude

WireNext ==
    /\ answer = Pending
    /\ \/ HelperStep \/ Heartbeat \/ HelperDies \/ LinkBreaks \/ Hang \/ Garble
       \/ ClientStep \/ Timeout \/ MasterFails

WireSpec == WireInit /\ [][WireNext]_wireVars

-----------------------------------------------------------------------------
(* Properties *)

\* The caller is told 0 only if the task or command ended with 0, whatever was
\* lost, cut or garbled on the way ("EOF without one is a failure, never a
\* silent success").  Left out: a task that ended with -1, which is the
\* clients' own mark for "no code yet"; the local client's error frame; a
\* relay that says nothing at all.
SuccessIsReal ==
    answer = 0 => \/ outcome = 0
                  \/ outcome = -1 /\ via # "relay"
                  \/ via = "local" /\ got.error
                  \/ via = "relay" /\ ~got.any

\* Every call that has begun ends, with an answer or an error, also when the
\* helper hangs (idle window, communicate timeout, the relay's deadline).
CallEnds == helper.at # "boot" ~> answer # Pending

\* The inductive invariant behind SuccessIsReal: the helper has no outcome
\* before it ends, a result on its way is the outcome, and the client has 0, or
\* ends an exchange without a code of its own, only for such a result.
Truthful(frames, code) == \A i \in 1 .. Len(frames) : frames[i][1] = "result" => frames[i][2] = code
WireInv ==
    /\ WireTypeOK
    /\ helper.at \in {"boot", "asked", "accepted", "running"} => outcome = NoCode
    /\ Truthful(wire, outcome)
    /\ got.code = NoCode => via = "relay"
    /\ got.code = 0 => outcome = 0
    /\ got.terminal /\ got.code = -1 => outcome = -1 \/ (via = "local" /\ got.error)
    /\ SuccessIsReal

=============================================================================

---------------------------- MODULE MailboxSend ----------------------------
(***************************************************************************)
(* MailboxStore.send() for one caller-supplied message id: the scan for an *)
(* earlier copy, the fan-out of the envelope to every recipient's inbox    *)
(* (temporary file, then rename), the rewrite with the cursor stamp, the   *)
(* record in the canonical history, and the idempotent replay of a send    *)
(* that crashed half-way (mailbox/store.py).  Several processes may send   *)
(* the same id (a flush and a retry), readers consume envelopes at any     *)
(* time, and a sender may die between any two file-system steps.           *)
(* Two senders share the temporary file of a recipient because its name is *)
(* the id: opening it truncates what the other one wrote, and a sender     *)
(* writes into the file it opened, wherever that has been renamed to.      *)
(***************************************************************************)
EXTENDS Integers, FiniteSets

CONSTANTS
  NumRecipients, \* size of the resolved recipient list (sorted, sender left out)
  Senders,       \* processes that send this message id
  Payloads,      \* contents a caller may pass with this message id
  NoPayload,     \* no such file
  Partial,       \* a file that is opened and not yet written
  MaxCrashes

ASSUME SendAssumption ==
  /\ NumRecipients \in Nat \ {0}
  /\ NoPayload \notin Payloads /\ Partial \notin Payloads /\ NoPayload # Partial
  /\ MaxCrashes \in Nat

Recipients == 1 .. NumRecipients

VARIABLES
  inbox,      \* inbox[r]: the envelope inbox/{msg_id}.json of r, or NoPayload
  inboxTmp,   \* inboxTmp[r]: inbox/.tmp-{msg_id}.json of r, or NoPayload
  hist,       \* the history record, or NoPayload
  histTmp,    \* history/.tmp-{msg_id}.json, or NoPayload
  pc, at, pay, \* per sender: step, recipient the loop is at, payload
  fd,         \* per sender: where the file is that it has opened
  reached,    \* recipients into whose inbox a file was ever renamed
  succeeded,  \* some send() has returned without an error
  crashes

files == <<inbox, inboxTmp, hist, histTmp>>
vars == <<inbox, inboxTmp, hist, histTmp, pc, at, pay, fd, reached, succeeded, crashes>>

MaybePayload == Payloads \cup {NoPayload}
FileContent == MaybePayload \cup {Partial}
Places == {"tmp", "inbox", "gone"}

Loops == {"write", "stamp", "backfill"}
\* Inside a loop: the temporary file is open, and then written.
Opened == [write |-> "write-opened", stamp |-> "stamp-opened", backfill |-> "backfill-opened"]
Written == [write |-> "written", stamp |-> "stamped", backfill |-> "backfilled"]

Steps == {"idle", "scan", "append", "tmp", "commit"} \cup Loops
           \cup {Opened[l] : l \in Loops} \cup {Written[l] : l \in Loops}

\* Every variable has its type.
TypeOK ==
  /\ inbox \in [Recipients -> FileContent]
  /\ inboxTmp \in [Recipients -> FileContent]
  /\ reached \subseteq Recipients
  /\ hist \in MaybePayload /\ histTmp \in MaybePayload
  /\ pc \in [Senders -> Steps]
  /\ at \in [Senders -> 1 .. NumRecipients + 1]
  /\ pay \in [Senders -> MaybePayload] /\ fd \in [Senders -> Places]
  /\ succeeded \in BOOLEAN /\ crashes \in 0 .. MaxCrashes

Init ==
  /\ inbox = [r \in Recipients |-> NoPayload]
  /\ inboxTmp = [r \in Recipients |-> NoPayload]
  /\ reached = {}
  /\ hist = NoPayload /\ histTmp = NoPayload
  /\ pc = [s \in Senders |-> "idle"] /\ at = [s \in Senders |-> 1]
  /\ pay = [s \in Senders |-> NoPayload] /\ fd = [s \in Senders |-> "gone"]
  /\ succeeded = FALSE /\ crashes = 0

-----------------------------------------------------------------------------
\* Sender s goes on at a step and a recipient.
Goto(s, step, r) ==
  /\ pc' = [pc EXCEPT ![s] = step]
  /\ at' = [at EXCEPT ![s] = r]
  /\ UNCHANGED pay

\* The call ends: it returns or raises.
Leave(s) ==
  /\ pc' = [pc EXCEPT ![s] = "idle"]
  /\ at' = [at EXCEPT ![s] = 1]
  /\ pay' = [pay EXCEPT ![s] = NoPayload]

Return(s) == Leave(s) /\ succeeded' = TRUE
Raise(s) == Leave(s) /\ UNCHANGED succeeded

\* send(msg_id=...) is called with a payload that passed validation.
Call(s, v) ==
  /\ pc[s] = "idle"
  /\ pc' = [pc EXCEPT ![s] = "scan"] /\ pay' = [pay EXCEPT ![s] = v]
  /\ UNCHANGED <<files, fd, at, reached, succeeded, crashes>>

\* The first copy found decides: the same payload is a replay, another one is
\* an error.
Found(s, copy) ==
  \/ copy = pay[s] /\ Goto(s, "backfill", 1) /\ UNCHANGED succeeded
  \/ copy # pay[s] /\ Raise(s)

\* The inboxes are looked at one after the other.
ScanInbox(s) ==
  /\ pc[s] = "scan" /\ at[s] <= NumRecipients
  /\ \/ /\ inbox[at[s]] = NoPayload
        /\ Goto(s, "scan", at[s] + 1) /\ UNCHANGED succeeded
     \/ inbox[at[s]] # NoPayload /\ Found(s, inbox[at[s]])
  /\ UNCHANGED <<files, fd, reached, crashes>>

\* No inbox has a copy: the history is looked at last.
ScanHistory(s) ==
  /\ pc[s] = "scan" /\ at[s] > NumRecipients
  /\ \/ hist = NoPayload /\ Goto(s, "write", 1) /\ UNCHANGED succeeded
     \/ hist # NoPayload /\ Found(s, hist)
  /\ UNCHANGED <<files, fd, reached, crashes>>

\* Mutant: the file is renamed before its content is written.
OpenTmpUnwritten(s, loop) ==
  /\ inboxTmp' = [inboxTmp EXCEPT ![at[s]] = Partial]
  /\ fd' = [fd EXCEPT ![s] = "tmp"]
  /\ Goto(s, Written[loop], at[s])

\* open(tmp, "w") for the loop's recipient: created, or truncated.
OpenTmp(s, loop) ==
  /\ inboxTmp' = [inboxTmp EXCEPT ![at[s]] = Partial]
  /\ fd' = [fd EXCEPT ![s] = "tmp"]
  /\ Goto(s, Opened[loop], at[s])

\* The envelope is written, first without and later with the cursor stamp.
WriteOpen(s) ==
  /\ pc[s] \in {"write", "stamp"} /\ at[s] <= NumRecipients
  /\ OpenTmp(s, pc[s])
  /\ UNCHANGED <<inbox, hist, histTmp, reached, succeeded, crashes>>

\* The content goes to the file that was opened, wherever it is by now.
WriteContent(s, loop) ==
  LET r == at[s] IN
  /\ pc[s] = Opened[loop]
  /\ inboxTmp' = IF fd[s] = "tmp" THEN [inboxTmp EXCEPT ![r] = pay[s]] ELSE inboxTmp
  /\ inbox' = IF fd[s] = "inbox" THEN [inbox EXCEPT ![r] = pay[s]] ELSE inbox
  /\ fd' = [fd EXCEPT ![s] = "gone"]
  /\ Goto(s, Written[loop], r)
  /\ UNCHANGED <<hist, histTmp, reached, succeeded, crashes>>

\* Mutant: a replay returns on the first copy it finds.
BackfillNone(s) ==
  /\ pc[s] = "backfill" /\ at[s] <= NumRecipients
  /\ Goto(s, "backfill", NumRecipients + 1)
  /\ UNCHANGED <<files, fd, reached, succeeded, crashes>>

\* A replay skips a recipient whose inbox has the file.
Backfill(s) ==
  /\ pc[s] = "backfill" /\ at[s] <= NumRecipients
  /\ \/ /\ inbox[at[s]] # NoPayload
        /\ Goto(s, "backfill", at[s] + 1) /\ UNCHANGED <<inboxTmp, fd>>
     \/ inbox[at[s]] = NoPayload /\ OpenTmp(s, "backfill")
  /\ UNCHANGED <<inbox, hist, histTmp, reached, succeeded, crashes>>

\* The file at the temporary name is now in the inbox, and what was there is
\* unlinked: open files move along.
Renamed(r) ==
  fd' = [s \in Senders |->
           CASE at[s] = r /\ fd[s] = "tmp" -> "inbox"
             [] at[s] = r /\ fd[s] = "inbox" -> "gone"
             [] OTHER -> fd[s]]

\* os.replace(tmp, dest): raises FileNotFoundError when another sender of the
\* same id has renamed the shared temporary file before.
Publish(s, loop) ==
  LET r == at[s] IN
  /\ pc[s] = Written[loop]
  /\ \/ /\ inboxTmp[r] # NoPayload
        /\ inbox' = [inbox EXCEPT ![r] = inboxTmp[r]]
        /\ inboxTmp' = [inboxTmp EXCEPT ![r] = NoPayload]
        /\ reached' = reached \cup {r}
        /\ Renamed(r)
        /\ Goto(s, loop, r + 1) /\ UNCHANGED succeeded
     \/ inboxTmp[r] = NoPayload /\ Raise(s) /\ UNCHANGED <<inbox, inboxTmp, reached, fd>>
  /\ UNCHANGED <<hist, histTmp, crashes>>

\* All envelopes are durable: the stream cursor is advanced (see StreamCursor).
AdvanceCursor(s) ==
  /\ pc[s] = "write" /\ at[s] > NumRecipients
  /\ Goto(s, "stamp", 1)
  /\ UNCHANGED <<files, fd, reached, succeeded, crashes>>

\* All envelopes are stamped: append_history is called.
Stamped(s) ==
  /\ pc[s] = "stamp" /\ at[s] > NumRecipients
  /\ Goto(s, "append", 1)
  /\ UNCHANGED <<files, fd, reached, succeeded, crashes>>

\* Mutant: a replay that finds no record gives up.
ReplayedNoAppend(s) ==
  /\ pc[s] = "backfill" /\ at[s] > NumRecipients
  /\ \/ hist # NoPayload /\ Return(s)
     \/ hist = NoPayload /\ Raise(s)
  /\ UNCHANGED <<files, fd, reached, crashes>>

\* A replay is done when the record exists and appends it otherwise.
Replayed(s) ==
  /\ pc[s] = "backfill" /\ at[s] > NumRecipients
  /\ \/ hist # NoPayload /\ Return(s)
     \/ hist = NoPayload /\ Goto(s, "append", 1) /\ UNCHANGED succeeded
  /\ UNCHANGED <<files, fd, reached, crashes>>

\* append_history(): "history entry already exists", or go on.
AppendCheck(s) ==
  /\ pc[s] = "append"
  /\ \/ hist = NoPayload /\ Goto(s, "tmp", 1) /\ UNCHANGED succeeded
     \/ hist # NoPayload /\ Raise(s)
  /\ UNCHANGED <<files, fd, reached, crashes>>

\* open(tmp, "x"): fails when the temporary file is there.
AppendTmp(s) ==
  /\ pc[s] = "tmp"
  /\ \/ /\ histTmp = NoPayload /\ histTmp' = pay[s]
        /\ Goto(s, "commit", 1) /\ UNCHANGED succeeded
     \/ histTmp # NoPayload /\ Raise(s) /\ UNCHANGED histTmp
  /\ UNCHANGED <<inbox, inboxTmp, fd, hist, reached, crashes>>

\* Mutant: the record is not renamed into place.
AppendCommitNone(s) ==
  /\ pc[s] = "commit"
  /\ Return(s)
  /\ UNCHANGED <<files, fd, reached, crashes>>

\* os.replace(tmp, dest).
AppendCommit(s) ==
  /\ pc[s] = "commit"
  /\ hist' = histTmp /\ histTmp' = NoPayload
  /\ Return(s)
  /\ UNCHANGED <<inbox, inboxTmp, fd, reached, crashes>>

\* The recipient's reader takes the envelope away (see MailboxClaims), and the
\* file that a sender may still have open with it.
Take(r) ==
  /\ inbox[r] # NoPayload
  /\ inbox' = [inbox EXCEPT ![r] = NoPayload]
  /\ fd' = [s \in Senders |-> IF at[s] = r /\ fd[s] = "inbox" THEN "gone" ELSE fd[s]]
  /\ UNCHANGED <<inboxTmp, hist, histTmp, pc, at, pay, reached, succeeded, crashes>>

\* The sender dies; files stay as they are.
Crash(s) ==
  /\ pc[s] # "idle" /\ crashes < MaxCrashes
  /\ crashes' = crashes + 1
  /\ Raise(s) /\ fd' = [fd EXCEPT ![s] = "gone"]
  /\ UNCHANGED <<files, reached>>

Begin(s) == \E v \in Payloads : Call(s, v)

Continue(s) ==
  \/ ScanInbox(s) \/ ScanHistory(s)
  \/ WriteOpen(s) \/ Backfill(s)
  \/ \E loop \in Loops : WriteContent(s, loop) \/ Publish(s, loop)
  \/ AdvanceCursor(s) \/ Stamped(s) \/ Replayed(s)
  \/ AppendCheck(s) \/ AppendTmp(s) \/ AppendCommit(s)

Next ==
  \/ \E s \in Senders : Begin(s) \/ Continue(s) \/ Crash(s)
  \/ \E r \in Recipients : Take(r)

Spec == Init /\ [][Next]_vars

-----------------------------------------------------------------------------
(* Properties *)

\* send() returns without an error only when a file was renamed into every
\* inbox and the message is on record, whatever crashed or raced before (P2-8).
SuccessMeansDelivered ==
  succeeded => reached = Recipients /\ hist # NoPayload

Fanout == INSTANCE AtomicFanout WITH recorded <- (hist # NoPayload)

\* The fan-out of send(), with its crashes, replays and readers, implements
\* AtomicFanout: no record before every recipient was reached.
ImplementsFanout == Fanout!Spec

\* An inbox never shows a file that is not completely written: the write to a
\* temporary file and the rename keep readers from seeing one.
EnvelopesAreWhole == \A r \in Recipients : inbox[r] # Partial

\* The history's temporary file was left by a sender that is gone.
TmpLeftBehind == histTmp # NoPayload /\ \A s \in Senders : pc[s] # "commit"

\* A sender that keeps replaying the message succeeds in the end, unless a
\* crash left the history's temporary file behind.
ReplaySucceeds == <>(succeeded \/ TmpLeftBehind)

-----------------------------------------------------------------------------
(* The inductive invariant behind SuccessMeansDelivered and ImplementsFanout *)

Filling == {Opened[l] : l \in Loops} \cup {Written[l] : l \in Loops}

\* A sender inside its call has a payload, one with a temporary file stands at
\* a recipient, and it has a file open only between open and write.
CallShape ==
  \A s \in Senders : /\ pc[s] # "idle" => pay[s] \in Payloads
                     /\ pc[s] \in Filling => at[s] <= NumRecipients
                     /\ fd[s] # "gone" => pc[s] \in {Opened[l] : l \in Loops}

\* What is in an inbox was renamed there, also when it is open.
ReachedFirst ==
  /\ \A r \in Recipients : inbox[r] # NoPayload => r \in reached
  /\ \A s \in Senders : fd[s] = "inbox" => at[s] \in reached

\* The first loop of send(), or of a replay, has served those before the
\* recipient it stands at; whoever is past it has served everybody.
LoopServes ==
  \A s \in Senders :
    /\ pc[s] \in {"write", "backfill", Opened["write"], Opened["backfill"],
                  Written["write"], Written["backfill"]} => 1 .. at[s] - 1 \subseteq reached
    /\ pc[s] \in {"stamp", Opened["stamp"], Written["stamp"], "append", "tmp", "commit"}
         => reached = Recipients

\* The history's files come after the fan-out; the temporary one belongs to
\* the single sender that is about to rename it, or to nobody.
RecordLast ==
  /\ hist # NoPayload \/ histTmp # NoPayload => reached = Recipients
  /\ \A s \in Senders : pc[s] = "commit" => histTmp # NoPayload
  /\ \A s, t \in Senders : pc[s] = "commit" /\ pc[t] = "commit" => s = t

SendInv == TypeOK /\ CallShape /\ ReachedFirst /\ LoopServes /\ RecordLast /\ SuccessMeansDelivered
=============================================================================

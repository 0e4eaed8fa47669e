---------------------------- MODULE StreamCursor ----------------------------
(***************************************************************************)
(* MailboxStore.advance_cursor() (mailbox/store.py): the read-modify-write *)
(* of <session>/.stream-cursor that stamps messages with "epoch_ms/seq".   *)
(* The flock is taken on the cursor file itself, which every call replaces *)
(* by a new file, so the model tells the file's name from its inode; the   *)
(* temporary file is shared by all senders, and the clock is read before   *)
(* the lock is requested.                                                  *)
(***************************************************************************)
EXTENDS Integers, Sequences

CONSTANTS
  Senders,
  NoSender,    \* nobody holds the lock
  MaxClock,    \* milliseconds that may pass
  MaxCalls     \* bound on the calls of advance_cursor

ASSUME CursorAssumption ==
  /\ NoSender \notin Senders
  /\ MaxClock \in Nat /\ MaxCalls \in Nat

Inodes == 1 .. 2 * MaxCalls + 1
NoInode == 0
Blank == <<0, -1>>   \* an empty or unreadable file

VARIABLES
  wall,               \* wall clock in ms; real clocks start far from 0
  name, tmp,          \* inode at .stream-cursor and .tmp-stream-cursor, or NoInode
  content,            \* content[i]: cursor in inode i
  holder,             \* holder[i]: who has the flock on inode i
  used,               \* inodes created so far
  pc, now, fd, out, prev, \* per sender: step, clock read, inode locked, inode of
                      \* the temporary file opened, cursor read
  issued,             \* the cursors returned to senders, in order
  calls

cursorVars == <<wall, name, tmp, content, holder, used, pc, now, fd, out, prev, issued, calls>>

Steps == {"idle", "open", "flock", "read", "write", "fill", "replace", "unlock"}
Stamps == (0 .. MaxClock + 1) \X (-1 .. MaxCalls)

\* Every variable has its type.
CursorTypeOK ==
  /\ wall \in 1 .. MaxClock + 1 /\ used \in 0 .. 2 * MaxCalls + 1
  /\ name \in {NoInode} \cup Inodes /\ tmp \in {NoInode} \cup Inodes
  /\ content \in [Inodes -> Stamps] /\ holder \in [Inodes -> Senders \cup {NoSender}]
  /\ pc \in [Senders -> Steps] /\ now \in [Senders -> 0 .. MaxClock + 1]
  /\ fd \in [Senders -> {NoInode} \cup Inodes] /\ out \in [Senders -> {NoInode} \cup Inodes]
  /\ prev \in [Senders -> Stamps]
  /\ issued \in Seq(Stamps) /\ calls \in 0 .. MaxCalls

CursorInit ==
  /\ wall = 1 /\ used = 0 /\ name = NoInode /\ tmp = NoInode
  /\ content = [i \in Inodes |-> Blank]
  /\ holder = [i \in Inodes |-> NoSender]
  /\ pc = [s \in Senders |-> "idle"] /\ now = [s \in Senders |-> 0]
  /\ fd = [s \in Senders |-> NoInode] /\ out = [s \in Senders |-> NoInode]
  /\ prev = [s \in Senders |-> Blank]
  /\ issued = <<>> /\ calls = 0
-----------------------------------------------------------------------------
Goto(s, step) == pc' = [pc EXCEPT ![s] = step]

\* now_ms is read.
ReadClock(s) ==
  /\ pc[s] = "idle" /\ calls < MaxCalls
  /\ now' = [now EXCEPT ![s] = wall] /\ calls' = calls + 1
  /\ Goto(s, "open")
  /\ UNCHANGED <<wall, name, tmp, content, holder, used, fd, out, prev, issued>>

\* os.open(cursor_file, O_CREAT | O_RDWR).
Open(s) ==
  LET file == IF name = NoInode THEN used + 1 ELSE name IN
  /\ pc[s] = "open"
  /\ name' = file /\ fd' = [fd EXCEPT ![s] = file]
  /\ used' = IF name = NoInode THEN used + 1 ELSE used
  /\ Goto(s, "flock")
  /\ UNCHANGED <<wall, tmp, content, holder, now, out, prev, issued, calls>>

\* flock(LOCK_EX) on the inode that was opened.
Flock(s) ==
  /\ pc[s] = "flock" /\ holder[fd[s]] = NoSender
  /\ holder' = [holder EXCEPT ![fd[s]] = s]
  /\ Goto(s, "read")
  /\ UNCHANGED <<wall, name, tmp, content, used, now, fd, out, prev, issued, calls>>

\* The file at the name is read; empty or unreadable counts as 0/0.
ReadFile(s) ==
  /\ pc[s] = "read"
  /\ prev' = [prev EXCEPT ![s] = IF content[name] = Blank THEN <<0, 0>> ELSE content[name]]
  /\ Goto(s, "write")
  /\ UNCHANGED <<wall, name, tmp, content, holder, used, now, fd, out, issued, calls>>

\* Same millisecond: the next sequence number; otherwise it restarts at 0.
NextStamp(s) ==
  <<now[s], IF now[s] = prev[s][1] THEN prev[s][2] + 1 ELSE 0>>

\* open(tmp, "w"): created, or truncated when another sender left it.
OpenTmp(s) ==
  LET file == IF tmp = NoInode THEN used + 1 ELSE tmp IN
  /\ pc[s] = "write"
  /\ tmp' = file /\ out' = [out EXCEPT ![s] = file]
  /\ used' = IF tmp = NoInode THEN used + 1 ELSE used
  /\ content' = [content EXCEPT ![file] = Blank]
  /\ Goto(s, "fill")
  /\ UNCHANGED <<wall, name, holder, now, fd, prev, issued, calls>>

\* The new cursor is written to the file that was opened.
WriteTmp(s) ==
  /\ pc[s] = "fill"
  /\ content' = [content EXCEPT ![out[s]] = NextStamp(s)]
  /\ Goto(s, "replace")
  /\ UNCHANGED <<wall, name, tmp, holder, used, now, fd, out, prev, issued, calls>>

\* os.replace(tmp, cursor_file); FileNotFoundError when another sender has
\* renamed the shared temporary file (the finally block unlocks).
Replace(s) ==
  /\ pc[s] = "replace"
  /\ \/ /\ tmp # NoInode /\ name' = tmp /\ tmp' = NoInode /\ Goto(s, "unlock")
        /\ UNCHANGED holder
     \/ /\ tmp = NoInode /\ UNCHANGED <<name, tmp>> /\ Goto(s, "idle")
        /\ holder' = [holder EXCEPT ![fd[s]] = NoSender]
  /\ UNCHANGED <<wall, content, used, now, fd, out, prev, issued, calls>>

\* Mutant: the lock is kept after the call.
UnlockForgotten(s) ==
  /\ pc[s] = "unlock"
  /\ issued' = Append(issued, NextStamp(s))
  /\ Goto(s, "idle")
  /\ UNCHANGED <<wall, name, tmp, content, holder, used, now, fd, out, prev, calls>>

\* The lock is released and the cursor returned.
Unlock(s) ==
  /\ pc[s] = "unlock"
  /\ holder' = [holder EXCEPT ![fd[s]] = NoSender]
  /\ issued' = Append(issued, NextStamp(s))
  /\ Goto(s, "idle")
  /\ UNCHANGED <<wall, name, tmp, content, used, now, fd, out, prev, calls>>

\* A sender dies; the kernel drops its lock.
SenderDies(s) ==
  /\ pc[s] # "idle"
  /\ holder' = [i \in Inodes |-> IF holder[i] = s THEN NoSender ELSE holder[i]]
  /\ Goto(s, "idle")
  /\ UNCHANGED <<wall, name, tmp, content, used, now, fd, out, prev, issued, calls>>

\* A millisecond passes.
MillisecondPasses ==
  /\ wall <= MaxClock
  /\ wall' = wall + 1
  /\ UNCHANGED <<name, tmp, content, holder, used, pc, now, fd, out, prev, issued, calls>>

Advance(s) ==
  \/ ReadClock(s) \/ Open(s) \/ Flock(s) \/ ReadFile(s)
  \/ OpenTmp(s) \/ WriteTmp(s) \/ Replace(s) \/ Unlock(s)

CursorNext == MillisecondPasses \/ \E s \in Senders : Advance(s) \/ SenderDies(s)

\* A process that is running goes on; flock wakes a waiter.
Continue(s) == pc[s] # "idle" /\ Advance(s)
-----------------------------------------------------------------------------
(* Properties *)

\* No call waits for ever: locks of dead senders, of calls that failed and of
\* replaced files are all released.
EveryCallReturns == \A s \in Senders : pc[s] # "idle" ~> pc[s] = "idle"

\* "concurrent senders cannot produce duplicate seq values" (advance_cursor).
UniqueCursors ==
  \A i, j \in 1 .. Len(issued) : issued[i] = issued[j] => i = j
=============================================================================

---------------------------- MODULE BackgroundJob ----------------------------
(***************************************************************************)
(* A background job (job.py, cli.py): the command starts a detached child  *)
(* and then marks the job as running; the child runs the task, writes      *)
(* result.json and then the final status; "job wait" polls the status.     *)
(*                                                                         *)
(* Both processes write the status file through one temporary name,        *)
(* status.tmp: open (which truncates), write, rename.                      *)
(***************************************************************************)
EXTENDS Naturals

VARIABLES
    job,       \* parent and child: their step in writing, their open file
    inode,     \* contents of the files that were ever status.tmp or status
    tmp, cur,  \* the file that has the name status.tmp (0: none), status
    result,    \* result.json: the exit code
    ended,     \* how the task ended
    waiter     \* "job wait": what it returned, and why

jobVars == <<job, inode, tmp, cur, result, ended, waiter>>

Writers == {"parent", "child"}
None   == 99
Text   == {"", "pending", "running", "done", "failed", "mixed"}
Inodes == 1 .. 3

JobTypeOK ==
    /\ job \in [Writers -> [at: {"off", "run", "open", "write", "rename", "end"}, fd: {0} \cup Inodes]]
    /\ inode \in [Inodes -> Text] /\ tmp \in {0} \cup Inodes /\ cur \in Inodes
    /\ result \in {None, 0, 1} /\ ended \in {None, 0, 1}
    /\ waiter \in [how: {"waiting", "status", "deadline"}, code: {None, 0, 1}]

\* create_placeholder
JobInit ==
    /\ job = [p \in Writers |-> [at |-> "off", fd |-> 0]]
    /\ inode = [i \in Inodes |-> IF i = 1 THEN "pending" ELSE ""]
    /\ tmp = 0 /\ cur = 1 /\ result = None /\ ended = None
    /\ waiter = [how |-> "waiting", code |-> None]

At(p, step) == job' = [job EXCEPT ![p].at = step]

\* The child is started; the parent goes on to mark_running.
Spawn ==
    /\ job["parent"].at = "off"
    /\ job' = [job EXCEPT !["parent"].at = "open", !["child"].at = "run"]
    /\ UNCHANGED <<inode, tmp, cur, result, ended, waiter>>

\* _run_bg_child: the task returns, raises or is asked to stop.
TaskReturns ==
    /\ job["child"].at = "run" /\ ended = None
    /\ ended' \in {0, 1}
    /\ UNCHANGED <<job, inode, tmp, cur, result, waiter>>

\* mark_done: the result, then the status.
\* Mutant: the status first.
MarkDoneLate ==
    /\ job["child"].at = "run" /\ ended # None
    /\ At("child", "open")
    /\ UNCHANGED <<inode, tmp, cur, result, ended, waiter>>
MarkDone ==
    /\ job["child"].at = "run" /\ ended # None
    /\ result' = ended /\ At("child", "open")
    /\ UNCHANGED <<inode, tmp, cur, ended, waiter>>

Final(p) == CASE p = "parent" -> "running"
              [] p = "child" -> IF ended = 0 THEN "done" ELSE "failed"

\* A write at the start of a file that another process may have written.
Length(t) == CASE t = "done" -> 4 [] t = "failed" -> 6 [] t = "running" -> 7 [] OTHER -> 0
Over(new, old) == IF Length(new) >= Length(old) THEN new ELSE "mixed"

OpenTmp(p) ==
    /\ job[p].at = "open"
    /\ LET i == IF tmp # 0 THEN tmp ELSE CHOOSE n \in Inodes : n # cur /\ \A q \in Writers : n # job[q].fd
       IN  /\ tmp' = i /\ inode' = [inode EXCEPT ![i] = ""]
           /\ job' = [job EXCEPT ![p] = [at |-> "write", fd |-> i]]
    /\ UNCHANGED <<cur, result, ended, waiter>>

WriteTmp(p) ==
    /\ job[p].at = "write"
    /\ inode' = [inode EXCEPT ![job[p].fd] = Over(Final(p), @)]
    /\ At(p, "rename")
    /\ UNCHANGED <<tmp, cur, result, ended, waiter>>

\* os.replace; without the file it raises, and the child only logs that.
RenameTmp(p) ==
    /\ job[p].at = "rename"
    /\ tmp' = 0 /\ cur' = IF tmp # 0 THEN tmp ELSE cur
    /\ At(p, "end")
    /\ UNCHANGED <<inode, result, ended, waiter>>

\* Either process is killed.
KilledAt(p) ==
    /\ job[p].at \notin {"off", "end"} /\ At(p, "end")
    /\ UNCHANGED <<inode, tmp, cur, result, ended, waiter>>

-----------------------------------------------------------------------------
\* wait: a final status, or the deadline; then the result file is read, and
\* the command's exit code is that of the result, or 0 when there is none.
Told(how) ==
    /\ waiter' = [how |-> how, code |-> IF result # None THEN result ELSE 0]
    /\ UNCHANGED <<job, inode, tmp, cur, result, ended>>

WaitEnds     == waiter.how = "waiting" /\ inode[cur] \in {"done", "failed"} /\ Told("status")
WaitDeadline == waiter.how = "waiting" /\ inode[cur] \notin {"done", "failed"} /\ Told("deadline")

JobNext ==
    \/ Spawn \/ TaskReturns \/ MarkDone \/ WaitEnds \/ WaitDeadline
    \/ \E p \in Writers : OpenTmp(p) \/ WriteTmp(p) \/ RenameTmp(p) \/ KilledAt(p)

JobSpec == JobInit /\ [][JobNext]_jobVars

-----------------------------------------------------------------------------
(* Properties *)

\* "job wait" that returns before its deadline exits with the task's code,
\* whichever of the two processes wrote the status file, in whatever order and
\* wherever one of them was killed (mark_running, mark_done, wait).
WaitTellsOutcome == waiter.how = "status" => waiter.code = ended

\* The inductive invariant behind it: the child writes the status with the
\* task ended and the result written, so that a file with a final status, the
\* current one or not, has that result beside it.  A process that has
\* not opened status.tmp has no file open, so that there is one left to open.
OutcomeKept == ended # None /\ result = ended
JobInv ==
    /\ JobTypeOK
    /\ job["parent"].at = "off" => job["child"].at = "off"
    /\ \A p \in Writers : job[p].at \in {"off", "run", "open"} => job[p].fd = 0
    /\ job["child"].at \in {"open", "write", "rename"} => OutcomeKept
    /\ \A i \in Inodes : inode[i] \in {"done", "failed"} => OutcomeKept
    /\ waiter.how = "status" => OutcomeKept /\ waiter.code = ended

=============================================================================

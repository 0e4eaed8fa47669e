--------------------------- MODULE MCMailboxSend ---------------------------
(* MailboxSend for TLC: a broadcast to two recipients, sent by any group of *)
(* the senders, with the same or with different payloads.  What holds for a *)
(* lone sender of one payload only is stated for that case.                 *)
EXTENDS MailboxSend

VARIABLES crowd,   \* the senders that take part
          texts    \* the payloads they send under the message id

crowdVars == <<crowd, texts, vars>>

CrowdInit == Init /\ crowd \in SUBSET Senders \ {{}} /\ texts \in SUBSET Payloads \ {{}}

CallOne(s) == \E v \in texts : Call(s, v)

CrowdNext ==
  /\ UNCHANGED <<crowd, texts>>
  /\ \/ \E s \in crowd : CallOne(s) \/ Continue(s) \/ Crash(s)
     \/ \E r \in Recipients : Take(r)

CrowdSpec ==
  /\ CrowdInit /\ [][CrowdNext]_crowdVars
  /\ \A s \in Senders : /\ WF_crowdVars(s \in crowd /\ Continue(s) /\ UNCHANGED <<crowd, texts>>)
                        /\ WF_crowdVars(s \in crowd /\ CallOne(s) /\ UNCHANGED <<crowd, texts>>)

Alone == \E s \in Senders, v \in Payloads : crowd = {s} /\ texts = {v}

\* A lone sender that dies anywhere and sends again never lets a reader see a
\* file that is not completely written (temporary file and rename, _write_msg).
LoneEnvelopesAreWhole == Alone => EnvelopesAreWhole

\* A lone sender that keeps replaying the message succeeds in the end, unless
\* a crash left the history's temporary file behind (append_history).
LoneReplaySucceeds == Alone => ReplaySucceeds

-----------------------------------------------------------------------------
(* The inductive invariant behind LoneEnvelopesAreWhole *)

\* Only the senders of the crowd are inside a call.  The file that a lone
\* sender has open is still the temporary one, and once written it is whole.
LoneInv ==
  /\ crowd \subseteq Senders /\ texts \subseteq Payloads
  /\ \A s \in Senders \ crowd : pc[s] = "idle"
  /\ \A s \in Senders : crowd = {s} =>
       /\ pc[s] \in {Opened[l] : l \in Loops} => fd[s] = "tmp"
       /\ pc[s] \in {Written[l] : l \in Loops} => inboxTmp[at[s]] # Partial
       /\ EnvelopesAreWhole
=============================================================================

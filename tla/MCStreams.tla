------------------------------ MODULE MCStreams ------------------------------
(* The cursor of a session and a stream that resumes from it, for TLC.     *)
(* They share no variable, so the run explores them side by side and not   *)
(* their product.                                                          *)
EXTENDS StreamCursor, StreamSubscription

VARIABLE part

allVars == <<part, cursorVars, streamVars>>

Init == part \in {"cursor", "stream"} /\ CursorInit /\ StreamInit

InCursor == part = "cursor" /\ UNCHANGED <<part, streamVars>>
InStream == part = "stream" /\ UNCHANGED <<part, cursorVars>>

Next ==
    \/ InCursor /\ CursorNext
    \/ InStream /\ StreamNext

Spec ==
    /\ Init /\ [][Next]_allVars
    /\ \A s \in Senders : WF_allVars(InCursor /\ Continue(s))
    /\ WF_allVars(InStream /\ PollInbox) /\ WF_allVars(InStream /\ Connect)
    /\ WF_allVars(InStream /\ Receive)
    /\ WF_allVars(InStream /\ Handle) /\ WF_allVars(InStream /\ Look)
=============================================================================

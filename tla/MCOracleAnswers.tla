--------------------------- MODULE MCOracleAnswers ---------------------------
(* Asks and rebindings with results read in between, or one wait for the   *)
(* answer to asks that are recorded.                                       *)
EXTENDS OracleAnswers

Waiting ==
    /\ now = 2 /\ gen = 1 /\ binds = MaxBinds /\ last = MaxAsks /\ mixed = FALSE
    /\ sent = [r \in 1 .. MaxAsks |-> r - 1]
    /\ gate = [at |-> 2, req |-> MaxAsks, gen |-> 1]
    /\ proc = [p \in Procs |-> Idle]
    /\ texts \in SUBSET {[at |-> 1, src |-> "transcript", req |-> 0]} /\ events = <<>>
    /\ wait = NoWait /\ shown = [at |-> 0, req |-> 0]

AnswersSpec ==
    /\ AnswersInit \/ Waiting
    /\ [][AnswersNext]_answerVars
    /\ WF_answerVars(Poll)
=============================================================================

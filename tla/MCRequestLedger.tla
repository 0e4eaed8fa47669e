-------------------------- MODULE MCRequestLedger --------------------------
(* Model-checking instance of RequestLedger: interchangeable processes.    *)
EXTENDS RequestLedger, TLC

ProcSymmetry == Permutations(Procs)
=============================================================================

------------------------------ MODULE MCOracle ------------------------------
(* Two commands over a parked review, or one command and a sweep of two    *)
(* leases.                                                                 *)
EXTENDS OracleReview, TLC

Parked(keys, commands, sweeps) ==
  \E r \in Reviewed :
    /\ lru \in Orders
    /\ keys = Reviewed => lru[r] = Newest
    /\ lease = [k \in Keys |-> IF k \in keys
                  THEN [life |-> "hot", sid |-> IF k = r THEN 1 ELSE 0,
                        round |-> 0, old |-> FALSE, due |-> "no"] ELSE NoLease]
    /\ sweep = [NoSweep EXCEPT !.run = MaxSweeps - sweeps]
    /\ meta = [k \in Keys |-> IF k = r THEN 1 ELSE 0]
    /\ rts = [n \in Sids |-> IF n = 1
                THEN [key |-> r, sid |-> 1, want |-> 0, up |-> TRUE,
                      known |-> TRUE, by |-> "start", kept |-> TRUE]
                ELSE NoRuntime]
    /\ files = {1}
    /\ cli = [c \in Clis |-> NoRuntime]
    /\ sync = [k \in Keys |-> NoLease]
    /\ issued = MaxCommands - commands
    /\ contended = {}

OracleSpec == (Parked(Reviewed, 2, 0) \/ Parked(Keys, 1, 1)) /\ [][OracleNext]_oracleVars

CliSymmetry == Permutations(Clis)
=============================================================================

SPECIFICATION OracleSpec
CONSTANTS
  Keys = {k1, k2}
  NoLease = nolease
  MaxHot = 1
  MaxRounds = 1
  MaxSid = 2
  MaxSweeps = 1
  Clis = {c1, c2}
  Reviewed = {k1}
  NoRuntime = noruntime
  MaxCommands = 2
SYMMETRY CliSymmetry
INVARIANTS  SweepKeepsLimit  
PROPERTIES ReleasedIsNotEvicted
CHECK_DEADLOCK FALSE

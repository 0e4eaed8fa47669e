SPECIFICATION Spec
CONSTANTS
  Procs = {p1, p2}
  Runs = {r1, r2}
  NoProc = NoProc
  MaxCalls = 3
  MaxTorn = 1
SYMMETRY ProcSymmetry
INVARIANTS
  AtMostOneTerminal
  VerdictIsTheRecord
PROPERTIES
  StaleIsUnfinished

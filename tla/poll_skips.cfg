SPECIFICATION Spec
CONSTANTS
  Members = {m1, m2, m3}
  InChannel = {m1, m2}
  Ids = {1, 2, 3}
  PollLimit = 2
  MaxTime = 2
INVARIANTS PollSkipsNothing
CHECK_DEADLOCK FALSE

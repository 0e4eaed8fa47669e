SPECIFICATION GatewaySpec
CONSTANTS
  Runtimes = {rt}
  Park = park
  None = none
  MaxIncarnations = 2
  MaxRestarts = 1
  Requests = {q1}
  Bodies = {b1, b2}
  Senders = {s1, s2}
  Channels = {c1, c2}
  Nil = nil
  MaxCrashes = 1
  Keys = {k1}
  Values = {v1, v2}
  Threads = {t1, t2}
  Runners = {o1, o2}
  Nobody = nobody
  Torn = torn
  Absent = absent
  MaxBoots = 1
  MaxClock = 2
  Ttl = 1
INVARIANTS InjectedOnce TriggeredIsConfirmed SerialMergesSurvive ClaimIsExclusive
PROPERTIES OwnershipMovesForward SilentIsDeclaredDead
CHECK_DEADLOCK FALSE

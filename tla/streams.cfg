SPECIFICATION Spec
CONSTANTS
  Senders = {s1, s2}
  NoSender = NoSender
  MaxClock = 1
  MaxCalls = 3
  Msgs = {m1, m2}
  Claimable = {m2}
  Readable = {m1}
  NInboxes = 2
  MaxSeen = 1
  MaxFaults = 1
INVARIANTS ReplayIsNotRedelivered
PROPERTIES EveryCallReturns StreamDelivers
CHECK_DEADLOCK FALSE

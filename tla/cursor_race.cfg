SPECIFICATION Spec
CONSTANTS
  Senders = {s1, s2}
  NoSender = NoSender
  MaxClock = 0
  MaxCalls = 3
CHECK_DEADLOCK FALSE
INVARIANTS
  UniqueCursors

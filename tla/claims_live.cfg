SPECIFICATION LiveSpec
CONSTANTS
  a = a
  b = b
  m1 = m1
  m2 = m2
  Msgs = {m1}
  Malformed = {}
  Foreign = {}
  Procs = {a, b}
  Owners = {a, b}
  OwnerOf <- TwoOwners
  NoMsg = NoMsg
  NoOwner = NoOwner
  NoProc = NoProc
  LeaseTimeout = 1
  ClockTolerance = 0
  OrphanAgeGate = 1
  MaxAge = 2
  MaxCrashes = 1
  Prompt = FALSE
PROPERTY
  AbandonedIsRecovered

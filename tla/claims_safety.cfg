SPECIFICATION Spec
CONSTANTS
  a = a
  b = b
  m1 = m1
  m2 = m2
  Msgs = {m1, m2}
  Malformed = {m2}
  Foreign = {}
  Procs = {a, b}
  Owners = {a, b}
  OwnerOf <- TwoOwners
  NoMsg = NoMsg
  NoOwner = NoOwner
  NoProc = NoProc
  LeaseTimeout = 2
  ClockTolerance = 1
  OrphanAgeGate = 0
  MaxAge = 3
  MaxCrashes = 1
  Prompt = FALSE
INVARIANTS
  ExactlyOnePlace
  
  RenewExcludesRecovery
PROPERTY
  FinalizedStaysFinalized

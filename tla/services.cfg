SPECIFICATION Spec
CONSTANTS
  Vias = {"ssh", "sshMailbox", "local", "relay"}
  MaxBad = 2
  MaxNoise = 2
  MaxBeats = 1
  Sources = {s1, s2}
  PageLimit = 2
  MaxRows = 2
  MaxAppends = 3
  Kernels = {k1, k2}
  NoKernel = nokernel
  Agents = {a1}
  Hosts = {h1}
  NoHost = nohost
  Chans = {c1, c2}
  MaxLoads = 3
  NMsgs = 3
  Foreign = {2}
  MaxFaults = 2
  Readers = {r1, r2}
  NoReader = noreader
  NMessages = 3
  AckAsked = {2, 3}
  Stranger = {2}
INVARIANTS SuccessIsReal   RecordedStays FinalizedIsIngested WaitTellsOutcome AckDiscipline
PROPERTIES CallEnds 
CHECK_DEADLOCK FALSE

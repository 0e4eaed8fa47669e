SPECIFICATION CrowdSpec
CONSTANTS
  Engines = {e1, e2}
  Local = TRUE
  MaxAttempts = 2
  MaxCrashes = 1
  MaxAges = 1
INVARIANTS
  
  DeliveredIsTrue
PROPERTIES
  SweptHasHistory
  LoneEntrySettles

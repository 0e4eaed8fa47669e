SPECIFICATION CrowdSpec
CONSTANTS
  NumRecipients = 2
  Senders = {s1, s2}
  Payloads = {v1, v2}
  NoPayload = NoPayload
  Partial = Partial
  MaxCrashes = 2
INVARIANTS
  SuccessMeansDelivered
  LoneEnvelopesAreWhole
PROPERTIES
  ImplementsFanout
  LoneReplaySucceeds

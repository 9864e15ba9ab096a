SPECIFICATION Spec
CONSTANTS
  p1 = p1
  p2 = p2
  Undefined = Undefined
  Null = Null
  Publisher = {p1, p2}
  Bodies <- MCBodies
  FirstSeqNum <- MCFirstSeqNum
  Stamp <- MCStamp
  Reports <- MCReports
  MaxPublished = 3
  MaxLost = 1
  MaxCounted = 1
  RecoveryMessages <- MCRecoveryMessages
INVARIANTS RecordsTrue HeardIsStored ProofsVerify
PROPERTIES EveryMessageStored
CHECK_DEADLOCK FALSE

SPECIFICATION Spec
CONSTANTS
  b1 = b1
  b2 = b2
  Broker <- Brokers
  Held <- Messages
  To = 3
  RoundLimit = 2
  Idle = Idle
  MaxRequests = 5
  MaxLost = 1
  MaxEarly = 1
  MaxHasty = 1
INVARIANTS NothingMissed NeverStuck
PROPERTIES RecoveryEnds
CHECK_DEADLOCK FALSE

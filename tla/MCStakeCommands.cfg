SPECIFICATION StakingSpec
CONSTANTS
  c1 = c1
  c2 = c2
  query = query
  store = store
  Manager = {query, store}
  Tokens = 3
  Rate <- MCRate
  MinimumMint = 3
  MaxTip = 2
  Command = {c1, c2}
  Jobs <- MCJobs
  Fees = {0, 1}
  UsualFee = 1
  Unit = 2
  MaxFaults = 1
INVARIANTS ReportsTrue
PROPERTIES AloneSucceeds CommandsEnd
CHECK_DEADLOCK FALSE

SPECIFICATION Spec
CONSTANTS
  s1 = s1
  s2 = s2
  a = a
  b = b
  FirstChange = 5
  SecondChange = 26
  Source = {s1, s2}
  First = s1
  Store = {a, b}
  Height = 3
  Time <- MCTime
  FirstBlock = 1
  Starts <- MCStarts
  ChunkSize = 2
  MaxHandlers = 2
  Updates <- MCUpdates
  Fees <- MCFees
  Published <- MCPublished
  LastKey <- MCLastKey
  MaxFaults = 1
INVARIANTS ItemsComplete
CHECK_DEADLOCK FALSE
PROPERTIES EntriesStay ItemsKeepComing

SPECIFICATION ValidationSpec
CONSTANTS
  q = q
  n = n
  ours = ours
  twin = twin
  other = other
  foreign = foreign
  i1 = i1
  i2 = i2
  Node <- Nodes
  QueryNode = q
  Request <- Requests
  Ours = ours
  Publisher <- PublisherOf
  Compatible <- SameInput
  Id <- Ids
  Contents <- Stores
  Traffics <- TrafficSets
  Actives <- ContractLists
  Participants <- Answering
  MaxLost = 1
  Nothing = Nothing
INVARIANTS VerifiedIsRight ResponsesKept
PROPERTIES EndsUnlessRequestMissed
CHECK_DEADLOCK FALSE

SPECIFICATION ViewsSpec
CONSTANTS
  a = a
  b = b
  x = x
  y = y
  z = z
  Null = Null
  Uses <- MCUses
  FirstChain <- MCFirstChain
  NodeTxs <- MCNodeTxs
  Store = {1, 3}
  Undefined = 2
  PageSize = 2
  MaxBlocks = 2
  Listener = {1, 2}
  Once = {2}
  Listing = {1, 2}
  Poll = {1, 2}
  NodeAddress = {a, b}
  Url = {x, y, z}
  Batch = {1}
  MaxReads = 2
  MaxUrlFaults = 1
INVARIANTS ListUpToDate
PROPERTIES ListingsEnd LaterStoresHeard UrlsComeRight
CHECK_DEADLOCK FALSE

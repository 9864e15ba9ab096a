SPECIFICATION Spec
CONSTANTS
  n = n
  c = c
  d = d
  Address = {n, c}
  Nobody = Nobody
  Owner = c
  Stream = {}
  DataStream = {d}
  StakeRequired = 1
  TokensEach = 2
  InitialTokens <- MCInitialTokens
  MaxBlock = 1
  Id = {r1, r2}
  EmptyId = r1
  NoContent = NoContent
  Content <- MCContent
  MaxHeight = 2
INVARIANTS BooksAgree
PROPERTIES BilledOnce
CONSTRAINT Explored

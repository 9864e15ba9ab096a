SPECIFICATION ManagerSpec
CONSTANTS
  Nobody = Nobody
  Address = {a1, a2}
  Stream = {s1, s2}
  StakeRequired = 2
  TokensEach = 2
  InitialTokens <- MCInitialTokens
  MaxBlock = 2
INVARIANTS SupplyHeld StakesSound StreamsIndexed
SYMMETRY Alike

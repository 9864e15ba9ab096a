SPECIFICATION Spec
CONSTANTS
  User = {u1, u2}
  Stream = {s1, s2}
  TokensEach = 4
  InitialTokens <- MCInitialTokens
  MaxCapture = 5
INVARIANTS AccountsAgree SupplyWithinHeld
CHECK_DEADLOCK FALSE

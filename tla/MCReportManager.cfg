SPECIFICATION Spec
CONSTANTS
  Address = {a1, a2, a3}
  Id = {r1, r2}
  EmptyId = r1
  Content = {c}
  NoContent = NoContent
  Nobody = Nobody
  Precision = 2
  Buffer = 1
  Timestamps = {0}
  MaxProofs = 3
  MaxBlock = 2
  MaxTime = 2
INVARIANTS ReportersSound OneReporterAtATime EveryoneGetsATurn
PROPERTIES AcceptedByHalf ReporterAdvances ImplementsLedger
SYMMETRY Accounts
CONSTRAINT Explored

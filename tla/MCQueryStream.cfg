SPECIFICATION StreamSpec
CONSTANTS
  r1 = r1
  r2 = r2
  None = None
  Absent = Absent
  Inputs <- MCInputs
  Stored <- MCStored
  Reader = {r1, r2}
  BufferSize = 1
  HighWaterMark = 2
  MaxLoops = 2
INVARIANTS AnswersWhole
PROPERTIES EveryReaderEnds WriterEnds
CHECK_DEADLOCK FALSE

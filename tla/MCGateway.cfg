\* Every route, every failure, every sequence of chunks up to the bound.
SPECIFICATION Spec
CONSTANTS
  r1 = r1
  Requests = {r1}
  Chunks <- SomeChunks
  MaxChunks = 3
  TextLimit = 3
INVARIANTS TypeOK AskedIsLogged RowTellsOutcome MessageEventsNest ResponseEventsNest CaptureIsWhole FoldedIsComplete
CHECK_DEADLOCK FALSE

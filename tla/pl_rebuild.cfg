SPECIFICATION FairSpec
CONSTANTS
  Procs = {p1, p2}
  FileLen <- Len52
  TaskNum = 1
  TaskIndex = 0
  BatchSize = 3
  NumEpochs = 1
  Mode = "eval"
  DropRemainder = TRUE
  HasReserve = FALSE
  PrefetchSize = 2
  PipeCap = 1
  StopEarly = TRUE
  Reuse = FALSE
  MaxRuns = 2
INVARIANTS
  RunComplete
PROPERTIES
  GenEnds
  StopReturnsInTime

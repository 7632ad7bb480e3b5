SPECIFICATION FairSpec
CONSTANTS
  Procs = {p1, p2}
  FileLen <- Len41
  TaskNum = 1
  TaskIndex = 0
  BatchSize = 2
  NumEpochs = 1
  Mode = "predict"
  DropRemainder = TRUE
  HasReserve = TRUE
  PrefetchSize = 2
  PipeCap = 1
  StopEarly = FALSE
  Reuse = FALSE
  MaxRuns = 1
INVARIANTS
  GenEndsClean
PROPERTIES
  StopReturnsInTime

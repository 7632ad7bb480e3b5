SPECIFICATION Spec
CONSTANTS
  Procs = {p1, p2}
  FileLen <- Len51
  TaskNum = 1
  TaskIndex = 0
  BatchSize = 2
  NumEpochs = 2
  Mode = "train"
  DropRemainder = TRUE
  HasReserve = FALSE
  PrefetchSize = 2
  PipeCap = 1
  StopEarly = FALSE
  Reuse = FALSE
  MaxRuns = 1
INVARIANTS
  TypeOK
  SlotsAccounted
  FileOrder
  EndMarkIsLast
PROPERTIES
  ImplementsStream

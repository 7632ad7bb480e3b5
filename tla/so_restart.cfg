SPECIFICATION StreamSpec
CONSTANTS
  Workers = {0, 1}
  Chief = 0
  NumPartition = 2
  SaveSteps = 2
  StartAt = 0
  BatchSize = 2
  PrefetchSize = 2
  ReadCnt = 2
  MaxCrashes = 1
  Confs <- SmallConfs
\* All messages are read, and no process is left to crash.
CHECK_DEADLOCK FALSE
INVARIANTS
  LossBounded
PROPERTIES
  ReplayBounded
  OffsetsAdvance
  CatchesUp

SPECIFICATION StreamSpec
CONSTANTS
  Workers = {0}
  Chief = 0
  NumPartition = 1
  SaveSteps = 1
  StartAt = 0
  BatchSize = 1
  PrefetchSize = 1
  ReadCnt = 1
  MaxCrashes = 2
  Confs <- OneTopic
CHECK_DEADLOCK FALSE
INVARIANTS
  ResumesAtCheckpoint

SPECIFICATION JobSpec
CONSTANTS
  Workers = {w1, w2}
  Chief = w1
  Vars = {v1, v2}
  GlobalStep = global_step
  Settings <- MCSettings
  StartStep = 1
  MaxSteps = 3
  LeftOver = {0, 2}
\* Two queue runners that share a step stop the job, a lost session may.
CHECK_DEADLOCK FALSE
INVARIANTS
  SyncTypeOK
  ReadsNotBehind
  NoneDropped
  UpdatesTogether
  CkptWhole
  JobBarrierHolds
PROPERTIES
  FrozenAtExport
  JobEnds

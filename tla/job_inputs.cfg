SPECIFICATION JobSpec
CONSTANTS
  Jobs <- MCJobs
  Datas <- MCDatas
  BatchSize = 2
  Prefetch = 2
  MaxPasses = 2
INVARIANTS
  TasksNumbered
  AddressesFit
  TrainedOnce
  EvaluatedAlike
  PassWhole
CHECK_DEADLOCK FALSE

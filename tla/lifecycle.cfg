SPECIFICATION LifecycleSpec
CONSTANTS
  c = c
  w = w
  Workers <- MCWorkers
  Chief = c
  MaxStep = 3
  SaveEvery = 1
  Keep = 2
  ToKeep = 1
  Window = 2
  Settings <- MCSettings
  MaxCuts = 1
INVARIANTS FinalOut BestKept FitAfterTraining
PROPERTIES EvaluatorEnds TrainersEnd
CHECK_DEADLOCK FALSE

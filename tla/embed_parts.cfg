SPECIFICATION PartsSpec
CONSTANTS
  NumBuckets = 4
  Keys <- MCKeys
  MaxRanks = 3
  MaxStep = 2
  SaveSteps = 2
  MaxJobs = 2
  Settings <- MCSettings
INVARIANTS
  LatestWhole
  RestoredExact
\* After the last job there is nothing left to do.
CHECK_DEADLOCK FALSE

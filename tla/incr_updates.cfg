SPECIFICATION IncrSpec
CONSTANTS
  Workers = {c, w}
  Chief = c
  Rows = {1, 2}
  Dense = dense
  VarOf <- MCVarOf
  Batches <- MCBatches
  Settings <- MCSettings
  MaxStep = 2
  MaxLives = 2
INVARIANTS
  NothingUnsent
  KeysRise
  EndComplete

CONSTANTS
  LastId = 0
  Agents = {a1}
  a1 = a1
  Keyed = {a1}
  MaxPositions = 1
  Window = 1
  Target = 1
  Buffer = 0
  MaxPasses = 2
  MaxRounds = 1
  BatchSize = 1
  MaxTime = 2
  Disturbances = 1
  Lossy = {}
SPECIFICATION FairSpec
PROPERTY CreatedIsDelegated
CHECK_DEADLOCK FALSE

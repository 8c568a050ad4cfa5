CONSTANTS
  LastId = 0
  Agents = {a1, a2}
  a1 = a1
  a2 = a2
  Keyed = {a1, a2}
  MaxPositions = 1
  Window = 2
  Target = 1
  Buffer = 1
  MaxPasses = 2
  MaxRounds = 1
  BatchSize = 1
  MaxTime = 4
  Disturbances = 2
  Lossy = {0}
SPECIFICATION FairSpec
PROPERTY OpenedIsRetired
CHECK_DEADLOCK FALSE

CONSTANTS
  LastId = 1
  Agents = {a1}
  a1 = a1
  Keyed = {a1}
  MaxPositions = 2
  Window = 2
  Target = 2
  Buffer = 0
  MaxPasses = 2
  MaxRounds = 1
  BatchSize = 1
  MaxTime = 4
  Disturbances = 2
  Lossy = {0, 1}
SPECIFICATION Spec
INVARIANT TypeOK
INVARIANT DoneMeansFinished
INVARIANT NoDoubleWindow
PROPERTY KeepsLifeCycle
CHECK_DEADLOCK FALSE

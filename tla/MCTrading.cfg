CONSTANTS
  Crews <- TwoCrews
  LastId = 1
  Window = 2
  Scan = 2
  BaseSize = 1
  HedgeSize = 1
  Registered = 3
  Template = 2
  OverCapAt = 0
  WrongListAt = 1
  FlattenFrom = 0
  FlattenTo = 2
  NearClose = 1
  HedgesPerMarket = 1
  ForceEvery = 2
  ForceSecs = 1
  Slots = 1
  MaxTime = 4
  Disturbances = 1
SPECIFICATION FairSpec
INVARIANT TypeOK
INVARIANT HonestOnce
INVARIANT DemosNeverTrade
INVARIANT PolicyRestored
INVARIANT HedgesBounded
PROPERTY ForcedHaltLasts
PROPERTY NoHaltForever

CONSTANTS
  MarketIds = {0, 1}
  Agents = {a1, a2}
  MaxPositions = 1
  MinSeed = 3
  MaxAge = 1
  FeeBps = 5000
  U64Max = 100
  MaxTime = 1
  MaxSkew = 0
  Prices = {1}
  Windows <- OneWindow
  Seeds = {3}
  Policies <- LoosePolicy
  Transfers = {2}
  Bets = {2}
  Funds = 2
  DelegableMarkets = {}
  DelegableAgents = {}
SPECIFICATION Spec
CHECK_DEADLOCK FALSE
PROPERTY ImplementsEscrow
SYMMETRY Symmetry

CONSTANTS
  MarketIds = {0}
  Agents = {a1, a2}
  a1 = a1
  a2 = a2
  MaxPositions = 1
  MinSeed = 3
  MaxAge = 1
  FeeBps = 5000
  U64Max = 100
  MaxTime = 1
  MaxSkew = 0
  Prices = {1, 2}
  Windows <- OneWindow
  Seeds = {2, 3}
  Policies <- LoosePolicy
  Transfers = {3}
  Bets = {1, 2, 3}
  Funds = 3
  DelegableMarkets = {}
  DelegableAgents = {}
SPECIFICATION Spec
INVARIANT TypeOK
INVARIANT Solvent
INVARIANT BookMatchesPositions
INVARIANT VaultCoversClaims
INVARIANT SolvencyChecksNeverFire
INVARIANT FeesComeFromProfit
PROPERTY ResolutionFinal
SYMMETRY Symmetry
CHECK_DEADLOCK FALSE

CONSTANTS
  MarketIds = {0, 1}
  Agents = {a1}
  MaxPositions = 2
  MinSeed = 3
  MaxAge = 1
  FeeBps = 5000
  U64Max = 100
  MaxTime = 2
  MaxSkew = 1
  Prices = {1}
  Windows <- OneWindow
  Seeds = {3}
  Policies <- TwoPolicies
  Transfers = {2}
  Bets = {1}
  Funds = 2
  DelegableMarkets = {1}
  DelegableAgents = {a1}
SPECIFICATION Spec
INVARIANT VaultCoversClaims
INVARIANT OneSlotPerMarket
INVARIANT LenCoversPositions
PROPERTY CapRespected
PROPERTY HaltOnlyReduces
PROPERTY KeepsLifeCycle
CHECK_DEADLOCK FALSE

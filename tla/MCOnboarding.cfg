CONSTANTS
  bot = bot
  client = client
  Owners <- MCOwners
  Bots <- MCBots
  Clients <- MCClients
  KeySets <- MCKeySets
  Modes = {"chain", "http", "ops"}
  Funds = 3
  MaxPlay = 2
  Target = 2
  Disturbances = 1
SPECIFICATION FairSpec
INVARIANT TypeOK
PROPERTY NeverOverfunded
PROPERTY ReadyToTrade
PROPERTY StartsEnd
PROPERTY StrayIsDelegated

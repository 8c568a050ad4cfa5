CONSTANTS
  Null = Null
  m1 = m1
  a1 = a1
  Ledger <- Refused
  Markets = {m1}
  Owners = {a1}
  Runners = 4
  Limit = 1000
  Page = 1000
  Disturbances = 0
SPECIFICATION Spec
INVARIANT BlockedBetsAreShown
CHECK_DEADLOCK FALSE

CONSTANTS
  Null = Null
  m1 = m1
  a1 = a1
  Ledger <- Story
  Markets = {m1}
  Owners = {a1}
  Runners = 2
  Limit = 2
  Page = 1
  Disturbances = 1
SPECIFICATION FairSpec
INVARIANT TypeOK
INVARIANT NoUnexplainedGap
INVARIANT EventRowsWhole
PROPERTY AppendOnly
PROPERTY NothingBlanked
PROPERTY CatchesUp
CHECK_DEADLOCK FALSE

SPECIFICATION FairSpec
CONSTANTS
  Clients = {g1, g2}
  Natives = {}
  MaxToken = 2
  MaxCalls = 0
  Operations <- OnlySet
  Reentry <- OnlySet
PROPERTY EveryOperationReturns
CHECK_DEADLOCK FALSE

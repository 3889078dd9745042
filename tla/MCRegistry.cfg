SPECIFICATION RegistryFairSpec
CONSTANTS
  Clients = {g1, g2}
  Natives = {n1, n2}
  MaxToken = 1
INVARIANTS
  NoCallbackAfterDelete
  PendingCountsPanics
  ActiveCountsTokens
PROPERTIES
  EveryDeletionReturns

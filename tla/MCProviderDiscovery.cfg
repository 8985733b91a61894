SPECIFICATION FairSpec
CONSTANTS
  LastDay = 3
  MaxPerDay = 3
  Catalogs <- MCCatalogs
  PageCap = 2
  MessagePages = 2
  MaxAttempts = 2
  MaxRetries = 1
  MaxFailures = 1
  MaxEvictions = 2
INVARIANTS TypeOK NothingSkipped LosesNothing
PROPERTIES NoPassRestarts DiscoveryEnds
CHECK_DEADLOCK FALSE

SPECIFICATION Spec
CONSTANTS
  LastDay = 3
  MaxPerDay = 2
  Catalogs <- MCCatalogs
  PageCap = 2
  MessagePages = 2
  MaxAttempts = 2
  MaxRetries = 1
  MaxFailures = 1
  MaxEvictions = 0
INVARIANT DiscoveryComplete
CHECK_DEADLOCK FALSE

\* One build under fairness while an import arrives; one IMDb run is legacy.
SPECIFICATION FairSpec
CONSTANTS
  b1 = b1
  b2 = b2
  i0 = i0
  i1 = i1
  p0 = p0
  p1 = p1
  p2 = p2
  w1 = w1
  w2 = w2
  Builds = {b1}
  Past = past
  ImdbImports = {i0, i1}
  PopImports = {p0, p1, p2}
  Legacy = {i1}
  Arriving = {p2}
  PastSource <- MCPastSource
  NumRanges = 1
  Workers = {w1}
  MaxRetries = 1
  MaxChecks = 1
  Triggers = {"cron", "manual"}
  MaxFaults = 1
  Backlog = FALSE
  Own = own
  NoBuild = nobuild
  NoMessage = nomessage
PROPERTIES
  SparedPartitionsKept
  BuildsClose

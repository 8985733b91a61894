\* One build in two ranges, two consumers, any two faults.
SPECIFICATION Spec
CONSTANTS
  b1 = b1
  b2 = b2
  i0 = i0
  i1 = i1
  p0 = p0
  p1 = p1
  p2 = p2
  w1 = w1
  w2 = w2
  Builds = {b1}
  Past = past
  ImdbImports = {i0}
  PopImports = {p0, p1}
  Legacy = {}
  Arriving = {}
  PastSource <- MCPastSource
  NumRanges = 2
  Workers = {w1, w2}
  MaxRetries = 1
  MaxChecks = 1
  Triggers = {"manual"}
  MaxFaults = 2
  Backlog = FALSE
  Own = own
  NoBuild = nobuild
  NoMessage = nomessage
SYMMETRY Interchangeable
INVARIANTS
  TypeOK
  CompletedMeansApplied
  CleanupAfterApply
  SentinelOpen

\* Can a build prepare while the ranges of another are processed?
SPECIFICATION Spec
CONSTANTS
  b1 = b1
  b2 = b2
  i0 = i0
  i1 = i1
  p0 = p0
  p1 = p1
  p2 = p2
  w1 = w1
  w2 = w2
  Builds = {b1, b2}
  Past = past
  ImdbImports = {i0}
  PopImports = {p0, p1}
  Legacy = {}
  Arriving = {}
  PastSource <- MCPastSource
  NumRanges = 2
  Workers = {w1, w2}
  MaxRetries = 0
  MaxChecks = 1
  Triggers = {"manual"}
  MaxFaults = 1
  Backlog = FALSE
  Own = own
  NoBuild = nobuild
  NoMessage = nomessage
INVARIANT RangesExcludeOtherBuilds

SPECIFICATION Spec
CONSTANTS
  m1 = m1
  m2 = m2
  p1 = p1
  Ads = Ads
  Movies = {m1, m2}
  Providers = {p1}
  MaxDropPercent = 60
  Refreshes = {r1}
  Entries = {e1, e2}
  Scenarios <- MCScenarios
  MaxRetries = 1
SYMMETRY Symmetry
INVARIANTS TypeOK OneVerdict VerdictIsTruthful
PROPERTIES ReplacementIsSafe LiveIsOneSnapshot
CHECK_DEADLOCK FALSE

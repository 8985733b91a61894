SPECIFICATION Spec
CONSTANTS
  c1 = c1
  c2 = c2
  c3 = c3
  m1 = m1
  m2 = m2
  Movies = {m1}
  Direct = direct
  Channels = {channel}
  Responses <- MCResponses
  Legacy = {}
  Requests = {c1, c2, c3}
  Limit = 2
  LeaseTime = 1
  FailureWait = 2
  MissWait = 3
  MonthLength = 4
  MaxClock = 3
SYMMETRY Interchangeable
INVARIANTS TypeOK BudgetKept OneCallAtATime
PROPERTIES FoundIsServed OutcomeIsRemembered
CHECK_DEADLOCK FALSE

\* Email is not set up, and nothing fails.
SPECIFICATION Spec
CONSTANTS
  j1 = j1
  j2 = j2
  Jobs = {j1, j2}
  Auditor = auditor
  Mails = {"unconfigured"}
  MaxReports = 1
  MaxFaults = 0
INVARIANT NothingSilent
CHECK_DEADLOCK FALSE

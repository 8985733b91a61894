\* Every configuration, two statements, two faults.
SPECIFICATION FairSpec
CONSTANTS
  j1 = j1
  j2 = j2
  Jobs = {j1, j2}
  Auditor = auditor
  Mails = {"on", "unconfigured", "disabled"}
  MaxReports = 2
  MaxFaults = 2
INVARIANTS TypeOK DuplicatesExplained
PROPERTY EmailGetsOut
CHECK_DEADLOCK FALSE

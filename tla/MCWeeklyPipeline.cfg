\* One day: one trouble, one repeated job, one moment that finds a job at work.
SPECIFICATION Spec
CONSTANTS
  Movies = {m1, m2}
  ManualJobs = {"primary", "details", "popularity", "list", "warm", "validation"}
  Window = 3
  MaxClock = 7
  MaxManual = 1
  MaxTroubles = 1
  MaxAtOnce = 2
  MaxLate = 1
INVARIANTS TypeOK NewMoviesExplained VerdictIsSound
SYMMETRY Interchangeable
CHECK_DEADLOCK FALSE

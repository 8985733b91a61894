\* A scheduled or manual run, two consumers at a time, one retry.
SPECIFICATION FairSpec
CONSTANTS
  m1 = m1
  m2 = m2
  w1 = w1
  w2 = w2
  Lines <- MCLines
  Keys <- MCKeys
  Files <- MCFiles
  RowMessages <- MCRowMessages
  LinesOf <- MCLinesOf
  Finalizer = fin
  Workers = {w1, w2}
  NoMessage = none
  MaxRetries = 1
INVARIANTS
  TypeOK
  FinalizerLast
  CompleteMeansLoaded
  ScoreboardBounded
PROPERTIES
  ClosedRunStaysClosed
  KeepsPromise
  EveryRunCloses

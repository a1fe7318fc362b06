SPECIFICATION Spec
CONSTANTS
  Tests = {t1, t2}
  Workers = {w1, w2}
  MaxRetries = 1
  Concurrency = 1
  MaxCrashes = 1
  NoJob = NoJob
SYMMETRY Symmetry
INVARIANTS
  TypeOK
  NoTestLost
  RetriesJustified
  FirstAttemptConserved
  ExactlyOnceUntilCrash
  ResultsAccountForAcks
CHECK_DEADLOCK FALSE

SPECIFICATION Spec
CONSTANTS
  Tests = {t1, t2}
  Workers = {w1}
  MaxRetries = 1
  Concurrency = 1
  MaxCrashes = 0
  NoJob = NoJob
CHECK_DEADLOCK FALSE
INVARIANT WorkerConcurrencyBound

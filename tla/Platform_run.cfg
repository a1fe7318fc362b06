SPECIFICATION MCSpec
CONSTANTS
  Posts = {p1, p2}
  MaxTests = 1
  Room = 2
  MaxMs = 1
  MaxLosses = 1
  None = None
  Tests <- RunJobs
  Workers = {w1}
  MaxRetries = 1
  Concurrency = 1
  MaxCrashes = 1
  NoJob = NoJob
CHECK_DEADLOCK FALSE
INVARIANTS
  AcceptedTestAccounted
  NothingArrivesTwice
  WorkWasCounted
PROPERTIES
  ImplementsLifecycle
  EveryTestConcludes
  AcceptedTestConcludes

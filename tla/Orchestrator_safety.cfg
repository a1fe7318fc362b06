SPECIFICATION FairSpec
CONSTANTS
  Posts = {p1, p2}
  Probes = {h1}
  MaxTests = 3
  Room = 3
  MaxMs = 1
  MaxLosses = 1
  None = None
INVARIANTS
  TypeOK
  RecordMatchesJobs
  NoJobTwice
  AcceptedIsKnown
PROPERTIES
  CancelIsFinal
  EveryPostAnswered
  ImplementsRunLifecycle
CHECK_DEADLOCK FALSE

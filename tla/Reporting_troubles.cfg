SPECIFICATION Spec
CONSTANTS
  Attempt = a1
  Workers = {w1, w2}
  HandlerLanes = {1, 2}
  FlushLanes = {3}
  Scenarios <- Troublesome
  Absent = Absent
SYMMETRY Symmetry
INVARIANTS
  TypeOK
  AckedIsArchived
  StuckHasCause
  ScreenshotExists
CHECK_DEADLOCK FALSE

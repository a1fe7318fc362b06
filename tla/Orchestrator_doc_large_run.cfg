SPECIFICATION Spec
CONSTANTS
  Posts = {p1}
  Probes = {h1}
  MaxTests = 3
  Room = 3
  MaxMs = 1
  MaxLosses = 0
  None = None
INVARIANT RunOfAnySizeAccepted
CHECK_DEADLOCK FALSE

SPECIFICATION Spec
CONSTANTS
  Attempt = a1
  Workers = {w1, w2}
  HandlerLanes = {1, 2}
  FlushLanes = {3}
  Scenarios <- OnlyCalm
  Absent = Absent
INVARIANT ShowsVerdict
CHECK_DEADLOCK FALSE

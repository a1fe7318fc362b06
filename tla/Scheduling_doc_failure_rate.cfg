SPECIFICATION Spec
CONSTANTS
  Count = 1000
  MaxRetries = 2
  FailBelow = 2
  FlakyBelow = 10
INVARIANT RatesCauseFailures
CHECK_DEADLOCK FALSE

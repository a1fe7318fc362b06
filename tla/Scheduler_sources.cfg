SPECIFICATION SchedulerSpec
CONSTANTS
  Count = 10000
  MaxRetries = 2
  FailBelow = 69
  FlakyBelow = 540
  MaxLength = 3
  MaxFiles = 2
  NoFile = NoFile
INVARIANTS
  TypeOK
  MixMet
  RetriesRecover
  DistinctWordsKeepRows
CHECK_DEADLOCK FALSE

SPECIFICATION Spec
CONSTANTS
  i1 = i1
  i2 = i2
  r1 = r1
  r2 = r2
  Items = {i1, i2}
  Runs = {r1, r2}
  RunOf <- OneRun
  Workers = {"w1", "w2"}
  Files = {"a", "b"}
  FilesOf <- OneShared
  Reports <- FewReports
  Filters <- AllOrFailed
  Polls = {p1, p2}
  Fetches = {f1}
  MaxSaves = 2
  MaxClicks = 1
  MaxFailures = 1
  None = None
INVARIANTS
  TypeOK
  OnlyDetailsAreLate
PROPERTIES
  SkippedRenderIsCurrent
  ViewSettles
CHECK_DEADLOCK FALSE

SPECIFICATION Spec
CONSTANTS
  k1 = k1
  k2 = k2
  Keys = {k1, k2}
  Requests = {r1, r2}
  MaxLogs = 1
  Absent = Absent
  Bodies <- MixedBodies
SYMMETRY Symmetry
INVARIANTS
  TypeOK
  PointerValid
  ArchiveSelfContained
  ArchiveServed
PROPERTY FreshSaveLosesNothing
CHECK_DEADLOCK FALSE

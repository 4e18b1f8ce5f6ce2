SPECIFICATION Spec
CONSTANTS
  File = {f1, f2}
  f1 = f1
  f2 = f2
  Thread = {t1, t2}
  t1 = t1
  t2 = t2
  FlagCount = 2
  Requests <- SomeRequests
  MaxGen = 1
  NONE = NONE
SYMMETRY Symmetry
INVARIANTS
  CachedIsCurrent
  FirmwareIsCurrent
PROPERTIES
  SetCounts

SPECIFICATION FairSpec
CONSTANTS
  File = {f1, f2}
  f1 = f1
  f2 = f2
  Flags <- AllFlags
  PldrSupported = TRUE
  MaxGen = 2
INVARIANTS
  OthersStayDead
  PldrReferences
PROPERTIES
  WindowClosedRestored
  ResetProven
  PldrSettles
CHECK_DEADLOCK FALSE

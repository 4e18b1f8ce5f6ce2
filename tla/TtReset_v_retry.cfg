SPECIFICATION Spec
CONSTANTS
  File = {f1}
  f1 = f1
  Flags <- RetryFlags
  PldrSupported = TRUE
  MaxGen = 1
PROPERTIES
  PostResetMeansUsable
CHECK_DEADLOCK FALSE

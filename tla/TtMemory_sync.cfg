SPECIFICATION Spec
CONSTANTS
  f1 = f1
  f2 = f2
  p1 = p1
  p2 = p2
  t1 = t1
  t2 = t2
  w1 = w1
  s1 = s1
  v1 = v1
  v2 = v2
  r1 = r1
  File = {f1, f2}
  SyncFile = {f1, f2}
  SharedFile = {}
  Process = {p1}
  Thread = {t1, t2}
  Window = {w1}
  Slot = {s1}
  Size = {1}
  DmaBufLimitBytes = 0
  Va = {v1, v2}
  PinRange = {r1}
  DmaIdentity = TRUE
  NoFile = NoFile
  NoProcess = NoProcess
  NoReq = NoReq
  NoObj = NoObj
  Bar = Bar
SYMMETRY Symmetry
CHECK_DEADLOCK FALSE
INVARIANTS NothingOutlivesItsBuffer WindowViewsAreOwners
INVARIANTS ClosedOwnsNothing
PROPERTIES ConfiguredByOwner

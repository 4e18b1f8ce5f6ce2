SPECIFICATION Spec
CONSTANTS
  t1 = t1
  t2 = t2
  t3 = t3
  f1 = f1
  f2 = f2
  Thread = {t1, t2, t3}
  FileList <- TwoFiles
  NoThread = NoThread
SYMMETRY Symmetry
INVARIANTS NoDeadlockedSet AccessReachesItsTarget

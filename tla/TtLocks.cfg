SPECIFICATION FairSpec
CONSTANTS
  f1 = f1
  f2 = f2
  l1 = l1
  l2 = l2
  t1 = t1
  t2 = t2
  t3 = t3
  File = {f1, f2}
  SyncFile = {f2}
  Lock = {l1, l2}
  Thread = {t1, t2, t3}
  WakeBatch = 3
  MaxGen = 1
  NoFile = NoFile
  NoReq = NoReq
INVARIANTS HeldExactlyOnce NoLostWakeup NoStrandedWaiter ClosedHoldsNothing
PROPERTIES FifoGrant ImplementsLockService StaleWaiterFails
CHECK_DEADLOCK FALSE

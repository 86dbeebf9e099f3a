CONSTANTS
  Threads = {t1, t2, t3, t4}
  Locks = {l1, l2}
  Conds = {c1, c2}
  None = None
SPECIFICATION Spec
SYMMETRY Symmetry
INVARIANTS
  TypeOK
  MutualExclusion
  LockAccounting
  OnePlace
  NoThreadLost
  HandoffDelivered
  MaskDiscipline
  ExitsOnlyWhenStuck
PROPERTIES
  NoBarging
  CvIsFifo
  WaitReturnsWithLock
  ImplementsMonitor

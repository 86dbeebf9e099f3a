CONSTANTS
  Threads = {t1, t2, t3, t4}
  Locks = {l1}
  Conds = {c1}
  None = None
SPECIFICATION FairSpec
PROPERTIES
  NoStarvation
  LocksAreGranted

CONSTANTS
  Threads = {t1, t2, t3, t4}
  Locks = {l1, l2}
  Conds = {c1}
  None = None
SPECIFICATION Spec
SYMMETRY Symmetry
INVARIANT TypeOK
PROPERTIES
  RefusedOnlyInDeadlock
  ImplementsThreadLib

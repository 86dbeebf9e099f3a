CONSTANTS
  IntMax = 7
  MaxSize = 3
SPECIFICATION Spec
INVARIANT PopTakesNearest

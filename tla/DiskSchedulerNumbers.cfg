CONSTANTS
  IntMax = 15
  MaxSize = 2
  N = 2
  Files <- Two
  Boot = Boot
  Service = Service
  MaxFailures = 0
  None = None
SPECIFICATION Spec
INVARIANT UniqueNumbers

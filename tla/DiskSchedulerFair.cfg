CONSTANTS
  IntMax = 15
  MaxSize = 2
  N = 2
  Files <- TwoWithFaults
  Boot = Boot
  Service = Service
  MaxFailures = 1
  None = None
SPECIFICATION FairSpec
INVARIANT ServiceOutlivesRequesters
PROPERTIES
  EveryRequestIsServed
  Terminates

CONSTANTS
  IntMax = 15
  MaxSize = 2
  N = 3
  Files <- Three
  Boot = Boot
  Service = Service
  MaxFailures = 1
  None = None
SPECIFICATION FairSpec
INVARIANTS
  LockHeldThroughout
  NeverServes
  EndsWellOnlyIfUnused
PROPERTIES
  ShortOfProducersForGood
  ImplementsNearestFirst
  EndsOrSpins

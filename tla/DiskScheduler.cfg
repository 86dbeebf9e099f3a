CONSTANTS
  IntMax = 15
  MaxSize = 2
  N = 3
  Files <- Three
  Boot = Boot
  Service = Service
  MaxFailures = 0
  None = None
SPECIFICATION Spec
INVARIANTS
  TypeOK
  CriticalSections
  OneOutstanding
  ActiveCount
  NoMissedSignal
  StrandedOnlyByKnownDefects
  LeakIsHarmless
  PopsARequest
PROPERTY
  ImplementsNearestFirst

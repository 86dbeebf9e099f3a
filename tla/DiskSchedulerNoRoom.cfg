CONSTANTS
  IntMax = 15
  MaxSize = 0
  N = 2
  Files <- Two
  Boot = Boot
  Service = Service
  MaxFailures = 0
  None = None
SPECIFICATION FairSpec
PROPERTY EndsOrSpins

CONSTANTS
  BufSize = 5
  Listings <- AllListings
  Texts <- Files
  Garbage <- Leftovers
  Debris = {"b", "x"}
SPECIFICATION Spec
INVARIANTS
  IndexIsExact
  PrintedBackwards

SPECIFICATION FairSpec
CONSTANTS
  Callers = {1, 2, 3}
  Keys = {x, y}
  Ttl = 3
  Interval = 1
  None = None
CONSTRAINT Bounds
INVARIANTS
  Exclusive
PROPERTIES
  LostByTimeOrOwner
  KeyIsFreed

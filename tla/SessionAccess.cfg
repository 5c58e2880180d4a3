SPECIFICATION Spec
CONSTANTS
  Calls = {1, 2}
  Sessions = {s1}
  Caches = {c1}
  AccessLife = 1
  RefreshLife = 2
  MaxTime = 3
  MaxFailures = 1
  Never = Never
  None = None
CONSTRAINT InOrder
INVARIANTS
  AccessTokenExpires

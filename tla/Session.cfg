SPECIFICATION Spec
CONSTANTS
  Calls = {1, 2, 3}
  Sessions = {s1}
  Caches = {c1, c2}
  AccessLife = 1
  RefreshLife = 2
  MaxTime = 3
  MaxFailures = 1
  Never = Never
  None = None
SYMMETRY Symmetry
CONSTRAINT InOrder
ACTION_CONSTRAINT Leisurely
INVARIANTS
  LogoutIsFinal
  RefusalHasReason
  DeletedIsBanned
  ExpiredIsRefused

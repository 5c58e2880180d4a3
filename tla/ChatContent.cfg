SPECIFICATION Spec
CONSTANTS
  ann = ann
  Calls = {k1, k2}
  Users = {ann, bob}
  Accounts = {ann, bob}
  None = None
INVARIANTS
  BroadcastHasContent

SPECIFICATION Spec
CONSTANTS
  ann = ann
  Calls = {k1, k2}
  Users = {ann, bob, eve}
  Accounts = {ann, bob}
  None = None
INVARIANTS
  ParticipantsExist

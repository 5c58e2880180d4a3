SPECIFICATION Spec
CONSTANTS
  Sockets = {s1, s2}
  Instances = {i1, i2}
  Conversations = {c1, c2}
  Users = {ann, bob, zoe}
  Accounts = {ann, bob}
  None = None
SYMMETRY Symmetry
CONSTRAINT Bounds
INVARIANTS
  RoomIsOfParticipants
  ParticipantsAreInRoom
  RedirectedIsInRoom
  CountIsCovered

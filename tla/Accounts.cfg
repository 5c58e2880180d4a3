SPECIFICATION Spec
CONSTANTS
  Processes = {p1, p2}
  Pairs = {a, b, c}
  Absent = Absent
  Blank = Blank
  Calls = {k1, k2}
  Emails = {e1}
  Passwords = {w1, w2}
  None = None
SYMMETRY Symmetry
CONSTRAINT Bounds
INVARIANTS
  Inv
  EmailsAreUnique
  TokensVerify

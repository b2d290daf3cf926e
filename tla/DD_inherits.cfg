SPECIFICATION Spec
CONSTANTS
  Users = {u1, u2}
  None = None
  Logins = {l1}
  MaxActs = 3
  MaxMishaps = 0
INVARIANT NeverInherits
SYMMETRY Symmetry
CHECK_DEADLOCK FALSE

SPECIFICATION Spec
CONSTANTS
  Users = {u1, u2}
  None = None
  Logins = {l1}
  MaxActs = 3
  MaxMishaps = 1
INVARIANT ServesUser
INVARIANT PatIsOwners
INVARIANT GuardOwned
SYMMETRY Symmetry
CHECK_DEADLOCK FALSE

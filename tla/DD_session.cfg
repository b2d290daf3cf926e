SPECIFICATION Spec
CONSTANTS
  Users = {u1, u2}
  None = None
  Logins = {l1}
  MaxActs = 2
  MaxMishaps = 1
INVARIANT ServesUser
INVARIANT PatIsOwners
PROPERTY UpIsShown
PROPERTY DeferredRestartHappens
CHECK_DEADLOCK FALSE

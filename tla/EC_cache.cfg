SPECIFICATION FairSpec
CONSTANTS
  Rows = {k1, k2}
  Claimers = {c1, c2}
  None = None
INVARIANT BelievedIsTrue
INVARIANT CacheInv
PROPERTY NeverStalled

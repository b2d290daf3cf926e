SPECIFICATION Spec
CONSTANTS
  Slugs = {w1, w2}
  Pages = {issues, item}
  None = None
  Issues = issues
  MaxTabs = 3
  MaxStack = 3
  MaxActs = 4
SYMMETRY Symmetry
CHECK_DEADLOCK FALSE
INVARIANT NoLeak

SPECIFICATION Spec
CONSTANTS
  Slugs = {w1, w2}
  Pages = {issues, item}
  None = None
  Issues = issues
  MaxTabs = 3
  MaxStack = 3
  MaxActs = 7
INVARIANT TypeOK
INVARIANT GroupsSound
INVARIANT RoutersOwned
INVARIANT NotBlank
INVARIANT ButtonsHonest
INVARIANT Lands
SYMMETRY Symmetry
CHECK_DEADLOCK FALSE

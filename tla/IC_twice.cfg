SPECIFICATION Spec
CONSTANTS
  Issues = {i1}
  None = None
  todo = todo
  done = done
  Columns <- MCColumns
  Cancelled = cancelled
  Muts = {m1}
  MaxCommits = 2
  MaxActs = 0
  MaxFaults = 0
CHECK_DEADLOCK FALSE
PROPERTY AddingIsNoOp

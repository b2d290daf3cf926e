SPECIFICATION Spec
CONSTANTS
  Issues = {i1}
  None = None
  todo = todo
  done = done
  Columns <- MCColumns
  Cancelled = cancelled
  Muts = {m1}
  MaxCommits = 1
  MaxActs = 3
  MaxFaults = 1
INVARIANT TypeOK
INVARIANT Synced
INVARIANT DueIsKept
PROPERTY DueIsDone
CHECK_DEADLOCK FALSE

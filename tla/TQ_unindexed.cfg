SPECIFICATION Spec
CONSTANTS
  Agents = {a1}
  Runtimes = {r1}
  Issues = {}
  Chats = {s1}
  QuickCreates = {}
  Runs = {}
  Orphan = orphan
  Blank = blank
  None = None
  Enqueuers = {e1}
  Claimers = {c1, c2}
  Sweeper = sweeper
  Reporters = {}
  Recoverers = {h1}
  Refreshers = {}
  Revocable = {}
  Movable = {}
  Archivable = {}
  Priority <- MCPriority
  SessionAgent <- MCSessionAgent
  MaxTasks = 3
  MaxAttempts = 2
  MaxConcurrent = 2
  MaxCrashes = 0
INVARIANT TypeOK
INVARIANT RetriedOnce
INVARIANT LanesBounded
INVARIANT CapacityBounded
SYMMETRY Symmetry
CHECK_DEADLOCK FALSE

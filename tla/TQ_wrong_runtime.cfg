SPECIFICATION Spec
CONSTANTS
  Agents = {a1}
  Runtimes = {r1, r2}
  Issues = {i1, i2}
  Chats = {}
  QuickCreates = {}
  Runs = {}
  Orphan = orphan
  Blank = blank
  None = None
  Enqueuers = {e1}
  Claimers = {c1}
  Sweeper = sweeper
  Reporters = {}
  Recoverers = {}
  Refreshers = {}
  Revocable = {}
  Movable = {a1}
  Archivable = {}
  Priority <- MCPriority
  SessionAgent <- MCSessionAgent
  MaxTasks = 2
  MaxAttempts = 2
  MaxConcurrent = 1
  MaxCrashes = 0
INVARIANT DispatchedIsDelivered
SYMMETRY Symmetry

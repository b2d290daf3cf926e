SPECIFICATION Spec
CONSTANTS
  Agents = {a1}
  Runtimes = {r1}
  Issues = {i1}
  Chats = {}
  QuickCreates = {}
  Runs = {}
  Orphan = orphan
  Blank = blank
  None = None
  Enqueuers = {e1}
  Claimers = {c1}
  Sweeper = sweeper
  Reporters = {}
  Recoverers = {}
  Refreshers = {f1}
  Revocable = {}
  Movable = {}
  Archivable = {a1}
  Priority <- MCPriority
  SessionAgent <- MCSessionAgent
  MaxTasks = 2
  MaxAttempts = 2
  MaxConcurrent = 1
  MaxCrashes = 0
INVARIANT StatusSettles
SYMMETRY Symmetry

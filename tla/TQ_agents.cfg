SPECIFICATION Spec
CONSTANTS
  Agents = {a1}
  Runtimes = {r1, r2}
  Issues = {}
  Chats = {}
  QuickCreates = {q1}
  Runs = {}
  Orphan = orphan
  Blank = blank
  None = None
  Enqueuers = {e1}
  Claimers = {c1}
  Sweeper = sweeper
  Reporters = {h1}
  Recoverers = {h1}
  Refreshers = {f1, f2}
  Revocable = {r1}
  Movable = {a1}
  Archivable = {a1}
  Priority <- MCPriority
  SessionAgent <- MCSessionAgent
  MaxTasks = 2
  MaxAttempts = 2
  MaxConcurrent = 1
  MaxCrashes = 1
INVARIANT StatusTruthful
SYMMETRY Symmetry

SPECIFICATION FairSpec
CONSTANTS
  Agents = {a1}
  Runtimes = {r1, r2}
  Issues = {i1}
  Chats = {}
  QuickCreates = {}
  Runs = {}
  Orphan = orphan
  Blank = blank
  None = None
  Enqueuers = {e1}
  Claimers = {c1}
  Sweeper = sweeper
  Reporters = {h1}
  Recoverers = {}
  Refreshers = {}
  Revocable = {}
  Movable = {a1}
  Archivable = {}
  Priority <- MCPriority
  SessionAgent <- MCSessionAgent
  MaxTasks = 2
  MaxAttempts = 2
  MaxConcurrent = 1
  MaxCrashes = 1
PROPERTY InfraFailureRetried
PROPERTY SweptIssueReleased
PROPERTY EveryTaskEnds

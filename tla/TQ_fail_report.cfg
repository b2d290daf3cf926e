SPECIFICATION FairSpec
CONSTANTS
  Agents = {a1}
  Runtimes = {r1}
  Issues = {i1}
  Chats = {}
  QuickCreates = {}
  Runs = {}
  Orphan = orphan
  Blank = blank
  None = None
  Enqueuers = {e1}
  Claimers = {c1}
  Sweeper = sweeper
  Reporters = {h1}
  Recoverers = {}
  Refreshers = {}
  Revocable = {}
  Movable = {}
  Archivable = {}
  Priority <- MCPriority
  SessionAgent <- MCSessionAgent
  MaxTasks = 2
  MaxAttempts = 2
  MaxConcurrent = 1
  MaxCrashes = 0
PROPERTY FailedIssueReleased

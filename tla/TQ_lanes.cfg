SPECIFICATION Spec
CONSTANTS
  Agents = {a1, a2}
  Runtimes = {r1}
  Issues = {i1}
  Chats = {}
  QuickCreates = {q1}
  Runs = {u1}
  Orphan = orphan
  Blank = blank
  None = None
  Enqueuers = {e1}
  Claimers = {c1, c2}
  Sweeper = sweeper
  Reporters = {}
  Recoverers = {}
  Refreshers = {}
  Revocable = {}
  Movable = {}
  Archivable = {}
  Priority <- MCPriority
  SessionAgent <- MCSessionAgent
  MaxTasks = 2
  MaxAttempts = 2
  MaxConcurrent = 2
  MaxCrashes = 0
INVARIANT IssueSerialized
INVARIANT IssueInv
INVARIANT LanesBounded
PROPERTY ImplementsSerialLanes
SYMMETRY AgentSymmetry

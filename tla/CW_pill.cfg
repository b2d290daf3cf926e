SPECIFICATION Spec
CONSTANTS
  Agents = {a1, a2}
  Sessions = {s1, s2}
  None = None
  First = s1
  FirstAgent = a1
  Senders = {c1}
  Uploaders = {u1}
  Idle = idle
  Optimistic = optimistic
  Off = off
  Asked = asked
  MaxTasks = 2
  MaxWire = 2
  MaxActs = 1
  MaxFaults = 0
INVARIANT NoEndedTask
CHECK_DEADLOCK FALSE

CONSTANTS
  Sessions = {s1}
  CodexSessions = {s1}
  Dirs = {}
  RequestIDs = {r1}
  Cmds = {c1}
  PIDs = {p1}
  None = None
  ResumeCooldown = 1
  StartCooldown = 1
  RequestTTL = 1
  ClearBound = 0
  QueueCap = 1
  MaxCrashes = 0
SPECIFICATION Spec
INVARIANT FailedStartWithdrawn

CONSTANTS
  Sessions = {s1}
  CodexSessions = {}
  Dirs = {d1}
  RequestIDs = {r1}
  Cmds = {c1, c2}
  PIDs = {p1}
  None = None
  ResumeCooldown = 2
  StartCooldown = 1
  RequestTTL = 0
  ClearBound = 1
  QueueCap = 1
  MaxCrashes = 0
SPECIFICATION FairSpec
PROPERTIES IndicatorOutlivesChild TargetReusable CancelTerminates

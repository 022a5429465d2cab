CONSTANTS
  Sessions = {s1}
  CodexSessions = {s1}
  Dirs = {d1}
  RequestIDs = {r1, r2}
  Cmds = {c1, c2}
  PIDs = {p1, p2}
  None = None
  ResumeCooldown = 1
  StartCooldown = 1
  RequestTTL = 1
  ClearBound = 0
  QueueCap = 0
  MaxCrashes = 1
SPECIFICATION Spec
SYMMETRY Interchangeable
INVARIANTS TypeOK OneChildPerTarget ReservationsOwned CancelSilencesFailure RedeliveryStartsNothing RelayInv
PROPERTY SlotsImplemented

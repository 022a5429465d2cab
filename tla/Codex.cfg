SPECIFICATION FairSpec
CONSTANTS
  Paths = {1, 2}
  Ids = {i1, i2}
  None = None
  MaxLines = 2
  MaxChanges = 3
  MaxResumes = 1
  MaxClock = 1
  MaxCrashes = 1
  ResumeWindow = 1
  ClockSlack = 0
INVARIANTS TypeOK SessionsReferenced AliasesStored
PROPERTIES ManagedKept LogsFollowed
CHECK_DEADLOCK FALSE

SPECIFICATION Spec
CONSTANTS
  Paths = {1, 2}
  Ids = {i1, i2}
  None = None
  MaxLines = 1
  MaxChanges = 2
  MaxResumes = 1
  MaxClock = 1
  MaxCrashes = 1
  ResumeWindow = 1
  ClockSlack = 0
PROPERTY ContinuationSurvives
CHECK_DEADLOCK FALSE

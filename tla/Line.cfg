SPECIFICATION Spec
CONSTANTS
  Paths = {1, 2}
  i1 = i1
  i2 = i2
  Ids = {i1, i2}
  None = None
  Written <- SomeLines
  MaxLines = 2
  MaxChanges = 4
INVARIANTS TypeOK SessionsReferenced TailingIsReading
PROPERTIES ManagedKept LogsFollowed
CHECK_DEADLOCK FALSE

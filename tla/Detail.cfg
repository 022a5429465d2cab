SPECIFICATION Spec
CONSTANTS
  Logs <- SomeLogs
  EventLimit = 3
  RuneLimit = 5
  TextLimit = 2
  Window = 1
  Now = 3
INVARIANTS TypeOK LimitsKept NothingForgotten MessagesShownOnce LatestDecides
CHECK_DEADLOCK FALSE

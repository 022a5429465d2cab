SPECIFICATION FairSpec
CONSTANTS
  Sessions = {s1, s2}
  Busy = {s1}
  MaxVersion = 2
  MaxRemovals = 2
  MaxSubscribes = 1
  AdapterCap = 2
  MultiCap = 1
INVARIANTS TypeOK SilentUntilSubscribed ProjectionFollows
PROPERTIES CatchesUpUndisturbed LoneRemovalArrives
CHECK_DEADLOCK FALSE

SPECIFICATION FairSpec
CONSTANTS
  Sessions = {s1}
  Busy = {s1}
  MaxVersion = 2
  MaxRemovals = 1
  MaxSubscribes = 1
  AdapterCap = 4
  MultiCap = 4
PROPERTY CatchesUpUndropped
CHECK_DEADLOCK FALSE

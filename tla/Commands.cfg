SPECIFICATION Spec
CONSTANTS
  Procs = {c1, r1, r2}
  Early = Early
  None = None
  Renamed = {r1, r2}
  Found <- SomeFiles
  Searches <- SomeSearches
SYMMETRY Interchangeable
INVARIANTS TypeOK ServesClaimed PairingNotForgotten StartSeesRunning StopStops
CHECK_DEADLOCK FALSE

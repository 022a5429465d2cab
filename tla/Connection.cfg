SPECIFICATION FairSpec
CONSTANT MaxConns = 2
INVARIANTS TypeOK AuthenticatedFirst SingleForwarder
PROPERTIES RedialsWhileOffline StopEndsOffline
CHECK_DEADLOCK FALSE

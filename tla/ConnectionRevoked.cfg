SPECIFICATION FairSpec
CONSTANT MaxConns = 2
PROPERTY RevokedDisconnects
CHECK_DEADLOCK FALSE

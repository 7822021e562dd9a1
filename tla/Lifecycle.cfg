SPECIFICATION FairSpec
CONSTANTS
  Conns = {c1, c2}
  Ids = {i1, i2}
  EMPTY = EMPTY
  OWN = OWN
  POOL = 1
  KEEP_ALIVE_MAX = 2
INVARIANTS
  TypeOK
  Answers
  UsesAlive
  GracefulExit
PROPERTIES
  ServerEnds
CHECK_DEADLOCK FALSE

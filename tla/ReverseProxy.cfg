SPECIFICATION FairSpec
CONSTANTS
  Sessions = {x, y}
  MAX_SENT = 2
  NFDS = 2
  NONE = NONE
INVARIANTS
  TypeOK
  OwnDescriptors
  NothingLeaks
PROPERTIES
  ImplementsStreams
  SessionsEnd
CHECK_DEADLOCK FALSE

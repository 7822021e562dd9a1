SPECIFICATION FairSpec
CONSTANTS
  Sessions = {x, y}
  MAX_SENT = 1
  NFDS = 2
  NONE = NONE
PROPERTIES
  NoEndlessWait
CHECK_DEADLOCK FALSE

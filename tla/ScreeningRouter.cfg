SPECIFICATION FairSpec
CONSTANTS
  Clients = {c1, c2}
  ROUTER = router
  ExtMacs = {g1}
  DmzHosts = {proxy, other}
  PROXY = proxy
  Ports = {p8080, p1}
  HTTP = p8080
  BACKLOG = 2
  ATTEMPTS = 2
  ANY = ANY
  NONE = NONE
INVARIANTS
  TypeOK
  OnlyWebEnters
  RepliesReachUsers
PROPERTIES
  BothServed
CHECK_DEADLOCK FALSE

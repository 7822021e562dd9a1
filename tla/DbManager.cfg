SPECIFICATION FairSpec
CONSTANTS
  Threads = {t1, t2, t3}
  Handles = {h1, h2, h3}
  POOL_SIZE = 2
  MAX_RETRIES = 2
  NONE = NONE
INVARIANTS
  TypeOK
  Capacity
  Ownership
  NoLostWakeup
PROPERTIES
  EveryCallReturns
  PoolHeals
  ShutdownCloses
  ImplementsConnPool

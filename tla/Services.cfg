SPECIFICATION FairSpec
CONSTANTS
  Workers = {w1, w2}
  Names = {admin, ann}
  Seeded = {admin}
  Admins = {admin}
  MAX_POSTS = 2
  POOL_SIZE = 2
  NONE = NONE
INVARIANTS
  TypeOK
  ToldTruly
  NobodyWaits
PROPERTIES
  ImplementsBoard
  FollowsConnPool
  EveryRequestAnswered

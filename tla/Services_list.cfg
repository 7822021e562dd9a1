SPECIFICATION Spec
CONSTANTS
  Workers = {w1, w2}
  Names = {admin, ann}
  Seeded = {admin}
  Admins = {admin}
  MAX_POSTS = 2
  POOL_SIZE = 2
  NONE = NONE
INVARIANTS
  ListShowsAll

SPECIFICATION Spec
CONSTANTS
  Ids = {s1, s2}
  Users = {alice, root}
  Admins = {root}
  Workers = {w1, w2}
  LIFETIME = 2
  NONE = NONE
PROPERTIES
  LoginReplacesSession

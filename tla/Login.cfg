\* The durations of the code, 30 and 60 seconds, are scaled down to two and
\* four seconds of two ticks each, and the five attempts to two.
SPECIFICATION FairSpec
CONSTANTS
  Users = {u1}
  Workers = {w1, w2, w3}
  MAX = 2
  LOCKOUT = 4
  COOLDOWN = 8
  TICKS = 2
  FAIL_CAP = 3
  ABSENT = ABSENT
INVARIANTS
  TypeOK
  LeakBound
  LockMatchesPolicy
PROPERTIES
  ImplementsPolicy
  TableEmpties

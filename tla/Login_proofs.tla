---------------------------- MODULE Login_proofs ----------------------------
(***************************************************************************)
(* Proofs about the limiter and the logins that use it, for any users,     *)
(* workers, limits and durations with LOCKOUT <= COOLDOWN.  The inductive  *)
(* invariant has two parts.  lockout_until is a function of the other two  *)
(* fields: the lock of an entry with enough failures ends LOCKOUT after    *)
(* the last of them, and others have none; it holds because a count is     *)
(* started afresh only when no lock is left.  And while an account is      *)
(* reported as locked, the tries that leaked and those still on their way  *)
(* to the database are together fewer than the workers.                    *)
(***************************************************************************)
EXTENDS Login, TLAPS, FiniteSetTheorems

\* What is left of the lock, computed from the count and the last failure.
LockOf(a) ==
  IF a.failed_attempts >= MAX /\ a.age < LOCKOUT THEN LOCKOUT - a.age ELSE 0

Consistent == \A u \in Users : Present(u) => attempts[u].lock = LockOf(attempts[u])

TableInv == AttemptsOK /\ Consistent

\* The name for "no entry" is not itself an entry.
LEMMA AbsentIsNoAttempt == ABSENT \notin Attempt
BY LimitsAssumption, AbsentAssumption DEF Attempt

\* One more failure yields an entry of the right shape whose lock is in order.
LEMMA FailedFacts ==
  ASSUME NEW a \in Attempt, a.lock = LockOf(a)
  PROVE  Failed(a) \in Attempt /\ Failed(a).lock = LockOf(Failed(a))
BY LimitsAssumption DEF Attempt, Failed, LockOf

\* The fields of an entry a tick later.
LEMMA OlderFields ==
  ASSUME NEW a \in Attempt
  PROVE  /\ Older(a) \in Attempt
         /\ Older(a).failed_attempts = a.failed_attempts
         /\ Older(a).lock = IF a.lock > 0 THEN a.lock - 1 ELSE 0
         /\ Older(a).age = IF a.age < COOLDOWN THEN a.age + 1 ELSE COOLDOWN
<1>1. /\ a.failed_attempts \in 0 .. FAIL_CAP
      /\ (IF a.lock > 0 THEN a.lock - 1 ELSE 0) \in 0 .. LOCKOUT
      /\ (IF a.age < COOLDOWN THEN a.age + 1 ELSE COOLDOWN) \in 0 .. COOLDOWN
  BY LimitsAssumption DEF Attempt
<1> QED
  BY <1>1 DEF Attempt, Older

\* So does the passing of time.
LEMMA OlderFacts ==
  ASSUME NEW a \in Attempt, a.lock = LockOf(a)
  PROVE  Older(a) \in Attempt /\ Older(a).lock = LockOf(Older(a))
<1>1. /\ a.failed_attempts \in Nat /\ a.lock \in Nat /\ a.age \in Nat
      /\ Older(a) \in Attempt
      /\ Older(a).age \in Nat /\ Older(a).lock \in Nat
  BY OlderFields, LimitsAssumption DEF Attempt
<1>2. CASE a.failed_attempts >= MAX /\ a.age < LOCKOUT
  <2>1. a.lock = LOCKOUT - a.age /\ a.lock > 0 /\ a.age < COOLDOWN
    BY <1>1, <1>2, LimitsAssumption DEF LockOf
  <2>2. Older(a).lock = a.lock - 1 /\ Older(a).age = a.age + 1
        /\ Older(a).failed_attempts = a.failed_attempts
    BY <2>1, OlderFields
  <2> QED
    BY <1>1, <1>2, <2>1, <2>2, LimitsAssumption DEF LockOf
<1>3. CASE ~(a.failed_attempts >= MAX /\ a.age < LOCKOUT)
  <2>1. a.lock = 0
    BY <1>3 DEF LockOf
  <2>2. Older(a).lock = 0 /\ Older(a).failed_attempts = a.failed_attempts
    BY <2>1, OlderFields
  <2>3. ~(a.age < LOCKOUT) => ~(Older(a).age < LOCKOUT)
    BY <1>1, OlderFields, LimitsAssumption
  <2> QED
    BY <1>1, <1>3, <2>2, <2>3 DEF LockOf
<1> QED
  BY <1>2, <1>3

\* And the entry that operator[] creates.
LEMMA NewFacts == NewAttempt \in Attempt /\ NewAttempt.lock = LockOf(NewAttempt)
BY LimitsAssumption DEF Attempt, NewAttempt, LockOf

\* Every operation and the clock preserve it.
LEMMA TableStep == TableInv /\ [LimiterNext]_attempts => TableInv'
<1> SUFFICES ASSUME TableInv, [LimiterNext]_attempts PROVE TableInv'
  OBVIOUS
<1> USE AbsentIsNoAttempt DEF TableInv, AttemptsOK, Consistent, Present
<1>1. ASSUME NEW u \in Users, GetRemainingLockoutTime(u) PROVE TableInv'
  BY <1>1 DEF GetRemainingLockoutTime
<1>2. ASSUME NEW u \in Users, RecordFailure(u) PROVE TableInv'
  <2> DEFINE a == IF Present(u) THEN attempts[u] ELSE NewAttempt
  <2>1. a \in Attempt /\ a.lock = LockOf(a)
    BY NewFacts
  <2>2. Failed(a) \in Attempt /\ Failed(a).lock = LockOf(Failed(a))
    BY <2>1, FailedFacts
  <2>3. attempts' = [attempts EXCEPT ![u] = Failed(a)]
    BY <1>2 DEF RecordFailure
  <2> HIDE DEF a
  <2> QED
    BY <2>2, <2>3
<1>3. ASSUME NEW u \in Users, ResetAttempts(u) PROVE TableInv'
  BY <1>3 DEF ResetAttempts
<1>4. CASE CleanupExpiredAttempts
  BY <1>4 DEF CleanupExpiredAttempts
<1>5. CASE TableAges
  <2>1. \A u \in Users : Present(u) =>
          Older(attempts[u]) \in Attempt
          /\ Older(attempts[u]).lock = LockOf(Older(attempts[u]))
    BY OlderFacts
  <2> QED
    BY <1>5, <2>1 DEF TableAges
<1>6. CASE UNCHANGED attempts
  BY <1>6
<1> QED
  BY <1>1, <1>2, <1>3, <1>4, <1>5, <1>6 DEF LimiterNext

-----------------------------------------------------------------------------
(* Refinement of the policy *)

\* What the policy knows of a table.
PolicySame == scoreBar' = scoreBar /\ ageBar' = ageBar

\* Erasing what is expired changes nothing that the policy knows.
LEMMA LookupIsSilent ==
  ASSUME TableInv, NEW u \in Users, GetRemainingLockoutTime(u)
  PROVE  PolicySame
BY AbsentIsNoAttempt, LimitsAssumption DEF TableInv, AttemptsOK, GetRemainingLockoutTime,
   PolicySame, scoreBar, ageBar, Present, Expired, Attempt

LEMMA CleanupIsSilent ==
  ASSUME TableInv, CleanupExpiredAttempts
  PROVE  PolicySame
BY AbsentIsNoAttempt, LimitsAssumption DEF TableInv, AttemptsOK, CleanupExpiredAttempts,
   PolicySame, scoreBar, ageBar, Present, Expired, Attempt

\* A failure counts one more, from zero when the entry is absent or expired.
LEMMA FailureCounts ==
  ASSUME TableInv, NEW u \in Users, RecordFailure(u)
  PROVE  /\ scoreBar' = [scoreBar EXCEPT ![u] = IF @ < FAIL_CAP THEN @ + 1 ELSE @]
         /\ ageBar' = [ageBar EXCEPT ![u] = 0]
<1> USE AbsentIsNoAttempt, LimitsAssumption DEF TableInv, AttemptsOK
<1> DEFINE a == IF Present(u) THEN attempts[u] ELSE NewAttempt
           n == IF a.age >= COOLDOWN THEN 0 ELSE a.failed_attempts
<1>1. a \in Attempt
  BY NewFacts DEF Present
<1>2. /\ Failed(a) \in Attempt /\ Failed(a).age = 0
      /\ Failed(a).failed_attempts = IF n < FAIL_CAP THEN n + 1 ELSE n
  BY <1>1 DEF Failed, Attempt
<1>3. scoreBar[u] = n
  BY <1>1 DEF scoreBar, Present, NewAttempt, Attempt
<1>4. attempts' = [attempts EXCEPT ![u] = Failed(a)]
  BY DEF RecordFailure
<1> HIDE DEF a, n
<1>5. attempts'[u] = Failed(a) /\ Present(u)'
      /\ \A v \in Users : v # u => attempts'[v] = attempts[v]
  BY <1>2, <1>4 DEF Present
<1>6. scoreBar' = [scoreBar EXCEPT ![u] = IF @ < FAIL_CAP THEN @ + 1 ELSE @]
  <2>1. scoreBar'[u] = IF n < FAIL_CAP THEN n + 1 ELSE n
    BY <1>2, <1>5 DEF scoreBar
  <2>2. \A v \in Users : v # u => scoreBar'[v] = scoreBar[v]
    BY <1>5 DEF scoreBar, Present
  <2> QED
    BY <1>3, <2>1, <2>2 DEF scoreBar
<1>7. ageBar' = [ageBar EXCEPT ![u] = 0]
  BY <1>2, <1>5 DEF ageBar, Present
<1> QED
  BY <1>6, <1>7

LEMMA ResetClears ==
  ASSUME TableInv, NEW u \in Users, ResetAttempts(u)
  PROVE  /\ scoreBar' = [scoreBar EXCEPT ![u] = 0]
         /\ ageBar' = [ageBar EXCEPT ![u] = COOLDOWN]
BY DEF TableInv, AttemptsOK, ResetAttempts, scoreBar, ageBar, Present

\* A tick ages every record; the last one of a cooldown clears it.
LEMMA AgesAsPolicy ==
  ASSUME TableInv, TableAges
  PROVE  /\ ageBar' = [u \in Users |-> IF ageBar[u] < COOLDOWN THEN ageBar[u] + 1 ELSE COOLDOWN]
         /\ scoreBar' = [u \in Users |-> IF ageBar'[u] = COOLDOWN THEN 0 ELSE scoreBar[u]]
<1> USE AbsentIsNoAttempt, LimitsAssumption DEF TableInv, AttemptsOK
<1>1. \A u \in Users : Present(u) => attempts[u] \in Attempt
  BY DEF Present
<1>2. \A u \in Users :
        /\ Present(u)' <=> Present(u)
        /\ Present(u) => attempts'[u] = Older(attempts[u])
  BY <1>1, OlderFacts DEF TableAges, Present, Consistent
<1>3. ageBar' = [u \in Users |-> IF ageBar[u] < COOLDOWN THEN ageBar[u] + 1 ELSE COOLDOWN]
  <2>1. \A u \in Users : ageBar'[u] =
          IF ageBar[u] < COOLDOWN THEN ageBar[u] + 1 ELSE COOLDOWN
    BY <1>1, <1>2, OlderFields DEF ageBar
  <2> QED
    BY <2>1 DEF ageBar
<1>4. scoreBar' = [u \in Users |-> IF ageBar'[u] = COOLDOWN THEN 0 ELSE scoreBar[u]]
  <2>1. ASSUME NEW u \in Users
        PROVE  scoreBar'[u] = IF ageBar'[u] = COOLDOWN THEN 0 ELSE scoreBar[u]
    <3>1. CASE ~Present(u)
      BY <1>2, <3>1 DEF scoreBar, ageBar
    <3>2. CASE Present(u)
      <4>1. /\ attempts'[u].failed_attempts = attempts[u].failed_attempts
            /\ attempts'[u].age =
                 IF attempts[u].age < COOLDOWN THEN attempts[u].age + 1 ELSE COOLDOWN
            /\ attempts[u].age \in 0 .. COOLDOWN
        BY <1>1, <1>2, <3>2, OlderFields DEF Attempt
      <4> QED
        BY <1>2, <3>2, <4>1 DEF scoreBar, ageBar
    <3> QED
      BY <3>1, <3>2
  <2> QED
    BY <2>1 DEF scoreBar
<1> QED
  BY <1>3, <1>4

-----------------------------------------------------------------------------
(* The logins *)

\* The workers that have passed the check and not yet asked the database.
OnTheirWay(u) == {w \in Workers : pc[w] = "verifying" /\ user[w] = u}

\* The bound, with the tries that are still to come.
Bounded ==
  \A u \in Users :
    IF Remaining(u) = 0 THEN leaked[u] = 0
    ELSE leaked[u] + Cardinality(OnTheirWay(u)) <= Cardinality(Workers) - 1

ReqOK ==
  /\ pc \in [Workers -> {"idle", "checking", "verifying", "resetting", "recording"}]
  /\ user \in [Workers -> Users]
  /\ good \in [Workers -> BOOLEAN]
  /\ leaked \in [Users -> Nat]

IInv == TableInv /\ ReqOK /\ Bounded

\* Whatever a login does to the table is one of the limiter's operations.
LEMMA StepsOfTable == ReqOK /\ [Next]_vars => [LimiterNext]_attempts
<1> SUFFICES ASSUME ReqOK, [Next]_vars PROVE [LimiterNext]_attempts
  OBVIOUS
<1>1. ASSUME NEW w \in Workers, Handle(w) PROVE [LimiterNext]_attempts
  <2>1. user[w] \in Users
    BY DEF ReqOK
  <2> QED
    BY <1>1, <2>1 DEF Handle, CheckLockout, Authenticate, Succeed, FailLogin, LimiterNext
<1> QED
  BY <1>1 DEF Next, Arrive, Cleanup, Tick, LimiterNext, vars

LEMMA TableInvariant == TableInv /\ [LimiterNext]_attempts => TableInv'
BY TableStep

\* Where each result of AuthService leads.
LEMMA ContinueFacts ==
  ASSUME NEW g \in BOOLEAN, NEW trouble \in Troubles
  PROVE  Continue[AuthResult(g, trouble)] \in {"resetting", "recording", "idle"}
BY DEF Continue, AuthResult

\* What is reported of a lock: nothing in its last second.
LEMMA SecondsOfLock ==
  ASSUME NEW n \in Nat
  PROVE  n \div TICKS \in Nat /\ (n \div TICKS = 0 <=> n < TICKS)
BY LimitsAssumption

LEMMA RemainingFacts ==
  ASSUME AttemptsOK, NEW u \in Users
  PROVE  /\ Remaining(u) \in Nat
         /\ Remaining(u) = 0 <=> (Present(u) => attempts[u].lock < TICKS)
<1>1. CASE Present(u)
  <2>1. attempts[u].lock \in Nat
    BY <1>1, LimitsAssumption DEF AttemptsOK, Present, Attempt
  <2> QED
    BY <1>1, <2>1, SecondsOfLock DEF Remaining
<1>2. CASE ~Present(u)
  BY <1>2 DEF Remaining
<1> QED
  BY <1>1, <1>2

Reported(u) == Remaining(u) = 0 <=> (Present(u) => attempts[u].lock < TICKS)

LEMMA ReportedAlways == AttemptsOK => \A u \in Users : Reported(u)
BY RemainingFacts DEF Reported

\* The workers, and any part of them, can be counted.
LEMMA CountFacts ==
  ASSUME NEW S \in SUBSET Workers, NEW T \in SUBSET S
  PROVE  /\ Cardinality(T) \in Nat /\ Cardinality(S) \in Nat
         /\ Cardinality(Workers) \in Nat
         /\ Cardinality(T) <= Cardinality(S)
         /\ (T # S => Cardinality(T) + 1 <= Cardinality(S))
<1>1. IsFiniteSet(Workers) /\ IsFiniteSet(S) /\ IsFiniteSet(T)
  BY WorkersAssumption, FS_Subset
<1>2. /\ Cardinality(T) \in Nat /\ Cardinality(S) \in Nat /\ Cardinality(Workers) \in Nat
  BY <1>1, FS_CardinalityType
<1>3. Cardinality(T) <= Cardinality(S)
  BY <1>1, FS_Subset
<1>4. ASSUME T # S PROVE Cardinality(T) + 1 <= Cardinality(S)
  BY <1>1, <1>2, <1>4, FS_Subset
<1> QED
  BY <1>2, <1>3, <1>4

\* The requests keep their types.
LEMMA ReqStep == ReqOK /\ [Next]_vars => ReqOK'
<1> SUFFICES ASSUME ReqOK, [Next]_vars PROVE ReqOK'
  OBVIOUS
<1> USE DEF ReqOK
<1>1. ASSUME NEW t, Leaks(t) PROVE leaked' \in [Users -> Nat]
  BY <1>1 DEF Leaks
<1>2. ASSUME NEW w \in Workers, NEW u \in Users, NEW g \in BOOLEAN, Arrive(w, u, g)
      PROVE  ReqOK'
  BY <1>2 DEF Arrive
<1>3. ASSUME NEW w \in Workers, CheckLockout(w) PROVE ReqOK'
  BY <1>1, <1>3 DEF CheckLockout, reqVars
<1>4. ASSUME NEW w \in Workers, Authenticate(w) PROVE ReqOK'
  <2>1. PICK trouble \in Troubles :
          pc' = [pc EXCEPT ![w] = Continue[AuthResult(good[w], trouble)]]
    BY <1>4 DEF Authenticate
  <2>2. Continue[AuthResult(good[w], trouble)] \in {"resetting", "recording", "idle"}
    BY ContinueFacts
  <2> QED
    BY <1>1, <1>4, <2>1, <2>2 DEF Authenticate, reqVars
<1>5. ASSUME NEW w \in Workers, Succeed(w) \/ FailLogin(w) PROVE ReqOK'
  BY <1>1, <1>5 DEF Succeed, FailLogin, reqVars
<1>6. CASE Cleanup \/ Tick
  BY <1>1, <1>6 DEF Cleanup, Tick, reqVars
<1>7. CASE UNCHANGED vars
  BY <1>7 DEF vars, reqVars
<1> QED
  BY <1>2, <1>3, <1>4, <1>5, <1>6, <1>7 DEF Next, Handle

\* A step after which no account is newly locked and no try has leaked.
LEMMA QuietStep ==
  ASSUME AttemptsOK, ReqOK, Bounded,
         \A u \in Users : Remaining(u)' = 0 => leaked'[u] = 0,
         \A u \in Users : Remaining(u)' # 0 =>
           /\ Remaining(u) # 0
           /\ leaked'[u] = leaked[u]
           /\ OnTheirWay(u)' \subseteq OnTheirWay(u)
  PROVE  Bounded'
<1> SUFFICES ASSUME NEW u \in Users, Remaining(u)' # 0
             PROVE  leaked'[u] + Cardinality(OnTheirWay(u)') <= Cardinality(Workers) - 1
  BY DEF Bounded
<1>1. leaked[u] + Cardinality(OnTheirWay(u)) <= Cardinality(Workers) - 1
  BY DEF Bounded
<1>2. OnTheirWay(u) \in SUBSET Workers
  BY DEF OnTheirWay
<1>3. /\ Cardinality(OnTheirWay(u)') <= Cardinality(OnTheirWay(u))
      /\ Cardinality(OnTheirWay(u)') \in Nat /\ Cardinality(OnTheirWay(u)) \in Nat
      /\ Cardinality(Workers) \in Nat
  BY <1>2, CountFacts
<1>4. leaked[u] \in Nat
  BY DEF ReqOK
<1> QED
  BY <1>1, <1>3, <1>4

\* The bound, one action at a time.
LEMMA BoundStep == IInv /\ [Next]_vars => Bounded'
<1> SUFFICES ASSUME IInv, [Next]_vars PROVE Bounded'
  OBVIOUS
<1> USE DEF IInv, TableInv
<1>1. TableInv' /\ ReqOK'
  BY StepsOfTable, TableInvariant, ReqStep
<1>3. ASSUME NEW w \in Workers, NEW u \in Users, NEW g \in BOOLEAN, Arrive(w, u, g)
      PROVE  Bounded'
  <2>1. \A v \in Users : OnTheirWay(v)' = OnTheirWay(v)
    BY <1>3 DEF Arrive, OnTheirWay, ReqOK
  <2>2. \A v \in Users : Remaining(v)' = Remaining(v) /\ leaked'[v] = leaked[v]
    BY <1>3 DEF Arrive, Remaining, Present
  <2> QED
    BY <2>1, <2>2 DEF Bounded
\* An entry that a check erases was not locked, and a worker that passes the
\* check was told that the account is not locked.
<1>4. ASSUME NEW w \in Workers, CheckLockout(w) PROVE Bounded'
  <2>1. user[w] \in Users
    BY DEF ReqOK
  <2>2. \A v \in Users : Remaining(v)' # 0 =>
          Remaining(v)' = Remaining(v) /\ attempts'[v] = attempts[v]
    BY <1>4, <2>1 DEF CheckLockout, GetRemainingLockoutTime, Remaining, Present, AttemptsOK
  <2>3. \A v \in Users : leaked'[v] = IF Remaining(v)' = 0 THEN 0 ELSE leaked[v]
    BY <1>4, AbsentAssumption DEF CheckLockout, Leaks
  <2>4. ASSUME NEW v \in Users, Remaining(v) # 0
        PROVE  OnTheirWay(v)' \subseteq OnTheirWay(v)
    <3>1. Remaining(v) \in Nat
      BY RemainingFacts
    <3>2. CASE user[w] = v
      <4>0. Remaining(user[w]) > 0
        BY <2>4, <3>1, <3>2
      <4>1. pc' = [pc EXCEPT ![w] = "idle"] /\ user' = user
        <5> HIDE DEF Remaining
        <5> QED
          BY <1>4, <4>0 DEF CheckLockout, reqVars
      <4> QED
        BY <4>1 DEF OnTheirWay, ReqOK
    <3>3. CASE user[w] # v
      BY <1>4, <3>3 DEF CheckLockout, reqVars, OnTheirWay, ReqOK
    <3> QED
      BY <3>2, <3>3
  <2> QED
    BY <2>2, <2>3, <2>4, QuietStep
\* A try that leaks is one less on its way.
<1>5. ASSUME NEW w \in Workers, Authenticate(w) PROVE Bounded'
  <2>1. PICK to \in {"resetting", "recording", "idle"} : pc' = [pc EXCEPT ![w] = to]
    BY <1>5, ContinueFacts DEF Authenticate, ReqOK
  <2>2. attempts' = attempts /\ user' = user /\ pc[w] = "verifying" /\ user[w] \in Users
    BY <1>5 DEF Authenticate, reqVars, ReqOK
  <2>3. \A v \in Users : Remaining(v)' = Remaining(v)
    BY <2>2 DEF Remaining, Present
  <2>4. \A v \in Users : OnTheirWay(v)' = OnTheirWay(v) \ {w}
    BY <2>1, <2>2 DEF OnTheirWay, ReqOK
  <2>5. \A v \in Users : w \in OnTheirWay(v) <=> v = user[w]
    BY <2>2 DEF OnTheirWay
  <2>6. SUFFICES ASSUME NEW v \in Users
                 PROVE  IF Remaining(v)' = 0 THEN leaked'[v] = 0
                        ELSE leaked'[v] + Cardinality(OnTheirWay(v)') <= Cardinality(Workers) - 1
    BY DEF Bounded
  <2>7. CASE Remaining(v)' = 0
    BY <1>5, <2>7 DEF Authenticate, Leaks
  <2>8. CASE Remaining(v)' # 0
    <3>1. leaked[v] + Cardinality(OnTheirWay(v)) <= Cardinality(Workers) - 1
      BY <2>3, <2>8 DEF Bounded
    <3>2. /\ leaked[v] \in Nat
          /\ leaked'[v] = leaked[v] \/ (leaked'[v] = leaked[v] + 1 /\ v = user[w])
      BY <1>5, <2>8, AbsentAssumption DEF Authenticate, Leaks, ReqOK
    <3>3. OnTheirWay(v) \in SUBSET Workers /\ OnTheirWay(v)' \in SUBSET OnTheirWay(v)
      BY <2>4 DEF OnTheirWay
    <3>4. v = user[w] => OnTheirWay(v)' # OnTheirWay(v)
      BY <2>4, <2>5
    <3>5. /\ Cardinality(OnTheirWay(v)') \in Nat /\ Cardinality(OnTheirWay(v)) \in Nat
          /\ Cardinality(Workers) \in Nat
          /\ Cardinality(OnTheirWay(v)') <= Cardinality(OnTheirWay(v))
          /\ v = user[w] => Cardinality(OnTheirWay(v)') + 1 <= Cardinality(OnTheirWay(v))
      BY <3>3, <3>4, CountFacts
    <3>6. leaked'[v] + Cardinality(OnTheirWay(v)') <= Cardinality(Workers) - 1
      BY <3>1, <3>2, <3>5
    <3> QED
      BY <2>8, <3>6
  <2> QED
    BY <2>7, <2>8
<1>6. ASSUME NEW w \in Workers, Succeed(w) PROVE Bounded'
  <2>1. user[w] \in Users /\ attempts' = [attempts EXCEPT ![user[w]] = ABSENT]
    BY <1>6 DEF Succeed, ResetAttempts, ReqOK
  <2>2. \A v \in Users : Remaining(v)' # 0 => Remaining(v)' = Remaining(v)
    BY <2>1 DEF Remaining, Present, AttemptsOK
  <2>3. \A v \in Users : leaked'[v] = IF Remaining(v)' = 0 THEN 0 ELSE leaked[v]
    BY <1>6, AbsentAssumption DEF Succeed, Leaks
  <2>4. \A v \in Users : OnTheirWay(v)' \subseteq OnTheirWay(v)
    BY <1>6 DEF Succeed, reqVars, OnTheirWay, ReqOK
  <2> QED
    BY <2>2, <2>3, <2>4, QuietStep
\* The worker whose failure locks the account is not one of those on their way.
<1>7. ASSUME NEW w \in Workers, FailLogin(w) PROVE Bounded'
  <2>1. user[w] \in Users /\ user' = user /\ pc[w] = "recording"
        /\ pc' = [pc EXCEPT ![w] = "idle"]
    BY <1>7 DEF FailLogin, reqVars, ReqOK
  <2>2. \A v \in Users : OnTheirWay(v)' = OnTheirWay(v) /\ w \notin OnTheirWay(v)
    BY <2>1 DEF OnTheirWay, ReqOK
  <2>3. \A v \in Users : leaked'[v] = IF Remaining(v)' = 0 THEN 0 ELSE leaked[v]
    BY <1>7, AbsentAssumption DEF FailLogin, Leaks
  <2>4. SUFFICES ASSUME NEW v \in Users, Remaining(v)' # 0
                 PROVE  leaked'[v] + Cardinality(OnTheirWay(v)') <= Cardinality(Workers) - 1
    BY <2>3 DEF Bounded
  <2>5. OnTheirWay(v) \in SUBSET Workers /\ OnTheirWay(v) # Workers
    BY <2>2 DEF OnTheirWay
  <2>6. /\ Cardinality(OnTheirWay(v)) \in Nat /\ Cardinality(Workers) \in Nat
        /\ Cardinality(OnTheirWay(v)) + 1 <= Cardinality(Workers)
    BY <2>5, CountFacts
  <2>7. leaked'[v] = leaked[v] /\ OnTheirWay(v)' = OnTheirWay(v)
    BY <2>2, <2>3, <2>4
  <2>8. CASE Remaining(v) = 0
    BY <2>6, <2>7, <2>8 DEF Bounded
  <2>9. CASE Remaining(v) # 0
    BY <2>7, <2>9 DEF Bounded
  <2> QED
    BY <2>8, <2>9
<1>8. CASE Cleanup
  <2>1. \A v \in Users : Remaining(v)' # 0 => Remaining(v)' = Remaining(v)
    BY <1>8 DEF Cleanup, CleanupExpiredAttempts, Remaining, Present
  <2>2. \A v \in Users : leaked'[v] = IF Remaining(v)' = 0 THEN 0 ELSE leaked[v]
    BY <1>8, AbsentAssumption DEF Cleanup, Leaks
  <2>3. \A v \in Users : OnTheirWay(v)' = OnTheirWay(v)
    BY <1>8 DEF Cleanup, reqVars, OnTheirWay
  <2> QED
    BY <2>1, <2>2, <2>3, QuietStep
\* Time only shortens a lock.
<1>9. CASE Tick
  <2>1. ASSUME NEW v \in Users, Remaining(v)' # 0 PROVE Remaining(v) # 0
    <3>1. Present(v)' /\ ~(attempts'[v].lock < TICKS)
      <4>1. AttemptsOK' => (\A u \in Users : Reported(u))'
        BY ReportedAlways, PTL
      <4> QED
        BY <1>1, <2>1, <4>1 DEF Reported
    <3>2. Present(v) /\ attempts'[v] = Older(attempts[v])
      BY <1>9, <3>1 DEF Tick, TableAges, Present
    <3>3. attempts[v] \in Attempt
      BY <3>2 DEF AttemptsOK, Present
    <3>4. /\ attempts[v].lock \in Nat
          /\ attempts'[v].lock = IF attempts[v].lock > 0 THEN attempts[v].lock - 1 ELSE 0
      BY <3>2, <3>3, OlderFields, LimitsAssumption DEF Attempt
    <3>5. ~(attempts[v].lock < TICKS)
      BY <3>1, <3>4, LimitsAssumption
    <3> QED
      BY <3>2, <3>5, RemainingFacts
  <2>2. \A v \in Users : leaked'[v] = IF Remaining(v)' = 0 THEN 0 ELSE leaked[v]
    BY <1>9, AbsentAssumption DEF Tick, Leaks
  <2>3. \A v \in Users : OnTheirWay(v)' = OnTheirWay(v)
    BY <1>9 DEF Tick, reqVars, OnTheirWay
  <2> QED
    BY <2>1, <2>2, <2>3, QuietStep
<1>10. CASE UNCHANGED vars
  <2>1. \A v \in Users : /\ Remaining(v)' = Remaining(v) /\ leaked'[v] = leaked[v]
                         /\ OnTheirWay(v)' = OnTheirWay(v)
    BY <1>10 DEF vars, reqVars, Remaining, Present, OnTheirWay
  <2> QED
    BY <2>1 DEF Bounded
<1> QED
  BY <1>3, <1>4, <1>5, <1>6, <1>7, <1>8, <1>9, <1>10 DEF Next, Handle

LEMMA InvStep == IInv /\ [Next]_vars => IInv'
BY StepsOfTable, TableInvariant, ReqStep, BoundStep DEF IInv

LEMMA InitInv == Init => IInv
<1> SUFFICES ASSUME Init PROVE IInv
  OBVIOUS
<1>1. TableInv
  BY AbsentIsNoAttempt DEF Init, InitAttempts, TableInv, AttemptsOK, Consistent, Present
<1>2. ReqOK
  BY DEF Init, ReqOK
<1>3. \A u \in Users : Remaining(u) = 0 /\ leaked[u] = 0
  BY DEF Init, InitAttempts, Remaining, Present
<1> QED
  BY <1>1, <1>2, <1>3 DEF IInv, Bounded

\* The inductive invariant: types, the lock each entry must have, the bound.
THEOREM Invariance == Spec => []IInv
BY InitInv, InvStep, PTL DEF Spec

\* Counts, locks and ages stay in their ranges, workers in their states.
THEOREM TypeCorrect == Spec => []TypeOK
<1>1. IInv => TypeOK
  BY DEF IInv, TableInv, ReqOK, TypeOK
<1> QED
  BY <1>1, Invariance, PTL

\* However many workers there are and however their steps interleave, an
\* account that is reported as locked is tried at most workers - 1 times.
THEOREM LeakBoundHolds == Spec => []LeakBound
<1>1. IInv => LeakBound
  <2> SUFFICES ASSUME IInv, NEW u \in Users PROVE leaked[u] <= Cardinality(Workers) - 1
    BY DEF LeakBound
  <2>1. OnTheirWay(u) \in SUBSET Workers /\ {} \in SUBSET Workers /\ {} # Workers
    BY WorkersAssumption DEF OnTheirWay
  <2>2. /\ Cardinality(OnTheirWay(u)) \in Nat /\ Cardinality(Workers) \in Nat
        /\ Cardinality({}) + 1 <= Cardinality(Workers)
    BY <2>1, CountFacts
  <2>3. Cardinality({}) = 0 /\ leaked[u] \in Nat
    BY FS_EmptySet DEF IInv, ReqOK
  <2>4. leaked[u] = 0 \/ leaked[u] + Cardinality(OnTheirWay(u)) <= Cardinality(Workers) - 1
    BY DEF IInv, Bounded
  <2> QED
    BY <2>2, <2>3, <2>4
<1> QED
  BY <1>1, Invariance, PTL

\* An account is locked exactly while the policy says so, for all durations.
THEOREM LockMatchesPolicyHolds == Spec => []LockMatchesPolicy
<1>1. IInv => LockMatchesPolicy
  <2> SUFFICES ASSUME TableInv, NEW u \in Users
               PROVE  Policy!Locked(u) <=> (Present(u) /\ attempts[u].lock > 0)
    BY DEF LockMatchesPolicy, IInv
  <2> USE LimitsAssumption DEF TableInv, AttemptsOK, Consistent
  <2>1. CASE Present(u)
    <3>1. attempts[u] \in Attempt /\ attempts[u].lock = LockOf(attempts[u])
      BY <2>1 DEF Present
    <3> QED
      BY <2>1, <3>1 DEF Policy!Locked, scoreBar, ageBar, LockOf, Attempt
  <2>2. CASE ~Present(u)
    BY <2>2 DEF Policy!Locked, scoreBar, ageBar
  <2> QED
    BY <2>1, <2>2
<1> QED
  BY <1>1, Invariance, PTL

\* Every step of a login is a step of the policy or leaves it alone.
LEMMA StepsRefine == IInv /\ [Next]_vars => [Policy!Next]_(Policy!vars)
<1> SUFFICES ASSUME IInv, [Next]_vars PROVE Policy!Next \/ UNCHANGED Policy!vars
  OBVIOUS
<1> USE DEF IInv
<1>1. ASSUME PolicySame, provenBar' = provenBar PROVE UNCHANGED Policy!vars
  BY <1>1 DEF PolicySame, Policy!vars
<1>2. ASSUME attempts' = attempts PROVE PolicySame
  BY <1>2 DEF PolicySame, scoreBar, ageBar, Present
<1>3. ASSUME NEW w \in Workers, NEW u \in Users, NEW g \in BOOLEAN, Arrive(w, u, g)
      PROVE  UNCHANGED Policy!vars
  <2>1. provenBar' = provenBar
    BY <1>3 DEF Arrive, provenBar, ReqOK
  <2> QED
    BY <1>1, <1>2, <1>3, <2>1 DEF Arrive
<1>4. ASSUME NEW w \in Workers, CheckLockout(w) PROVE UNCHANGED Policy!vars
  <2>1. PICK to \in {"idle", "verifying"} : pc' = [pc EXCEPT ![w] = to]
    BY <1>4 DEF CheckLockout
  <2>2. provenBar' = provenBar
    BY <1>4, <2>1 DEF CheckLockout, reqVars, provenBar, ReqOK
  <2>3. user[w] \in Users
    BY DEF ReqOK
  <2> QED
    BY <1>1, <1>4, <2>2, <2>3, LookupIsSilent DEF CheckLockout
<1>5. ASSUME NEW w \in Workers, Authenticate(w) PROVE Policy!Next \/ UNCHANGED Policy!vars
  <2>1. PICK to \in {"resetting", "recording", "idle"} : pc' = [pc EXCEPT ![w] = to]
    BY <1>5, ContinueFacts DEF Authenticate, ReqOK
  <2>2. user' = user /\ pc[w] = "verifying" /\ user[w] \in Users /\ PolicySame
    BY <1>2, <1>5 DEF Authenticate, reqVars, ReqOK
  <2>3. CASE to = "resetting"
    <3>1. provenBar' = provenBar \union {user[w]}
      BY <2>1, <2>2, <2>3 DEF provenBar, ReqOK
    <3>2. Policy!Prove(user[w])
      BY <2>2, <3>1 DEF Policy!Prove, PolicySame
    <3> QED
      BY <2>2, <3>2 DEF Policy!Next
  <2>4. CASE to # "resetting"
    <3>1. provenBar' = provenBar
      BY <2>1, <2>2, <2>4 DEF provenBar, ReqOK
    <3> QED
      BY <1>1, <2>2, <3>1
  <2> QED
    BY <2>3, <2>4
<1>6. ASSUME NEW w \in Workers, Succeed(w) PROVE Policy!Next
  <2>1. /\ user[w] \in Users /\ user' = user /\ pc[w] = "resetting"
        /\ pc' = [pc EXCEPT ![w] = "idle"]
    BY <1>6 DEF Succeed, reqVars, ReqOK
  <2>2. user[w] \in provenBar
    BY <2>1 DEF provenBar
  <2>3. CASE \E v \in Workers \ {w} : pc[v] = "resetting" /\ user[v] = user[w]
    <3>1. provenBar' = provenBar
      BY <2>1, <2>3 DEF provenBar, ReqOK
    <3> QED
      BY <1>6, <2>1, <2>2, <3>1, ResetClears DEF Succeed, Policy!Succeed, Policy!Next
  <2>4. CASE ~ \E v \in Workers \ {w} : pc[v] = "resetting" /\ user[v] = user[w]
    <3>1. provenBar' = provenBar \ {user[w]}
      BY <2>1, <2>4 DEF provenBar, ReqOK
    <3> QED
      BY <1>6, <2>1, <2>2, <3>1, ResetClears DEF Succeed, Policy!Succeed, Policy!Next
  <2> QED
    BY <2>3, <2>4
<1>7. ASSUME NEW w \in Workers, FailLogin(w) PROVE Policy!Next
  <2>1. user[w] \in Users /\ provenBar' = provenBar
    BY <1>7 DEF FailLogin, reqVars, provenBar, ReqOK
  <2>2. Policy!Fail(user[w])
    BY <1>7, <2>1, FailureCounts DEF FailLogin, Policy!Fail
  <2> QED
    BY <2>1, <2>2 DEF Policy!Next
<1>8. ASSUME UNCHANGED <<pc, reqVars>> PROVE provenBar' = provenBar
  BY <1>8 DEF reqVars, provenBar
<1>9. CASE Cleanup
  BY <1>1, <1>8, <1>9, CleanupIsSilent DEF Cleanup
<1>10. CASE Tick
  <2>1. Policy!TimePasses
    BY <1>8, <1>10, AgesAsPolicy DEF Tick, Policy!TimePasses
  <2> QED
    BY <2>1 DEF Policy!Next
<1>11. CASE UNCHANGED vars
  BY <1>1, <1>2, <1>8, <1>11 DEF vars, reqVars
<1> QED
  BY <1>3, <1>4, <1>5, <1>6, <1>7, <1>9, <1>10, <1>11 DEF Next, Handle

\* Under concurrent logins the limiter implements the lockout policy: neither
\* the collector nor the erasure during a check can be noticed.
THEOREM Refinement == Spec => ImplementsPolicy
<1>1. Init => Policy!Init
  BY DEF Init, InitAttempts, scoreBar, ageBar, provenBar, Present, Policy!Init
<1>2. IInv /\ [Next]_vars => [Policy!Next]_(Policy!vars)
  BY StepsRefine
<1> QED
  BY <1>1, <1>2, Invariance, PTL DEF Spec, ImplementsPolicy, Policy!Spec
=============================================================================

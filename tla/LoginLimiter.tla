---------------------------- MODULE LoginLimiter ----------------------------
(***************************************************************************)
(* The table of failed logins, src/src/services/login_limiter.hpp.  Each   *)
(* operation runs under limiter_mutex_ and is one action.                  *)
(*                                                                         *)
(* Time points are kept relative to now, which is all the code uses them   *)
(* for: lock is lockout_until - now, or 0 once it is past, and age is      *)
(* now - last_fail_time, counted up to COOLDOWN.  A tick is a fraction of  *)
(* a second, TICKS of them make one, because the code rounds to seconds.   *)
(* The clock is assumed not to be set back.                                *)
(***************************************************************************)
EXTENDS Integers

CONSTANTS Users,      \* the usernames in play
          MAX,        \* MAX_FAILED_ATTEMPTS
          LOCKOUT,    \* LOCKOUT_DURATION, in ticks
          COOLDOWN,   \* COOLDOWN_DURATION, in ticks
          TICKS,      \* ticks in a second
          FAIL_CAP,   \* failed_attempts is counted up to here
          ABSENT      \* "no entry in attempts_"

ASSUME LimitsAssumption ==
  /\ MAX \in Nat \ {0}
  /\ FAIL_CAP \in Nat /\ FAIL_CAP >= MAX
  /\ LOCKOUT \in Nat \ {0}
  /\ COOLDOWN \in Nat /\ COOLDOWN >= LOCKOUT
  /\ TICKS \in Nat \ {0}
ASSUME AbsentAssumption ==
  ABSENT \notin [failed_attempts : Nat, lock : Nat, age : Nat] /\ ABSENT \notin Users

VARIABLE attempts     \* attempts_, a record or ABSENT for each user

\* A default-constructed LoginAttempt: both time points are the epoch.
NewAttempt == [failed_attempts |-> 0, lock |-> 0, age |-> COOLDOWN]

Present(u) == attempts[u] # ABSENT

\* The condition under which an entry is erased.
Expired(a) == a.lock = 0 /\ a.age >= COOLDOWN

\* What getRemainingLockoutTime returns: whole seconds, rounded down.
Remaining(u) == IF Present(u) THEN attempts[u].lock \div TICKS ELSE 0

InitAttempts == attempts = [u \in Users |-> ABSENT]

-----------------------------------------------------------------------------
\* getRemainingLockoutTime also erases the entry if it is expired.
GetRemainingLockoutTime(u) ==
  attempts' = IF Present(u) /\ Expired(attempts[u])
              THEN [attempts EXCEPT ![u] = ABSENT]
              ELSE attempts

\* Mutants of Failed: the lock is prolonged instead of set; > for >=.
FailedProlongs(a) ==
  LET before == IF a.age >= COOLDOWN THEN 0 ELSE a.failed_attempts
      count == IF before < FAIL_CAP THEN before + 1 ELSE before
  IN  [failed_attempts |-> count,
       lock |-> IF count >= MAX THEN a.lock + LOCKOUT ELSE a.lock,
       age |-> 0]

FailedOneMore(a) ==
  LET before == IF a.age >= COOLDOWN THEN 0 ELSE a.failed_attempts
      count == IF before < FAIL_CAP THEN before + 1 ELSE before
  IN  [failed_attempts |-> count,
       lock |-> IF count > MAX THEN LOCKOUT ELSE a.lock,
       age |-> 0]

\* An entry after one more failure.
Failed(a) ==
  LET before == IF a.age >= COOLDOWN THEN 0 ELSE a.failed_attempts
      count == IF before < FAIL_CAP THEN before + 1 ELSE before
  IN  [failed_attempts |-> count,
       lock |-> IF count >= MAX THEN LOCKOUT ELSE a.lock,
       age |-> 0]

RecordFailure(u) ==
  attempts' = [attempts EXCEPT ![u] =
                 Failed(IF Present(u) THEN attempts[u] ELSE NewAttempt)]

ResetAttempts(u) ==
  attempts' = [attempts EXCEPT ![u] = ABSENT]

\* Mutants of CleanupExpiredAttempts: entries that are merely unlocked go too;
\* only entries that were once locked go.
CleanupForgetful ==
  attempts' = [u \in Users |->
                 IF Present(u) /\ attempts[u].lock = 0
                 THEN ABSENT ELSE attempts[u]]

CleanupLockedOnly ==
  attempts' = [u \in Users |->
                 IF Present(u) /\ Expired(attempts[u])
                    /\ attempts[u].failed_attempts >= MAX
                 THEN ABSENT ELSE attempts[u]]

CleanupExpiredAttempts ==
  attempts' = [u \in Users |->
                 IF Present(u) /\ Expired(attempts[u])
                 THEN ABSENT ELSE attempts[u]]

\* The clock.
Older(a) ==
  [failed_attempts |-> a.failed_attempts,
   lock |-> IF a.lock > 0 THEN a.lock - 1 ELSE 0,
   age |-> IF a.age < COOLDOWN THEN a.age + 1 ELSE COOLDOWN]

TableAges ==
  attempts' = [u \in Users |-> IF Present(u) THEN Older(attempts[u]) ELSE ABSENT]

\* Whatever its callers do, this is all that can happen to the table.
LimiterNext ==
  \/ \E u \in Users :
       \/ GetRemainingLockoutTime(u)
       \/ RecordFailure(u)
       \/ ResetAttempts(u)
  \/ CleanupExpiredAttempts
  \/ TableAges

-----------------------------------------------------------------------------
(* Properties *)

Attempt == [failed_attempts : 0 .. FAIL_CAP, lock : 0 .. LOCKOUT, age : 0 .. COOLDOWN]

\* The type of the table.
AttemptsOK == attempts \in [Users -> Attempt \union {ABSENT}]

\* The policy behind the table: an absent entry is a clean record, and so is
\* one whose cooldown is over, whether or not it has been erased yet.
scoreBar == [u \in Users |->
  IF Present(u) /\ attempts[u].age < COOLDOWN THEN attempts[u].failed_attempts ELSE 0]
ageBar == [u \in Users |-> IF Present(u) THEN attempts[u].age ELSE COOLDOWN]
=============================================================================

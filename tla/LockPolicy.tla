----------------------------- MODULE LockPolicy -----------------------------
(***************************************************************************)
(* The lockout policy as a user of the site experiences it: a score of     *)
(* failures, and how long ago the last one was.  There is no table, no     *)
(* record that may be absent, no lazy erasure and no garbage collector;    *)
(* LoginLimiter.tla has all of those and implements this specification.    *)
(***************************************************************************)
EXTENDS Integers

CONSTANTS Users,
          MAX,        \* failures that lock an account
          LOCKOUT,    \* for how long, from the last failure
          COOLDOWN,   \* after how long without a failure all is forgotten
          FAIL_CAP    \* scores are counted up to here

VARIABLES score,      \* failures that count against each user
          age,        \* time since the last failure, counted up to COOLDOWN
          proven      \* users whose right password has just been given

vars == <<score, age, proven>>

Locked(u) == score[u] >= MAX /\ age[u] < LOCKOUT

Init ==
  /\ score = [u \in Users |-> 0]
  /\ age = [u \in Users |-> COOLDOWN]
  /\ proven = {}

Prove(u) ==
  /\ proven' = proven \union {u}
  /\ UNCHANGED <<score, age>>

Fail(u) ==
  /\ score' = [score EXCEPT ![u] = IF @ < FAIL_CAP THEN @ + 1 ELSE @]
  /\ age' = [age EXCEPT ![u] = 0]
  /\ UNCHANGED proven

\* Nothing but a right password clears a record before its time.
Succeed(u) ==
  /\ u \in proven
  /\ proven' \in {proven, proven \ {u}}
  /\ score' = [score EXCEPT ![u] = 0]
  /\ age' = [age EXCEPT ![u] = COOLDOWN]

TimePasses ==
  /\ age' = [u \in Users |-> IF age[u] < COOLDOWN THEN age[u] + 1 ELSE COOLDOWN]
  /\ score' = [u \in Users |-> IF age'[u] = COOLDOWN THEN 0 ELSE score[u]]
  /\ UNCHANGED proven

Next ==
  \/ \E u \in Users : Prove(u) \/ Fail(u) \/ Succeed(u)
  \/ TimePasses

Spec == Init /\ [][Next]_vars
=============================================================================

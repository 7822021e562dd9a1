------------------------------- MODULE Login -------------------------------
(***************************************************************************)
(* POST /login: AuthController::handleLogin with the limiter and the       *)
(* password check of AuthService, run by several worker threads of the     *)
(* HTTP server at once.  The limiter is consulted, the password is checked *)
(* against the database, and the limiter is told, in three critical        *)
(* sections: what the first one saw may be stale in the others.            *)
(* Requests refused with 400 before the limiter is asked change nothing    *)
(* and are left out.                                                       *)
(***************************************************************************)
EXTENDS LoginLimiter, FiniteSets

CONSTANT Workers      \* threads of the HTTP server

ASSUME WorkersAssumption == IsFiniteSet(Workers) /\ Workers # {}

VARIABLES pc,         \* where each worker is in handleLogin
          user,       \* the username of the request it handles
          good,       \* whether the request carries the right password
          leaked      \* history: wrong passwords tried since the account locked

reqVars == <<user, good>>
vars == <<attempts, pc, user, good, leaked>>

\* History variable: how many wrong passwords the database was asked about
\* while the account was, for the whole time, reported as locked.
Leaks(tried) ==
  leaked' = [u \in Users |->
               IF Remaining(u)' = 0 THEN 0
               ELSE IF u = tried THEN leaked[u] + 1 ELSE leaked[u]]

Init ==
  /\ InitAttempts
  /\ pc = [w \in Workers |-> "idle"]
  /\ user \in [Workers -> Users]
  /\ good = [w \in Workers |-> FALSE]
  /\ leaked = [u \in Users |-> 0]

-----------------------------------------------------------------------------
Arrive(w, u, g) ==
  /\ pc[w] = "idle"
  /\ pc' = [pc EXCEPT ![w] = "checking"]
  /\ user' = [user EXCEPT ![w] = u]
  /\ good' = [good EXCEPT ![w] = g]
  /\ UNCHANGED <<attempts, leaked>>

\* Mutant of CheckLockout: > 1 for > 0.
CheckLockoutOffByOne(w) ==
  /\ pc[w] = "checking"
  /\ GetRemainingLockoutTime(user[w])
  /\ pc' = [pc EXCEPT ![w] =
              IF Remaining(user[w]) > 1 THEN "idle" ELSE "verifying"]
  /\ Leaks(ABSENT)
  /\ UNCHANGED reqVars

\* 429 while getRemainingLockoutTime reports a positive number of seconds.
CheckLockout(w) ==
  /\ pc[w] = "checking"
  /\ GetRemainingLockoutTime(user[w])
  /\ pc' = [pc EXCEPT ![w] =
              IF Remaining(user[w]) > 0 THEN "idle" ELSE "verifying"]
  /\ Leaks(ABSENT)
  /\ UNCHANGED reqVars

\* AuthService::login.  The trouble it may meet: no connection, or a failing
\* prepare, execute or bind, is a DbError; a failing fetch and a failing hash
\* computation are not told apart from an unknown user and a wrong password.
Troubles == {"none", "query", "fetch"}

AuthResult(g, trouble) ==
  IF trouble = "query" THEN "DbError"
  ELSE IF trouble = "none" /\ g THEN "Success" ELSE "Fail"

\* What handleLogin does with each result; for DbError it answers 503 at once.
Continue == [Success |-> "resetting", Fail |-> "recording", DbError |-> "idle"]

\* The calls of login are serialised by db_mutex; each counts at the moment
\* its query is answered.
Authenticate(w) ==
  /\ pc[w] = "verifying"
  /\ \E trouble \in Troubles :
       pc' = [pc EXCEPT ![w] = Continue[AuthResult(good[w], trouble)]]
  /\ UNCHANGED <<attempts, reqVars>>
  /\ Leaks(IF good[w] THEN ABSENT ELSE user[w])

\* 200, after resetAttempts and createSession.
Succeed(w) ==
  /\ pc[w] = "resetting"
  /\ ResetAttempts(user[w])
  /\ pc' = [pc EXCEPT ![w] = "idle"]
  /\ Leaks(ABSENT)
  /\ UNCHANGED reqVars

\* 401, after recordFailure.
FailLogin(w) ==
  /\ pc[w] = "recording"
  /\ RecordFailure(user[w])
  /\ pc' = [pc EXCEPT ![w] = "idle"]
  /\ Leaks(ABSENT)
  /\ UNCHANGED reqVars

\* The garbage collector's visit, every ten seconds.
Cleanup ==
  /\ CleanupExpiredAttempts
  /\ Leaks(ABSENT)
  /\ UNCHANGED <<pc, reqVars>>

Tick ==
  /\ TableAges
  /\ Leaks(ABSENT)
  /\ UNCHANGED <<pc, reqVars>>

Handle(w) ==
  \/ CheckLockout(w)
  \/ Authenticate(w)
  \/ Succeed(w)
  \/ FailLogin(w)

Next ==
  \/ \E w \in Workers, u \in Users, g \in BOOLEAN : Arrive(w, u, g)
  \/ \E w \in Workers : Handle(w)
  \/ Cleanup
  \/ Tick

Spec == Init /\ [][Next]_vars

\* Workers run, time passes and the collector comes back; requests need not come.
FairSpec ==
  /\ Spec
  /\ \A w \in Workers : WF_vars(Handle(w))
  /\ WF_vars(Cleanup)
  /\ WF_vars(Tick)

-----------------------------------------------------------------------------
(* Properties *)

\* The type of every variable.
TypeOK ==
  /\ AttemptsOK
  /\ pc \in [Workers -> {"idle", "checking", "verifying", "resetting", "recording"}]
  /\ user \in [Workers -> Users]
  /\ good \in [Workers -> BOOLEAN]
  /\ leaked \in [Users -> Nat]

\* Check and act are not atomic, so a locked account is still tried by the
\* requests that had passed the check, but by no other: at most one less than
\* there are workers, the one that locked it.
LeakBound ==
  \A u \in Users : leaked[u] <= Cardinality(Workers) - 1

\* When no more requests come, every lock ends and every entry is reclaimed:
\* usernames that failed once, real or not, do not stay in memory for ever.
TableEmpties ==
  <>[](\A w \in Workers : pc[w] = "idle") => <>[](\A u \in Users : ~Present(u))

-----------------------------------------------------------------------------
(* The policy behind the table *)

provenBar == {user[w] : w \in {v \in Workers : pc[v] = "resetting"}}

Policy == INSTANCE LockPolicy WITH score <- scoreBar, age <- ageBar, proven <- provenBar

\* Erasing entries, by the garbage collector or on the way of a check, and
\* starting one afresh never changes anything a user could notice; failures
\* are forgotten after the cooldown or for the right password only.
ImplementsPolicy == Policy!Spec

\* lockout_until is redundant: an account is locked exactly while the policy,
\* looking only at the count and the last failure, says so.
LockMatchesPolicy ==
  \A u \in Users : Policy!Locked(u) <=> (Present(u) /\ attempts[u].lock > 0)
=============================================================================

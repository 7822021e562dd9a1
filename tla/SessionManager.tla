--------------------------- MODULE SessionManager ---------------------------
(***************************************************************************)
(* The session table, src/src/services/session_manager.hpp.  Each          *)
(* operation runs under session_mutex_ and is one action.                  *)
(*                                                                         *)
(* An id is 256 random bits: no two draws are ever equal, so a new session *)
(* gets an id never issued before, or none if the generator fails.  The    *)
(* CSRF token drawn together with an id is known by the name of that id.   *)
(* expires_at is kept relative to now: left is expires_at - now, down to   *)
(* -1, and the session has expired when it is negative (now > expires_at). *)
(***************************************************************************)
EXTENDS Integers

CONSTANTS Ids,        \* session ids
          Users,
          LIFETIME,   \* SESSION_LIFETIME, in ticks
          NONE        \* no entry in sessions_, no cookie, no token

ASSUME LifetimeAssumption == LIFETIME \in Nat
ASSUME NoneAssumption ==
  /\ NONE \notin Ids
  /\ NONE \notin Users
  /\ NONE \notin [username : Users, left : -1 .. LIFETIME]

VARIABLES sessions,   \* sessions_, a record or NONE for each id
          issued      \* ids that have been drawn

storeVars == <<sessions, issued>>

Present(i) == i \in Ids /\ sessions[i] # NONE

\* What both lookups take for a session.
Valid(i) == Present(i) /\ sessions[i].left >= 0

StoreInit ==
  /\ sessions = [i \in Ids |-> NONE]
  /\ issued = {}

-----------------------------------------------------------------------------
createSession(i, u) ==
  /\ i \in Ids \ issued
  /\ sessions' = [sessions EXCEPT ![i] = [username |-> u, left |-> LIFETIME]]
  /\ issued' = issued \union {i}

\* Mutant of Lookup: using a session prolongs it.
LookupProlongs(i) ==
  /\ sessions' = IF Valid(i)
                 THEN [sessions EXCEPT ![i] =
                         [username |-> sessions[i].username,
                          left |-> sessions[i].left + LIFETIME]]
                 ELSE sessions
  /\ UNCHANGED issued

\* validateSession and getCsrfToken erase the session they find expired.
Lookup(i) ==
  /\ sessions' = IF Present(i) /\ ~Valid(i)
                 THEN [sessions EXCEPT ![i] = NONE]
                 ELSE sessions
  /\ UNCHANGED issued

destroySession(i) ==
  /\ sessions' = [sessions EXCEPT ![i] = NONE]
  /\ UNCHANGED issued

\* Mutants of cleanupExpiredSessions: >= for >; < for >.
CleanupEager ==
  /\ sessions' = [i \in Ids |-> IF Present(i) /\ sessions[i].left <= 0
                                THEN NONE ELSE sessions[i]]
  /\ UNCHANGED issued

CleanupInverted ==
  /\ sessions' = [i \in Ids |-> IF Present(i) /\ sessions[i].left > 0
                                THEN NONE ELSE sessions[i]]
  /\ UNCHANGED issued

cleanupExpiredSessions ==
  /\ sessions' = [i \in Ids |-> IF Valid(i) THEN sessions[i] ELSE NONE]
  /\ UNCHANGED issued

\* The clock.
Older(s) ==
  [username |-> s.username, left |-> IF s.left >= 0 THEN s.left - 1 ELSE s.left]

StoreTick ==
  /\ sessions' = [i \in Ids |-> IF Present(i) THEN Older(sessions[i]) ELSE NONE]
  /\ UNCHANGED issued

\* Whatever its callers do, this is all that can happen to the table.
StoreNext ==
  \/ \E i \in Ids :
       \/ \E u \in Users : createSession(i, u)
       \/ Lookup(i)
       \/ destroySession(i)
  \/ cleanupExpiredSessions
  \/ StoreTick

-----------------------------------------------------------------------------
(* Properties *)

Session == [username : Users, left : -1 .. LIFETIME]

\* The type of the table.
StoreTypeOK ==
  /\ sessions \in [Ids -> Session \union {NONE}]
  /\ issued \in SUBSET Ids
  /\ \A i \in Ids : Present(i) => i \in issued

\* The policy behind the table: what has expired is over whether or not it
\* has been erased.
lifeBar == [i \in Ids |->
  IF i \notin issued THEN LIFETIME + 1
  ELSE IF Valid(i) THEN sessions[i].left ELSE -1]
ownerBar == [i \in Ids |-> IF Valid(i) THEN sessions[i].username ELSE NONE]

Policy == INSTANCE SessionPolicy WITH life <- lifeBar, owner <- ownerBar

\* Neither the collector nor the erasure during a lookup can be noticed, using
\* a session does not prolong it, and an ended one never comes back.
ImplementsSessionPolicy == Policy!Spec

\* Whether or not its cookie is ever presented again, every session leaves the
\* memory of the server.
SessionsEnd == \A i \in Ids : Present(i) ~> ~Present(i)
=============================================================================

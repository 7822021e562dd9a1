--------------------------- MODULE SessionPolicy ---------------------------
(***************************************************************************)
(* What a session is to the user: it is issued once, lasts for a fixed     *)
(* time from its login however much it is used, may end before that, and   *)
(* never comes back.  SessionManager.tla, which has a table, lazy erasure  *)
(* and a garbage collector, implements this specification.                 *)
(***************************************************************************)
EXTENDS Integers

CONSTANTS Ids, Users,
          LIFETIME,   \* how long a session lasts
          NONE        \* nobody

VARIABLES life,       \* how long the session of each id will last
          owner       \* whose it is, while it is live

vars == <<life, owner>>

Over == -1
Unissued == LIFETIME + 1
Live(i) == life[i] \in 0 .. LIFETIME

Init ==
  /\ life = [i \in Ids |-> Unissued]
  /\ owner = [i \in Ids |-> NONE]

Issue(i, u) ==
  /\ life[i] = Unissued
  /\ life' = [life EXCEPT ![i] = LIFETIME]
  /\ owner' = [owner EXCEPT ![i] = u]

End(i) ==
  /\ Live(i)
  /\ life' = [life EXCEPT ![i] = Over]
  /\ owner' = [owner EXCEPT ![i] = NONE]

\* One tick for all sessions; 0 - 1 is Over.
TimePasses ==
  /\ life' = [i \in Ids |-> IF Live(i) THEN life[i] - 1 ELSE life[i]]
  /\ owner' = [i \in Ids |-> IF life[i] = 0 THEN NONE ELSE owner[i]]

Next ==
  \/ \E i \in Ids :
       \/ \E u \in Users : Issue(i, u)
       \/ End(i)
  \/ TimePasses

Spec == Init /\ [][Next]_vars
=============================================================================

------------------------------ MODULE ConnPool ------------------------------
(***************************************************************************)
(* What DbManager promises its callers, with no handles, mutex, condition  *)
(* variable or healer thread: a bounded number of live connections, of     *)
(* which each client holds at most one, and calls that fail when none can  *)
(* be had.  DbManager.tla implements this specification.                   *)
(***************************************************************************)
EXTENDS Integers, FiniteSets

CONSTANTS Threads,     \* the request threads that borrow connections
          POOL_SIZE    \* the number of connections the pool aims at

VARIABLES client,      \* what each client is doing
          live         \* connections that exist, idle or lent

vars == <<client, live>>

Holders == {t \in Threads : client[t] = "holding"}

Init ==
  /\ client = [t \in Threads |-> "out"]
  /\ live = 0

\* The pool comes into being with as many connections as the database granted.
Open ==
  /\ live = 0
  /\ Holders = {}
  /\ live' \in 0 .. POOL_SIZE
  /\ UNCHANGED client

Ask(t) ==
  /\ client[t] = "out"
  /\ client' = [client EXCEPT ![t] = "asking"]
  /\ UNCHANGED live

\* A connection is promised to t only while one is not held by anybody else.
Grant(t) ==
  /\ client[t] = "asking"
  /\ Cardinality(Holders) < live
  /\ client' = [client EXCEPT ![t] = "holding"]
  /\ UNCHANGED live

\* getConnection returns nullptr: nothing was free in time.
Refuse(t) ==
  /\ client[t] = "asking"
  /\ client' = [client EXCEPT ![t] = "out"]
  /\ UNCHANGED live

\* getConnection returns nullptr: the connection turned out dead for good.
Lose(t) ==
  /\ client[t] = "holding"
  /\ live > 0
  /\ client' = [client EXCEPT ![t] = "out"]
  /\ live' = live - 1

Return(t) ==
  /\ client[t] = "holding"
  /\ client' = [client EXCEPT ![t] = "out"]
  /\ UNCHANGED live

\* A lost connection is replaced, never beyond the size of the pool.
Heal ==
  /\ live < POOL_SIZE
  /\ live' = live + 1
  /\ UNCHANGED client

Next ==
  \/ Open
  \/ Heal
  \/ \E t \in Threads :
       Ask(t) \/ Grant(t) \/ Refuse(t) \/ Lose(t) \/ Return(t)

Spec == Init /\ [][Next]_vars
=============================================================================

----------------------------- MODULE DbManager -----------------------------
(***************************************************************************)
(* The database connection pool, src/src/services/db_manager.hpp: a lazily *)
(* constructed singleton with a LIFO pool guarded by pool_mutex, waiters   *)
(* on pool_cv with a three second deadline, a background healer thread     *)
(* that replaces lost connections, and a destructor that joins the healer. *)
(*                                                                         *)
(* Every operation is split at the points where another thread can run:    *)
(* where the mutex is taken or released, and around each call to the       *)
(* database, whose answer depends on dbUp at that moment.  ping and        *)
(* createConnection inside getConnection run with the mutex held.          *)
(***************************************************************************)
EXTENDS Integers, Sequences, FiniteSets

CONSTANTS Threads,      \* threads that call getConnection/releaseConnection
          Handles,      \* MYSQL* objects
          POOL_SIZE,    \* pool_size
          MAX_RETRIES,  \* max_retries of initializePool
          NONE          \* nullptr, and "nobody" as the holder of the mutex

ASSUME ThreadsAssumption == IsFiniteSet(Threads) /\ NONE \notin Threads
ASSUME HandlesAssumption == NONE \notin Handles
ASSUME SizeAssumption == POOL_SIZE \in Nat \ {0} /\ MAX_RETRIES \in Nat \ {0}

VARIABLES
  phase,            \* life of the singleton
  connection_pool,  \* idle connections; back() is the last element
  cur_conns,        \* connections believed to exist
  retry_count,      \* failed attempts of initializePool
  pool_mutex,       \* the thread inside a getConnection that is talking to the DB
  pc,               \* where each thread is in getConnection/releaseConnection
  conn,             \* the handle each thread has in its hands
  expired,          \* the thread's wait_for deadline has passed
  healer,           \* where the healer thread is
  healer_conn,      \* the handle the healer has created but not yet pooled
  open,             \* handles that were created and not closed
  dbUp              \* does the database answer?

threadVars == <<pc, conn, expired>>
healerVars == <<healer, healer_conn>>
vars == <<phase, connection_pool, cur_conns, retry_count, pool_mutex, pc,
          conn, expired, healer, healer_conn, open, dbUp>>

-----------------------------------------------------------------------------
Free == pool_mutex = NONE

Front(s) == SubSeq(s, 1, Len(s) - 1)
Back(s) == s[Len(s)]
Elems(s) == {s[i] : i \in 1 .. Len(s)}
NoDup(s) == \A i, j \in 1 .. Len(s) : s[i] = s[j] => i = j

\* pool_cv.notify_one: one sleeping waiter, if there is one, is woken; q is
\* the control state of the threads to which the wake-up is applied.
Sleepers(q) == {t \in Threads : q[t] = "sleeping"}

NotifyOne(q) ==
  \/ Sleepers(q) = {} /\ pc' = q
  \/ \E w \in Sleepers(q) : pc' = [q EXCEPT ![w] = "woken"]

\* createConnection: h is the new handle, or nullptr when the database does
\* not answer (the half-made handle is closed before it returns).
CreateConnection(h) ==
  IF dbUp
  THEN h \in Handles \ open /\ open' = open \union {h}
  ELSE h = NONE /\ UNCHANGED open

Init ==
  /\ phase = "unborn"
  /\ connection_pool = <<>>
  /\ cur_conns = 0
  /\ retry_count = 0
  /\ pool_mutex = NONE
  /\ pc = [t \in Threads |-> "idle"]
  /\ conn = [t \in Threads |-> NONE]
  /\ expired = [t \in Threads |-> FALSE]
  /\ healer = "unborn"
  /\ healer_conn = NONE
  /\ open = {}
  /\ dbUp \in BOOLEAN

-----------------------------------------------------------------------------
(* Construction.  The first call of getInstance runs the constructor; the  *)
(* other callers wait on the guard of the static local, so no thread can   *)
(* be inside the pool before phase is "up".                                *)

FirstUse ==
  /\ phase = "unborn"
  /\ phase' = "init"
  /\ UNCHANGED <<connection_pool, cur_conns, retry_count, pool_mutex,
                 threadVars, healerVars, open, dbUp>>

InitMore == Len(connection_pool) < POOL_SIZE /\ retry_count < MAX_RETRIES

InitConnect ==
  /\ phase = "init"
  /\ InitMore
  /\ \E h \in Handles \union {NONE} :
       /\ CreateConnection(h)
       /\ \/ /\ h # NONE
             /\ connection_pool' = Append(connection_pool, h)
             /\ UNCHANGED retry_count
          \/ /\ h = NONE
             /\ retry_count' = retry_count + 1
             /\ UNCHANGED connection_pool
  /\ UNCHANGED <<phase, cur_conns, pool_mutex, threadVars, healerVars, dbUp>>

\* The pool is as full as the retries allowed (it may be empty); the healer starts.
InitDone ==
  /\ phase = "init"
  /\ ~InitMore
  /\ phase' = "up"
  /\ cur_conns' = Len(connection_pool)
  /\ healer' = "asleep"
  /\ UNCHANGED <<connection_pool, retry_count, pool_mutex, threadVars,
                 healer_conn, open, dbUp>>

-----------------------------------------------------------------------------
(* getConnection *)

Call(t) ==
  /\ phase = "up"
  /\ pc[t] = "idle"
  /\ pc' = [pc EXCEPT ![t] = "entering"]
  /\ expired' = [expired EXCEPT ![t] = FALSE]
  /\ UNCHANGED <<phase, connection_pool, cur_conns, retry_count, pool_mutex,
                 conn, healerVars, open, dbUp>>

\* The wait_for predicate holds: the back of the pool is taken, mutex held.
Pop(t) ==
  /\ Free
  /\ pc[t] \in {"entering", "woken"}
  /\ connection_pool # <<>>
  /\ conn' = [conn EXCEPT ![t] = Back(connection_pool)]
  /\ connection_pool' = Front(connection_pool)
  /\ pool_mutex' = t
  /\ pc' = [pc EXCEPT ![t] = "pinging"]
  /\ UNCHANGED <<phase, cur_conns, retry_count, expired, healerVars, open, dbUp>>

\* It does not hold and the deadline is not over: sleep, releasing the mutex.
Sleep(t) ==
  /\ Free
  /\ pc[t] \in {"entering", "woken"}
  /\ connection_pool = <<>>
  /\ ~expired[t]
  /\ pc' = [pc EXCEPT ![t] = "sleeping"]
  /\ UNCHANGED <<phase, connection_pool, cur_conns, retry_count, pool_mutex,
                 conn, expired, healerVars, open, dbUp>>

\* The deadline is over and the last look at the predicate fails: nullptr.
TimeOut(t) ==
  /\ Free
  /\ pc[t] \in {"entering", "woken"}
  /\ connection_pool = <<>>
  /\ expired[t]
  /\ pc' = [pc EXCEPT ![t] = "idle"]
  /\ UNCHANGED <<phase, connection_pool, cur_conns, retry_count, pool_mutex,
                 conn, expired, healerVars, open, dbUp>>

\* Mutant of Deadline: wait instead of wait_for.
DeadlineNever(t) == FALSE /\ UNCHANGED vars

\* Three seconds pass; a sleeper gets up to look at the pool a last time.
Deadline(t) ==
  /\ pc[t] \in {"sleeping", "woken"}
  /\ ~expired[t]
  /\ expired' = [expired EXCEPT ![t] = TRUE]
  /\ pc' = [pc EXCEPT ![t] = "woken"]
  /\ UNCHANGED <<phase, connection_pool, cur_conns, retry_count, pool_mutex,
                 conn, healerVars, open, dbUp>>

\* A condition variable may wake a sleeper for no reason.
SpuriousWakeup(t) ==
  /\ pc[t] = "sleeping"
  /\ pc' = [pc EXCEPT ![t] = "woken"]
  /\ UNCHANGED <<phase, connection_pool, cur_conns, retry_count, pool_mutex,
                 conn, expired, healerVars, open, dbUp>>

PingOk(t) ==
  /\ pc[t] = "pinging"
  /\ dbUp
  /\ pc' = [pc EXCEPT ![t] = "using"]
  /\ pool_mutex' = NONE
  /\ UNCHANGED <<phase, connection_pool, cur_conns, retry_count, conn, expired,
                 healerVars, open, dbUp>>

\* Mutants of PingFail: no mysql_close; cur_conns-- already here.
PingFailNoClose(t) ==
  /\ pc[t] = "pinging"
  /\ ~dbUp
  /\ conn' = [conn EXCEPT ![t] = NONE]
  /\ pc' = [pc EXCEPT ![t] = "reconnecting"]
  /\ UNCHANGED <<phase, connection_pool, cur_conns, retry_count, pool_mutex,
                 expired, healerVars, open, dbUp>>

PingFailCounts(t) ==
  /\ pc[t] = "pinging"
  /\ ~dbUp
  /\ open' = open \ {conn[t]}
  /\ conn' = [conn EXCEPT ![t] = NONE]
  /\ pc' = [pc EXCEPT ![t] = "reconnecting"]
  /\ cur_conns' = cur_conns - 1
  /\ UNCHANGED <<phase, connection_pool, retry_count, pool_mutex,
                 expired, healerVars, dbUp>>

\* mysql_ping failed: the handle is closed, and one attempt at a new one follows.
PingFail(t) ==
  /\ pc[t] = "pinging"
  /\ ~dbUp
  /\ open' = open \ {conn[t]}
  /\ conn' = [conn EXCEPT ![t] = NONE]
  /\ pc' = [pc EXCEPT ![t] = "reconnecting"]
  /\ UNCHANGED <<phase, connection_pool, cur_conns, retry_count, pool_mutex,
                 expired, healerVars, dbUp>>

\* Mutant of Reconnect: no cur_conns-- when the new connection fails too.
ReconnectNotCounted(t) ==
  /\ pc[t] = "reconnecting"
  /\ \E h \in Handles \union {NONE} :
       /\ CreateConnection(h)
       /\ conn' = [conn EXCEPT ![t] = h]
       /\ pc' = [pc EXCEPT ![t] = IF h = NONE THEN "idle" ELSE "using"]
  /\ pool_mutex' = NONE
  /\ UNCHANGED <<phase, connection_pool, cur_conns, retry_count, expired,
                 healerVars, dbUp>>

\* The attempt: a new handle for the caller, or one connection less for good.
Reconnect(t) ==
  /\ pc[t] = "reconnecting"
  /\ \E h \in Handles \union {NONE} :
       /\ CreateConnection(h)
       /\ conn' = [conn EXCEPT ![t] = h]
       /\ \/ /\ h # NONE
             /\ pc' = [pc EXCEPT ![t] = "using"]
             /\ UNCHANGED cur_conns
          \/ /\ h = NONE
             /\ pc' = [pc EXCEPT ![t] = "idle"]
             /\ cur_conns' = cur_conns - 1
  /\ pool_mutex' = NONE
  /\ UNCHANGED <<phase, connection_pool, retry_count, expired, healerVars, dbUp>>

\* releaseConnection, called once by the thread that got the connection.
Release(t) ==
  /\ pc[t] = "using"
  /\ Free
  /\ connection_pool' = Append(connection_pool, conn[t])
  /\ conn' = [conn EXCEPT ![t] = NONE]
  /\ NotifyOne([pc EXCEPT ![t] = "idle"])
  /\ UNCHANGED <<phase, cur_conns, retry_count, pool_mutex, expired, healerVars,
                 open, dbUp>>

-----------------------------------------------------------------------------
(* The healer thread *)

\* The sleep is over; the stop token is looked at only here.
HealerTick ==
  /\ healer = "asleep"
  /\ healer' = IF phase = "stopping" THEN "gone" ELSE "checking"
  /\ UNCHANGED <<phase, connection_pool, cur_conns, retry_count, pool_mutex,
                 threadVars, healer_conn, open, dbUp>>

\* Mutant of HealerCheck: > for >=.
HealerCheckOffByOne ==
  /\ healer = "checking"
  /\ Free
  /\ healer' = IF cur_conns > POOL_SIZE THEN "asleep" ELSE "creating"
  /\ UNCHANGED <<phase, connection_pool, cur_conns, retry_count, pool_mutex,
                 threadVars, healer_conn, open, dbUp>>

HealerCheck ==
  /\ healer = "checking"
  /\ Free
  /\ healer' = IF cur_conns >= POOL_SIZE THEN "asleep" ELSE "creating"
  /\ UNCHANGED <<phase, connection_pool, cur_conns, retry_count, pool_mutex,
                 threadVars, healer_conn, open, dbUp>>

\* Mutant of HealerCreate: the thread ends when the database is still down.
HealerCreateGivesUp ==
  /\ healer = "creating"
  /\ \E h \in Handles \union {NONE} :
       /\ CreateConnection(h)
       /\ healer_conn' = h
       /\ healer' = IF h = NONE THEN "gone" ELSE "adding"
  /\ UNCHANGED <<phase, connection_pool, cur_conns, retry_count, pool_mutex,
                 threadVars, dbUp>>

\* Without the mutex: cur_conns may change before the handle is added.
HealerCreate ==
  /\ healer = "creating"
  /\ \E h \in Handles \union {NONE} :
       /\ CreateConnection(h)
       /\ healer_conn' = h
       /\ healer' = IF h = NONE THEN "asleep" ELSE "adding"
  /\ UNCHANGED <<phase, connection_pool, cur_conns, retry_count, pool_mutex,
                 threadVars, dbUp>>

\* Mutant of HealerAdd: no notify_one.
HealerAddSilently ==
  /\ healer = "adding"
  /\ Free
  /\ connection_pool' = Append(connection_pool, healer_conn)
  /\ cur_conns' = cur_conns + 1
  /\ healer_conn' = NONE
  /\ healer' = "checking"
  /\ UNCHANGED <<phase, retry_count, pool_mutex, threadVars, open, dbUp>>

HealerAdd ==
  /\ healer = "adding"
  /\ Free
  /\ connection_pool' = Append(connection_pool, healer_conn)
  /\ cur_conns' = cur_conns + 1
  /\ healer_conn' = NONE
  /\ healer' = "checking"
  /\ NotifyOne(pc)
  /\ UNCHANGED <<phase, retry_count, pool_mutex, conn, expired, open, dbUp>>

-----------------------------------------------------------------------------
(* Destruction, after main returned: svr.listen has joined the request      *)
(* threads, so none of them is inside the pool.                             *)

RequestStop ==
  /\ phase = "up"
  /\ \A t \in Threads : pc[t] = "idle"
  /\ phase' = "stopping"
  /\ UNCHANGED <<connection_pool, cur_conns, retry_count, pool_mutex,
                 threadVars, healerVars, open, dbUp>>

\* Mutant of DestroyPool: the healer is asked to stop but not joined.
DestroyPoolNoJoin ==
  /\ phase = "stopping"
  /\ open' = open \ Elems(connection_pool)
  /\ connection_pool' = <<>>
  /\ phase' = "destroyed"
  /\ UNCHANGED <<cur_conns, retry_count, pool_mutex, threadVars, healerVars, dbUp>>

\* join() has returned; destroyPool closes what is in the pool.
DestroyPool ==
  /\ phase = "stopping"
  /\ healer = "gone"
  /\ open' = open \ Elems(connection_pool)
  /\ connection_pool' = <<>>
  /\ phase' = "destroyed"
  /\ UNCHANGED <<cur_conns, retry_count, pool_mutex, threadVars, healerVars, dbUp>>

\* The database goes away or comes back, at any time.
DbChange ==
  /\ dbUp' = ~dbUp
  /\ UNCHANGED <<phase, connection_pool, cur_conns, retry_count, pool_mutex,
                 threadVars, healerVars, open>>

-----------------------------------------------------------------------------
ThreadNext(t) ==
  \/ Call(t)
  \/ Pop(t)
  \/ Sleep(t)
  \/ TimeOut(t)
  \/ Deadline(t)
  \/ SpuriousWakeup(t)
  \/ PingOk(t)
  \/ PingFail(t)
  \/ Reconnect(t)
  \/ Release(t)

HealerNext ==
  \/ HealerTick
  \/ HealerCheck
  \/ HealerCreate
  \/ HealerAdd

Next ==
  \/ FirstUse
  \/ InitConnect
  \/ InitDone
  \/ \E t \in Threads : ThreadNext(t)
  \/ HealerNext
  \/ RequestStop
  \/ DestroyPool
  \/ DbChange

Spec == Init /\ [][Next]_vars

\* The fairness of the scheduler: a thread that can run eventually runs; a thread that finds the mutex free
\* again and again eventually gets it; a deadline eventually passes.  Nobody
\* is obliged to call getConnection, nor to give a connection back.
Enter(t) == Pop(t) \/ Sleep(t) \/ TimeOut(t)
Talk(t) == PingOk(t) \/ PingFail(t) \/ Reconnect(t)

Fairness ==
  /\ WF_vars(InitConnect \/ InitDone)
  /\ \A t \in Threads :
       SF_vars(Enter(t)) /\ WF_vars(Talk(t)) /\ WF_vars(Deadline(t))
  /\ WF_vars(HealerTick \/ HealerCreate)
  /\ SF_vars(HealerCheck \/ HealerAdd)
  /\ WF_vars(DestroyPool)

FairSpec == Spec /\ Fairness

-----------------------------------------------------------------------------
(* Properties *)

Pooled == Elems(connection_pool)

\* Threads that have taken one of the cur_conns connections out of the pool.
Borrowers == {t \in Threads : pc[t] \in {"pinging", "reconnecting", "using"}}

\* Threads on their way to look at the pool again.
Woken == {t \in Threads : pc[t] = "woken"}

\* The type of every variable.
TypeOK ==
  /\ phase \in {"unborn", "init", "up", "stopping", "destroyed"}
  /\ connection_pool \in Seq(Handles)
  /\ cur_conns \in Nat
  /\ retry_count \in 0 .. MAX_RETRIES
  /\ pool_mutex \in Threads \union {NONE}
  /\ pc \in [Threads -> {"idle", "entering", "sleeping", "woken", "pinging",
                         "reconnecting", "using"}]
  /\ conn \in [Threads -> Handles \union {NONE}]
  /\ expired \in [Threads -> BOOLEAN]
  /\ healer \in {"unborn", "asleep", "checking", "creating", "adding", "gone"}
  /\ healer_conn \in Handles \union {NONE}
  /\ open \in SUBSET Handles
  /\ dbUp \in BOOLEAN

\* cur_conns counts exactly the connections in the pool and with the
\* borrowers: the decrement at line 190, the increment at line 89 and the
\* returns at line 204 neither lose nor invent one, whatever the order.
Accounting ==
  phase \in {"up", "stopping"} =>
    cur_conns = Len(connection_pool) + Cardinality(Borrowers)

\* The check of line 77 and the increment of line 89 are under different
\* locks; the count still never exceeds the pool's size, nor the database see
\* more than pool_size connections at once.
NeverTooMany ==
  /\ cur_conns <= POOL_SIZE
  /\ Cardinality(open) <= POOL_SIZE

\* A MYSQL* is in one place only: twice in the pool, with two threads, or
\* with a thread and in the pool, and two queries would share one socket.
\* Nothing closed is pooled or lent.
OneOwner ==
  /\ NoDup(connection_pool)
  /\ \A t \in Threads : conn[t] # NONE =>
       /\ conn[t] \in open
       /\ conn[t] \notin Pooled
       /\ conn[t] # healer_conn
       /\ \A u \in Threads : conn[u] = conn[t] => u = t
  /\ healer_conn # NONE => healer_conn \in open /\ healer_conn \notin Pooled
  /\ Pooled \subseteq open

\* No connection that is open is forgotten: each is in the pool, with a
\* thread or with the healer, until destroyPool has closed them all.
NothingLeaks ==
  \A h \in open : \/ h \in Pooled
                  \/ \E t \in Threads : conn[t] = h
                  \/ healer_conn = h

\* The count that getConnection decrements and the healer increments, each in its
\* own critical section, is exact and never exceeds the size of the pool.
Capacity == Accounting /\ NeverTooMany

\* Every open connection is in exactly one place, on each path through a ping, a
\* reconnection, the healer and the destructor.
Ownership == OneOwner /\ NothingLeaks

\* notify_one is called for every connection that enters the pool, so a
\* sleeper never sleeps on while a connection nobody is coming for lies there.
NoLostWakeup ==
  Sleepers(pc) # {} => Len(connection_pool) <= Cardinality(Woken)

\* Every getConnection returns, with a connection or nullptr, whatever the
\* other callers and the database do.
EveryCallReturns ==
  \A t \in Threads : pc[t] = "entering" ~> pc[t] \in {"idle", "using"}

\* Once the database stays up the healer brings the pool back to its size,
\* unless the process is shut down.
PoolHeals ==
  <>[]dbUp => <>[](phase = "up" => cur_conns = POOL_SIZE)

\* A shutdown that was begun ends with every handle closed, even if the healer
\* was in the middle of creating one.
ShutdownCloses == (phase = "stopping") ~> (phase = "destroyed" /\ open = {})

-----------------------------------------------------------------------------
(* The abstract pool of ConnPool.tla *)

clientBar == [t \in Threads |->
  IF pc[t] = "idle" THEN "out"
  ELSE IF t \in Borrowers THEN "holding"
  ELSE "asking"]

Abstract == INSTANCE ConnPool WITH client <- clientBar, live <- cur_conns

\* The implementation keeps the promise of ConnPool.
ImplementsConnPool == Abstract!Spec
=============================================================================

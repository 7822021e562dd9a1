--------------------------- MODULE Services_proofs ---------------------------
(***************************************************************************)
(* Proofs about Services.tla, for any number of workers, users and posts.  *)
(* The invariant has two layers.  Control is about mutexes, connections    *)
(* and what a worker's place says about its request; Data, which rests on  *)
(* it, is about the tables, what requests were told, and what is about to  *)
(* be told.                                                                *)
(***************************************************************************)
EXTENDS Services, FiniteSetTheorems, TLAPS

Connected == {"running", "inserting", "returning"}
Stages == Connected \union {"idle", "waiting", "connecting"}

\* What the place of a worker says about mutex, connection and request.
Placed(w) ==
  /\ w \in lent <=> pc[w] \in Connected
  /\ pc[w] \in Connected \union {"connecting"} => mutex[ServiceOf(call[w])] = w
  /\ pc[w] = "inserting" => call[w] = "signUp"
  /\ pc[w] # "idle" => /\ call[w] \in AuthCalls \union BoardCalls
                       /\ call[w] \in {"role", "delete"} => req[w].op = "delete"
                       /\ call[w] \in {"signUp", "write"} => req[w].op = call[w]
  /\ req[w].op \in {"signUp", "write", "delete"} => req[w].user \in Names
  /\ req[w].role = "ADMIN" => req[w].user \in Admins
  /\ req[w].result = "success" => Past(w)
  /\ pc[w] = "idle" => req[w] = NoRequest
  /\ pc[w] # "idle" => req[w].op # "none"

\* Connections that are lent or lost are among those that are counted.
Counted == Cardinality(lent) + lost <= live

Control ==
  /\ TypeOK
  /\ Counted
  /\ \A w \in Workers : Placed(w)

\* Ids are given in order and only once, and those who were told a success
\* were told the truth.
Truthful ==
  /\ Seeded \subseteq users
  /\ \A p \in PostIds :
       /\ posts[p] # NONE => p <= written
       /\ deletions[p] # 0 => deletions[p] = 1 /\ posts[p] = NONE /\ p <= written
  /\ \A n \in Names : signUps[n] # 0 => signUps[n] = 1 /\ n \in users \ Seeded

\* So will those be who have a success to tell.
AboutToTell(w) ==
  req[w].result = "success" =>
    /\ call[w] = "delete" => /\ deletions[req[w].id] = 0
                             /\ posts[req[w].id] = NONE
                             /\ req[w].id <= written
    /\ call[w] = "signUp" => /\ signUps[req[w].user] = 0
                             /\ req[w].user \in users \ Seeded

IInv ==
  /\ Control
  /\ Truthful
  /\ \A w \in Workers : AboutToTell(w)

-----------------------------------------------------------------------------
(* Connections *)

\* The number of connections lent is a number, and at most one more or one
\* less when a worker borrows or is done.
LEMMA LentFacts ==
  ASSUME TypeOK, NEW w \in Workers
  PROVE  /\ Cardinality(lent) \in Nat
         /\ w \in lent => Cardinality(lent \ {w}) = Cardinality(lent) - 1
         /\ Cardinality(lent \ {w}) \in Nat
         /\ w \notin lent => Cardinality(lent \union {w}) = Cardinality(lent) + 1
<1>1. IsFiniteSet(lent)
  BY WorkersAssumption, FS_Subset DEF TypeOK
<1> QED
  BY <1>1, FS_CardinalityType, FS_AddElement, FS_RemoveElement

\* A mutex that is needed is one of the two.
LEMMA ServiceFacts ==
  /\ \A c : ServiceOf(c) \in {"auth", "board"}
  /\ ServiceOf("delete") = "board" /\ ServiceOf("signUp") = "auth"
BY DEF ServiceOf, AuthCalls

-----------------------------------------------------------------------------
(* Control *)

\* The control of the workers that do not move: mutexes change between free
\* and the moving worker, and only its connection comes or goes.
LEMMA OthersStayPlaced ==
  ASSUME Control, NEW w \in Workers,
         pc' = [pc EXCEPT ![w] = pc'[w]],
         call' = [call EXCEPT ![w] = call'[w]],
         req' = [req EXCEPT ![w] = req'[w]],
         lent' \in {lent, lent \union {w}, lent \ {w}},
         \/ mutex' = mutex
         \/ mutex[ServiceOf(call[w])] \in {w, NONE} /\ 
            \E x \in {w, NONE} : mutex' = [mutex EXCEPT ![ServiceOf(call[w])] = x]
  PROVE  \A v \in Workers \ {w} : Placed(v)'
<1> SUFFICES ASSUME NEW v \in Workers, v # w
             PROVE  Placed(v)'
  OBVIOUS
<1>1. /\ pc'[v] = pc[v] /\ call'[v] = call[v] /\ req'[v] = req[v]
      /\ v \in lent' <=> v \in lent
  BY DEF Control, TypeOK
<1>2. mutex[ServiceOf(call[v])] = v => mutex'[ServiceOf(call[v])] = v
  BY ServiceFacts, WorkersAssumption DEF Control, TypeOK
<1> QED
  BY <1>1, <1>2 DEF Control, Placed, Past

LEMMA ArriveControl ==
  ASSUME Control, NEW w \in Workers, Arrive(w)
  PROVE  Control'
<1>1. PICK op \in {"signUp", "users", "write", "list", "read", "delete"},
           n \in Names \union {NONE}, p \in PostIds :
        /\ Requested(op, n, p)
        /\ req' = [req EXCEPT ![w] = RequestFor(op, n, p)]
        /\ call' = [call EXCEPT ![w] = IF op = "delete" THEN "read" ELSE op]
        /\ pc' = [pc EXCEPT ![w] = "waiting"]
  BY DEF Arrive, Begin, GoTo
<1>2. pc[w] = "idle" /\ UNCHANGED <<tables, mutex, pool, history>>
  BY DEF Arrive
<1>3. \A q : q = RequestFor(op, n, p) =>
        /\ q.op = op /\ q.user = n /\ q.id = p
        /\ q.role = "USER" /\ q.result = "fail"
        /\ q \in Request
  BY <1>1 DEF RequestFor, Request
<1>4. op \in {"signUp", "write", "delete"} => n \in Names
  BY <1>1 DEF Requested, Control, TypeOK
<1>5. TypeOK'
  BY <1>1, <1>2, <1>3
     DEF Control, TypeOK, tables, pool, history, AuthCalls, BoardCalls
<1>6. Placed(w)'
  BY <1>1, <1>2, <1>3, <1>4
     DEF Control, Placed, Past, TypeOK, pool, Connected, AuthCalls, BoardCalls
<1>7. \A v \in Workers \ {w} : Placed(v)'
  BY <1>1, <1>2, OthersStayPlaced DEF Control, TypeOK, pool
<1> QED
  BY <1>2, <1>5, <1>6, <1>7 DEF Control, Counted, pool

\* The worker takes the mutex; the connection it asks for; the end of a call
\* (its mutex is freed) and of a request.
LEMMA LockControl ==
  ASSUME Control, NEW w \in Workers, Lock(w)
  PROVE  Control'
<1>1. /\ pc[w] = "waiting" /\ mutex[ServiceOf(call[w])] = NONE
      /\ mutex' = [mutex EXCEPT ![ServiceOf(call[w])] = w]
      /\ pc' = [pc EXCEPT ![w] = "connecting"]
      /\ UNCHANGED <<tables, pool, call, req, history>>
  BY DEF Lock, GoTo
<1>2. TypeOK'
  BY <1>1 DEF Control, TypeOK, tables, pool, history
<1>3. Placed(w)'
  BY <1>1, ServiceFacts DEF Control, Placed, Past, TypeOK, pool, Connected
<1>4. \A v \in Workers \ {w} : Placed(v)'
  BY <1>1, OthersStayPlaced DEF Control, TypeOK, pool
<1> QED
  BY <1>1, <1>2, <1>3, <1>4 DEF Control, Counted, pool

LEMMA BorrowControl ==
  ASSUME Control, NEW w \in Workers, Borrow(w)
  PROVE  Control'
<1>1. /\ pc[w] = "connecting" /\ Idle > 0
      /\ lent' = lent \union {w}
      /\ pc' = [pc EXCEPT ![w] = "running"]
      /\ UNCHANGED <<tables, mutex, live, lost, call, req, history>>
  BY DEF Borrow, GoTo
<1>2. TypeOK'
  BY <1>1 DEF Control, TypeOK, tables, history
<1>3. Placed(w)'
  BY <1>1 DEF Control, Placed, Past, TypeOK, Connected
<1>4. \A v \in Workers \ {w} : Placed(v)'
  BY <1>1, OthersStayPlaced DEF Control, TypeOK
<1>5. Counted'
  <2>1. w \notin lent
    BY <1>1 DEF Control, Placed, Past, Connected
  <2>2. Cardinality(lent') = Cardinality(lent) + 1 /\ Cardinality(lent) \in Nat
    BY <1>1, <2>1, LentFacts DEF Control
  <2>3. live \in Nat /\ lost \in Nat
    BY BoundsAssumption DEF Control, TypeOK
  <2> QED
    BY <1>1, <2>2, <2>3 DEF Idle, Counted
<1> QED
  BY <1>2, <1>3, <1>4, <1>5 DEF Control

\* What becomes of a worker when its call is over.
LEMMA ContinueFacts ==
  ASSUME Control, NEW w \in Workers, Continue(w), pc[w] # "idle"
  PROVE  /\ req' = [req EXCEPT ![w] = req'[w]] /\ req'[w] \in Request
         /\ call' = [call EXCEPT ![w] = call'[w]]
         /\ pc' = [pc EXCEPT ![w] = pc'[w]]
         /\ \/ pc'[w] = "idle" /\ call'[w] = NONE /\ req'[w] = NoRequest
            \/ /\ pc'[w] = "waiting" /\ call'[w] \in {"role", "delete"}
               /\ req'[w] = req[w] /\ req[w].op = "delete"
               /\ call[w] \in {"read", "role"}
         /\ deletions' \in [PostIds -> Nat] /\ signUps' \in [Names -> Nat]
<1>1. CASE req[w].op = "delete" /\ NextCall(w) # "none"
  <2>1. /\ UNCHANGED <<req, history>>
        /\ call' = [call EXCEPT ![w] = NextCall(w)]
        /\ pc' = [pc EXCEPT ![w] = "waiting"]
    BY <1>1 DEF Continue, Begin, GoTo
  <2>2. NextCall(w) \in {"role", "delete"} /\ call[w] \in {"read", "role"}
    BY <1>1 DEF NextCall
  <2> QED
    BY <1>1, <2>1, <2>2 DEF Control, TypeOK, history
<1>2. CASE ~(req[w].op = "delete" /\ NextCall(w) # "none")
  <2>1. /\ pc' = [pc EXCEPT ![w] = "idle"]
        /\ call' = [call EXCEPT ![w] = NONE]
        /\ req' = [req EXCEPT ![w] = NoRequest]
    BY <1>2 DEF Continue, Reply, GoTo
  <2>2. deletions' \in [PostIds -> Nat]
    BY <1>2 DEF Continue, Control, TypeOK
  <2>3. signUps' \in [Names -> Nat]
    BY <1>2 DEF Continue, Control, TypeOK
  <2>4. NoRequest \in Request
    BY BoundsAssumption DEF NoRequest, RequestFor, Request, PostIds
  <2> QED
    BY <2>1, <2>2, <2>3, <2>4 DEF Control, TypeOK
<1> QED
  BY <1>1, <1>2

\* The end of a call: the mutex is free, the connection is the worker's no
\* longer, and the bookkeeping of the pool is what the premises say.
LEMMA EndOfCall ==
  ASSUME Control, NEW w \in Workers, pc[w] \in Connected \union {"connecting"},
         Unlock(w), lent' = lent \ {w},
         req' = [req EXCEPT ![w] = req'[w]], req'[w] \in Request,
         call' = [call EXCEPT ![w] = call'[w]],
         pc' = [pc EXCEPT ![w] = pc'[w]],
         \/ pc'[w] = "idle" /\ call'[w] = NONE /\ req'[w] = NoRequest
         \/ /\ pc'[w] = "waiting" /\ call'[w] \in {"role", "delete"}
            /\ req'[w] = req[w] /\ req[w].op = "delete"
            /\ call[w] \in {"read", "role"},
         deletions' \in [PostIds -> Nat], signUps' \in [Names -> Nat],
         UNCHANGED tables,
         live' \in 0 .. POOL_SIZE, lost' \in 0 .. POOL_SIZE, Counted'
  PROVE  Control'
<1>1. mutex' = [mutex EXCEPT ![ServiceOf(call[w])] = NONE] /\ mutex[ServiceOf(call[w])] = w
  BY DEF Unlock, Control, Placed, Past
<1>2. TypeOK'
  <2>1. call' \in [Workers -> AuthCalls \union BoardCalls \union {NONE}]
    BY DEF Control, TypeOK, AuthCalls, BoardCalls
  <2>2. pc' \in [Workers -> Stages]
    BY DEF Control, TypeOK, Stages, Connected
  <2>3. req' \in [Workers -> Request]
    BY DEF Control, TypeOK
  <2>4. mutex' \in [{"auth", "board"} -> Workers \union {NONE}]
    BY <1>1 DEF Control, TypeOK
  <2> QED
    BY <2>1, <2>2, <2>3, <2>4 DEF Control, TypeOK, Stages, Connected, tables
<1>3. Placed(w)'
  <2>1. pc'[w] \in {"idle", "waiting"} /\ w \notin lent'
    OBVIOUS
  <2>2. CASE pc'[w] = "idle" /\ call'[w] = NONE /\ req'[w] = NoRequest
    <3>1. \A q : q = NoRequest => q.op = "none" /\ q.role = "USER" /\ q.result = "fail"
      BY DEF NoRequest, RequestFor
    <3> QED
      BY <2>1, <2>2, <3>1 DEF Placed, Past, Connected
  <2>3. CASE /\ pc'[w] = "waiting" /\ call'[w] \in {"role", "delete"}
             /\ req'[w] = req[w] /\ req[w].op = "delete"
             /\ call[w] \in {"read", "role"}
    BY <2>1, <2>3 DEF Placed, Past, Connected, Control, AuthCalls, BoardCalls
  <2> QED
    BY <2>2, <2>3
<1>4. \A v \in Workers \ {w} : Placed(v)'
  BY <1>1, OthersStayPlaced DEF Control, TypeOK
<1> QED
  BY <1>2, <1>3, <1>4 DEF Control

LEMMA RefusedControl ==
  ASSUME Control, NEW w \in Workers, Refused(w)
  PROVE  Control'
<1>1. NoConnection(w) /\ Unlock(w) /\ Continue(w) /\ UNCHANGED tables
  BY DEF Refused
<1>2. pc[w] \in {"connecting", "running"}
  BY <1>1 DEF NoConnection
<1>3. lent' = lent \ {w} /\ lost' = lost /\ live' \in 0 .. POOL_SIZE /\ Counted'
  <2>1. Cardinality(lent) \in Nat /\ live \in 0 .. POOL_SIZE /\ lost \in 0 .. POOL_SIZE
        /\ Cardinality(lent) + lost <= live
    BY LentFacts DEF Control, TypeOK, Counted
  <2>2. CASE pc[w] = "connecting" /\ UNCHANGED pool
    <3>1. w \notin lent
      BY <2>2 DEF Control, Placed, Past, Connected
    <3> QED
      BY <2>1, <2>2, <3>1 DEF pool, Counted
  <2>3. CASE pc[w] = "running" /\ live' = live - 1 /\ lent' = lent \ {w} /\ UNCHANGED lost
    <3>1. w \in lent
      BY <2>3 DEF Control, Placed, Past, Connected
    <3>2. Cardinality(lent') = Cardinality(lent) - 1 /\ Cardinality(lent') \in Nat
      BY <2>3, <3>1, LentFacts DEF Control
    <3> QED
      BY <2>1, <2>3, <3>2, BoundsAssumption DEF Counted
  <2> QED
    BY <1>1, <2>2, <2>3 DEF NoConnection
<1>4. lost' \in 0 .. POOL_SIZE
  BY <1>3 DEF Control, TypeOK
<1> QED
  BY <1>1, <1>2, <1>3, <1>4, ContinueFacts, EndOfCall DEF Connected

LEMMA ReturnControl ==
  ASSUME Control, NEW w \in Workers, Return(w)
  PROVE  Control'
<1>1. /\ pc[w] = "returning" /\ lent' = lent \ {w} /\ Unlock(w) /\ Continue(w)
      /\ UNCHANGED <<tables, live, lost>>
  BY DEF Return
<1>2. Counted'
  <2>1. Cardinality(lent') = Cardinality(lent) - 1 /\ Cardinality(lent) \in Nat
    BY <1>1, LentFacts DEF Control, Placed, Past, Connected
  <2> QED
    BY <1>1, <2>1 DEF Control, Counted, TypeOK
<1>3. live' \in 0 .. POOL_SIZE /\ lost' \in 0 .. POOL_SIZE
  BY <1>1 DEF Control, TypeOK
<1> QED
  BY <1>1, <1>2, <1>3, ContinueFacts, EndOfCall DEF Connected

LEMMA HashThrowsControl ==
  ASSUME Control, NEW w \in Workers, HashThrows(w)
  PROVE  Control'
<1>1. /\ pc[w] = "inserting" /\ lost' = lost + 1 /\ lent' = lent \ {w}
      /\ Unlock(w) /\ Reply(w)
      /\ UNCHANGED <<tables, live, history>>
  BY DEF HashThrows
<1>2. Counted' /\ lost' \in 0 .. POOL_SIZE /\ live' \in 0 .. POOL_SIZE
  <2>1. Cardinality(lent') = Cardinality(lent) - 1 /\ Cardinality(lent') \in Nat
        /\ Cardinality(lent) \in Nat
    BY <1>1, LentFacts DEF Control, Placed, Past, Connected
  <2>2. live \in 0 .. POOL_SIZE /\ lost \in 0 .. POOL_SIZE
        /\ Cardinality(lent) + lost <= live
    BY DEF Control, TypeOK, Counted
  <2> QED
    BY <1>1, <2>1, <2>2, BoundsAssumption DEF Counted
<1>3. NoRequest \in Request
  BY BoundsAssumption DEF NoRequest, RequestFor, Request, PostIds
<1>4. /\ req' = [req EXCEPT ![w] = req'[w]] /\ req'[w] = NoRequest
      /\ call' = [call EXCEPT ![w] = call'[w]] /\ call'[w] = NONE
      /\ pc' = [pc EXCEPT ![w] = pc'[w]] /\ pc'[w] = "idle"
  BY <1>1 DEF Reply, GoTo, Control, TypeOK
<1>5. deletions' \in [PostIds -> Nat] /\ signUps' \in [Names -> Nat]
  BY <1>1 DEF history, Control, TypeOK
<1> QED
  BY <1>1, <1>2, <1>3, <1>4, <1>5, EndOfCall DEF Connected

LEMMA HealControl ==
  ASSUME Control, Heal
  PROVE  Control'
<1>1. live < POOL_SIZE /\ live' = live + 1
      /\ UNCHANGED <<tables, mutex, lost, lent, pc, call, req, history>>
  BY DEF Heal
<1>2. TypeOK'
  BY <1>1, BoundsAssumption DEF Control, TypeOK, tables, history
<1>3. Counted'
  BY <1>1, BoundsAssumption, FS_CardinalityType, FS_Subset, WorkersAssumption
     DEF Control, TypeOK, Counted
<1>4. \A w \in Workers : Placed(w)'
  BY <1>1 DEF Control, Placed, Past
<1> QED
  BY <1>2, <1>3, <1>4 DEF Control

\* A statement has been carried out, or has failed: the worker has learnt
\* something, and the tables are still tables.
LEMMA LearnsControl ==
  ASSUME Control, NEW w \in Workers, pc[w] \in {"running", "inserting"},
         NEW r \in Request, Learns(w, r),
         r.op = req[w].op, r.user = req[w].user,
         r.role = "ADMIN" => r.user \in Admins,
         r.result = "success" => call[w] \in {"signUp", "write", "delete"},
         users' \in SUBSET Names, posts' \in [PostIds -> Names \union {NONE}],
         written' \in PostIds
  PROVE  Control'
<1>1. /\ req' = [req EXCEPT ![w] = r]
      /\ pc' = [pc EXCEPT ![w] = "returning"]
      /\ UNCHANGED <<mutex, pool, call, history>>
  BY DEF Learns, GoTo
<1>2. TypeOK'
  BY <1>1 DEF Control, TypeOK, pool, history
<1>3. Placed(w)'
  BY <1>1 DEF Control, Placed, Past, TypeOK, pool, Connected
<1>4. \A v \in Workers \ {w} : Placed(v)'
  BY <1>1, OthersStayPlaced DEF Control, TypeOK, pool
<1> QED
  BY <1>1, <1>2, <1>3, <1>4 DEF Control, Counted, pool

\* What a request is after it has learnt one thing.
LEMMA LearningFacts ==
  ASSUME NEW q \in Request
  PROVE  /\ \A a \in Names \union {NONE} : \E r \in Request :
              /\ r = [q EXCEPT !.author = a]
              /\ r.op = q.op /\ r.user = q.user /\ r.id = q.id
              /\ r.role = q.role /\ r.result = q.result
         /\ \A a \in {"ADMIN", "USER"} : \E r \in Request :
              /\ r = [q EXCEPT !.role = a]
              /\ r.op = q.op /\ r.user = q.user /\ r.id = q.id
              /\ r.role = a /\ r.result = q.result
         /\ \A a \in {"success", "fail"} : \E r \in Request :
              /\ r = [q EXCEPT !.result = a]
              /\ r.op = q.op /\ r.user = q.user /\ r.id = q.id
              /\ r.role = q.role /\ r.result = a
         /\ \A a \in (SUBSET PostIds) \union {NONE} : \E r \in Request :
              /\ r = [q EXCEPT !.shown = a]
              /\ r.op = q.op /\ r.user = q.user /\ r.id = q.id
              /\ r.role = q.role /\ r.result = q.result
<1>1. ASSUME NEW a \in Names \union {NONE}
      PROVE  \E r \in Request : /\ r = [q EXCEPT !.author = a]
                               /\ r.op = q.op /\ r.user = q.user /\ r.id = q.id
                               /\ r.role = q.role /\ r.result = q.result
  <2> DEFINE r == [q EXCEPT !.author = a]
  <2>1. /\ r \in Request
        /\ r.op = q.op /\ r.user = q.user /\ r.id = q.id
        /\ r.role = q.role /\ r.result = q.result
    BY DEF Request
  <2> QED
    BY <2>1
<1>2. ASSUME NEW a \in {"ADMIN", "USER"}
      PROVE  \E r \in Request : /\ r = [q EXCEPT !.role = a]
                               /\ r.op = q.op /\ r.user = q.user /\ r.id = q.id
                               /\ r.role = a /\ r.result = q.result
  <2> DEFINE r == [q EXCEPT !.role = a]
  <2>1. /\ r \in Request
        /\ r.op = q.op /\ r.user = q.user /\ r.id = q.id
        /\ r.role = a /\ r.result = q.result
    BY DEF Request
  <2> QED
    BY <2>1
<1>3. ASSUME NEW a \in {"success", "fail"}
      PROVE  \E r \in Request : /\ r = [q EXCEPT !.result = a]
                               /\ r.op = q.op /\ r.user = q.user /\ r.id = q.id
                               /\ r.role = q.role /\ r.result = a
  <2> DEFINE r == [q EXCEPT !.result = a]
  <2>1. /\ r \in Request
        /\ r.op = q.op /\ r.user = q.user /\ r.id = q.id
        /\ r.role = q.role /\ r.result = a
    BY DEF Request
  <2> QED
    BY <2>1
<1>4. ASSUME NEW a \in (SUBSET PostIds) \union {NONE}
      PROVE  \E r \in Request : /\ r = [q EXCEPT !.shown = a]
                               /\ r.op = q.op /\ r.user = q.user /\ r.id = q.id
                               /\ r.role = q.role /\ r.result = q.result
  <2> DEFINE r == [q EXCEPT !.shown = a]
  <2>1. /\ r \in Request
        /\ r.op = q.op /\ r.user = q.user /\ r.id = q.id
        /\ r.role = q.role /\ r.result = q.result
    BY DEF Request
  <2> QED
    BY <2>1
<1> QED
  BY <1>1, <1>2, <1>3, <1>4

-----------------------------------------------------------------------------
(* What is told *)

\* A worker that has learnt something; what it may have learnt is a premise,
\* and so is that ids are taken in order and names are not given up.
LEMMA LearnsStep ==
  ASSUME IInv, NEW w \in Workers, pc[w] \in {"running", "inserting"},
         NEW r \in Request, Learns(w, r),
         r.op = req[w].op, r.user = req[w].user, r.id = req[w].id,
         r.role = "ADMIN" => r.user \in Admins,
         users' \in SUBSET Names, users \subseteq users',
         posts' \in [PostIds -> Names \union {NONE}],
         written' \in PostIds, written <= written',
         \A p \in PostIds : posts'[p] # NONE =>
           p <= written' /\ (posts[p] = NONE => p > written),
         r.result = "success" =>
           \/ /\ call[w] = "delete"
              /\ deletions[r.id] = 0 /\ posts'[r.id] = NONE /\ r.id <= written
           \/ /\ call[w] = "signUp"
              /\ signUps[r.user] = 0 /\ r.user \in users' \ Seeded
           \/ call[w] = "write"
  PROVE  IInv'
<1>1. Control'
  BY LearnsControl DEF IInv
<1>2. /\ req' = [req EXCEPT ![w] = r]
      /\ UNCHANGED <<call, deletions, signUps>>
  BY DEF Learns, history
<1>3. TypeOK
  BY DEF IInv, Control
<1>4. \A p \in PostIds : p \in Nat
  BY BoundsAssumption DEF PostIds
<1>5. Truthful'
  <2>1. Seeded \subseteq users'
    BY DEF IInv, Truthful
  <2>2. ASSUME NEW p \in PostIds
        PROVE  /\ posts'[p] # NONE => p <= written'
               /\ deletions'[p] # 0 => deletions'[p] = 1 /\ posts'[p] = NONE /\ p <= written'
    BY <1>2, <1>3, <1>4 DEF IInv, Truthful, TypeOK
  <2>3. ASSUME NEW n \in Names
        PROVE  signUps'[n] # 0 => signUps'[n] = 1 /\ n \in users' \ Seeded
    BY <1>2 DEF IInv, Truthful
  <2> QED
    BY <2>1, <2>2, <2>3 DEF Truthful
<1>6. AboutToTell(w)'
  <2>1. req'[w] = r /\ call'[w] = call[w]
    BY <1>2, <1>3 DEF TypeOK
  <2>2. r.id \in PostIds /\ r.id \in Nat /\ written \in Nat /\ written' \in Nat
    BY <1>3, <1>4 DEF Request, TypeOK
  <2> QED
    BY <1>2, <2>1, <2>2 DEF AboutToTell
<1>7. ASSUME NEW v \in Workers \ {w}
      PROVE  AboutToTell(v)'
  <2>1. req'[v] = req[v] /\ call'[v] = call[v]
    BY <1>2, <1>3 DEF TypeOK
  <2>2. PICK i \in PostIds : i = req[v].id
    BY <1>3 DEF TypeOK, Request
  <2>3. i \in Nat /\ written \in Nat /\ written' \in Nat
    BY <1>3, <1>4 DEF TypeOK
  <2>4. AboutToTell(v)
    BY DEF IInv
  <2>5. posts[i] = NONE /\ i <= written => posts'[i] = NONE /\ i <= written'
    BY <2>3
  <2> QED
    BY <1>2, <2>1, <2>2, <2>4, <2>5 DEF AboutToTell
<1> QED
  BY <1>1, <1>5, <1>6, <1>7 DEF IInv

\* The facts about a worker at a statement that its actions need.
LEMMA AtStatement ==
  ASSUME IInv, NEW w \in Workers, pc[w] \in {"running", "inserting"}
  PROVE  /\ TypeOK
         /\ req[w] \in Request
         /\ req[w].id \in PostIds
         /\ req[w].result = "fail"
         /\ req[w].role = "ADMIN" => req[w].user \in Admins
         /\ req[w].op \in {"signUp", "write", "delete"} => req[w].user \in Names
         /\ call[w] \in {"role", "delete"} => req[w].op = "delete"
         /\ call[w] \in {"signUp", "write"} => req[w].op = call[w]
         /\ \A p \in PostIds : posts[p] # NONE => p <= written
<1>1. TypeOK /\ Placed(w) /\ Truthful
  BY DEF IInv, Control
<1>2. req[w] \in Request /\ req[w].id \in PostIds /\ req[w].result \in {"success", "fail"}
  BY <1>1 DEF TypeOK, Request
<1> QED
  BY <1>1, <1>2 DEF Placed, Past, Truthful

\* Nothing but what a call returns changes.
LEMMA ReadingStep ==
  ASSUME IInv, NEW w \in Workers, pc[w] \in {"running", "inserting"},
         NEW r \in Request, Learns(w, r), UNCHANGED tables,
         r.op = req[w].op, r.user = req[w].user, r.id = req[w].id,
         r.role = "ADMIN" => r.user \in Admins, r.result = req[w].result
  PROVE  IInv'
<1>1. TypeOK /\ r.result = "fail" /\ \A p \in PostIds : posts[p] # NONE => p <= written
  BY AtStatement
<1>2. written \in Nat
  BY <1>1, BoundsAssumption DEF TypeOK, PostIds
<1> QED
  BY <1>1, <1>2, LearnsStep DEF tables, TypeOK

LEMMA ReadUsersStep ==
  ASSUME IInv, NEW w \in Workers, ReadUsers(w)
  PROVE  IInv'
BY AtStatement, ReadingStep DEF ReadUsers

LEMMA GetUserRoleStep ==
  ASSUME IInv, NEW w \in Workers, getUserRole(w)
  PROVE  IInv'
<1>1. PICK role \in {"USER", IF req[w].user \in Admins THEN "ADMIN" ELSE "USER"} :
        Learns(w, [req[w] EXCEPT !.role = role])
  BY DEF getUserRole
<1>2. pc[w] = "running" /\ UNCHANGED tables
  BY DEF getUserRole
<1>3. role \in {"ADMIN", "USER"} /\ (role = "ADMIN" => req[w].user \in Admins)
  OBVIOUS
<1>4. req[w] \in Request
  BY <1>2, AtStatement
<1>5. PICK r \in Request :
        /\ r = [req[w] EXCEPT !.role = role]
        /\ r.op = req[w].op /\ r.user = req[w].user /\ r.id = req[w].id
        /\ r.role = role /\ r.result = req[w].result
  BY <1>3, <1>4, LearningFacts
<1> QED
  BY <1>1, <1>2, <1>3, <1>5, AtStatement, ReadingStep

LEMMA GetAllPostsStep ==
  ASSUME IInv, NEW w \in Workers, getAllPosts(w)
  PROVE  IInv'
<1>1. PICK shown \in {NONE, Listed} : Learns(w, [req[w] EXCEPT !.shown = shown])
  BY DEF getAllPosts
<1>2. pc[w] = "running" /\ UNCHANGED tables
  BY DEF getAllPosts
<1>3. shown \in (SUBSET PostIds) \union {NONE}
  BY DEF Listed
<1>4. req[w] \in Request
  BY <1>2, AtStatement
<1>5. PICK r \in Request :
        /\ r = [req[w] EXCEPT !.shown = shown]
        /\ r.op = req[w].op /\ r.user = req[w].user /\ r.id = req[w].id
        /\ r.role = req[w].role /\ r.result = req[w].result
  BY <1>3, <1>4, LearningFacts
<1> QED
  BY <1>1, <1>2, <1>3, <1>5, AtStatement, ReadingStep

LEMMA GetPostByIdStep ==
  ASSUME IInv, NEW w \in Workers, getPostById(w)
  PROVE  IInv'
<1>1. PICK author \in {NONE, posts[req[w].id]} : Learns(w, [req[w] EXCEPT !.author = author])
  BY DEF getPostById
<1>2. pc[w] = "running" /\ UNCHANGED tables
  BY DEF getPostById
<1>3. author \in Names \union {NONE}
  BY <1>2, AtStatement DEF TypeOK
<1>4. req[w] \in Request
  BY <1>2, AtStatement
<1>5. PICK r \in Request :
        /\ r = [req[w] EXCEPT !.author = author]
        /\ r.op = req[w].op /\ r.user = req[w].user /\ r.id = req[w].id
        /\ r.role = req[w].role /\ r.result = req[w].result
  BY <1>3, <1>4, LearningFacts
<1> QED
  BY <1>1, <1>2, <1>3, <1>5, AtStatement, ReadingStep

LEMMA WritePostStep ==
  ASSUME IInv, NEW w \in Workers, writePost(w)
  PROVE  IInv'
<1>1. pc[w] = "running" /\ call[w] = "write"
  BY DEF writePost
<1>2. CASE UNCHANGED tables /\ Learns(w, req[w])
  BY <1>1, <1>2, AtStatement, ReadingStep
<1>3. CASE /\ RowWritten(w)
           /\ Learns(w, req[w]) \/ Learns(w, [req[w] EXCEPT !.result = "success"])
  <2>1. /\ TypeOK /\ req[w] \in Request /\ req[w].result = "fail"
        /\ req[w].user \in Names
        /\ req[w].role = "ADMIN" => req[w].user \in Admins
        /\ \A p \in PostIds : posts[p] # NONE => p <= written
    BY <1>1, AtStatement
  <2>2. /\ written \in Nat /\ written' \in PostIds /\ written <= written' /\ written' = written + 1
        /\ posts' = [posts EXCEPT ![written + 1] = req[w].user]
    BY <1>3, <2>1, BoundsAssumption DEF RowWritten, TypeOK, PostIds
  <2>3. posts' \in [PostIds -> Names \union {NONE}] /\ users' = users /\ users \in SUBSET Names
    BY <1>3, <2>1 DEF RowWritten, TypeOK
  <2>4. ASSUME NEW p \in PostIds, posts'[p] # NONE
        PROVE  p <= written' /\ (posts[p] = NONE => p > written)
    <3>1. p \in Nat
      BY BoundsAssumption DEF PostIds
    <3>2. CASE p = written + 1
      BY <2>2, <3>2
    <3>3. CASE p # written + 1
      <4>1. posts'[p] = posts[p]
        BY <2>1, <2>2, <3>3 DEF TypeOK
      <4> QED
        BY <2>1, <2>2, <2>4, <3>1, <4>1
    <3> QED
      BY <3>2, <3>3
  <2>5. PICK r \in Request :
          /\ Learns(w, r)
          /\ r.op = req[w].op /\ r.user = req[w].user /\ r.id = req[w].id
          /\ r.role = req[w].role
    <3>1. CASE Learns(w, req[w])
      BY <2>1, <3>1
    <3>2. CASE Learns(w, [req[w] EXCEPT !.result = "success"])
      <4>1. PICK r \in Request :
              /\ r = [req[w] EXCEPT !.result = "success"]
              /\ r.op = req[w].op /\ r.user = req[w].user /\ r.id = req[w].id
              /\ r.role = req[w].role
        BY <2>1, LearningFacts
      <4> QED
        BY <3>2, <4>1
    <3> QED
      BY <1>3, <3>1, <3>2
  <2> QED
    BY <1>1, <2>1, <2>2, <2>3, <2>4, <2>5, LearnsStep
<1> QED
  BY <1>2, <1>3 DEF writePost, Statement

\* A statement that is carried out: what it does to the tables is right, and
\* those who are told of a success may be.
LEMMA ChangeStep ==
  ASSUME IInv, NEW w \in Workers, pc[w] \in {"running", "inserting"},
         NEW a \in {"success", "fail"},
         Learns(w, req[w]) \/ Learns(w, [req[w] EXCEPT !.result = a]),
         users' \in SUBSET Names, users \subseteq users',
         posts' \in [PostIds -> Names \union {NONE}], written' = written,
         \A p \in PostIds : posts'[p] # NONE => posts'[p] = posts[p],
         a = "success" =>
           \/ /\ call[w] = "delete"
              /\ deletions[req[w].id] = 0 /\ posts'[req[w].id] = NONE
              /\ req[w].id <= written
           \/ /\ call[w] = "signUp"
              /\ signUps[req[w].user] = 0 /\ req[w].user \in users' \ Seeded
  PROVE  IInv'
<1>1. /\ TypeOK /\ req[w] \in Request /\ req[w].result = "fail"
      /\ req[w].role = "ADMIN" => req[w].user \in Admins
      /\ \A p \in PostIds : posts[p] # NONE => p <= written
  BY AtStatement
<1>2. written \in Nat /\ written' \in PostIds /\ written <= written'
  BY <1>1, BoundsAssumption DEF TypeOK, PostIds
<1>3. \A p \in PostIds : posts'[p] # NONE =>
        p <= written' /\ (posts[p] = NONE => p > written)
  BY <1>1
<1>4. PICK r \in Request :
        /\ Learns(w, r)
        /\ r.op = req[w].op /\ r.user = req[w].user /\ r.id = req[w].id
        /\ r.role = req[w].role
        /\ r.result = "success" => a = "success"
  <2>1. CASE Learns(w, req[w])
    BY <1>1, <2>1
  <2>2. CASE Learns(w, [req[w] EXCEPT !.result = a])
    <3>1. PICK r \in Request :
            /\ r = [req[w] EXCEPT !.result = a]
            /\ r.op = req[w].op /\ r.user = req[w].user /\ r.id = req[w].id
            /\ r.role = req[w].role /\ r.result = a
      BY <1>1, LearningFacts
    <3> QED
      BY <2>2, <3>1
  <2> QED
    BY <2>1, <2>2
<1> QED
  BY <1>1, <1>2, <1>3, <1>4, LearnsStep

LEMMA CheckUserStep ==
  ASSUME IInv, NEW w \in Workers, CheckUser(w)
  PROVE  IInv'
<1>1. pc[w] = "running" /\ call[w] = "signUp" /\ UNCHANGED tables
  BY DEF CheckUser
<1>2. CASE Learns(w, req[w])
  BY <1>1, <1>2, AtStatement, ReadingStep
<1>3. CASE pc' = [pc EXCEPT ![w] = "inserting"] /\ UNCHANGED <<mutex, pool, call, req, history>>
  <2>1. TypeOK /\ TypeOK'
    BY <1>1, <1>3 DEF IInv, Control, TypeOK, tables, pool, history
  <2>2. Placed(w)'
    BY <1>1, <1>3, <2>1, AtStatement
       DEF IInv, Control, Placed, Past, TypeOK, pool, Connected
  <2>3. \A v \in Workers \ {w} : Placed(v)'
    BY <1>3, <2>1, OthersStayPlaced DEF IInv, TypeOK, pool
  <2>4. Truthful' /\ \A v \in Workers : AboutToTell(v)'
    BY <1>1, <1>3 DEF IInv, Truthful, AboutToTell, tables, history
  <2> QED
    BY <1>3, <2>1, <2>2, <2>3, <2>4 DEF IInv, Control, Counted, pool
<1> QED
  BY <1>2, <1>3 DEF CheckUser, GoTo

LEMMA InsertUserStep ==
  ASSUME IInv, NEW w \in Workers, InsertUser(w)
  PROVE  IInv'
<1>1. pc[w] = "inserting" /\ call[w] = "signUp"
  BY DEF InsertUser, IInv, Control, Placed, Past
<1>2. CASE UNCHANGED tables /\ Learns(w, req[w])
  BY <1>1, <1>2, AtStatement, ReadingStep
<1>3. CASE /\ UserAdded(w)
           /\ \/ Learns(w, req[w])
              \/ Learns(w, [req[w] EXCEPT !.result =
                              IF req[w].user \notin users THEN "success" ELSE "fail"])
  <2>1. PICK a \in {"success", "fail"} :
          a = IF req[w].user \notin users THEN "success" ELSE "fail"
    OBVIOUS
  <2>2. users' = users \union {req[w].user} /\ UNCHANGED <<posts, written>>
    BY <1>3 DEF UserAdded
  <2>3. TypeOK /\ Truthful /\ req[w].user \in Names
    BY <1>1, AtStatement DEF IInv
  <2>4. a = "success" => signUps[req[w].user] = 0 /\ req[w].user \in users' \ Seeded
    BY <2>1, <2>2, <2>3 DEF Truthful
  <2>5. Learns(w, req[w]) \/ Learns(w, [req[w] EXCEPT !.result = a])
    BY <1>3, <2>1
  <2> QED
    BY <1>1, <2>2, <2>3, <2>4, <2>5, ChangeStep DEF TypeOK
<1> QED
  BY <1>2, <1>3 DEF InsertUser, Statement

LEMMA DeletePostStep ==
  ASSUME IInv, NEW w \in Workers, deletePost(w)
  PROVE  IInv'
<1>1. pc[w] = "running" /\ call[w] = "delete"
  BY DEF deletePost
<1>2. CASE UNCHANGED tables /\ Learns(w, req[w])
  BY <1>1, <1>2, AtStatement, ReadingStep
<1>3. CASE /\ RowDeleted(w)
           /\ \/ Learns(w, req[w])
              \/ Learns(w, [req[w] EXCEPT !.result =
                              IF Deletable(w) THEN "success" ELSE "fail"])
  <2>1. PICK a \in {"success", "fail"} : a = IF Deletable(w) THEN "success" ELSE "fail"
    OBVIOUS
  <2>2. /\ posts' = IF Deletable(w) THEN [posts EXCEPT ![req[w].id] = NONE] ELSE posts
        /\ UNCHANGED <<users, written>>
    BY <1>3 DEF RowDeleted
  <2>3. TypeOK /\ Truthful /\ req[w].id \in PostIds
    BY <1>1, AtStatement DEF IInv
  <2>4. posts' \in [PostIds -> Names \union {NONE}]
        /\ \A p \in PostIds : posts'[p] # NONE => posts'[p] = posts[p]
    BY <2>2, <2>3 DEF TypeOK
  <2>5. a = "success" => /\ deletions[req[w].id] = 0 /\ posts'[req[w].id] = NONE
                         /\ req[w].id <= written
    BY <2>1, <2>2, <2>3 DEF Truthful, Deletable, TypeOK
  <2>6. Learns(w, req[w]) \/ Learns(w, [req[w] EXCEPT !.result = a])
    BY <1>3, <2>1
  <2> QED
    BY <1>1, <2>2, <2>3, <2>4, <2>5, <2>6, ChangeStep DEF TypeOK
<1> QED
  BY <1>2, <1>3 DEF deletePost, Statement

\* Steps that touch no table and tell nobody anything, and in which no worker
\* comes to have a success to tell.
LEMMA QuietStep ==
  ASSUME IInv, Control', UNCHANGED <<tables, history>>,
         \A v \in Workers : \/ req'[v].result # "success"
                            \/ req'[v] = req[v] /\ call'[v] = call[v]
  PROVE  IInv'
<1>1. Truthful'
  BY DEF IInv, Truthful, tables, history
<1>2. ASSUME NEW v \in Workers
      PROVE  AboutToTell(v)'
  <2>1. CASE req'[v].result # "success"
    BY <2>1 DEF AboutToTell
  <2>2. CASE req'[v] = req[v] /\ call'[v] = call[v]
    BY <2>2 DEF IInv, AboutToTell, tables, history
  <2> QED
    BY <2>1, <2>2
<1> QED
  BY <1>1, <1>2 DEF IInv

LEMMA ArriveStep ==
  ASSUME IInv, NEW w \in Workers, Arrive(w)
  PROVE  IInv'
<1>1. TypeOK /\ Control'
  BY ArriveControl DEF IInv, Control
<1>2. PICK op \in {"signUp", "users", "write", "list", "read", "delete"},
           n \in Names \union {NONE}, p \in PostIds :
        /\ req' = [req EXCEPT ![w] = RequestFor(op, n, p)]
        /\ call' = [call EXCEPT ![w] = call'[w]]
  BY <1>1 DEF Arrive, Begin, TypeOK
<1>3. req'[w].result = "fail"
  BY <1>1, <1>2 DEF TypeOK, RequestFor
<1>4. \A v \in Workers \ {w} : req'[v] = req[v] /\ call'[v] = call[v]
  BY <1>1, <1>2 DEF TypeOK
<1>5. UNCHANGED <<tables, history>>
  BY DEF Arrive
<1> QED
  BY <1>1, <1>3, <1>4, <1>5, QuietStep

\* The end of a call, with an answer or without.
LEMMA ContinueStep ==
  ASSUME IInv, NEW w \in Workers, pc[w] # "idle", Continue(w), UNCHANGED tables, Control',
         pc[w] # "returning" => req[w].result = "fail"
  PROVE  IInv'
<1>1. Control /\ TypeOK /\ Truthful /\ req[w] \in Request /\ req[w].id \in PostIds
  BY DEF IInv, Control, TypeOK, Request
<1>2. \A v \in Workers \ {w} : req'[v] = req[v] /\ call'[v] = call[v]
  BY <1>1, ContinueFacts DEF TypeOK
<1>3. req'[w].result # "success"
  <2>1. NoRequest.result = "fail"
    BY DEF NoRequest, RequestFor
  <2>2. CASE req'[w] = req[w] /\ call[w] \in {"read", "role"}
    BY <1>1, <2>2 DEF Control, Placed, Past
  <2> QED
    BY <1>1, <2>1, <2>2, ContinueFacts
<1>4. CASE UNCHANGED history
  BY <1>2, <1>3, <1>4, QuietStep
<1>5. CASE ~(req[w].op = "delete" /\ NextCall(w) # "none")
  <2>1. deletions' = [deletions EXCEPT ![req[w].id] =
          IF call[w] = "delete" /\ req[w].result = "success" THEN @ + 1 ELSE @]
    BY <1>5 DEF Continue
  <2>2. signUps' = [n \in Names |->
          IF call[w] = "signUp" /\ req[w].result = "success" /\ n = req[w].user
          THEN signUps[n] + 1 ELSE signUps[n]]
    BY <1>5 DEF Continue
  <2>3. CASE req[w].result # "success"
    <3>1. deletions' = deletions /\ signUps' = signUps
      BY <1>1, <2>1, <2>2, <2>3 DEF TypeOK
    <3> QED
      BY <1>4, <3>1 DEF history
  <2>4. CASE req[w].result = "success" /\ call[w] = "delete"
    <3>1. PICK i \in PostIds : i = req[w].id
      BY <1>1
    <3>2. deletions[i] = 0 /\ posts[i] = NONE /\ i <= written
      BY <2>4, <3>1 DEF IInv, AboutToTell
    <3>3. /\ signUps' = signUps
          /\ deletions' = [deletions EXCEPT ![i] = deletions[i] + 1]
      BY <1>1, <2>1, <2>2, <2>4, <3>1 DEF TypeOK
    <3>4. \A p \in PostIds : deletions'[p] = IF p = i THEN 1 ELSE deletions[p]
      BY <1>1, <3>2, <3>3 DEF TypeOK
    <3>5. Truthful'
      BY <1>1, <3>2, <3>3, <3>4 DEF Truthful, tables
    <3>6. ASSUME NEW v \in Workers \ {w}
          PROVE  AboutToTell(v)'
      <4>1. AboutToTell(v) /\ Placed(v) /\ Placed(w)
        BY DEF IInv, Control
      <4>2. req[v].id \in PostIds
        BY <1>1 DEF TypeOK, Request
      <4>3. ~(req[v].result = "success" /\ call[v] = "delete")
        BY <2>4, <4>1 DEF Placed, Past, Connected
      <4> QED
        BY <1>2, <3>3, <4>1, <4>2, <4>3 DEF AboutToTell, tables
    <3>7. AboutToTell(w)'
      BY <1>3 DEF AboutToTell
    <3> QED
      BY <3>5, <3>6, <3>7 DEF IInv
  <2>5. CASE req[w].result = "success" /\ call[w] = "signUp"
    <3>1. PICK u \in Names : u = req[w].user
      BY <1>1, <2>5 DEF Control, Placed, Past
    <3>2. signUps[u] = 0 /\ u \in users \ Seeded
      BY <2>5, <3>1 DEF IInv, AboutToTell
    <3>3. deletions' = deletions
      BY <1>1, <2>1, <2>5 DEF TypeOK
    <3>4. \A n \in Names : signUps'[n] = IF n = u THEN 1 ELSE signUps[n]
      BY <1>1, <2>2, <2>5, <3>1, <3>2 DEF TypeOK
    <3>5. Truthful'
      BY <1>1, <3>2, <3>3, <3>4 DEF Truthful, tables
    <3>6. ASSUME NEW v \in Workers \ {w}
          PROVE  AboutToTell(v)'
      <4>1. AboutToTell(v) /\ Placed(v) /\ Placed(w)
        BY DEF IInv, Control
      <4>2. ~(req[v].result = "success" /\ call[v] = "signUp")
        BY <2>5, <4>1 DEF Placed, Past, Connected
      <4> QED
        BY <1>2, <3>3, <4>1, <4>2 DEF AboutToTell, tables
    <3>7. AboutToTell(w)'
      BY <1>3 DEF AboutToTell
    <3> QED
      BY <3>5, <3>6, <3>7 DEF IInv
  <2>6. CASE req[w].result = "success" /\ call[w] = "write"
    <3>1. deletions' = deletions /\ signUps' = signUps
      BY <1>1, <2>1, <2>2, <2>6 DEF TypeOK
    <3> QED
      BY <1>4, <3>1 DEF history
  <2>7. req[w].result = "success" => call[w] \in {"signUp", "write", "delete"}
    BY DEF IInv, Control, Placed, Past
  <2> QED
    BY <2>3, <2>4, <2>5, <2>6, <2>7
<1> QED
  BY <1>4, <1>5 DEF Continue

LEMMA RefusedStep ==
  ASSUME IInv, NEW w \in Workers, Refused(w)
  PROVE  IInv'
<1>1. pc[w] \in {"connecting", "running"} /\ Continue(w) /\ UNCHANGED tables
  BY DEF Refused, NoConnection
<1>2. Control /\ Control'
  BY RefusedControl DEF IInv
<1>3. req[w].result = "fail"
  BY <1>1, <1>2 DEF Control, Placed, Past, TypeOK, Request
<1> QED
  BY <1>1, <1>2, <1>3, ContinueStep

LEMMA HashThrowsStep ==
  ASSUME IInv, NEW w \in Workers, HashThrows(w)
  PROVE  IInv'
<1>1. TypeOK /\ Control'
  BY HashThrowsControl DEF IInv, Control
<1>2. /\ req' = [req EXCEPT ![w] = NoRequest] /\ call' = [call EXCEPT ![w] = NONE]
      /\ UNCHANGED <<tables, history>>
  BY DEF HashThrows, Reply, tables, history
<1>3. NoRequest.result = "fail"
  BY DEF NoRequest, RequestFor
<1> QED
  BY <1>1, <1>2, <1>3, QuietStep DEF TypeOK

LEMMA StepIsGood == IInv /\ [Next]_vars => IInv'
<1> SUFFICES ASSUME IInv, [Next]_vars
             PROVE  IInv'
  OBVIOUS
<1>1. CASE Heal
  BY <1>1, HealControl, QuietStep DEF Heal, IInv
<1>2. ASSUME NEW w \in Workers, Lock(w)
      PROVE  IInv'
  BY <1>2, LockControl, QuietStep DEF Lock, IInv
<1>3. ASSUME NEW w \in Workers, Borrow(w)
      PROVE  IInv'
  BY <1>3, BorrowControl, QuietStep DEF Borrow, IInv
<1>4. ASSUME NEW w \in Workers, Return(w)
      PROVE  IInv'
  <2>1. pc[w] = "returning" /\ Continue(w) /\ UNCHANGED tables
    BY <1>4 DEF Return, tables
  <2> QED
    BY <1>4, <2>1, ReturnControl, ContinueStep DEF IInv
<1>5. ASSUME NEW w \in Workers, Step(w)
      PROVE  IInv'
  BY <1>2, <1>3, <1>4, <1>5, RefusedStep, ReadUsersStep, CheckUserStep, InsertUserStep,
     HashThrowsStep, GetUserRoleStep, WritePostStep, GetAllPostsStep, GetPostByIdStep,
     DeletePostStep
     DEF Step
<1>6. CASE UNCHANGED vars
  <2>1. Control'
    BY <1>6 DEF vars, tables, pool, history, IInv, Control, TypeOK, Counted, Placed, Past
  <2> QED
    BY <1>6, <2>1, QuietStep DEF vars
<1> QED
  BY <1>1, <1>5, <1>6, ArriveStep DEF Next

LEMMA InitIsGood == Init => IInv
<1> SUFFICES ASSUME Init
             PROVE  IInv
  OBVIOUS
<1>1. PICK a \in Admins : posts = [p \in PostIds |-> IF p = 1 THEN a ELSE NONE]
  BY DEF Init
<1>2. 1 \in PostIds /\ \A p \in PostIds : p \in Nat
  BY BoundsAssumption DEF PostIds
<1>3. /\ NoRequest \in Request /\ NoRequest.op = "none"
      /\ NoRequest.role = "USER" /\ NoRequest.result = "fail"
  BY <1>2 DEF NoRequest, RequestFor, Request
<1>4. TypeOK
  BY <1>1, <1>2, <1>3, NamesAssumption, BoundsAssumption DEF Init, TypeOK
<1>5. Counted
  BY FS_EmptySet, BoundsAssumption DEF Init, Counted
<1>6. \A w \in Workers : Placed(w)
  BY <1>3 DEF Init, Placed, Past, Connected
<1>7. Truthful
  BY <1>1, <1>2 DEF Init, Truthful
<1>8. \A w \in Workers : AboutToTell(w)
  BY <1>3 DEF Init, AboutToTell
<1> QED
  BY <1>4, <1>5, <1>6, <1>7, <1>8 DEF IInv, Control

-----------------------------------------------------------------------------
(* The theorems *)

\* In every reachable state mutexes, connections and requests fit the places of
\* the workers, and what was or will be told is true.
THEOREM Invariant == Spec => []IInv
<1> QED
  BY InitIsGood, StepIsGood, PTL DEF Spec

\* The types; in particular neither the count of connections nor that of the
\* ones lost leaves its range.
THEOREM TypeCorrect == Spec => []TypeOK
<1>1. IInv => TypeOK
  BY DEF IInv, Control
<1> QED
  BY <1>1, Invariant, PTL

\* However many requests to delete a post are under way, one at most is told
\* that it has deleted it, and then it is gone.
THEOREM DeletedOnceHolds == Spec => []DeletedOnce
<1>1. IInv => DeletedOnce
  BY DEF IInv, Control, TypeOK, Truthful, DeletedOnce
<1> QED
  BY <1>1, Invariant, PTL

\* A name is given to one request at most, even if the check for a duplicate
\* fails to see it.
THEOREM SignedUpOnceHolds == Spec => []SignedUpOnce
<1>1. IInv => SignedUpOnce
  BY DEF IInv, Control, TypeOK, Truthful, SignedUpOnce
<1> QED
  BY <1>1, Invariant, PTL

\* Who finds no connection idle waits for one call of the other service, and no
\* second connection is left, for any number of threads and whatever was lost: each
\* service lets one thread in.
THEOREM NobodyWaitsHolds == Spec => []NobodyWaits
<1>1. IInv => NobodyWaits
  <2> SUFFICES ASSUME IInv, NEW w \in Workers, pc[w] = "connecting", Idle = 0
               PROVE  /\ live - lost <= 1
                      /\ \A v \in lent : ServiceOf(call[v]) # ServiceOf(call[w])
    BY DEF NobodyWaits
  <2>1. TypeOK /\ \A v \in Workers : Placed(v)
    BY DEF IInv, Control
  <2>2. PICK other \in {"auth", "board"} : other # ServiceOf(call[w])
    BY ServiceFacts
  <2>3. ASSUME NEW v \in lent
        PROVE  v = mutex[other] /\ ServiceOf(call[v]) # ServiceOf(call[w])
    <3>1. v \in Workers /\ v # w /\ mutex[ServiceOf(call[v])] = v
      BY <2>1 DEF TypeOK, Placed, Past, Connected
    <3>2. mutex[ServiceOf(call[w])] = w
      BY <2>1 DEF Placed, Past
    <3> QED
      BY <2>2, <3>1, <3>2, ServiceFacts
  <2>4. Cardinality(lent) <= 1 /\ Cardinality(lent) \in Nat
    <3>1. IsFiniteSet({mutex[other]}) /\ Cardinality({mutex[other]}) = 1
      BY FS_Singleton
    <3>2. lent \subseteq {mutex[other]}
      BY <2>3
    <3> QED
      BY <3>1, <3>2, FS_Subset, FS_CardinalityType
  <2>5. live \in Int /\ lost \in Int
    BY <2>1, BoundsAssumption DEF TypeOK
  <2>6. live - lost <= 1
    BY <2>4, <2>5 DEF Idle
  <2> QED
    BY <2>3, <2>6
<1> QED
  BY <1>1, Invariant, PTL

\* A post disappears only by the hand of its author or of an administrator,
\* although its author was read, and the role of the caller looked up, in
\* earlier calls, and although any of them may fail.
DeletedByRight ==
  [][\A p \in PostIds : (posts[p] # NONE /\ posts'[p] = NONE) =>
       \E w \in Workers :
         /\ req[w].op = "delete" /\ req[w].id = p
         /\ req[w].user \in Admins \union {posts[p]}]_vars

\* This holds of every step, for any number of workers and posts.
THEOREM DeletedByRightHolds == Spec => DeletedByRight
<1> DEFINE ByRight ==
      \A p \in PostIds : (posts[p] # NONE /\ posts'[p] = NONE) =>
        \E w \in Workers :
          /\ req[w].op = "delete" /\ req[w].id = p
          /\ req[w].user \in Admins \union {posts[p]}
<1>1. ASSUME IInv, Next
      PROVE  ByRight
  <2>1. CASE posts' = posts
    BY <2>1
  <2>2. ASSUME NEW w \in Workers, deletePost(w)
        PROVE  ByRight
    <3>1. /\ pc[w] = "running" /\ call[w] = "delete"
          /\ \/ posts' = posts
             \/ posts' = IF Deletable(w) THEN [posts EXCEPT ![req[w].id] = NONE] ELSE posts
      BY <2>2 DEF deletePost, Statement, RowDeleted, tables
    <3>2. /\ TypeOK /\ req[w].op = "delete"
          /\ req[w].role = "ADMIN" => req[w].user \in Admins
      BY <3>1, <1>1, AtStatement
    <3> QED
      BY <3>1, <3>2 DEF Deletable, TypeOK
  <2>3. ASSUME NEW w \in Workers, writePost(w)
        PROVE  ByRight
    <3>1. /\ pc[w] = "running" /\ call[w] = "write"
          /\ posts' = posts \/ posts' = [posts EXCEPT ![written + 1] = req[w].user]
      BY <2>3 DEF writePost, Statement, RowWritten, tables
    <3>2. TypeOK /\ req[w].user \in Names
      BY <3>1, <1>1, AtStatement
    <3> QED
      BY <3>1, <3>2, NamesAssumption DEF TypeOK
  <2>4. ASSUME NEW w \in Workers, InsertUser(w)
        PROVE  posts' = posts
    BY <2>4 DEF InsertUser, Statement, UserAdded, tables
  <2>5. ASSUME NEW w \in Workers, Arrive(w) \/ Step(w), ~writePost(w), ~deletePost(w)
        PROVE  posts' = posts
    BY <2>4, <2>5
       DEF Step, Arrive, Lock, Borrow, Refused, Return, ReadUsers, CheckUser, HashThrows,
           getUserRole, getAllPosts, getPostById, tables
  <2>6. CASE Heal
    BY <2>1, <2>6 DEF Heal, tables
  <2> QED
    BY <1>1, <2>1, <2>2, <2>3, <2>5, <2>6 DEF Next
<1>2. IInv /\ [Next]_vars => [ByRight]_vars
  BY <1>1
<1> QED
  BY <1>2, Invariant, PTL DEF Spec, DeletedByRight

-----------------------------------------------------------------------------
(* The pool of ConnPool.tla *)

\* What a worker is to the pool, and that only the worker that moves changes.
LEMMA ClientFacts ==
  ASSUME Control
  PROVE  /\ \A v \in Workers : clientBar[v] =
              IF v \in lent THEN "holding"
              ELSE IF pc[v] = "connecting" THEN "asking" ELSE "out"
         /\ Abstract!Holders = lent
BY DEF clientBar, Abstract!Holders, Control, TypeOK

LEMMA ClientMoves ==
  ASSUME Control, Control', NEW w \in Workers, pc' = [pc EXCEPT ![w] = pc'[w]],
         lent' \in {lent, lent \union {w}, lent \ {w}}
  PROVE  clientBar' = [clientBar EXCEPT ![w] =
           IF w \in lent' THEN "holding"
           ELSE IF pc'[w] = "connecting" THEN "asking" ELSE "out"]
<1>1. \A v \in Workers \ {w} : pc'[v] = pc[v] /\ (v \in lent' <=> v \in lent)
  BY DEF Control, TypeOK
<1> QED
  BY <1>1 DEF clientBar

\* ConnPool sees the library's Cardinality under a name of its own.
LEMMA SameCardinality == \A S : Abstract!Cardinality(S) = Cardinality(S)
BY DEF Abstract!Cardinality, Cardinality

\* Every step of the services is a step of the pool's clients, or none.
LEMMA StepsRefine ==
  IInv /\ [Next]_vars => [Abstract!Next]_(Abstract!vars)
<1> SUFFICES ASSUME IInv, [Next]_vars
             PROVE  [Abstract!Next]_(Abstract!vars)
  OBVIOUS
<1>1. Control /\ Control' /\ TypeOK
  BY StepIsGood DEF IInv, Control
<1>2. live \in Int /\ lost \in Int /\ live <= POOL_SIZE /\ lost >= 0
  BY <1>1, BoundsAssumption DEF TypeOK
<1> DEFINE Same == UNCHANGED <<clientBar, live - lost>>
<1>3. Same => [Abstract!Next]_(Abstract!vars)
  BY DEF Abstract!vars
<1>4. ASSUME NEW w \in Workers, Lock(w)
      PROVE  Abstract!Ask(w)
  <2>1. clientBar[w] = "out"
    BY <1>1, <1>4, ClientFacts DEF Lock, Control, Placed, Past, Connected
  <2>2. pc' = [pc EXCEPT ![w] = "connecting"] /\ pc'[w] = "connecting" /\ lent' = lent
        /\ live' = live /\ lost' = lost
    BY <1>1, <1>4 DEF Lock, GoTo, pool, TypeOK
  <2>3. w \notin lent
    BY <1>1, <1>4 DEF Lock, Control, Placed, Past, Connected
  <2> QED
    BY <1>1, <2>1, <2>2, <2>3, ClientMoves DEF Abstract!Ask
<1>5. ASSUME NEW w \in Workers, Borrow(w)
      PROVE  Abstract!Grant(w)
  <2>1. /\ pc' = [pc EXCEPT ![w] = "running"] /\ pc'[w] = "running"
        /\ lent' = lent \union {w} /\ live' = live /\ lost' = lost
        /\ pc[w] = "connecting" /\ w \notin lent /\ Idle > 0
    BY <1>1, <1>5 DEF Borrow, GoTo, TypeOK, Control, Placed, Past, Connected
  <2>2. clientBar[w] = "asking" /\ Abstract!Holders = lent
    BY <1>1, <2>1, ClientFacts
  <2>3. clientBar' = [clientBar EXCEPT ![w] = "holding"]
    BY <1>1, <2>1, ClientMoves
  <2>4. Cardinality(lent) < live - lost
    BY <1>1, <1>2, <2>1, LentFacts DEF Idle
  <2>5. live' - lost' = live - lost
    BY <2>1
  <2> QED
    BY <2>2, <2>3, <2>4, <2>5, SameCardinality DEF Abstract!Grant
<1>6. ASSUME NEW w \in Workers, pc[w] \in Connected, lent' = lent \ {w},
             pc' = [pc EXCEPT ![w] = pc'[w]], pc'[w] \in {"idle", "waiting"}
      PROVE  /\ clientBar[w] = "holding" /\ clientBar' = [clientBar EXCEPT ![w] = "out"]
             /\ live - lost > 0
  <2>1. w \in lent
    BY <1>1, <1>6 DEF Control, Placed, Past
  <2>2. clientBar' = [clientBar EXCEPT ![w] = "out"]
    BY <1>1, <1>6, ClientMoves
  <2>3. live - lost > 0
    <3>1. /\ Cardinality(lent) \in Nat /\ Cardinality(lent) - 1 \in Nat
          /\ Cardinality(lent) + lost <= live
      BY <1>1, <2>1, LentFacts DEF Control, Counted
    <3> QED
      BY <1>2, <3>1
  <2> QED
    BY <1>1, <2>1, <2>2, <2>3, ClientFacts
<1>7. ASSUME NEW w \in Workers, Refused(w)
      PROVE  [Abstract!Next]_(Abstract!vars)
  <2>1. /\ pc[w] \in {"connecting", "running"} /\ NoConnection(w)
        /\ pc' = [pc EXCEPT ![w] = pc'[w]] /\ pc'[w] \in {"idle", "waiting"}
    BY <1>1, <1>7, ContinueFacts DEF Refused, NoConnection
  <2>2. CASE pc[w] = "connecting" /\ UNCHANGED pool
    <3>1. w \notin lent /\ lent' = lent /\ live' = live /\ lost' = lost
      BY <1>1, <2>2 DEF Control, Placed, Past, Connected, pool
    <3>2. clientBar[w] = "asking" /\ clientBar' = [clientBar EXCEPT ![w] = "out"]
      BY <1>1, <2>1, <2>2, <3>1, ClientFacts, ClientMoves
    <3>3. Abstract!Refuse(w)
      BY <3>1, <3>2 DEF Abstract!Refuse
    <3> QED
      BY <3>3 DEF Abstract!Next
  <2>3. CASE pc[w] = "running" /\ live' = live - 1 /\ lent' = lent \ {w} /\ UNCHANGED lost
    <3>1. live' - lost' = (live - lost) - 1
      BY <1>2, <2>3
    <3>2. Abstract!Lose(w)
      BY <1>6, <2>1, <2>3, <3>1 DEF Abstract!Lose, Connected
    <3> QED
      BY <3>2 DEF Abstract!Next
  <2> QED
    BY <2>1, <2>2, <2>3 DEF NoConnection
<1>8. ASSUME NEW w \in Workers, Return(w)
      PROVE  Abstract!Return(w)
  <2>1. /\ pc' = [pc EXCEPT ![w] = pc'[w]] /\ pc'[w] \in {"idle", "waiting"}
        /\ pc[w] \in Connected /\ lent' = lent \ {w} /\ live' = live /\ lost' = lost
    BY <1>1, <1>8, ContinueFacts DEF Return, Connected
  <2> QED
    BY <1>6, <2>1 DEF Abstract!Return
<1>9. ASSUME NEW w \in Workers, HashThrows(w)
      PROVE  Abstract!Lose(w)
  <2>1. /\ pc' = [pc EXCEPT ![w] = pc'[w]] /\ pc'[w] \in {"idle", "waiting"}
        /\ pc[w] \in Connected /\ lent' = lent \ {w} /\ live' = live /\ lost' = lost + 1
    BY <1>1, <1>9 DEF HashThrows, Reply, GoTo, Connected, TypeOK
  <2>2. live' - lost' = (live - lost) - 1
    BY <1>2, <2>1
  <2> QED
    BY <1>6, <2>1, <2>2 DEF Abstract!Lose
<1>10. CASE Heal
  <2>1. live' = live + 1 /\ lost' = lost /\ pc' = pc /\ lent' = lent /\ live < POOL_SIZE
    BY <1>10 DEF Heal
  <2>2. clientBar' = clientBar
    BY <2>1 DEF clientBar
  <2>3. live - lost < POOL_SIZE /\ live' - lost' = (live - lost) + 1
    BY <1>2, <2>1, BoundsAssumption
  <2>4. Abstract!Heal
    BY <2>2, <2>3 DEF Abstract!Heal
  <2> QED
    BY <2>4 DEF Abstract!Next
<1>11. ASSUME NEW w \in Workers, UNCHANGED pool, pc' = [pc EXCEPT ![w] = pc'[w]],
              pc[w] # "connecting", pc'[w] # "connecting"
       PROVE  Same
  BY <1>1, <1>11, ClientMoves, ClientFacts DEF pool, clientBar, TypeOK
<1>12. ASSUME NEW w \in Workers, NEW r, Learns(w, r), pc[w] # "connecting"
       PROVE  Same
  BY <1>1, <1>11, <1>12 DEF Learns, GoTo, TypeOK
<1>13. ASSUME NEW w \in Workers,
              \/ Arrive(w) \/ ReadUsers(w) \/ CheckUser(w) \/ InsertUser(w) \/ getUserRole(w)
              \/ writePost(w) \/ getAllPosts(w) \/ getPostById(w) \/ deletePost(w)
       PROVE  Same
  <2>1. CASE Arrive(w)
    BY <1>1, <1>11, <2>1 DEF Arrive, Begin, GoTo, TypeOK
  <2>2. CASE CheckUser(w)
    BY <1>1, <1>11, <1>12, <2>2 DEF CheckUser, GoTo, TypeOK
  <2>3. CASE ReadUsers(w) \/ getUserRole(w) \/ getAllPosts(w) \/ getPostById(w)
    BY <1>12, <2>3 DEF ReadUsers, getUserRole, getAllPosts, getPostById
  <2>4. CASE InsertUser(w) \/ writePost(w) \/ deletePost(w)
    BY <1>12, <2>4 DEF InsertUser, writePost, deletePost, Statement
  <2> QED
    BY <1>13, <2>1, <2>2, <2>3, <2>4
<1>14. CASE UNCHANGED vars
  BY <1>3, <1>14 DEF vars, pool, clientBar
<1> QED
  BY <1>3, <1>4, <1>5, <1>7, <1>8, <1>9, <1>10, <1>13, <1>14 DEF Next, Step, Abstract!Next

\* The services use the pool as ConnPool.tla wants it used, for any number of
\* workers and any size.
THEOREM Refinement == Spec => FollowsConnPool
<1>1. Init => Abstract!Init
  BY DEF Init, Abstract!Init, clientBar
<1> QED
  BY <1>1, StepsRefine, Invariant, PTL DEF Spec, Abstract!Spec, FollowsConnPool

-----------------------------------------------------------------------------
(* The board of BoardPolicy.tla *)

Wanted(r) == [op |-> r.op, user |-> r.user, id |-> r.id]
DoneBy(past, r) ==
  IF ~past THEN "open" ELSE IF r.result = "success" THEN "success" ELSE "settled"

\* What a worker is to the board, and that only the worker that moves changes.
LEMMA BoardFacts ==
  ASSUME NEW w \in Workers
  PROVE  /\ wantBar[w] = Wanted(req[w])
         /\ doneBar[w] = DoneBy(Past(w), req[w])
         /\ Wanted(req[w]).op = req[w].op
         /\ Wanted(req[w]).user = req[w].user
         /\ Wanted(req[w]).id = req[w].id
BY DEF wantBar, doneBar, Wanted, DoneBy

LEMMA BoardMoves ==
  ASSUME TypeOK, NEW w \in Workers,
         pc' = [pc EXCEPT ![w] = pc'[w]],
         call' = [call EXCEPT ![w] = call'[w]],
         req' = [req EXCEPT ![w] = req'[w]]
  PROVE  /\ wantBar' = [wantBar EXCEPT ![w] = Wanted(req'[w])]
         /\ doneBar' = [doneBar EXCEPT ![w] = DoneBy(Past(w)', req'[w])]
<1>1. \A v \in Workers \ {w} : pc'[v] = pc[v] /\ call'[v] = call[v] /\ req'[v] = req[v]
  BY DEF TypeOK
<1>2. \A v \in Workers \ {w} : Past(v)' <=> Past(v)
  BY <1>1 DEF Past
<1>3. wantBar' = [wantBar EXCEPT ![w] = Wanted(req'[w])]
  BY <1>1 DEF wantBar, Wanted
<1>4. doneBar' = [doneBar EXCEPT ![w] = DoneBy(Past(w)', req'[w])]
  BY <1>1, <1>2 DEF doneBar, DoneBy
<1> QED
  BY <1>3, <1>4

\* A worker that has not had its chance to change a table, and has it not in
\* this step either: nothing has happened.
LEMMA BoardStays ==
  ASSUME TypeOK, NEW w \in Workers,
         pc' = [pc EXCEPT ![w] = pc'[w]],
         call' = [call EXCEPT ![w] = call'[w]],
         req' = [req EXCEPT ![w] = req'[w]],
         Wanted(req'[w]) = Wanted(req[w]), ~Past(w), ~Past(w)',
         UNCHANGED <<tables, history>>
  PROVE  UNCHANGED Board!vars
<1>1. wantBar' = wantBar
  <2>1. wantBar' = [wantBar EXCEPT ![w] = wantBar[w]]
    BY BoardMoves, BoardFacts
  <2> QED
    BY <2>1 DEF wantBar
<1>2. doneBar' = doneBar
  <2>1. doneBar' = [doneBar EXCEPT ![w] = doneBar[w]]
    BY BoardMoves, BoardFacts DEF DoneBy
  <2> QED
    BY <2>1 DEF doneBar
<1> QED
  BY <1>1, <1>2 DEF Board!vars, Board!tables, Board!told, tables, history

\* The end of a statement: the request is still the same, and it is as the
\* result says.
LEMMA BoardLearns ==
  ASSUME IInv, NEW w \in Workers, pc[w] \in {"running", "inserting"},
         NEW r \in Request, Learns(w, r), Wanted(r) = Wanted(req[w])
  PROVE  /\ wantBar' = wantBar /\ wantBar[w] = Wanted(req[w])
         /\ doneBar[w] = "open"
         /\ call[w] \in {"signUp", "write", "delete"} =>
              doneBar' = [doneBar EXCEPT ![w] =
                            IF r.result = "success" THEN "success" ELSE "settled"]
         /\ call[w] \notin {"signUp", "write", "delete"} => doneBar' = doneBar
         /\ UNCHANGED history
<1>1. TypeOK
  BY DEF IInv, Control
<1>2. /\ req' = [req EXCEPT ![w] = r] /\ pc' = [pc EXCEPT ![w] = "returning"]
      /\ call' = call /\ UNCHANGED history
  BY DEF Learns, GoTo
<1>3. /\ req'[w] = r /\ req' = [req EXCEPT ![w] = req'[w]]
      /\ pc'[w] = "returning" /\ pc' = [pc EXCEPT ![w] = pc'[w]]
      /\ call'[w] = call[w] /\ call' = [call EXCEPT ![w] = call'[w]]
  BY <1>1, <1>2 DEF TypeOK
<1>4. ~Past(w) /\ (Past(w)' <=> call[w] \in {"signUp", "write", "delete"})
  BY <1>3 DEF Past
<1>5. /\ wantBar' = [wantBar EXCEPT ![w] = Wanted(r)] /\ wantBar[w] = Wanted(req[w])
      /\ doneBar' = [doneBar EXCEPT ![w] = DoneBy(Past(w)', r)]
  BY <1>1, <1>3, BoardMoves, BoardFacts
<1>6. doneBar[w] = "open"
  BY <1>4, BoardFacts DEF DoneBy
<1>7. wantBar' = wantBar
  BY <1>5 DEF wantBar
<1>8. call[w] \notin {"signUp", "write", "delete"} => doneBar' = doneBar
  BY <1>4, <1>5, <1>6 DEF DoneBy, doneBar
<1> QED
  BY <1>2, <1>4, <1>5, <1>6, <1>7, <1>8 DEF DoneBy

\* The board's own definitions, which are those of the services.
LEMMA BoardNothing ==
  /\ Board!PostIds = PostIds
  /\ Wanted(NoRequest) = Board!Nothing
  /\ \A r : r.op # "none" => Wanted(r) # Board!Nothing
<1>1. Board!PostIds = PostIds
  BY DEF Board!PostIds, PostIds
<1>2. Wanted(NoRequest) = Board!Nothing
  BY DEF Wanted, NoRequest, RequestFor, Board!Nothing
<1>3. ASSUME NEW r, r.op # "none"
      PROVE  Wanted(r) # Board!Nothing
  <2>1. Wanted(r).op = r.op /\ Board!Nothing.op = "none"
    BY DEF Wanted, Board!Nothing
  <2> QED
    BY <1>3, <2>1
<1> QED
  BY <1>1, <1>2, <1>3

LEMMA ArriveOnBoard ==
  ASSUME IInv, NEW w \in Workers, Arrive(w)
  PROVE  Board!Ask(w)
<1>1. TypeOK /\ Placed(w)
  BY DEF IInv, Control
<1>2. PICK op \in {"signUp", "users", "write", "list", "read", "delete"},
           n \in Names \union {NONE}, p \in PostIds :
        /\ Requested(op, n, p)
        /\ req' = [req EXCEPT ![w] = RequestFor(op, n, p)]
        /\ call' = [call EXCEPT ![w] = IF op = "delete" THEN "read" ELSE op]
        /\ pc' = [pc EXCEPT ![w] = "waiting"]
  BY DEF Arrive, Begin, GoTo
<1>3. pc[w] = "idle" /\ UNCHANGED <<tables, history>>
  BY DEF Arrive
<1>4. PICK r \in Board!Requests : r = Wanted(RequestFor(op, n, p))
                                   /\ r.op = op /\ r.user = n
  <2>1. Wanted(RequestFor(op, n, p)) = [op |-> op, user |-> n, id |-> p]
    BY DEF Wanted, RequestFor
  <2>2. [op |-> op, user |-> n, id |-> p] \in Board!Requests
    BY BoardNothing DEF Board!Requests
  <2> QED
    BY <2>1, <2>2
<1>5. wantBar' = [wantBar EXCEPT ![w] = r] /\ doneBar' = doneBar
  <2>1. ~Past(w) /\ ~Past(w)'
    BY <1>1, <1>2, <1>3 DEF Past, TypeOK
  <2>2. /\ wantBar' = [wantBar EXCEPT ![w] = Wanted(req'[w])]
        /\ doneBar' = [doneBar EXCEPT ![w] = DoneBy(Past(w)', req'[w])]
        /\ req'[w] = RequestFor(op, n, p)
    BY <1>1, <1>2, BoardMoves DEF TypeOK
  <2>3. doneBar[w] = "open" /\ DoneBy(Past(w)', req'[w]) = "open"
    BY <2>1, BoardFacts DEF DoneBy
  <2> QED
    BY <1>4, <2>2, <2>3 DEF doneBar
<1>6. wantBar[w] = Board!Nothing
  BY <1>1, <1>3, BoardFacts, BoardNothing DEF Placed
<1>7. (op = "signUp" => n \in Names) /\ (op \in {"write", "delete"} => n \in users)
  BY <1>2 DEF Requested
<1> QED
  BY <1>3, <1>4, <1>5, <1>6, <1>7 DEF Board!Ask, Board!tables, Board!told, tables, history

\* A statement that changes nothing, whether its answer is an error or that
\* there was nothing to change, settles the matter.
LEMMA SettledOnBoard ==
  ASSUME IInv, NEW w \in Workers, pc[w] \in {"running", "inserting"},
         call[w] \in {"signUp", "write", "delete"},
         NEW r \in Request, Learns(w, r), Wanted(r) = Wanted(req[w]), r.result = "fail",
         UNCHANGED tables
  PROVE  Board!Settle(w)
<1>1. Wanted(req[w]) # Board!Nothing
  BY BoardNothing DEF IInv, Control, Placed
<1>2. /\ wantBar' = wantBar /\ wantBar[w] = Wanted(req[w])
      /\ doneBar[w] = "open" /\ doneBar' = [doneBar EXCEPT ![w] = "settled"]
      /\ UNCHANGED history
  BY BoardLearns
<1> QED
  BY <1>1, <1>2 DEF Board!Settle, Board!tables, Board!told, tables, history

\* One that reads is no step of the board's.
LEMMA ReadOnBoard ==
  ASSUME IInv, NEW w \in Workers, pc[w] \in {"running", "inserting"},
         call[w] \notin {"signUp", "write", "delete"},
         NEW r \in Request, Learns(w, r), Wanted(r) = Wanted(req[w]),
         UNCHANGED tables
  PROVE  UNCHANGED Board!vars
<1>1. wantBar' = wantBar /\ doneBar' = doneBar /\ UNCHANGED history
  BY BoardLearns
<1> QED
  BY <1>1 DEF Board!vars, Board!tables, Board!told, tables, history

\* What a statement returns does not change what is wanted.
LEMMA SameWanted ==
  \A q, r : r.op = q.op /\ r.user = q.user /\ r.id = q.id => Wanted(r) = Wanted(q)
BY DEF Wanted

\* The alternatives of a statement that changes a table: carried out, and the
\* result is what it says or has remained a failure; or not carried out.
LEMMA StatementFacts ==
  ASSUME IInv, NEW w \in Workers, pc[w] \in {"running", "inserting"},
         NEW change \in BOOLEAN, NEW good \in BOOLEAN, Statement(w, change, good)
  PROVE  \E r \in Request :
           /\ Learns(w, r) /\ Wanted(r) = Wanted(req[w])
           /\ \/ change /\ (good \/ r.result = "fail")
              \/ UNCHANGED tables /\ r.result = "fail"
<1>1. req[w] \in Request /\ req[w].result = "fail"
  BY AtStatement
<1>2. CASE (change \/ UNCHANGED tables) /\ Learns(w, req[w])
  BY <1>1, <1>2
<1>3. CASE change /\ Learns(w, [req[w] EXCEPT !.result = IF good THEN "success" ELSE "fail"])
  <2>1. PICK a \in {"success", "fail"} : a = IF good THEN "success" ELSE "fail"
    OBVIOUS
  <2>2. PICK r \in Request :
          /\ r = [req[w] EXCEPT !.result = a]
          /\ r.op = req[w].op /\ r.user = req[w].user /\ r.id = req[w].id
          /\ r.role = req[w].role /\ r.result = a
    BY <1>1, LearningFacts
  <2>3. Learns(w, r) /\ Wanted(r) = Wanted(req[w])
    BY <1>3, <2>1, <2>2, SameWanted
  <2> QED
    BY <1>3, <2>1, <2>2, <2>3
<1> QED
  BY <1>2, <1>3 DEF Statement

\* A request that changes a table does so as one step of the board's.
LEMMA MadeOnBoard ==
  ASSUME IInv, NEW w \in Workers, pc[w] \in {"running", "inserting"},
         call[w] \in {"signUp", "write", "delete"},
         NEW r \in Request, Learns(w, r), Wanted(r) = Wanted(req[w])
  PROVE  /\ Board!Open(w, call[w]) /\ wantBar[w].user = req[w].user /\ wantBar[w].id = req[w].id
         /\ Board!Made(w) /\ wantBar' = wantBar /\ UNCHANGED Board!told
<1>1. /\ wantBar' = wantBar /\ wantBar[w] = Wanted(req[w])
      /\ doneBar[w] = "open" /\ UNCHANGED history
      /\ doneBar' = [doneBar EXCEPT ![w] = IF r.result = "success" THEN "success" ELSE "settled"]
  BY BoardLearns
<1>2. req[w].op = call[w]
  BY AtStatement
<1> QED
  BY <1>1, <1>2, BoardFacts DEF Board!Open, Board!Made, Board!told, history

LEMMA InsertUserOnBoard ==
  ASSUME IInv, NEW w \in Workers, InsertUser(w)
  PROVE  Board!SignUp(w) \/ Board!Settle(w)
<1>1. pc[w] = "inserting" /\ call[w] = "signUp"
  BY DEF InsertUser, IInv, Control, Placed
<1>2. PICK free \in BOOLEAN, added \in BOOLEAN :
        free = (req[w].user \notin users) /\ added = UserAdded(w)
  BY DEF UserAdded
<1>3. PICK r \in Request :
        /\ Learns(w, r) /\ Wanted(r) = Wanted(req[w])
        /\ \/ UserAdded(w) /\ (free \/ r.result = "fail")
           \/ UNCHANGED tables /\ r.result = "fail"
  <2>1. Statement(w, added, free)
    BY <1>2 DEF InsertUser
  <2> QED
    BY <1>1, <1>2, <2>1, StatementFacts
<1>4. CASE UserAdded(w) /\ free
  <2>1. /\ req[w].user \notin users /\ users' = users \union {req[w].user}
        /\ UNCHANGED <<posts, written>>
    BY <1>2, <1>4 DEF UserAdded
  <2> QED
    BY <1>1, <1>3, <2>1, MadeOnBoard DEF Board!SignUp
<1>5. CASE UserAdded(w) /\ ~free /\ r.result = "fail"
  <2>1. UNCHANGED tables
    BY <1>2, <1>5 DEF UserAdded, tables
  <2> QED
    BY <1>1, <1>3, <1>5, <2>1, SettledOnBoard
<1>6. CASE UNCHANGED tables /\ r.result = "fail"
  BY <1>1, <1>3, <1>6, SettledOnBoard
<1> QED
  BY <1>3, <1>4, <1>5, <1>6

LEMMA WritePostOnBoard ==
  ASSUME IInv, NEW w \in Workers, writePost(w)
  PROVE  Board!Write(w) \/ Board!Settle(w)
<1>1. pc[w] = "running" /\ call[w] = "write"
  BY DEF writePost
<1>2. PICK r \in Request :
        /\ Learns(w, r) /\ Wanted(r) = Wanted(req[w])
        /\ \/ RowWritten(w)
           \/ UNCHANGED tables /\ r.result = "fail"
  <2>1. PICK added \in BOOLEAN : added = RowWritten(w)
    BY DEF RowWritten
  <2>2. Statement(w, added, TRUE)
    BY <2>1 DEF writePost
  <2> QED
    BY <1>1, <2>1, <2>2, StatementFacts
<1>3. CASE RowWritten(w)
  BY <1>1, <1>2, <1>3, MadeOnBoard DEF RowWritten, Board!Write
<1>4. CASE UNCHANGED tables /\ r.result = "fail"
  BY <1>1, <1>2, <1>4, SettledOnBoard
<1> QED
  BY <1>2, <1>3, <1>4

\* Here the right to delete is checked against the post as it is now; what the
\* earlier calls of the request have found out is no part of it.
LEMMA DeletePostOnBoard ==
  ASSUME IInv, NEW w \in Workers, deletePost(w)
  PROVE  Board!Delete(w) \/ Board!Settle(w)
<1>1. pc[w] = "running" /\ call[w] = "delete"
  BY DEF deletePost
<1>2. PICK mine \in BOOLEAN, gone \in BOOLEAN :
        mine = Deletable(w) /\ gone = RowDeleted(w)
  BY DEF Deletable, RowDeleted
<1>3. PICK r \in Request :
        /\ Learns(w, r) /\ Wanted(r) = Wanted(req[w])
        /\ \/ RowDeleted(w) /\ (mine \/ r.result = "fail")
           \/ UNCHANGED tables /\ r.result = "fail"
  <2>1. Statement(w, gone, mine)
    BY <1>2 DEF deletePost
  <2> QED
    BY <1>1, <1>2, <2>1, StatementFacts
<1>4. CASE RowDeleted(w) /\ mine
  <2>1. /\ posts[req[w].id] # NONE
        /\ req[w].user \in Admins \union {posts[req[w].id]}
        /\ posts' = [posts EXCEPT ![req[w].id] = NONE]
        /\ UNCHANGED <<users, written>>
    BY <1>1, <1>2, <1>4, AtStatement DEF Deletable, RowDeleted
  <2> QED
    BY <1>1, <1>3, <2>1, MadeOnBoard DEF Board!Delete
<1>5. CASE RowDeleted(w) /\ ~mine /\ r.result = "fail"
  <2>1. UNCHANGED tables
    BY <1>2, <1>5 DEF RowDeleted, tables
  <2> QED
    BY <1>1, <1>3, <1>5, <2>1, SettledOnBoard
<1>6. CASE UNCHANGED tables /\ r.result = "fail"
  BY <1>1, <1>3, <1>6, SettledOnBoard
<1> QED
  BY <1>3, <1>4, <1>5, <1>6

\* The answer of a request, and what is told with it.
LEMMA ReplyOnBoard ==
  ASSUME IInv, NEW w \in Workers, pc[w] # "idle", Reply(w), UNCHANGED tables,
         Past(w) => call[w] = "delete" \/ req[w].op # "delete",
         deletions' = [deletions EXCEPT ![req[w].id] =
                         IF call[w] = "delete" /\ req[w].result = "success" THEN @ + 1 ELSE @],
         signUps' = [n \in Names |->
                       IF call[w] = "signUp" /\ req[w].result = "success" /\ n = req[w].user
                       THEN signUps[n] + 1 ELSE signUps[n]]
  PROVE  Board!Answer(w)
<1>1. TypeOK /\ Placed(w)
  BY DEF IInv, Control
<1>2. /\ pc' = [pc EXCEPT ![w] = "idle"] /\ pc'[w] = "idle"
      /\ call' = [call EXCEPT ![w] = call'[w]]
      /\ req' = [req EXCEPT ![w] = NoRequest] /\ req'[w] = NoRequest
  BY <1>1 DEF Reply, GoTo, TypeOK
<1>3. /\ wantBar' = [wantBar EXCEPT ![w] = Board!Nothing]
      /\ doneBar' = [doneBar EXCEPT ![w] = "open"]
  <2>1. ~Past(w)'
    BY <1>2 DEF Past
  <2> QED
    BY <1>1, <1>2, <2>1, BoardMoves, BoardNothing DEF DoneBy
<1>4. wantBar[w] # Board!Nothing
  BY <1>1, BoardFacts, BoardNothing DEF Placed
<1>5. /\ Board!Told(w, "delete") =
           IF call[w] = "delete" /\ req[w].result = "success" THEN 1 ELSE 0
      /\ Board!Told(w, "signUp") =
           IF call[w] = "signUp" /\ req[w].result = "success" THEN 1 ELSE 0
  <2>1. doneBar[w] = "success" <=> req[w].result = "success"
    BY <1>1, BoardFacts DEF DoneBy, Placed
  <2>2. wantBar[w].op = req[w].op
    BY BoardFacts
  <2>3. req[w].result = "success" =>
          /\ call[w] = "delete" <=> req[w].op = "delete"
          /\ call[w] = "signUp" <=> req[w].op = "signUp"
    BY <1>1 DEF Placed, Past
  <2> QED
    BY <2>1, <2>2, <2>3 DEF Board!Told
<1>6. deletions' = [deletions EXCEPT ![wantBar[w].id] = @ + Board!Told(w, "delete")]
  <2>1. wantBar[w].id = req[w].id /\ req[w].id \in PostIds /\ deletions[req[w].id] \in Nat
    BY <1>1, BoardFacts DEF TypeOK, Request
  <2>2. deletions[req[w].id] + Board!Told(w, "delete") =
          IF call[w] = "delete" /\ req[w].result = "success"
          THEN deletions[req[w].id] + 1 ELSE deletions[req[w].id]
    BY <1>5, <2>1
  <2> QED
    BY <2>1, <2>2
<1>7. signUps' = [n \in Names |->
        signUps[n] + IF n = wantBar[w].user THEN Board!Told(w, "signUp") ELSE 0]
  <2>1. wantBar[w].user = req[w].user /\ \A n \in Names : signUps[n] \in Nat
    BY <1>1, BoardFacts DEF TypeOK
  <2> QED
    BY <1>5, <2>1
<1> QED
  BY <1>3, <1>4, <1>6, <1>7 DEF Board!Answer, Board!tables, tables

LEMMA ContinueOnBoard ==
  ASSUME IInv, NEW w \in Workers, pc[w] # "idle", Continue(w), UNCHANGED tables
  PROVE  Board!Answer(w) \/ UNCHANGED Board!vars
<1>1. Control /\ TypeOK /\ Placed(w)
  BY DEF IInv, Control
<1>2. CASE req[w].op = "delete" /\ NextCall(w) # "none"
  <2>1. /\ UNCHANGED <<req, history>>
        /\ call' = [call EXCEPT ![w] = NextCall(w)]
        /\ pc' = [pc EXCEPT ![w] = "waiting"]
    BY <1>2 DEF Continue, Begin, GoTo
  <2>2. call[w] \in {"read", "role"}
    BY <1>2 DEF NextCall
  <2>3. ~Past(w) /\ ~Past(w)'
    BY <1>1, <2>1, <2>2 DEF Past, TypeOK
  <2> QED
    BY <1>1, <2>1, <2>3, BoardStays DEF TypeOK
<1>3. CASE ~(req[w].op = "delete" /\ NextCall(w) # "none")
  <2>1. Past(w) => call[w] = "delete" \/ req[w].op # "delete"
    BY <1>1 DEF Past, Placed
  <2> QED
    BY <1>3, <2>1, ReplyOnBoard DEF Continue
<1> QED
  BY <1>2, <1>3

\* The statements that read leave the worker with what it asked for and, of
\* what they may return, something of the right type.
LEMMA LearntFacts ==
  ASSUME IInv, NEW w \in Workers,
         ReadUsers(w) \/ getUserRole(w) \/ getAllPosts(w) \/ getPostById(w)
  PROVE  \E r \in Request :
           Learns(w, r) /\ r.op = req[w].op /\ r.user = req[w].user /\ r.id = req[w].id
<1>0. pc[w] = "running"
  BY DEF ReadUsers, getUserRole, getAllPosts, getPostById
<1>1. req[w] \in Request /\ posts \in [PostIds -> Names \union {NONE}]
      /\ req[w].id \in PostIds
  BY <1>0, AtStatement DEF TypeOK
<1>2. CASE ReadUsers(w)
  BY <1>1, <1>2 DEF ReadUsers
<1>3. CASE getUserRole(w)
  <2>1. PICK role \in {"ADMIN", "USER"} : Learns(w, [req[w] EXCEPT !.role = role])
    BY <1>3 DEF getUserRole
  <2>2. PICK r \in Request :
          /\ r = [req[w] EXCEPT !.role = role]
          /\ r.op = req[w].op /\ r.user = req[w].user /\ r.id = req[w].id
          /\ r.role = role /\ r.result = req[w].result
    BY <1>1, LearningFacts
  <2> QED
    BY <2>1, <2>2
<1>4. CASE getAllPosts(w)
  <2>1. PICK shown \in (SUBSET PostIds) \union {NONE} :
          Learns(w, [req[w] EXCEPT !.shown = shown])
    BY <1>4 DEF getAllPosts, Listed
  <2>2. PICK r \in Request :
          /\ r = [req[w] EXCEPT !.shown = shown]
          /\ r.op = req[w].op /\ r.user = req[w].user /\ r.id = req[w].id
          /\ r.role = req[w].role /\ r.result = req[w].result
    BY <1>1, LearningFacts
  <2> QED
    BY <2>1, <2>2
<1>5. CASE getPostById(w)
  <2>1. PICK author \in Names \union {NONE} : Learns(w, [req[w] EXCEPT !.author = author])
    BY <1>1, <1>5 DEF getPostById
  <2>2. PICK r \in Request :
          /\ r = [req[w] EXCEPT !.author = author]
          /\ r.op = req[w].op /\ r.user = req[w].user /\ r.id = req[w].id
          /\ r.role = req[w].role /\ r.result = req[w].result
    BY <1>1, LearningFacts
  <2> QED
    BY <2>1, <2>2
<1> QED
  BY <1>2, <1>3, <1>4, <1>5

\* Every step of the services is a step of the board, or none.
LEMMA StepsOnBoard ==
  IInv /\ [Next]_vars => [Board!Next]_(Board!vars)
<1> SUFFICES ASSUME IInv, [Next]_vars
             PROVE  [Board!Next]_(Board!vars)
  OBVIOUS
<1>1. Control /\ TypeOK
  BY DEF IInv, Control
<1>2. CASE UNCHANGED vars \/ Heal
  <2>1. UNCHANGED <<pc, call, req, tables, history>>
    BY <1>2 DEF Heal, vars
  <2>2. wantBar' = wantBar /\ doneBar' = doneBar
    BY <2>1 DEF wantBar, doneBar, Past
  <2> QED
    BY <2>1, <2>2 DEF Board!vars, Board!tables, Board!told, tables, history
<1>3. ASSUME NEW w \in Workers, Lock(w) \/ Borrow(w)
      PROVE  UNCHANGED Board!vars
  <2>1. /\ pc[w] \in {"waiting", "connecting"} /\ UNCHANGED <<tables, call, req, history>>
        /\ \E stage \in {"connecting", "running"} : pc' = [pc EXCEPT ![w] = stage]
    BY <1>3 DEF Lock, Borrow, GoTo
  <2>2. ~Past(w) /\ ~Past(w)'
    BY <1>1, <2>1 DEF Past, TypeOK
  <2> QED
    BY <1>1, <2>1, <2>2, BoardStays DEF TypeOK
<1>4. ASSUME NEW w \in Workers, Refused(w) \/ Return(w)
      PROVE  Board!Answer(w) \/ UNCHANGED Board!vars
  <2>1. pc[w] # "idle" /\ Continue(w) /\ UNCHANGED tables
    BY <1>4 DEF Refused, Return, NoConnection, tables
  <2> QED
    BY <2>1, ContinueOnBoard
<1>5. ASSUME NEW w \in Workers, HashThrows(w)
      PROVE  Board!Answer(w)
  <2>1. pc[w] = "inserting" /\ Reply(w) /\ UNCHANGED <<tables, history>>
    BY <1>5 DEF HashThrows, tables
  <2>2. req[w].result = "fail" /\ req[w].id \in PostIds /\ ~Past(w)
    BY <2>1, AtStatement DEF Past
  <2>3. /\ deletions' = [deletions EXCEPT ![req[w].id] =
             IF call[w] = "delete" /\ req[w].result = "success" THEN @ + 1 ELSE @]
        /\ signUps' = [n \in Names |->
             IF call[w] = "signUp" /\ req[w].result = "success" /\ n = req[w].user
             THEN signUps[n] + 1 ELSE signUps[n]]
    BY <1>1, <2>1, <2>2 DEF history, TypeOK
  <2> QED
    BY <2>1, <2>2, <2>3, ReplyOnBoard
<1>6. ASSUME NEW w \in Workers, CheckUser(w)
      PROVE  Board!Settle(w) \/ UNCHANGED Board!vars
  <2>1. pc[w] = "running" /\ call[w] = "signUp" /\ UNCHANGED tables
    BY <1>6 DEF CheckUser
  <2>2. CASE Learns(w, req[w])
    BY <2>1, <2>2, AtStatement, SettledOnBoard
  <2>3. CASE /\ pc' = [pc EXCEPT ![w] = "inserting"]
             /\ UNCHANGED <<mutex, pool, call, req, history>>
    <3>1. ~Past(w) /\ ~Past(w)'
      BY <1>1, <2>1, <2>3 DEF Past, TypeOK
    <3> QED
      BY <1>1, <2>1, <2>3, <3>1, BoardStays DEF TypeOK
  <2> QED
    BY <1>6, <2>2, <2>3 DEF CheckUser, GoTo
<1>7. ASSUME NEW w \in Workers,
             ReadUsers(w) \/ getUserRole(w) \/ getAllPosts(w) \/ getPostById(w)
      PROVE  UNCHANGED Board!vars
  <2>1. /\ pc[w] = "running" /\ call[w] \notin {"signUp", "write", "delete"}
        /\ UNCHANGED tables
    BY <1>7 DEF ReadUsers, getUserRole, getAllPosts, getPostById
  <2>2. PICK r \in Request : Learns(w, r) /\ Wanted(r) = Wanted(req[w])
    BY <1>7, LearntFacts, SameWanted
  <2> QED
    BY <2>1, <2>2, ReadOnBoard
<1>8. ASSUME NEW w \in Workers, Arrive(w) \/ Step(w)
      PROVE  [Board!Next]_(Board!vars)
  BY <1>3, <1>4, <1>5, <1>6, <1>7, <1>8, ArriveOnBoard, InsertUserOnBoard,
     WritePostOnBoard, DeletePostOnBoard
     DEF Step, Board!Next
<1> QED
  BY <1>2, <1>8 DEF Next

\* Requests change the tables one at a time, each at one moment, once, by right
\* and as a whole, and who is told of a success has made the change: for any
\* number of workers, users and posts, and whatever trouble the calls meet.
THEOREM BoardRefinement == Spec => ImplementsBoard
<1>1. Init => Board!Init
  <2> SUFFICES ASSUME Init
               PROVE  Board!Init
    OBVIOUS
  <2>1. wantBar = [w \in Workers |-> Board!Nothing]
    BY BoardNothing DEF Init, wantBar, Wanted
  <2>2. doneBar = [w \in Workers |-> "open"]
    BY DEF Init, doneBar, Past
  <2> QED
    BY <2>1, <2>2, BoardNothing DEF Init, Board!Init
<1> QED
  BY <1>1, StepsOnBoard, Invariant, PTL DEF Spec, Board!Spec, ImplementsBoard

\* Deletions and names are told once and truly.
THEOREM ToldTrulyHolds == Spec => []ToldTruly
BY DeletedOnceHolds, SignedUpOnceHolds, PTL DEF ToldTruly

-----------------------------------------------------------------------------
(* What the answer of every request rests on: a request is a bounded number  *)
(* of steps, and as long as there is one somebody can take a step.           *)

CallsLeft(w) ==
  IF req[w].op # "delete" THEN 0
  ELSE IF call[w] = "read" THEN 2 ELSE IF call[w] = "role" THEN 1 ELSE 0

StagesLeft(stage) ==
  CASE stage = "waiting" -> 5 [] stage = "connecting" -> 4 [] stage = "running" -> 3
    [] stage = "inserting" -> 2 [] stage = "returning" -> 1

\* At most so many steps has a worker to take before it is idle.
StepsLeft(w) == IF pc[w] = "idle" THEN 0 ELSE 5 * CallsLeft(w) + StagesLeft(pc[w])

LEMMA StageFacts ==
  /\ StagesLeft("waiting") = 5 /\ StagesLeft("connecting") = 4
  /\ StagesLeft("running") = 3 /\ StagesLeft("inserting") = 2
  /\ StagesLeft("returning") = 1
BY DEF StagesLeft

\* A call goes through its stages in one direction, and the next call of a
\* request is a later one.
LEMMA OwnStepsLeft ==
  ASSUME IInv, NEW w \in Workers, Step(w)
  PROVE  StepsLeft(w)' < StepsLeft(w)
<1>1. TypeOK /\ Control
  BY DEF IInv, Control
<1>2. CallsLeft(w) \in {0, 1, 2}
  BY DEF CallsLeft
<1>3. ASSUME pc[w] # "idle", Continue(w)
      PROVE  StepsLeft(w)' < StepsLeft(w)
  <2>1. StagesLeft(pc[w]) \in 1 .. 5
    BY <1>1, <1>3, StageFacts DEF TypeOK
  <2>2. CASE pc'[w] = "idle"
    BY <1>2, <1>3, <2>1, <2>2 DEF StepsLeft
  <2>3. CASE pc'[w] # "idle"
    <3>1. /\ req[w].op = "delete" /\ NextCall(w) # "none"
          /\ req' = req /\ call' = [call EXCEPT ![w] = NextCall(w)]
          /\ pc' = [pc EXCEPT ![w] = "waiting"]
      BY <1>1, <1>3, <2>3 DEF Continue, Begin, Reply, GoTo, TypeOK
    <3>2. \/ call[w] = "read" /\ call'[w] = "role"
          \/ call[w] = "role" /\ call'[w] = "delete"
      BY <1>1, <3>1 DEF NextCall, TypeOK
    <3>3. CallsLeft(w)' = CallsLeft(w) - 1
      BY <3>1, <3>2 DEF CallsLeft
    <3>4. pc'[w] = "waiting" /\ StagesLeft(pc'[w]) = 5
      BY <1>1, <3>1, StageFacts DEF TypeOK
    <3> QED
      BY <1>2, <1>3, <2>1, <3>3, <3>4 DEF StepsLeft
  <2> QED
    BY <2>2, <2>3
<1>4. ASSUME NEW to \in {"connecting", "running", "inserting", "returning"},
             pc' = [pc EXCEPT ![w] = to], pc[w] # "idle",
             StagesLeft(to) < StagesLeft(pc[w]), CallsLeft(w)' = CallsLeft(w)
      PROVE  StepsLeft(w)' < StepsLeft(w)
  <2>1. pc'[w] = to
    BY <1>1, <1>4 DEF TypeOK
  <2>2. StagesLeft(to) \in 1 .. 5 /\ StagesLeft(pc[w]) \in 1 .. 5
    BY <1>1, <1>4, StageFacts DEF TypeOK
  <2> QED
    BY <1>2, <1>4, <2>1, <2>2 DEF StepsLeft
<1>5. CASE Lock(w) \/ Borrow(w)
  <2>1. CallsLeft(w)' = CallsLeft(w)
    BY <1>5 DEF Lock, Borrow, CallsLeft
  <2> QED
    BY <1>4, <1>5, <2>1, StageFacts DEF Lock, Borrow, GoTo
<1>6. CASE Refused(w) \/ Return(w)
  BY <1>3, <1>6 DEF Refused, Return, NoConnection
<1>7. CASE HashThrows(w)
  <2>1. pc[w] = "inserting" /\ pc'[w] = "idle"
    BY <1>1, <1>7 DEF HashThrows, Reply, GoTo, TypeOK
  <2> QED
    BY <1>2, <2>1, StageFacts DEF StepsLeft
<1>8. ASSUME NEW r, Learns(w, r), r.op = req[w].op, pc[w] \in {"running", "inserting"}
      PROVE  StepsLeft(w)' < StepsLeft(w)
  <2>1. CallsLeft(w)' = CallsLeft(w)
    BY <1>1, <1>8 DEF Learns, CallsLeft, TypeOK
  <2> QED
    BY <1>4, <1>8, <2>1, StageFacts DEF Learns, GoTo
<1>9. CASE ReadUsers(w)
  BY <1>8, <1>9 DEF ReadUsers
<1>10. CASE CheckUser(w)
  <2>1. CASE pc' = [pc EXCEPT ![w] = "inserting"] /\ UNCHANGED <<call, req>>
    <3>1. CallsLeft(w)' = CallsLeft(w)
      BY <2>1 DEF CallsLeft
    <3> QED
      BY <1>4, <1>10, <2>1, <3>1, StageFacts DEF CheckUser
  <2> QED
    BY <1>8, <1>10, <2>1 DEF CheckUser, GoTo
<1>11. CASE InsertUser(w) \/ writePost(w) \/ deletePost(w)
  <2>1. /\ pc[w] \in {"running", "inserting"}
        /\ \/ Learns(w, req[w])
           \/ \E a \in {"success", "fail"} : Learns(w, [req[w] EXCEPT !.result = a])
    BY <1>11 DEF InsertUser, writePost, deletePost, Statement
  <2>2. req[w] \in Request
    BY <1>1 DEF TypeOK
  <2>3. ASSUME NEW a \in {"success", "fail"}, Learns(w, [req[w] EXCEPT !.result = a])
        PROVE  StepsLeft(w)' < StepsLeft(w)
    <3>1. PICK r \in Request :
            /\ r = [req[w] EXCEPT !.result = a]
            /\ r.op = req[w].op /\ r.user = req[w].user /\ r.id = req[w].id
            /\ r.role = req[w].role /\ r.result = a
      BY <2>2, LearningFacts
    <3> QED
      BY <1>8, <2>1, <2>3, <3>1
  <2> QED
    BY <1>8, <2>1, <2>3
<1>12. CASE getUserRole(w) \/ getAllPosts(w) \/ getPostById(w)
  <2>1. pc[w] = "running" /\ UNCHANGED tables
    BY <1>12 DEF getUserRole, getAllPosts, getPostById
  <2>2. PICK r \in Request : Learns(w, r) /\ r.op = req[w].op
    BY <1>12, LearntFacts
  <2> QED
    BY <1>8, <2>1, <2>2
<1> QED
  BY <1>5, <1>6, <1>7, <1>9, <1>10, <1>11, <1>12 DEF Step

\* Nobody takes a step for another worker, or keeps it from its work.
LEMMA OthersStepsLeft ==
  ASSUME IInv, NEW w \in Workers, [Next]_vars, ~Step(w), ~Arrive(w)
  PROVE  StepsLeft(w)' = StepsLeft(w)
<1>1. TypeOK
  BY DEF IInv, Control
<1>2. CASE UNCHANGED vars \/ Heal
  BY <1>2 DEF vars, Heal, StepsLeft, CallsLeft
<1>3. ASSUME NEW v \in Workers, v # w, Arrive(v) \/ Step(v)
      PROVE  pc'[w] = pc[w] /\ call'[w] = call[w] /\ req'[w] = req[w]
  <2>1. \E stage : pc' = [pc EXCEPT ![v] = stage]
    BY <1>3
       DEF Arrive, Step, Lock, Borrow, Refused, Return, Continue, Begin, Reply, ReadUsers,
           CheckUser, InsertUser, HashThrows, getUserRole, writePost, getAllPosts, getPostById,
           deletePost, Statement, Learns, GoTo
  <2>2. call' = call \/ \E c : call' = [call EXCEPT ![v] = c]
    BY <1>3
       DEF Arrive, Step, Lock, Borrow, Refused, Return, Continue, Begin, Reply, ReadUsers,
           CheckUser, InsertUser, HashThrows, getUserRole, writePost, getAllPosts, getPostById,
           deletePost, Statement, Learns
  <2>3. req' = req \/ \E r : req' = [req EXCEPT ![v] = r]
    <3>1. CASE Arrive(v) \/ Lock(v) \/ Borrow(v) \/ Refused(v) \/ Return(v) \/ HashThrows(v)
      BY <3>1 DEF Arrive, Lock, Borrow, Refused, Return, HashThrows, Continue, Reply
    <3>2. ASSUME NEW r, Learns(v, r)
          PROVE  \E q : req' = [req EXCEPT ![v] = q]
      BY <3>2 DEF Learns
    <3>3. CASE ReadUsers(v) \/ getUserRole(v) \/ getAllPosts(v) \/ getPostById(v)
      BY <3>3, LearntFacts, <3>2
    <3>4. CASE CheckUser(v)
      BY <3>2, <3>4 DEF CheckUser
    <3>5. CASE InsertUser(v) \/ writePost(v) \/ deletePost(v)
      BY <3>2, <3>5 DEF InsertUser, writePost, deletePost, Statement
    <3> QED
      BY <1>3, <3>1, <3>3, <3>4, <3>5 DEF Step
  <2> QED
    BY <1>1, <1>3, <2>1, <2>2, <2>3 DEF TypeOK
<1> QED
  BY <1>2, <1>3 DEF Next, StepsLeft, CallsLeft

\* A request is at most 15 steps of its worker, whatever the database and the
\* other workers do: there is no retry, and no call is made twice.
BoundedWork ==
  [][\A w \in Workers : /\ Step(w) => StepsLeft(w)' < StepsLeft(w)
                        /\ StepsLeft(w)' # StepsLeft(w) => Step(w) \/ Arrive(w)]_vars

\* Every step that a worker takes brings it nearer to its answer, and nobody
\* else's takes it further away.
THEOREM BoundedWorkHolds == Spec => BoundedWork
<1>1. IInv /\ [Next]_vars =>
        [\A w \in Workers : /\ Step(w) => StepsLeft(w)' < StepsLeft(w)
                            /\ StepsLeft(w)' # StepsLeft(w) => Step(w) \/ Arrive(w)]_vars
  BY OwnStepsLeft, OthersStepsLeft
<1> QED
  BY <1>1, Invariant, PTL DEF Spec, BoundedWork

\* The count is a number, and runs out when the worker is idle.
THEOREM StepsAreFew ==
  Spec => [](\A w \in Workers : StepsLeft(w) \in 0 .. 15 /\ (StepsLeft(w) = 0 <=> pc[w] = "idle"))
<1>1. IInv => \A w \in Workers :
                StepsLeft(w) \in 0 .. 15 /\ (StepsLeft(w) = 0 <=> pc[w] = "idle")
  <2> SUFFICES ASSUME IInv, NEW w \in Workers
               PROVE  StepsLeft(w) \in 0 .. 15 /\ (StepsLeft(w) = 0 <=> pc[w] = "idle")
    OBVIOUS
  <2>1. CallsLeft(w) \in {0, 1, 2}
    BY DEF CallsLeft
  <2>2. pc[w] # "idle" => StagesLeft(pc[w]) \in 1 .. 5
    BY StageFacts DEF IInv, Control, TypeOK
  <2> QED
    BY <2>1, <2>2 DEF StepsLeft
<1> QED
  BY <1>1, Invariant, PTL

-----------------------------------------------------------------------------
(* Mutexes *)

InCall(w) == pc[w] \in Connected \union {"connecting"}

\* A mutex is held by a worker inside a function of its service: every way out
\* of a function, an exception and every error path included, gives it back.
Freed ==
  \A s \in {"auth", "board"} : mutex[s] # NONE =>
    mutex[s] \in Workers /\ InCall(mutex[s]) /\ ServiceOf(call[mutex[s]]) = s

\* A worker whose next step waits for nobody: inside a call it never waits
\* without a limit, and before one for the mutex alone.
Ready(w) == InCall(w) \/ (pc[w] = "waiting" /\ mutex[ServiceOf(call[w])] = NONE)

\* Nobody waits for ever: who has to wait, waits for a worker that has not.
NobodyStuck ==
  \A w \in Workers : pc[w] # "idle" =>
    \/ Ready(w)
    \/ LET holder == mutex[ServiceOf(call[w])] IN holder \in Workers /\ Ready(holder)

LEMMA FreedStep == IInv /\ Freed /\ [Next]_vars => Freed'
<1> SUFFICES ASSUME IInv, Freed, [Next]_vars
             PROVE  Freed'
  OBVIOUS
<1>1. TypeOK /\ Control
  BY DEF IInv, Control
<1>2. CASE UNCHANGED <<mutex, pc, call>>
  BY <1>2 DEF Freed, InCall
<1>3. ASSUME NEW w \in Workers, Unlock(w), InCall(w),
             \E stage : pc' = [pc EXCEPT ![w] = stage],
             \E c : call' = [call EXCEPT ![w] = c]
      PROVE  Freed'
  <2>1. /\ mutex[ServiceOf(call[w])] = w /\ ServiceOf(call[w]) \in {"auth", "board"}
        /\ mutex' = [mutex EXCEPT ![ServiceOf(call[w])] = NONE]
    BY <1>1, <1>3, ServiceFacts DEF Control, Placed, InCall, Unlock
  <2>2. ASSUME NEW v \in Workers, v # w
        PROVE  pc'[v] = pc[v] /\ call'[v] = call[v]
    BY <1>1, <1>3, <2>2 DEF TypeOK
  <2>3. ASSUME NEW s \in {"auth", "board"}, mutex'[s] # NONE
        PROVE  /\ mutex'[s] \in Workers /\ ServiceOf(call'[mutex'[s]]) = s
               /\ pc'[mutex'[s]] \in Connected \union {"connecting"}
    <3>1. mutex'[s] = mutex[s] /\ s # ServiceOf(call[w])
      BY <1>1, <2>1, <2>3 DEF TypeOK
    <3>2. mutex[s] \in Workers /\ InCall(mutex[s]) /\ ServiceOf(call[mutex[s]]) = s
      BY <2>3, <3>1 DEF Freed
    <3>3. PICK v \in Workers : v = mutex[s]
      BY <3>2
    <3>4. v # w
      BY <3>1, <3>2, <3>3
    <3> QED
      BY <2>2, <3>1, <3>2, <3>3, <3>4 DEF InCall
  <2> QED
    BY <2>3 DEF Freed, InCall
<1>4. ASSUME NEW w \in Workers, InCall(w), mutex' = mutex, call' = call,
             \E stage \in Connected : pc' = [pc EXCEPT ![w] = stage]
      PROVE  Freed'
  BY <1>1, <1>4 DEF Freed, InCall, TypeOK
<1>5. ASSUME NEW w \in Workers, Arrive(w)
      PROVE  Freed'
  <2>1. /\ pc[w] = "idle" /\ mutex' = mutex
        /\ pc' = [pc EXCEPT ![w] = "waiting"] /\ \E c : call' = [call EXCEPT ![w] = c]
    BY <1>5 DEF Arrive, Begin, GoTo
  <2>2. ~InCall(w)
    BY <2>1 DEF InCall, Connected
  <2> QED
    BY <1>1, <2>1, <2>2 DEF Freed, InCall, TypeOK
<1>6. ASSUME NEW w \in Workers, Lock(w)
      PROVE  Freed'
  <2>1. /\ pc[w] = "waiting" /\ mutex' = [mutex EXCEPT ![ServiceOf(call[w])] = w]
        /\ pc' = [pc EXCEPT ![w] = "connecting"] /\ call' = call
    BY <1>6 DEF Lock, GoTo
  <2>2. pc'[w] = "connecting" /\ \A v \in Workers \ {w} : pc'[v] = pc[v]
    BY <1>1, <2>1 DEF TypeOK
  <2>3. ~InCall(w) /\ InCall(w)' /\ \A v \in Workers \ {w} : InCall(v)' <=> InCall(v)
    BY <2>1, <2>2 DEF InCall, Connected
  <2> QED
    BY <1>1, <2>1, <2>3, ServiceFacts DEF Freed, TypeOK
<1>7. ASSUME NEW w \in Workers, Refused(w) \/ Return(w) \/ HashThrows(w)
      PROVE  Freed'
  <2>1. InCall(w) /\ Unlock(w)
    BY <1>7 DEF Refused, Return, HashThrows, NoConnection, InCall, Connected
  <2>2. (\E stage : pc' = [pc EXCEPT ![w] = stage]) /\ (\E c : call' = [call EXCEPT ![w] = c])
    BY <1>7 DEF Refused, Return, HashThrows, Continue, Begin, Reply, GoTo
  <2> QED
    BY <1>3, <2>1, <2>2
<1>8. ASSUME NEW w \in Workers,
             \/ Borrow(w) \/ ReadUsers(w) \/ CheckUser(w) \/ InsertUser(w) \/ getUserRole(w)
             \/ writePost(w) \/ getAllPosts(w) \/ getPostById(w) \/ deletePost(w)
      PROVE  Freed'
  <2>1. InCall(w) /\ mutex' = mutex /\ call' = call
    BY <1>8 DEF Borrow, ReadUsers, CheckUser, InsertUser, getUserRole, writePost, getAllPosts,
                getPostById, deletePost, Statement, Learns, InCall, Connected
  <2>2. \E stage \in Connected : pc' = [pc EXCEPT ![w] = stage]
    BY <1>8 DEF Borrow, ReadUsers, CheckUser, InsertUser, getUserRole, writePost, getAllPosts,
                getPostById, deletePost, Statement, Learns, GoTo, Connected
  <2> QED
    BY <1>4, <2>1, <2>2
<1> QED
  BY <1>2, <1>5, <1>6, <1>7, <1>8 DEF Next, Step, Heal, vars

\* There is no deadlock over the mutexes of the services, and no mutex is left
\* locked by a function that has ended.
THEOREM NobodyStuckHolds == Spec => []NobodyStuck
<1>1. Init => Freed
  BY DEF Init, Freed
<1>2. IInv /\ Freed => NobodyStuck
  <2> SUFFICES ASSUME IInv, Freed, NEW w \in Workers, pc[w] # "idle", ~Ready(w)
               PROVE  /\ mutex[ServiceOf(call[w])] \in Workers
                      /\ Ready(mutex[ServiceOf(call[w])])
    BY DEF NobodyStuck
  <2>1. pc[w] = "waiting"
    BY DEF IInv, Control, TypeOK, Ready, InCall, Connected
  <2>2. mutex[ServiceOf(call[w])] # NONE /\ ServiceOf(call[w]) \in {"auth", "board"}
    BY <2>1, ServiceFacts DEF Ready
  <2> QED
    BY <2>2 DEF Freed, Ready
<1> QED
  BY <1>1, <1>2, FreedStep, Invariant, PTL DEF Spec

=============================================================================

--------------------------- MODULE Requests_proofs ---------------------------
(***************************************************************************)
(* Proofs about Requests.tla, for any number of sessions, users and worker *)
(* threads.  The properties are about what one worker believes; they are   *)
(* inductive only together with how the table ages (Aged), and with what   *)
(* the progress of a worker says about its request (Sound).  Every         *)
(* operation on the table is shown to leave the beliefs of the workers     *)
(* that do not move intact (Grows), so that each action needs to be        *)
(* studied for the worker that takes it only.                              *)
(***************************************************************************)
EXTENDS Requests, SessionManager_proofs

\* The rest of a session's life and the time since its login make up its
\* lifetime; one that is no longer in the table is over.
Aged ==
  \A i \in Ids :
    /\ i \notin issued => spent[i] = 0
    /\ i \in issued /\ sessions[i] = NONE => spent[i] = GONE
    /\ sessions[i] # NONE => sessions[i].left = LIFETIME - spent[i]

Table ==
  /\ StoreTypeOK
  /\ spent \in [Ids -> 0 .. GONE]
  /\ Aged

\* What the place of a worker says about its request.
Sound(w) ==
  /\ req[w].id \in issued \union {NONE}
  /\ req[w].late => req[w].id \in issued /\ spent[req[w].id] = GONE
  /\ Admitted(w) => /\ req[w].id \in issued
                    /\ req[w].user \in Users
                    /\ ~req[w].late
  /\ pc[w] = "csrf" => req[w].route \in NeedsToken
  /\ pc[w] = "role" => req[w].route \in NeedsRole
  /\ pc[w] = "rejecting" /\ req[w].token = req[w].id => ~Valid(req[w].id)
  /\ pc[w] = "serving" =>
       /\ req[w].route \in NeedsToken => req[w].token = req[w].id
       /\ req[w].route = "users" => req[w].user \in Admins
  /\ pc[w] = "creating" => req[w].user \in Users

IInv ==
  /\ Table
  /\ pc \in [Workers -> Stages]
  /\ req \in [Workers -> Requested]
  /\ \A w \in Workers : Sound(w)

-----------------------------------------------------------------------------
(* The operations on the table *)

\* Nothing that was over is revived, and no id is taken back.
Grows ==
  /\ issued \subseteq issued'
  /\ \A i \in issued : spent[i] = GONE => spent'[i] = GONE
  /\ \A i \in issued : ~Valid(i) => ~Valid(i)'

\* No session but those of S ends.
KeepsAllBut(S) == \A i \in Ids \ S : Valid(i) => Valid(i)'

\* The table, its definitions expanded.
LEMMA TableFacts ==
  ASSUME Table, NEW i \in Ids
  PROVE  /\ i \notin issued => sessions[i] = NONE /\ spent[i] = 0
         /\ sessions[i] # NONE => /\ i \in issued
                                  /\ sessions[i].username \in Users
                                  /\ sessions[i].left \in -1 .. LIFETIME
                                  /\ sessions[i].left = LIFETIME - spent[i]
                                  /\ sessions[i] \in Session
         /\ i \in issued /\ sessions[i] = NONE => spent[i] = GONE
         /\ spent[i] \in 0 .. GONE
         /\ Valid(i) <=> sessions[i] # NONE /\ sessions[i].left >= 0
         /\ Valid(i) => spent[i] # GONE
<1>1. /\ sessions[i] # NONE => i \in issued /\ sessions[i] \in Session
      /\ spent[i] \in 0 .. GONE
      /\ Valid(i) <=> sessions[i] # NONE /\ sessions[i].left >= 0
  BY DEF Table, StoreTypeOK, Present, Valid
<1>2. /\ i \notin issued => spent[i] = 0
      /\ i \in issued /\ sessions[i] = NONE => spent[i] = GONE
      /\ sessions[i] # NONE => sessions[i].left = LIFETIME - spent[i]
  BY DEF Table, Aged
<1>3. sessions[i] # NONE => /\ sessions[i].username \in Users
                            /\ sessions[i].left \in -1 .. LIFETIME
  BY <1>1 DEF Session
<1>4. Valid(i) => spent[i] # GONE
  BY <1>1, <1>2, <1>3, LifetimeAssumption DEF GONE
<1> QED
  BY <1>1, <1>2, <1>3, <1>4

\* An operation that only erases what has expired cannot be noticed.
LEMMA ErasingIsSilent ==
  ASSUME Table, issued' = issued, spent' = spent,
         sessions' \in [Ids -> Session \union {NONE}],
         \A i \in Ids : sessions'[i] = sessions[i] \/ (sessions'[i] = NONE /\ ~Valid(i))
  PROVE  Table' /\ Grows /\ KeepsAllBut({})
<1>1. ASSUME NEW i \in Ids
      PROVE  /\ sessions'[i] # NONE => sessions'[i] = sessions[i]
             /\ sessions[i] # NONE /\ sessions'[i] = NONE => spent[i] = GONE
             /\ Valid(i)' <=> Valid(i)
  <2>1. CASE sessions'[i] = sessions[i]
    BY <2>1 DEF Valid, Present
  <2>2. CASE sessions'[i] = NONE /\ ~Valid(i)
    <3>1. ~Valid(i)'
      BY <2>2 DEF Valid, Present
    <3>2. sessions[i] # NONE => spent[i] = GONE
      BY <2>2, TableFacts, LifetimeAssumption DEF GONE
    <3> QED
      BY <2>2, <3>1, <3>2
  <2> QED
    BY <2>1, <2>2
<1>2. StoreTypeOK'
  <2>1. issued' \in SUBSET Ids
    BY DEF Table, StoreTypeOK
  <2>2. \A i \in Ids : sessions'[i] # NONE => i \in issued'
    BY <1>1, TableFacts
  <2> QED
    BY <2>1, <2>2 DEF StoreTypeOK, Present
<1>3. Aged'
  <2> SUFFICES ASSUME NEW i \in Ids
               PROVE  /\ i \notin issued => spent[i] = 0
                      /\ i \in issued /\ sessions'[i] = NONE => spent[i] = GONE
                      /\ sessions'[i] # NONE => sessions'[i].left = LIFETIME - spent[i]
    BY DEF Aged, GONE
  <2> QED
    BY <1>1, TableFacts
<1>4. Table'
  BY <1>2, <1>3 DEF Table, GONE
<1>5. issued \subseteq Ids
  BY DEF Table, StoreTypeOK
<1> QED
  BY <1>1, <1>4, <1>5 DEF Grows, KeepsAllBut

\* A lookup erases the session it finds expired.
LEMMA LookupStep ==
  ASSUME Table, NEW i, Lookup(i), spent' = spent
  PROVE  Table' /\ Grows /\ KeepsAllBut({})
<1>1. /\ issued' = issued
      /\ sessions' = IF Present(i) /\ ~Valid(i)
                     THEN [sessions EXCEPT ![i] = NONE] ELSE sessions
  BY DEF Lookup
<1>2. sessions \in [Ids -> Session \union {NONE}]
  BY DEF Table, StoreTypeOK
<1>3. sessions' \in [Ids -> Session \union {NONE}]
  BY <1>1, <1>2
<1>4. \A j \in Ids : sessions'[j] = sessions[j] \/ (sessions'[j] = NONE /\ ~Valid(j))
  BY <1>1, <1>2
<1> QED
  BY <1>1, <1>3, <1>4, ErasingIsSilent

\* So does the garbage collector, for all of them.
LEMMA CleanupStep ==
  ASSUME Table, cleanupExpiredSessions, spent' = spent
  PROVE  Table' /\ Grows /\ KeepsAllBut({})
<1>1. /\ issued' = issued
      /\ sessions' = [i \in Ids |-> IF Valid(i) THEN sessions[i] ELSE NONE]
  BY DEF cleanupExpiredSessions
<1>2. sessions \in [Ids -> Session \union {NONE}]
  BY DEF Table, StoreTypeOK
<1>3. sessions' \in [Ids -> Session \union {NONE}]
  BY <1>1, <1>2
<1>4. \A j \in Ids : sessions'[j] = sessions[j] \/ (sessions'[j] = NONE /\ ~Valid(j))
  BY <1>1
<1> QED
  BY <1>1, <1>3, <1>4, ErasingIsSilent

\* Steps of the workers that leave the table alone.
LEMMA IdleStep ==
  ASSUME Table, UNCHANGED <<sessions, issued, spent>>
  PROVE  Table' /\ Grows /\ KeepsAllBut({})
BY ErasingIsSilent DEF Table, StoreTypeOK

\* A session that is destroyed is over at once, and no other is.
LEMMA DestroyStep ==
  ASSUME Table, NEW i \in issued, destroySession(i),
         spent' = [spent EXCEPT ![i] = GONE]
  PROVE  Table' /\ Grows /\ KeepsAllBut({i})
<1>1. /\ issued' = issued
      /\ sessions' = [sessions EXCEPT ![i] = NONE]
      /\ issued \subseteq Ids
      /\ sessions \in [Ids -> Session \union {NONE}]
      /\ spent \in [Ids -> 0 .. GONE]
  BY DEF destroySession, Table, StoreTypeOK
<1>2. GONE \in 0 .. GONE
  BY LifetimeAssumption DEF GONE
<1>3. /\ sessions'[i] = NONE /\ spent'[i] = GONE /\ ~Valid(i)'
      /\ \A j \in Ids \ {i} : /\ sessions'[j] = sessions[j]
                              /\ spent'[j] = spent[j]
                              /\ Valid(j)' = Valid(j)
  BY <1>1 DEF Valid, Present
<1>4. Aged'
  <2> SUFFICES ASSUME NEW j \in Ids
               PROVE  /\ j \notin issued => spent'[j] = 0
                      /\ j \in issued /\ sessions'[j] = NONE => spent'[j] = GONE
                      /\ sessions'[j] # NONE => sessions'[j].left = LIFETIME - spent'[j]
    BY <1>1 DEF Aged, GONE
  <2>1. CASE j = i
    BY <2>1, <1>3
  <2>2. CASE j # i
    BY <2>2, <1>3, TableFacts
  <2> QED
    BY <2>1, <2>2
<1>5. StoreTypeOK'
  BY <1>1, <1>3, TableFacts DEF StoreTypeOK, Present
<1>6. Table'
  BY <1>1, <1>2, <1>4, <1>5 DEF Table, GONE
<1>7. Grows /\ KeepsAllBut({i})
  BY <1>1, <1>3 DEF Grows, KeepsAllBut
<1> QED
  BY <1>6, <1>7

\* A new session has an id that no request has ever carried.
LEMMA CreateStep ==
  ASSUME Table, NEW i \in Ids, NEW u \in Users, createSession(i, u), spent' = spent
  PROVE  Table' /\ Grows /\ KeepsAllBut({})
<1> DEFINE s == [username |-> u, left |-> LIFETIME]
<1>1. /\ i \notin issued
      /\ issued' = issued \union {i}
      /\ sessions' = [sessions EXCEPT ![i] = s]
      /\ issued \subseteq Ids
      /\ sessions \in [Ids -> Session \union {NONE}]
  BY DEF createSession, Table, StoreTypeOK
<1>2. s \in Session /\ s # NONE /\ s.left = LIFETIME
  BY LifetimeAssumption, NoneAssumption DEF Session
<1>3. /\ sessions'[i] = s
      /\ \A j \in Ids \ {i} : /\ sessions'[j] = sessions[j]
                              /\ Valid(j)' = Valid(j)
  BY <1>1 DEF Valid, Present
<1>4. ~Valid(i) /\ spent[i] = 0
  BY <1>1, TableFacts
<1>5. Aged'
  <2> SUFFICES ASSUME NEW j \in Ids
               PROVE  /\ j \notin issued' => spent[j] = 0
                      /\ j \in issued' /\ sessions'[j] = NONE => spent[j] = GONE
                      /\ sessions'[j] # NONE => sessions'[j].left = LIFETIME - spent[j]
    BY DEF Aged, GONE
  <2>1. CASE j = i
    <3>1. LIFETIME = LIFETIME - 0
      BY LifetimeAssumption
    <3> QED
      BY <3>1, <2>1, <1>1, <1>2, <1>3, <1>4
  <2>2. CASE j # i
    BY <2>2, <1>1, <1>3, TableFacts
  <2> QED
    BY <2>1, <2>2
<1>6. StoreTypeOK'
  <2>1. sessions' \in [Ids -> Session \union {NONE}]
    BY <1>1, <1>2
  <2>2. \A j \in Ids : sessions'[j] # NONE => j \in issued'
    BY <1>1, <1>3, TableFacts
  <2> QED
    BY <1>1, <2>1, <2>2 DEF StoreTypeOK, Present
<1>7. Table'
  BY <1>5, <1>6 DEF Table, GONE
<1>8. Grows
  BY <1>1, <1>3 DEF Grows
<1>9. KeepsAllBut({})
  BY <1>3, <1>4 DEF KeepsAllBut
<1> QED
  BY <1>7, <1>8, <1>9

\* A tick takes from the rest of each life what it adds to the time spent.
LEMMA TickStep ==
  ASSUME Table, Tick
  PROVE  /\ Table' /\ Grows
         /\ \A i \in Ids : Valid(i) /\ ~Valid(i)' => sessions'[i] # NONE /\ sessions'[i].left < 0
<1>1. /\ issued' = issued
      /\ issued \subseteq Ids
      /\ sessions' = [i \in Ids |-> IF Present(i) THEN Older(sessions[i]) ELSE NONE]
      /\ spent' = [i \in Ids |-> IF i \in issued /\ spent[i] < GONE
                                 THEN spent[i] + 1 ELSE spent[i]]
  BY DEF Tick, StoreTick, Table, StoreTypeOK
<1>2. ASSUME NEW i \in Ids
      PROVE  /\ spent'[i] \in 0 .. GONE
             /\ i \notin issued => sessions'[i] = NONE /\ spent'[i] = 0
             /\ i \in issued /\ sessions'[i] = NONE => spent'[i] = GONE
             /\ sessions'[i] # NONE => /\ i \in issued
                                       /\ sessions'[i] \in Session
                                       /\ sessions'[i].left = LIFETIME - spent'[i]
             /\ spent[i] = GONE => spent'[i] = GONE
             /\ ~Valid(i) => ~Valid(i)'
             /\ Valid(i) /\ ~Valid(i)' => sessions'[i] # NONE /\ sessions'[i].left < 0
  <2> DEFINE s == sessions[i]
             t == [username |-> s.username, left |-> IF s.left >= 0 THEN s.left - 1 ELSE s.left]
  <2>1. GONE = LIFETIME + 1 /\ LIFETIME \in Nat
    BY LifetimeAssumption DEF GONE
  <2>2. spent[i] \in 0 .. GONE
    BY TableFacts
  <2>3. spent'[i] = IF i \in issued /\ spent[i] < GONE THEN spent[i] + 1 ELSE spent[i]
    BY <1>1
  <2>4. sessions'[i] = IF s # NONE THEN t ELSE NONE
    BY <1>1 DEF Present, Older
  <2>5. Valid(i)' <=> sessions'[i] # NONE /\ sessions'[i].left >= 0
    BY DEF Valid, Present
  <2>6. Valid(i) <=> s # NONE /\ s.left >= 0
    BY TableFacts
  <2>7. spent'[i] \in 0 .. GONE /\ (spent[i] = GONE => spent'[i] = GONE)
    BY <2>1, <2>2, <2>3
  <2>8. CASE s = NONE
    <3>1. sessions'[i] = NONE
      BY <2>4, <2>8
    <3>2. i \notin issued => spent[i] = 0
      BY TableFacts
    <3>3. i \in issued => spent[i] = GONE
      BY <2>8, TableFacts
    <3>4. spent'[i] = spent[i]
      BY <2>1, <2>3, <3>3
    <3> QED
      BY <2>5, <2>6, <2>7, <2>8, <3>1, <3>2, <3>3, <3>4
  <2>9. CASE s # NONE
    <3>1. /\ i \in issued
          /\ s.username \in Users
          /\ s.left \in -1 .. LIFETIME
          /\ s.left = LIFETIME - spent[i]
      BY <2>9, TableFacts
    <3>2. t.left = IF s.left >= 0 THEN s.left - 1 ELSE s.left
      OBVIOUS
    <3>3. t.left \in -1 .. LIFETIME
      BY <2>1, <3>1, <3>2
    <3>4. t \in Session /\ t # NONE
      BY <3>1, <3>2, <3>3, NoneAssumption DEF Session
    <3>5. sessions'[i] = t
      BY <2>4, <2>9
    <3>6. t.left = LIFETIME - spent'[i]
      <4>1. CASE spent[i] < GONE
        <5>1. s.left >= 0 /\ spent'[i] = spent[i] + 1
          BY <2>1, <2>2, <2>3, <3>1, <4>1
        <5> QED
          BY <2>1, <2>2, <3>1, <3>2, <5>1
      <4>2. CASE ~(spent[i] < GONE)
        <5>1. spent[i] = GONE /\ spent'[i] = spent[i]
          BY <2>1, <2>2, <2>3, <4>2
        <5>2. ~(s.left >= 0)
          BY <2>1, <3>1, <5>1
        <5> QED
          BY <3>1, <3>2, <5>1, <5>2
      <4> QED
        BY <4>1, <4>2
    <3>7. ~(s.left >= 0) => ~(t.left >= 0)
      BY <3>2
    <3>8. s.left >= 0 /\ ~(t.left >= 0) => s.left = 0
      BY <3>1, <3>2
    <3> QED
      BY <2>5, <2>6, <2>7, <2>9, <3>1, <3>4, <3>5, <3>6, <3>7, <3>8
  <2> QED
    BY <2>8, <2>9
<1>3. StoreTypeOK'
  <2>1. sessions' \in [Ids -> Session \union {NONE}]
    BY <1>1, <1>2
  <2> QED
    BY <1>1, <1>2, <2>1 DEF StoreTypeOK, Present
<1>4. spent' \in [Ids -> 0 .. GONE]
  BY <1>1, <1>2
<1>5. Aged'
  BY <1>1, <1>2 DEF Aged, GONE
<1>6. Table'
  BY <1>3, <1>4, <1>5 DEF Table, GONE
<1>7. Grows
  BY <1>1, <1>2 DEF Grows
<1> QED
  BY <1>2, <1>6, <1>7

-----------------------------------------------------------------------------
(* The workers *)

\* What a worker that does not move believes stays true.
LEMMA OthersStaySound ==
  ASSUME Table, Grows, NEW w \in Workers, Sound(w),
         pc'[w] = pc[w], req'[w] = req[w]
  PROVE  Sound(w)'
BY DEF Grows, Sound, Admitted, GONE

\* An idle worker, whatever its last request was.
LEMMA IdleIsSound ==
  ASSUME NEW w \in Workers, pc'[w] = "idle", req'[w] = NoRequest
  PROVE  Sound(w)'
BY DEF Sound, Admitted, NoRequest

\* A step of one worker: the table, the types of both functions and the mover
\* have to be looked at, nothing else.
LEMMA MoverSuffices ==
  ASSUME IInv, Table', Grows, NEW w \in Workers,
         NEW stage \in Stages, pc' = [pc EXCEPT ![w] = stage],
         NEW r \in Requested, req' = [req EXCEPT ![w] = r],
         Sound(w)'
  PROVE  IInv'
<1>1. /\ pc' \in [Workers -> Stages]
      /\ req' \in [Workers -> Requested]
  BY DEF IInv
<1>2. \A v \in Workers : Sound(v)'
  <2> SUFFICES ASSUME NEW v \in Workers PROVE Sound(v)'
    OBVIOUS
  <2>1. CASE v = w
    BY <2>1
  <2>2. CASE v # w
    <3>1. pc'[v] = pc[v] /\ req'[v] = req[v]
      BY <2>2 DEF IInv
    <3> QED
      BY <3>1, OthersStaySound DEF IInv
  <2> QED
    BY <2>1, <2>2
<1> QED
  BY <1>1, <1>2 DEF IInv

\* What is to be shown of every step.
Good == IInv' /\ \A i \in Ids : (Valid(i) /\ ~Valid(i)') => Reason(i)

\* A worker, its place and its request, the definitions expanded.
LEMMA WorkerFacts ==
  ASSUME IInv, NEW w \in Workers
  PROVE  /\ Table
         /\ Sound(w)
         /\ pc[w] \in Stages
         /\ req[w] \in Requested
         /\ req[w] = [route |-> req[w].route, id |-> req[w].id, token |-> req[w].token,
                      user |-> req[w].user, late |-> req[w].late]
         /\ req = [req EXCEPT ![w] = req[w]]
         /\ NoRequest \in Requested
         /\ issued \subseteq Ids
         /\ req[w].id \in issued => req[w].id \in Ids /\ req[w].id # NONE
BY NoneAssumption DEF IInv, Requested, NoRequest, Routes, Table, StoreTypeOK

\* Where a reply leaves the worker that sends it.
LEMMA ReplyIsGood ==
  ASSUME IInv, NEW w \in Workers, Reply(w), Table', Grows
  PROVE  IInv'
<1>1. /\ pc' = [pc EXCEPT ![w] = "idle"]
      /\ req' = [req EXCEPT ![w] = NoRequest]
  BY DEF Reply, GoTo
<1>2. pc'[w] = "idle" /\ req'[w] = NoRequest
  BY <1>1 DEF IInv
<1>3. Sound(w)'
  BY <1>2, IdleIsSound
<1>4. "idle" \in Stages
  BY DEF Stages
<1> QED
  BY <1>1, <1>3, <1>4, WorkerFacts, MoverSuffices

\* A request with any cookie and any token may come in.
LEMMA ArriveGood == ASSUME IInv, NEW w \in Workers, Arrive(w) PROVE Good
<1>1. PICK r \in Routes \ {"login"}, i \in issued \union {NONE}, t \in issued \union {NONE} :
        req' = [req EXCEPT ![w] =
                  [route |-> r, id |-> i, token |-> t, user |-> NONE,
                   late |-> i # NONE /\ spent[i] = GONE]]
  BY DEF Arrive
<1> DEFINE q == [route |-> r, id |-> i, token |-> t, user |-> NONE,
                 late |-> i # NONE /\ spent[i] = GONE]
<1>2. pc' = [pc EXCEPT ![w] = "arrived"] /\ UNCHANGED <<sessions, issued, spent>>
  BY DEF Arrive, GoTo
<1>3. Table' /\ Grows /\ KeepsAllBut({})
  BY <1>2, IdleStep, WorkerFacts
<1>4. q \in Requested /\ "arrived" \in Stages
  BY WorkerFacts DEF Requested, Stages
<1>5. pc'[w] = "arrived" /\ req'[w] = q
  BY <1>1, <1>2 DEF IInv
<1>6. Sound(w)'
  <2>1. req'[w].id = i /\ (req'[w].late <=> i # NONE /\ spent[i] = GONE)
    <3>1. q.id = i /\ q.late = (i # NONE /\ spent[i] = GONE)
      OBVIOUS
    <3> HIDE DEF q
    <3> QED
      BY <1>5, <3>1
  <2> HIDE DEF q
  <2>2. req'[w].id \in issued' \union {NONE}
    BY <2>1, <1>2
  <2>3. req'[w].late => req'[w].id \in issued' /\ spent'[req'[w].id] = GONE
    BY <2>1, <1>2
  <2> QED
    BY <2>2, <2>3, <1>5 DEF Sound, Admitted, GONE
<1>7. IInv'
  BY <1>1, <1>2, <1>3, <1>4, <1>6, MoverSuffices
<1> QED
  BY <1>3, <1>7 DEF Good, KeepsAllBut

\* A worker that goes on with the request it has.
LEMMA GoingOnIsGood ==
  ASSUME IInv, Table', Grows, KeepsAllBut({}), NEW w \in Workers,
         NEW stage \in Stages, pc' = [pc EXCEPT ![w] = stage], req' = req,
         Sound(w)'
  PROVE  Good
<1>1. req[w] \in Requested /\ req' = [req EXCEPT ![w] = req[w]]
  BY WorkerFacts
<1>2. IInv'
  BY <1>1, MoverSuffices
<1> QED
  BY <1>2 DEF Good, KeepsAllBut

\* The request of one whose session is valid when it is asked for.
LEMMA ValidateGood == ASSUME IInv, NEW w \in Workers, Validate(w) PROVE Good
<1> DEFINE i == req[w].id
<1>1. Lookup(i) /\ spent' = spent /\ issued' = issued
  BY DEF Validate, Lookup
<1>2. Table' /\ Grows /\ KeepsAllBut({})
  BY <1>1, LookupStep, WorkerFacts
<1>3. CASE ~Valid(i)
  <2>1. Reply(w)
    BY <1>3 DEF Validate
  <2> QED
    BY <1>2, <2>1, ReplyIsGood DEF Good, KeepsAllBut
<1>4. CASE Valid(i)
  <2> DEFINE stage == CASE req[w].route \in NeedsToken -> "csrf"
                        [] req[w].route \in NeedsRole -> "role"
                        [] OTHER -> "serving"
             u == sessions[i].username
             q == [req[w] EXCEPT !.user = u]
  <2>1. req' = [req EXCEPT ![w].user = u] /\ pc' = [pc EXCEPT ![w] = stage]
    BY <1>4 DEF Validate, GoTo
  <2>2. i \in issued /\ i \in Ids /\ u \in Users /\ spent[i] # GONE
    BY <1>4, WorkerFacts, TableFacts DEF Valid, Present
  <2>3. q \in Requested /\ req' = [req EXCEPT ![w] = q]
    <3>1. req[w] \in Requested
      BY WorkerFacts
    <3>2. q \in Requested
      BY <2>2, <3>1 DEF Requested
    <3> QED
      BY <2>1, <3>2 DEF IInv
  <2>4. stage \in Stages
    BY DEF Stages
  <2>5. /\ pc'[w] = stage
        /\ req'[w].id = i /\ req'[w].user = u
        /\ req'[w].route = req[w].route /\ req'[w].late = req[w].late
    BY <2>1, <2>3 DEF IInv, Requested
  <2>6. ~req[w].late
    BY <2>2, WorkerFacts DEF Sound
  <2>7. Sound(w)'
    <3>1. req'[w].id \in issued'
      BY <2>2, <2>5, <1>1
    <3>2. /\ stage = "csrf" => req[w].route \in NeedsToken
          /\ stage = "role" => req[w].route \in NeedsRole
          /\ stage = "serving" => req[w].route \notin NeedsToken /\ req[w].route \notin NeedsRole
          /\ stage \notin {"rejecting", "creating"}
      OBVIOUS
    <3> HIDE DEF stage, u, i, q
    <3> QED
      BY <2>2, <2>5, <2>6, <3>1, <3>2 DEF Sound, Admitted, NeedsRole
  <2>8. IInv'
    BY <1>2, <2>1, <2>3, <2>4, <2>7, MoverSuffices
  <2> QED
    BY <1>2, <2>8 DEF Good, KeepsAllBut
<1> QED
  BY <1>3, <1>4

\* A token is compared with that of the session it belongs to.
LEMMA CheckCsrfGood == ASSUME IInv, NEW w \in Workers, CheckCsrf(w) PROVE Good
<1> PICK i : i = req[w].id
  OBVIOUS
<1> PICK stage : stage = IF Valid(i) /\ req[w].token = i THEN "serving" ELSE "rejecting"
  OBVIOUS
<1>1. /\ pc[w] = "csrf"
      /\ pc' = [pc EXCEPT ![w] = stage]
      /\ req' = req /\ spent' = spent
      /\ Lookup(i) \/ UNCHANGED <<sessions, issued>>
  BY DEF CheckCsrf, GoTo
<1>2. Table' /\ Grows /\ KeepsAllBut({})
  BY <1>1, LookupStep, IdleStep, WorkerFacts
<1>3. /\ Sound(w) /\ i \in issued /\ req[w].user \in Users /\ ~req[w].late
      /\ req[w].route \in NeedsToken
  BY <1>1, WorkerFacts DEF Sound, Admitted
<1>4. stage \in Stages /\ pc'[w] = stage
  BY <1>1 DEF Stages, IInv
<1>5. Sound(w)'
  <2>1. stage = "serving" => req[w].token = i
    OBVIOUS
  <2>2. stage = "rejecting" /\ req[w].token = i => ~Valid(i)
    OBVIOUS
  <2>3. i \in issued' /\ (~Valid(i) => ~Valid(i)')
    BY <1>2, <1>3 DEF Grows
  <2>4. stage \in {"serving", "rejecting"}
    OBVIOUS
  <2>5. req'[w].id = i /\ req[w].route # "users"
    BY <1>1, <1>3 DEF NeedsToken
  <2>6. stage = "rejecting" /\ req'[w].token = req'[w].id => ~Valid(req[w].id)'
    BY <1>1, <2>2, <2>3, <2>5 DEF Valid, Present
  <2> QED
    BY <1>1, <1>3, <1>4, <2>1, <2>3, <2>4, <2>5, <2>6 DEF Sound, Admitted
<1> QED
  BY <1>1, <1>2, <1>4, <1>5, GoingOnIsGood

\* A rejection that comes too late for its session destroys nothing: the id
\* is not in use any more and will not be.
LEMMA RejectGood == ASSUME IInv, NEW w \in Workers, Reject(w) PROVE Good
<1> PICK i : i = req[w].id
  OBVIOUS
<1>1. /\ pc[w] = "rejecting"
      /\ destroySession(i)
      /\ spent' = [spent EXCEPT ![i] = GONE]
      /\ Reply(w)
  BY DEF Reject
<1>2. /\ i \in issued
      /\ req[w].token = i => ~Valid(i)
  BY <1>1, WorkerFacts DEF Sound, Admitted
<1>3. Table' /\ Grows /\ KeepsAllBut({i})
  BY <1>1, <1>2, DestroyStep, WorkerFacts
<1>4. IInv'
  BY <1>1, <1>3, ReplyIsGood
<1>5. ASSUME NEW j \in Ids, Valid(j) /\ ~Valid(j)' PROVE Reason(j)
  <2>1. j = i
    BY <1>3, <1>5 DEF KeepsAllBut
  <2>2. req[w].id = j /\ pc[w] = "rejecting" /\ req[w].token # j
    BY <1>1, <1>2, <1>5, <2>1
  <2> QED
    BY <2>2 DEF Reason
<1> QED
  BY <1>4, <1>5 DEF Good

\* Only the role ADMIN goes through to the list of users.
LEMMA GetRoleGood == ASSUME IInv, NEW w \in Workers, GetRole(w) PROVE Good
<1>1. pc[w] = "role" /\ UNCHANGED <<sessions, issued, spent>>
  BY DEF GetRole
<1>2. PICK role \in Roles(req[w].user) :
        IF req[w].route = "me" THEN GoTo(w, "token") /\ UNCHANGED req
        ELSE IF role # "ADMIN" THEN Reply(w)
        ELSE GoTo(w, "serving") /\ UNCHANGED req
  BY DEF GetRole
<1>3. Table' /\ Grows /\ KeepsAllBut({})
  BY <1>1, IdleStep, WorkerFacts
<1>4. /\ req[w].id \in issued /\ req[w].user \in Users /\ ~req[w].late
      /\ req[w].route \in NeedsRole
  BY <1>1, WorkerFacts DEF Sound, Admitted
<1>5. role = "ADMIN" => req[w].user \in Admins
  BY DEF Roles
<1>6. CASE Reply(w)
  BY <1>3, <1>6, ReplyIsGood DEF Good, KeepsAllBut
<1>7. ASSUME NEW stage \in {"token", "serving"}, GoTo(w, stage), UNCHANGED req,
             stage = "serving" => role = "ADMIN"
      PROVE  Good
  <2>1. /\ stage \in Stages
        /\ pc' = [pc EXCEPT ![w] = stage]
        /\ pc'[w] = stage
    BY <1>7 DEF GoTo, Stages, IInv
  <2>2. req[w].route \notin NeedsToken
    BY <1>4 DEF NeedsRole, NeedsToken
  <2>3. Sound(w)'
    BY <1>1, <1>4, <1>5, <1>7, <2>1, <2>2, WorkerFacts DEF Sound, Admitted, GONE
  <2> QED
    BY <1>3, <1>7, <2>1, <2>3, GoingOnIsGood
<1> QED
  BY <1>2, <1>6, <1>7

\* The token is read, the answer sent.
LEMMA GetTokenGood == ASSUME IInv, NEW w \in Workers, GetToken(w) PROVE Good
<1>1. Lookup(req[w].id) /\ spent' = spent /\ Reply(w)
  BY DEF GetToken
<1>2. Table' /\ Grows /\ KeepsAllBut({})
  BY <1>1, LookupStep, WorkerFacts
<1> QED
  BY <1>1, <1>2, ReplyIsGood DEF Good, KeepsAllBut

\* A logout has shown the token of the session it destroys.
LEMMA ServeGood == ASSUME IInv, NEW w \in Workers, Serve(w) PROVE Good
<1> PICK i : i = req[w].id
  OBVIOUS
<1>1. pc[w] = "serving" /\ Reply(w)
  BY DEF Serve
<1>2. /\ i \in issued
      /\ req[w].route \in NeedsToken => req[w].token = i
  BY <1>1, WorkerFacts DEF Sound, Admitted
<1>3. CASE req[w].route = "logout"
  <2>1. destroySession(i) /\ spent' = [spent EXCEPT ![i] = GONE]
    BY <1>3 DEF Serve
  <2>2. Table' /\ Grows /\ KeepsAllBut({i})
    BY <1>2, <2>1, DestroyStep, WorkerFacts
  <2>3. IInv'
    BY <1>1, <2>2, ReplyIsGood
  <2>4. ASSUME NEW j \in Ids, Valid(j) /\ ~Valid(j)' PROVE Reason(j)
    <3>1. j = i
      BY <2>2, <2>4 DEF KeepsAllBut
    <3> QED
      BY <1>1, <1>2, <1>3, <3>1 DEF Reason, NeedsToken
  <2> QED
    BY <2>3, <2>4 DEF Good
<1>4. CASE req[w].route # "logout"
  <2>1. UNCHANGED <<sessions, issued, spent>>
    BY <1>4 DEF Serve
  <2>2. Table' /\ Grows /\ KeepsAllBut({})
    BY <2>1, IdleStep, WorkerFacts
  <2> QED
    BY <1>1, <2>2, ReplyIsGood DEF Good, KeepsAllBut
<1> QED
  BY <1>3, <1>4

\* A login carries no session in.
LEMMA LogInGood == ASSUME IInv, NEW w \in Workers, NEW u \in Users, LogIn(w, u) PROVE Good
<1> DEFINE q == [route |-> "login", id |-> NONE, token |-> NONE, user |-> u, late |-> FALSE]
<1>1. /\ UNCHANGED <<sessions, issued, spent>>
      /\ pc' = [pc EXCEPT ![w] = "creating"]
      /\ req' = [req EXCEPT ![w] = q]
  BY DEF LogIn, GoTo
<1>2. Table' /\ Grows /\ KeepsAllBut({})
  BY <1>1, IdleStep, WorkerFacts
<1>3. q \in Requested /\ "creating" \in Stages
  BY DEF Requested, Routes, Stages
<1>4. pc'[w] = "creating" /\ req'[w] = q
  BY <1>1 DEF IInv
<1>5. Sound(w)'
  BY <1>4 DEF Sound, Admitted
<1>6. IInv'
  BY <1>1, <1>2, <1>3, <1>5, MoverSuffices
<1> QED
  BY <1>2, <1>6 DEF Good, KeepsAllBut

\* The session of a login, or none.
LEMMA CreateGood == ASSUME IInv, NEW w \in Workers, Create(w) PROVE Good
<1>1. /\ pc[w] = "creating" /\ spent' = spent /\ Reply(w)
      /\ (\E i \in Ids : createSession(i, req[w].user)) \/ UNCHANGED <<sessions, issued>>
  BY DEF Create
<1>2. req[w].user \in Users
  BY <1>1, WorkerFacts DEF Sound
<1>3. Table' /\ Grows /\ KeepsAllBut({})
  BY <1>1, <1>2, CreateStep, IdleStep, WorkerFacts
<1> QED
  BY <1>1, <1>3, ReplyIsGood DEF Good, KeepsAllBut

\* Steps of the store alone leave every worker where it is.
LEMMA StoreStepIsGood ==
  ASSUME IInv, Table', Grows, UNCHANGED <<pc, req>>
  PROVE  IInv'
BY OthersStaySound DEF IInv

\* Every step keeps the invariant, and ends no session without a reason.
LEMMA StepIsGood == IInv /\ [Next]_vars => Good
<1> SUFFICES ASSUME IInv, [Next]_vars PROVE Good
  OBVIOUS
<1>1. ASSUME NEW w \in Workers, Handle(w) PROVE Good
  BY <1>1, ValidateGood, CheckCsrfGood, RejectGood, GetRoleGood, GetTokenGood, ServeGood,
     CreateGood DEF Handle
<1>2. ASSUME NEW w \in Workers, Arrive(w) PROVE Good
  BY <1>2, ArriveGood
<1>3. ASSUME NEW w \in Workers, NEW u \in Users, LogIn(w, u) PROVE Good
  BY <1>3, LogInGood
<1>4. CASE Cleanup
  <2>1. cleanupExpiredSessions /\ UNCHANGED <<pc, req, spent>> /\ Table
    BY <1>4 DEF Cleanup, IInv
  <2>2. Table' /\ Grows /\ KeepsAllBut({})
    BY <2>1, CleanupStep
  <2>3. IInv'
    BY <2>1, <2>2, StoreStepIsGood
  <2> QED
    BY <2>2, <2>3 DEF Good, KeepsAllBut
<1>5. CASE Tick
  <2>1. UNCHANGED <<pc, req>> /\ Table
    BY <1>5 DEF Tick, IInv
  <2>2. /\ Table' /\ Grows
        /\ \A i \in Ids : Valid(i) /\ ~Valid(i)' => sessions'[i] # NONE /\ sessions'[i].left < 0
    BY <1>5, <2>1, TickStep
  <2>3. IInv'
    BY <2>1, <2>2, StoreStepIsGood
  <2> QED
    BY <2>2, <2>3 DEF Good, Reason
<1>6. CASE UNCHANGED vars
  <2>1. UNCHANGED <<sessions, issued, spent, pc, req>> /\ Table
    BY <1>6 DEF vars, IInv
  <2>2. Table' /\ Grows /\ KeepsAllBut({})
    BY <2>1, IdleStep
  <2>3. IInv'
    BY <2>1, <2>2, StoreStepIsGood
  <2> QED
    BY <2>2, <2>3 DEF Good, KeepsAllBut
<1> QED
  BY <1>1, <1>2, <1>3, <1>4, <1>5, <1>6 DEF Next

\* The server starts with no session and no request.
LEMMA InitIsGood == Init => IInv
<1> SUFFICES ASSUME Init PROVE IInv
  OBVIOUS
<1>1. /\ sessions = [i \in Ids |-> NONE] /\ issued = {}
      /\ spent = [i \in Ids |-> 0]
      /\ pc = [w \in Workers |-> "idle"]
      /\ req = [w \in Workers |-> NoRequest]
  BY DEF Init, StoreInit
<1>2. Table
  BY <1>1, LifetimeAssumption DEF Table, StoreTypeOK, Present, Aged, GONE
<1>3. NoRequest \in Requested /\ "idle" \in Stages
  BY DEF NoRequest, Requested, Routes, Stages
<1>4. \A w \in Workers : Sound(w)
  BY <1>1 DEF Sound, Admitted, NoRequest
<1> QED
  BY <1>1, <1>2, <1>3, <1>4 DEF IInv

-----------------------------------------------------------------------------
(* The theorems *)

\* In every reachable state the table is as old as its sessions, and every
\* worker's progress means what it is taken to mean.
THEOREM Invariant == Spec => []IInv
<1>1. IInv /\ [Next]_vars => IInv'
  BY StepIsGood DEF Good
<1> QED
  BY <1>1, InitIsGood, PTL DEF Spec

\* The type of the table, of the workers and of their requests.
THEOREM TypeCorrect == Spec => []TypeOK
<1>1. IInv => TypeOK
  BY DEF IInv, Table, TypeOK
<1> QED
  BY <1>1, Invariant, PTL

\* A request that comes after its session's end is never taken for a user's,
\* however the other threads and the clock interleave with its checks.
THEOREM NothingServedAfterEnd == Spec => []NoServiceAfterEnd
<1>1. IInv => NoServiceAfterEnd
  BY DEF IInv, Sound, NoServiceAfterEnd
<1> QED
  BY <1>1, Invariant, PTL

\* No handler runs without the authority its route asks for, although the
\* session may be gone by the time it runs.
THEOREM HandlersHaveAuthority == Spec => []Authority
<1>1. IInv => Authority
  BY DEF IInv, Sound, Authority, Admitted
<1> QED
  BY <1>1, Invariant, PTL

\* A user loses the session by its age, by a logout with its own token or by
\* a forged request with its cookie, and in no other way.
THEOREM SessionsEndForAReason == Spec => EndsForAReason
<1>1. IInv /\ [Next]_vars =>
        [\A i \in Ids : (Valid(i) /\ ~Valid(i)') => Reason(i)]_vars
  BY StepIsGood DEF Good
<1> QED
  BY <1>1, Invariant, PTL DEF Spec, EndsForAReason

\* Whatever a request does to the table is one of the table's operations.
LEMMA StepsOfStore == IInv /\ [Next]_vars => [StoreNext]_storeVars
<1> SUFFICES ASSUME IInv, [Next]_vars PROVE StoreNext \/ UNCHANGED storeVars
  OBVIOUS
<1> USE DEF storeVars
<1>1. ASSUME NEW w \in Workers, Arrive(w) \/ GetRole(w) PROVE UNCHANGED storeVars
  BY <1>1 DEF Arrive, GetRole
<1>2. ASSUME NEW w \in Workers, NEW u \in Users, LogIn(w, u) PROVE UNCHANGED storeVars
  BY <1>2 DEF LogIn
<1>3. ASSUME NEW i, Lookup(i) PROVE StoreNext \/ UNCHANGED storeVars
  BY <1>3 DEF Lookup, Present, StoreNext
<1>4. ASSUME NEW w \in Workers, Validate(w) \/ CheckCsrf(w) \/ GetToken(w)
      PROVE  StoreNext \/ UNCHANGED storeVars
  BY <1>3, <1>4 DEF Validate, CheckCsrf, GetToken
<1>5. ASSUME NEW w \in Workers, Reject(w) \/ Serve(w)
      PROVE  StoreNext \/ UNCHANGED storeVars
  <2>1. Admitted(w) /\ Sound(w)
    BY <1>5 DEF IInv, Reject, Serve, Admitted
  <2>2. req[w].id \in Ids
    BY <2>1 DEF IInv, Sound, Table, StoreTypeOK
  <2> QED
    BY <1>5, <2>2 DEF Reject, Serve, StoreNext
<1>6. ASSUME NEW w \in Workers, Create(w) PROVE StoreNext \/ UNCHANGED storeVars
  <2>1. req[w].user \in Users
    BY <1>6 DEF IInv, Sound, Create
  <2> QED
    BY <1>6, <2>1 DEF Create, StoreNext
<1>7. CASE Cleanup \/ Tick
  BY <1>7 DEF Cleanup, Tick, StoreNext
<1>8. CASE UNCHANGED vars
  BY <1>8 DEF vars
<1> QED
  BY <1>1, <1>2, <1>4, <1>5, <1>6, <1>7, <1>8 DEF Next, Handle

\* Under concurrent requests the table implements the policy: a session lasts
\* its lifetime from the login, no use prolongs it, erasing cannot be noticed,
\* an end is final.
THEOREM Refinement == Spec => ImplementsSessionPolicy
<1>1. Init => Policy!Init
  BY DEF Init, StoreInit, Policy!Init, lifeBar, ownerBar, Valid, Present, Policy!Unissued
<1>2. IInv /\ [Next]_vars => [Policy!Next]_(Policy!vars)
  BY StepsOfStore, StoreRefines DEF IInv, Table
<1> QED
  BY <1>1, <1>2, Invariant, PTL DEF Spec, ImplementsSessionPolicy, Policy!Spec
=============================================================================

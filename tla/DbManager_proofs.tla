-------------------------- MODULE DbManager_proofs --------------------------
(***************************************************************************)
(* Proofs about DbManager, for any number of threads, any handles and any  *)
(* size of the pool.  IInv is the inductive invariant: the properties of   *)
(* DbManager.tla are not inductive by themselves, they rest on Control,    *)
(* which ties what each thread and the healer have in their hands, and who *)
(* holds the mutex, to where they are in the code.                         *)
(***************************************************************************)
EXTENDS DbManager, FiniteSetTheorems, SequenceTheorems, TLAPS

PCs == {"idle", "entering", "sleeping", "woken", "pinging", "reconnecting",
        "using"}

\* Who holds what, and when.
Control ==
  /\ \A t \in Threads : pc[t] \in {"pinging", "reconnecting"} <=> pool_mutex = t
  /\ \A t \in Threads : conn[t] # NONE <=> pc[t] \in {"pinging", "using"}
  /\ healer_conn # NONE <=> healer = "adding"
  /\ phase # "up" => \A t \in Threads : pc[t] = "idle"
  /\ phase \in {"unborn", "init"} => healer = "unborn" /\ cur_conns = 0
  /\ phase = "unborn" => connection_pool = <<>>
  /\ Len(connection_pool) <= POOL_SIZE
  /\ cur_conns <= POOL_SIZE
  /\ healer \in {"creating", "adding"} => cur_conns < POOL_SIZE
  /\ healer \in {"asleep", "checking", "creating", "adding"} =>
       phase \in {"up", "stopping"}
  /\ healer = "gone" => phase \in {"stopping", "destroyed"}

IInv ==
  /\ TypeOK
  /\ Control
  /\ Accounting
  /\ OneOwner
  /\ NothingLeaks
  /\ NoLostWakeup

-----------------------------------------------------------------------------
(* Sequences: what back/pop_back and push_back do to the set of handles.   *)

\* Taking the last element off a sequence without repetitions removes exactly
\* that element (connection_pool.back and pop_back, lines 178-179).
LEMMA FrontElems ==
  ASSUME NEW S, NEW s \in Seq(S), s # <<>>, NoDup(s)
  PROVE  /\ Front(s) \in Seq(S)
         /\ Len(Front(s)) = Len(s) - 1
         /\ Back(s) \in Elems(s)
         /\ Back(s) \in S
         /\ Elems(Front(s)) = Elems(s) \ {Back(s)}
         /\ NoDup(Front(s))
<1> PICK n \in Nat : n = Len(s) /\ n # 0
  BY EmptySeq, LenProperties
<1>1. \A i \in 1 .. n : s[i] \in S
  BY ElementOfSeq
<1>2. /\ Front(s) \in Seq(S)
      /\ Len(Front(s)) = n - 1
      /\ \A i \in 1 .. n - 1 : Front(s)[i] = s[i]
  <2>1. \A i \in 1 .. n - 1 : s[i] \in S
    BY <1>1
  <2>2. /\ SubSeq(s, 1, n - 1) \in Seq(S)
        /\ Len(SubSeq(s, 1, n - 1)) = IF 1 <= n - 1 THEN (n - 1) - 1 + 1 ELSE 0
        /\ \A i \in 1 .. (n - 1) - 1 + 1 : SubSeq(s, 1, n - 1)[i] = s[1 + i - 1]
    BY <2>1, SubSeqProperties, n - 1 \in Int
  <2>3. (n - 1) - 1 + 1 = n - 1 /\ \A i \in 1 .. n - 1 : 1 + i - 1 = i
    OBVIOUS
  <2>4. ~(1 <= n - 1) => n - 1 = 0
    OBVIOUS
  <2> QED
    BY <2>2, <2>3, <2>4, Zenon DEF Front
<1>3. Back(s) \in Elems(s) /\ Back(s) \in S
  BY <1>1 DEF Back, Elems
<1>4. Elems(Front(s)) = Elems(s) \ {Back(s)}
  BY <1>1, <1>2 DEF Elems, Back, NoDup
<1>5. NoDup(Front(s))
  BY <1>1, <1>2 DEF NoDup
<1> QED
  BY <1>2, <1>3, <1>4, <1>5

\* One element more or less: the cardinality, whether or not it was there.
LEMMA CardinalityAdd ==
  ASSUME NEW S, IsFiniteSet(S), NEW x
  PROVE  /\ Cardinality(S \union {x}) \in Nat
         /\ Cardinality(S) <= Cardinality(S \union {x})
<1>1. Cardinality(S) \in Nat
  BY FS_CardinalityType
<1>2. CASE x \in S
  BY <1>1, <1>2, S \union {x} = S
<1>3. CASE x \notin S
  <2>1. Cardinality(S \union {x}) = Cardinality(S) + 1
    BY <1>3, FS_AddElement
  <2> QED
    BY <1>1, <2>1
<1> QED
  BY <1>2, <1>3

\* The same for an element taken out.
LEMMA CardinalityRemove ==
  ASSUME NEW S, IsFiniteSet(S), NEW x
  PROVE  /\ Cardinality(S \ {x}) \in Nat
         /\ Cardinality(S) - 1 <= Cardinality(S \ {x})
<1>1. Cardinality(S) \in Nat
  BY FS_CardinalityType
<1>2. CASE x \notin S
  BY <1>1, <1>2, S \ {x} = S
<1>3. CASE x \in S
  <2>1. Cardinality(S \ {x}) = Cardinality(S) - 1
    BY <1>3, FS_RemoveElement
  <2>2. Cardinality(S \ {x}) \in Nat
    BY FS_RemoveElement, FS_CardinalityType
  <2> QED
    BY <1>1, <2>1, <2>2
<1> QED
  BY <1>2, <1>3

\* push_back adds exactly the new handle, and no repetition if it was not there.
LEMMA AppendElems ==
  ASSUME NEW S, NEW s \in Seq(S), NEW e \in S
  PROVE  /\ Append(s, e) \in Seq(S)
         /\ Len(Append(s, e)) = Len(s) + 1
         /\ Elems(Append(s, e)) = Elems(s) \union {e}
         /\ NoDup(s) /\ e \notin Elems(s) => NoDup(Append(s, e))
<1>1. /\ Append(s, e) \in Seq(S)
      /\ Len(Append(s, e)) = Len(s) + 1
      /\ \A i \in 1 .. Len(s) : Append(s, e)[i] = s[i]
      /\ Append(s, e)[Len(s) + 1] = e
  BY AppendProperties
<1>2. Len(s) \in Nat
  BY LenProperties
<1>3. Elems(Append(s, e)) = Elems(s) \union {e}
  BY <1>1, <1>2 DEF Elems
<1>4. NoDup(s) /\ e \notin Elems(s) => NoDup(Append(s, e))
  BY <1>1, <1>2 DEF NoDup, Elems
<1> QED
  BY <1>1, <1>3, <1>4

-----------------------------------------------------------------------------
\* notify_one changes nobody but a sleeper, which it wakes.
LEMMA NotifyFacts ==
  ASSUME NEW q \in [Threads -> PCs], NotifyOne(q)
  PROVE  /\ pc' \in [Threads -> PCs]
         /\ \A t \in Threads :
              pc'[t] = q[t] \/ (q[t] = "sleeping" /\ pc'[t] = "woken")
<1>1. CASE Sleepers(q) = {} /\ pc' = q
  BY <1>1
<1>2. CASE \E w \in Sleepers(q) : pc' = [q EXCEPT ![w] = "woken"]
  BY <1>2 DEF Sleepers, PCs
<1> QED
  BY <1>1, <1>2 DEF NotifyOne

\* The state before the first use satisfies the inductive invariant.
LEMMA InitIInv == Init => IInv
<1> SUFFICES ASSUME Init PROVE IInv
  OBVIOUS
<1> USE DEF Init
<1>1. connection_pool \in Seq(Handles) /\ Len(connection_pool) = 0
  BY EmptySeq
<1>2. TypeOK
  BY <1>1, SizeAssumption DEF TypeOK
<1>3. Control
  BY <1>1, SizeAssumption, ThreadsAssumption DEF Control
<1>4. Accounting
  BY DEF Accounting
<1>5. OneOwner
  BY <1>1 DEF OneOwner, NoDup, Pooled, Elems
<1>6. NothingLeaks
  BY DEF NothingLeaks
<1>7. NoLostWakeup
  BY DEF NoLostWakeup, Sleepers
<1> QED
  BY <1>2, <1>3, <1>4, <1>5, <1>6, <1>7 DEF IInv

-----------------------------------------------------------------------------
(* Type correctness *)

\* The only step that needs more than types is the failed reconnection: the
\* thread that makes it is itself counted, so cur_conns is positive.
LEMMA TypeStep == IInv /\ [Next]_vars => TypeOK'
<1> SUFFICES ASSUME IInv, [Next]_vars PROVE TypeOK'
  OBVIOUS
<1> USE ThreadsAssumption, HandlesAssumption, SizeAssumption DEF IInv, TypeOK, threadVars, healerVars
<1>1. CASE FirstUse
  BY <1>1 DEF FirstUse
<1>2. CASE InitConnect
  <2>1. PICK h \in Handles \union {NONE} :
          /\ CreateConnection(h)
          /\ \/ h # NONE /\ connection_pool' = Append(connection_pool, h)
                /\ UNCHANGED retry_count
             \/ h = NONE /\ retry_count' = retry_count + 1
                /\ UNCHANGED connection_pool
    BY <1>2 DEF InitConnect
  <2>2. connection_pool' \in Seq(Handles)
    BY <2>1, AppendElems
  <2>3. retry_count' \in 0 .. MAX_RETRIES
    BY <1>2, <2>1 DEF InitConnect, InitMore
  <2>4. open' \subseteq Handles
    BY <2>1 DEF CreateConnection
  <2> QED
    BY <1>2, <2>2, <2>3, <2>4 DEF InitConnect
<1>3. CASE InitDone
  BY <1>3, LenProperties DEF InitDone
<1>4. ASSUME NEW t \in Threads, Call(t) PROVE TypeOK'
  BY <1>4 DEF Call
<1>5. ASSUME NEW t \in Threads, Pop(t) PROVE TypeOK'
  BY <1>5, FrontElems DEF Pop, OneOwner
<1>6. ASSUME NEW t \in Threads, Sleep(t) PROVE TypeOK'
  BY <1>6 DEF Sleep
<1>7. ASSUME NEW t \in Threads, TimeOut(t) PROVE TypeOK'
  BY <1>7 DEF TimeOut
<1>8. ASSUME NEW t \in Threads, Deadline(t) PROVE TypeOK'
  BY <1>8 DEF Deadline
<1>9. ASSUME NEW t \in Threads, SpuriousWakeup(t) PROVE TypeOK'
  BY <1>9 DEF SpuriousWakeup
<1>10. ASSUME NEW t \in Threads, PingOk(t) PROVE TypeOK'
  BY <1>10 DEF PingOk
<1>11. ASSUME NEW t \in Threads, PingFail(t) PROVE TypeOK'
  BY <1>11 DEF PingFail
<1>12. ASSUME NEW t \in Threads, Reconnect(t) PROVE TypeOK'
  <2>1. cur_conns > 0
    <3>1. IsFiniteSet(Borrowers) /\ t \in Borrowers
      BY <1>12, FS_Subset DEF Borrowers, Reconnect
    <3>2. Cardinality(Borrowers) \in Nat /\ Cardinality(Borrowers) # 0
      BY <3>1, FS_EmptySet, FS_CardinalityType
    <3>3. Len(connection_pool) \in Nat
      BY LenProperties
    <3>4. phase = "up"
      BY <1>12 DEF Control, Reconnect
    <3> QED
      BY <3>2, <3>3, <3>4 DEF Accounting
  <2> QED
    BY <1>12, <2>1 DEF Reconnect, CreateConnection
<1>13. ASSUME NEW t \in Threads, Release(t) PROVE TypeOK'
  <2>1. conn[t] \in Handles
    BY <1>13 DEF Release, Control
  <2>2. [pc EXCEPT ![t] = "idle"] \in [Threads -> PCs]
    BY DEF PCs
  <2>3. pc' \in [Threads -> PCs]
    BY <1>13, <2>2, NotifyFacts DEF Release
  <2> QED
    BY <1>13, <2>1, <2>3, AppendElems DEF Release, PCs
<1>14. CASE HealerTick
  BY <1>14 DEF HealerTick
<1>15. CASE HealerCheck
  BY <1>15 DEF HealerCheck
<1>16. CASE HealerCreate
  BY <1>16 DEF HealerCreate, CreateConnection
<1>17. CASE HealerAdd
  <2>1. healer_conn \in Handles
    BY <1>17 DEF HealerAdd, Control
  <2>2. pc' \in [Threads -> PCs]
    BY <1>17, NotifyFacts DEF HealerAdd, PCs
  <2> QED
    BY <1>17, <2>1, <2>2, AppendElems DEF HealerAdd, PCs
<1>18. CASE RequestStop
  BY <1>18 DEF RequestStop
<1>19. CASE DestroyPool
  BY <1>19, EmptySeq DEF DestroyPool
<1>20. CASE DbChange
  BY <1>20 DEF DbChange
<1>21. CASE UNCHANGED vars
  BY <1>21 DEF vars
<1> QED
  BY <1>1, <1>2, <1>3, <1>4, <1>5, <1>6, <1>7, <1>8, <1>9, <1>10, <1>11, <1>12,
     <1>13, <1>14, <1>15, <1>16, <1>17, <1>18, <1>19, <1>20, <1>21
     DEF Next, ThreadNext, HealerNext

-----------------------------------------------------------------------------
(* Control *)

\* Where a thread is tells what it holds: every step keeps the two in line.
LEMMA ControlStep == IInv /\ [Next]_vars => Control'
<1> SUFFICES ASSUME IInv, [Next]_vars PROVE Control'
  OBVIOUS
<1> USE ThreadsAssumption, HandlesAssumption, SizeAssumption
    DEF IInv, TypeOK, Control, threadVars, healerVars
<1>0. Len(connection_pool) \in Nat
  BY LenProperties
<1>1. CASE FirstUse
  BY <1>1 DEF FirstUse
<1>2. CASE InitConnect
  <2>1. connection_pool' = connection_pool
        \/ Len(connection_pool') = Len(connection_pool) + 1
    BY <1>2, AppendElems DEF InitConnect
  <2>2. Len(connection_pool') <= POOL_SIZE
    BY <1>0, <1>2, <2>1 DEF InitConnect, InitMore
  <2> QED
    BY <1>2, <2>2 DEF InitConnect
<1>3. CASE InitDone
  BY <1>0, <1>3 DEF InitDone
<1>4. ASSUME NEW t \in Threads, Call(t) PROVE Control'
  BY <1>4 DEF Call
<1>5. ASSUME NEW t \in Threads, Pop(t) PROVE Control'
  <2>1. Back(connection_pool) \in Handles
        /\ Len(connection_pool') = Len(connection_pool) - 1
    BY <1>5, FrontElems DEF Pop, OneOwner
  <2>2. phase = "up"
    BY <1>5 DEF Pop
  <2> QED
    BY <1>0, <1>5, <2>1, <2>2 DEF Pop, Free
<1>6. ASSUME NEW t \in Threads, Sleep(t) PROVE Control'
  BY <1>6 DEF Sleep
<1>7. ASSUME NEW t \in Threads, TimeOut(t) PROVE Control'
  BY <1>7 DEF TimeOut
<1>8. ASSUME NEW t \in Threads, Deadline(t) PROVE Control'
  BY <1>8 DEF Deadline
<1>9. ASSUME NEW t \in Threads, SpuriousWakeup(t) PROVE Control'
  BY <1>9 DEF SpuriousWakeup
<1>10. ASSUME NEW t \in Threads, PingOk(t) PROVE Control'
  BY <1>10 DEF PingOk
<1>11. ASSUME NEW t \in Threads, PingFail(t) PROVE Control'
  BY <1>11 DEF PingFail
<1>12. ASSUME NEW t \in Threads, Reconnect(t) PROVE Control'
  BY <1>12 DEF Reconnect, CreateConnection
<1>13. ASSUME NEW t \in Threads, Release(t) PROVE Control'
  <2>1. conn[t] \in Handles /\ phase = "up"
    BY <1>13 DEF Release
  <2>2. Len(connection_pool') = Len(connection_pool) + 1
    BY <1>13, <2>1, AppendElems DEF Release
  <2>3. /\ pc' \in [Threads -> PCs]
        /\ \A u \in Threads :
             \/ pc'[u] = [pc EXCEPT ![t] = "idle"][u]
             \/ [pc EXCEPT ![t] = "idle"][u] = "sleeping" /\ pc'[u] = "woken"
    BY <1>13, NotifyFacts, [pc EXCEPT ![t] = "idle"] \in [Threads -> PCs]
       DEF Release, PCs
  <2>4. Len(connection_pool') <= POOL_SIZE
    <3>1. IsFiniteSet(Borrowers) /\ t \in Borrowers
      BY <1>13, FS_Subset DEF Borrowers, Release
    <3>2. Cardinality(Borrowers) \in Nat /\ Cardinality(Borrowers) # 0
      BY <3>1, FS_EmptySet, FS_CardinalityType
    <3> QED
      BY <1>0, <2>1, <2>2, <3>2 DEF Accounting
  <2> QED
    BY <1>13, <2>1, <2>3, <2>4 DEF Release, Free
<1>14. CASE HealerTick
  BY <1>14 DEF HealerTick
<1>15. CASE HealerCheck
  BY <1>15 DEF HealerCheck
<1>16. CASE HealerCreate
  BY <1>16 DEF HealerCreate, CreateConnection
<1>17. CASE HealerAdd
  <2>1. healer_conn \in Handles /\ phase \in {"up", "stopping"}
    BY <1>17 DEF HealerAdd
  <2>2. Len(connection_pool') = Len(connection_pool) + 1
    BY <1>17, <2>1, AppendElems DEF HealerAdd
  <2>3. /\ pc' \in [Threads -> PCs]
        /\ \A u \in Threads :
             pc'[u] = pc[u] \/ (pc[u] = "sleeping" /\ pc'[u] = "woken")
    <3>1. pc \in [Threads -> PCs]
      BY DEF PCs
    <3> QED
      BY <1>17, <3>1, NotifyFacts DEF HealerAdd
  <2>4. Len(connection_pool') <= POOL_SIZE
    <3>1. Cardinality(Borrowers) \in Nat
      BY FS_Subset, FS_CardinalityType DEF Borrowers
    <3> QED
      BY <1>0, <1>17, <2>1, <2>2, <3>1 DEF Accounting, HealerAdd
  <2> QED
    BY <1>17, <2>1, <2>3, <2>4 DEF HealerAdd, Free
<1>18. CASE RequestStop
  BY <1>18 DEF RequestStop
<1>19. CASE DestroyPool
  BY <1>19, EmptySeq DEF DestroyPool
<1>20. CASE DbChange
  BY <1>20 DEF DbChange
<1>21. CASE UNCHANGED vars
  BY <1>21 DEF vars
<1> QED
  BY <1>1, <1>2, <1>3, <1>4, <1>5, <1>6, <1>7, <1>8, <1>9, <1>10, <1>11, <1>12,
     <1>13, <1>14, <1>15, <1>16, <1>17, <1>18, <1>19, <1>20, <1>21
     DEF Next, ThreadNext, HealerNext

-----------------------------------------------------------------------------
(* Accounting *)

\* What is in the pool and what is borrowed changes only together with, or in
\* exchange for, cur_conns.
LEMMA AccountingStep == IInv /\ [Next]_vars => Accounting'
<1> SUFFICES ASSUME IInv, [Next]_vars PROVE Accounting'
  OBVIOUS
<1> USE ThreadsAssumption, HandlesAssumption, SizeAssumption
    DEF IInv, TypeOK, threadVars, healerVars
<1>a. Len(connection_pool) \in Nat
  BY LenProperties
<1>b. IsFiniteSet(Borrowers) /\ Cardinality(Borrowers) \in Nat
  BY FS_Subset, FS_CardinalityType DEF Borrowers
<1>1. CASE FirstUse
  BY <1>1 DEF FirstUse, Accounting, Borrowers
<1>2. CASE InitConnect
  BY <1>2 DEF InitConnect, Accounting, Borrowers
<1>3. CASE InitDone
  <2>1. Borrowers' = {}
    BY <1>3 DEF InitDone, Control, Borrowers
  <2>2. Cardinality(Borrowers') = 0
    BY <2>1, FS_EmptySet
  <2> QED
    BY <1>a, <1>3, <2>2 DEF InitDone, Accounting
<1>4. ASSUME NEW t \in Threads, Call(t) PROVE Accounting'
  BY <1>4 DEF Call, Accounting, Borrowers
<1>5. ASSUME NEW t \in Threads, Pop(t) PROVE Accounting'
  <2>1. Len(connection_pool') = Len(connection_pool) - 1
    BY <1>5, FrontElems DEF Pop, OneOwner
  <2>2. Borrowers' = Borrowers \union {t} /\ t \notin Borrowers
    BY <1>5 DEF Pop, Borrowers
  <2>3. Cardinality(Borrowers') = Cardinality(Borrowers) + 1
    BY <1>b, <2>2, FS_AddElement
  <2> QED
    BY <1>a, <1>b, <1>5, <2>1, <2>3 DEF Pop, Accounting
<1>6. ASSUME NEW t \in Threads, Sleep(t) PROVE Accounting'
  BY <1>6 DEF Sleep, Accounting, Borrowers
<1>7. ASSUME NEW t \in Threads, TimeOut(t) PROVE Accounting'
  BY <1>7 DEF TimeOut, Accounting, Borrowers
<1>8. ASSUME NEW t \in Threads, Deadline(t) PROVE Accounting'
  BY <1>8 DEF Deadline, Accounting, Borrowers
<1>9. ASSUME NEW t \in Threads, SpuriousWakeup(t) PROVE Accounting'
  BY <1>9 DEF SpuriousWakeup, Accounting, Borrowers
<1>10. ASSUME NEW t \in Threads, PingOk(t) PROVE Accounting'
  BY <1>10 DEF PingOk, Accounting, Borrowers
<1>11. ASSUME NEW t \in Threads, PingFail(t) PROVE Accounting'
  BY <1>11 DEF PingFail, Accounting, Borrowers
<1>12. ASSUME NEW t \in Threads, Reconnect(t) PROVE Accounting'
  <2>1. CASE pc'[t] = "using" /\ UNCHANGED cur_conns
    <3>1. Borrowers' = Borrowers
      BY <1>12, <2>1 DEF Reconnect, Borrowers
    <3> QED
      BY <1>12, <2>1, <3>1 DEF Reconnect, Accounting
  <2>2. CASE pc'[t] = "idle" /\ cur_conns' = cur_conns - 1
    <3>1. Borrowers' = Borrowers \ {t} /\ t \in Borrowers
      BY <1>12, <2>2 DEF Reconnect, Borrowers
    <3>2. Cardinality(Borrowers') = Cardinality(Borrowers) - 1
      BY <1>b, <3>1, FS_RemoveElement
    <3> QED
      BY <1>a, <1>b, <1>12, <2>2, <3>2 DEF Reconnect, Accounting
  <2> QED
    BY <1>12, <2>1, <2>2 DEF Reconnect
<1>13. ASSUME NEW t \in Threads, Release(t) PROVE Accounting'
  <2>1. conn[t] \in Handles
    BY <1>13 DEF Release, Control
  <2>2. Len(connection_pool') = Len(connection_pool) + 1
    BY <1>13, <2>1, AppendElems DEF Release
  <2>3. \A u \in Threads :
          pc'[u] = [pc EXCEPT ![t] = "idle"][u]
          \/ ([pc EXCEPT ![t] = "idle"][u] = "sleeping" /\ pc'[u] = "woken")
    BY <1>13, NotifyFacts, [pc EXCEPT ![t] = "idle"] \in [Threads -> PCs]
       DEF Release, PCs
  <2>4. Borrowers' = Borrowers \ {t} /\ t \in Borrowers
    BY <1>13, <2>3 DEF Release, Borrowers
  <2>5. Cardinality(Borrowers') = Cardinality(Borrowers) - 1
    BY <1>b, <2>4, FS_RemoveElement
  <2> QED
    BY <1>a, <1>b, <1>13, <2>2, <2>5 DEF Release, Accounting
<1>14. CASE HealerTick
  BY <1>14 DEF HealerTick, Accounting, Borrowers
<1>15. CASE HealerCheck
  BY <1>15 DEF HealerCheck, Accounting, Borrowers
<1>16. CASE HealerCreate
  BY <1>16 DEF HealerCreate, Accounting, Borrowers
<1>17. CASE HealerAdd
  <2>1. healer_conn \in Handles
    BY <1>17 DEF HealerAdd, Control
  <2>2. Len(connection_pool') = Len(connection_pool) + 1
    BY <1>17, <2>1, AppendElems DEF HealerAdd
  <2>3. pc \in [Threads -> PCs]
    BY DEF PCs
  <2>4. \A u \in Threads :
          pc'[u] = pc[u] \/ (pc[u] = "sleeping" /\ pc'[u] = "woken")
    BY <1>17, <2>3, NotifyFacts DEF HealerAdd
  <2>5. Borrowers' = Borrowers
    BY <2>4 DEF Borrowers
  <2>6. phase' = phase /\ cur_conns' = cur_conns + 1
    BY <1>17 DEF HealerAdd
  <2> QED
    BY <1>a, <1>b, <2>2, <2>5, <2>6 DEF Accounting
<1>18. CASE RequestStop
  BY <1>18 DEF RequestStop, Accounting, Borrowers
<1>19. CASE DestroyPool
  BY <1>19 DEF DestroyPool, Accounting, Borrowers
<1>20. CASE DbChange
  BY <1>20 DEF DbChange, Accounting, Borrowers
<1>21. CASE UNCHANGED vars
  BY <1>21 DEF vars, Accounting, Borrowers
<1> QED
  BY <1>1, <1>2, <1>3, <1>4, <1>5, <1>6, <1>7, <1>8, <1>9, <1>10, <1>11, <1>12,
     <1>13, <1>14, <1>15, <1>16, <1>17, <1>18, <1>19, <1>20, <1>21
     DEF Next, ThreadNext, HealerNext

-----------------------------------------------------------------------------
(* OneOwner *)

\* A handle moves from one place to another or is new; it never appears in a
\* second place.
LEMMA OwnerStep == IInv /\ [Next]_vars => OneOwner'
<1> SUFFICES ASSUME IInv, [Next]_vars PROVE OneOwner'
  OBVIOUS
<1> USE ThreadsAssumption, HandlesAssumption, SizeAssumption
    DEF IInv, TypeOK, Control, threadVars, healerVars
<1>1. CASE FirstUse
  BY <1>1 DEF FirstUse, OneOwner, Pooled
<1>2. CASE InitConnect
  <2>0. /\ phase = "init"
        /\ healer_conn' = NONE /\ healer_conn = NONE
        /\ conn' = conn
        /\ \A t \in Threads : conn[t] = NONE
    BY <1>2 DEF InitConnect
  <2>1. PICK h \in Handles \union {NONE} :
          /\ CreateConnection(h)
          /\ \/ h # NONE /\ connection_pool' = Append(connection_pool, h)
             \/ h = NONE /\ UNCHANGED connection_pool
    BY <1>2 DEF InitConnect
  <2>2. CASE h # NONE
    <3>1. /\ h \in Handles /\ h \notin open /\ open' = open \union {h}
          /\ connection_pool' = Append(connection_pool, h)
      BY <2>1, <2>2 DEF CreateConnection
    <3>2. Elems(connection_pool') = Elems(connection_pool) \union {h}
          /\ NoDup(connection_pool')
      BY <3>1, AppendElems DEF OneOwner, Pooled
    <3> QED
      BY <2>0, <3>1, <3>2 DEF OneOwner, Pooled
  <2>3. CASE h = NONE
    BY <2>0, <2>1, <2>3 DEF CreateConnection, OneOwner, Pooled
  <2> QED
    BY <2>2, <2>3
<1>3. CASE InitDone
  BY <1>3 DEF InitDone, OneOwner, Pooled
<1>4. ASSUME NEW t \in Threads, Call(t) PROVE OneOwner'
  BY <1>4 DEF Call, OneOwner, Pooled
<1>5. ASSUME NEW t \in Threads, Pop(t) PROVE OneOwner'
  <2>1. /\ Back(connection_pool) \in Pooled /\ Back(connection_pool) \in Handles
        /\ Elems(connection_pool') = Pooled \ {Back(connection_pool)}
        /\ NoDup(connection_pool')
    BY <1>5, FrontElems DEF Pop, OneOwner, Pooled
  <2> QED
    BY <1>5, <2>1 DEF Pop, OneOwner, Pooled
<1>6. ASSUME NEW t \in Threads, Sleep(t) PROVE OneOwner'
  BY <1>6 DEF Sleep, OneOwner, Pooled
<1>7. ASSUME NEW t \in Threads, TimeOut(t) PROVE OneOwner'
  BY <1>7 DEF TimeOut, OneOwner, Pooled
<1>8. ASSUME NEW t \in Threads, Deadline(t) PROVE OneOwner'
  BY <1>8 DEF Deadline, OneOwner, Pooled
<1>9. ASSUME NEW t \in Threads, SpuriousWakeup(t) PROVE OneOwner'
  BY <1>9 DEF SpuriousWakeup, OneOwner, Pooled
<1>10. ASSUME NEW t \in Threads, PingOk(t) PROVE OneOwner'
  BY <1>10 DEF PingOk, OneOwner, Pooled
<1>11. ASSUME NEW t \in Threads, PingFail(t) PROVE OneOwner'
  BY <1>11 DEF PingFail, OneOwner, Pooled
<1>12. ASSUME NEW t \in Threads, Reconnect(t) PROVE OneOwner'
  BY <1>12 DEF Reconnect, CreateConnection, OneOwner, Pooled
<1>13. ASSUME NEW t \in Threads, Release(t) PROVE OneOwner'
  <2>1. conn[t] \in Handles /\ conn[t] # NONE
    BY <1>13 DEF Release
  <2>2. Elems(connection_pool') = Pooled \union {conn[t]}
        /\ NoDup(connection_pool')
    BY <1>13, <2>1, AppendElems DEF Release, OneOwner, Pooled
  <2> QED
    BY <1>13, <2>1, <2>2 DEF Release, OneOwner, Pooled
<1>14. CASE HealerTick
  BY <1>14 DEF HealerTick, OneOwner, Pooled
<1>15. CASE HealerCheck
  BY <1>15 DEF HealerCheck, OneOwner, Pooled
<1>16. CASE HealerCreate
  BY <1>16 DEF HealerCreate, CreateConnection, OneOwner, Pooled
<1>17. CASE HealerAdd
  <2>1. healer_conn \in Handles /\ healer_conn # NONE
    BY <1>17 DEF HealerAdd
  <2>2. Elems(connection_pool') = Pooled \union {healer_conn}
        /\ NoDup(connection_pool')
    BY <1>17, <2>1, AppendElems DEF HealerAdd, OneOwner, Pooled
  <2> QED
    BY <1>17, <2>1, <2>2 DEF HealerAdd, OneOwner, Pooled
<1>18. CASE RequestStop
  BY <1>18 DEF RequestStop, OneOwner, Pooled
<1>19. CASE DestroyPool
  <2>1. /\ connection_pool' = <<>>
        /\ healer_conn' = NONE
        /\ \A u \in Threads : conn'[u] = NONE
    BY <1>19 DEF DestroyPool
  <2>2. NoDup(connection_pool') /\ Elems(connection_pool') = {}
    BY <2>1 DEF NoDup, Elems
  <2> QED
    BY <2>1, <2>2 DEF OneOwner, Pooled
<1>20. CASE DbChange
  BY <1>20 DEF DbChange, OneOwner, Pooled
<1>21. CASE UNCHANGED vars
  BY <1>21 DEF vars, OneOwner, Pooled
<1> QED
  BY <1>1, <1>2, <1>3, <1>4, <1>5, <1>6, <1>7, <1>8, <1>9, <1>10, <1>11, <1>12,
     <1>13, <1>14, <1>15, <1>16, <1>17, <1>18, <1>19, <1>20, <1>21
     DEF Next, ThreadNext, HealerNext

-----------------------------------------------------------------------------
(* NothingLeaks *)

\* Whoever lets go of a handle has closed it or put it into the pool.
LEMMA LeakStep == IInv /\ [Next]_vars => NothingLeaks'
<1> SUFFICES ASSUME IInv, [Next]_vars PROVE NothingLeaks'
  OBVIOUS
<1> USE ThreadsAssumption, HandlesAssumption, SizeAssumption
    DEF IInv, TypeOK, Control, threadVars, healerVars
<1>1. CASE FirstUse
  BY <1>1 DEF FirstUse, NothingLeaks, Pooled
<1>2. CASE InitConnect
  <2>1. PICK h \in Handles \union {NONE} :
          /\ CreateConnection(h)
          /\ \/ h # NONE /\ connection_pool' = Append(connection_pool, h)
             \/ h = NONE /\ UNCHANGED connection_pool
    BY <1>2 DEF InitConnect
  <2>2. CASE h # NONE
    <3>1. h \in Handles /\ open' = open \union {h}
          /\ connection_pool' = Append(connection_pool, h)
      BY <2>1, <2>2 DEF CreateConnection
    <3>2. Elems(connection_pool') = Elems(connection_pool) \union {h}
      BY <3>1, AppendElems
    <3> QED
      BY <1>2, <3>1, <3>2 DEF InitConnect, NothingLeaks, Pooled
  <2>3. CASE h = NONE
    BY <1>2, <2>1, <2>3 DEF InitConnect, CreateConnection, NothingLeaks, Pooled
  <2> QED
    BY <2>2, <2>3
<1>3. CASE InitDone
  BY <1>3 DEF InitDone, NothingLeaks, Pooled
<1>4. ASSUME NEW t \in Threads, Call(t) PROVE NothingLeaks'
  BY <1>4 DEF Call, NothingLeaks, Pooled
<1>5. ASSUME NEW t \in Threads, Pop(t) PROVE NothingLeaks'
  <2>1. Elems(connection_pool') = Pooled \ {Back(connection_pool)}
    BY <1>5, FrontElems DEF Pop, OneOwner, Pooled
  <2>2. conn[t] = NONE /\ conn'[t] = Back(connection_pool)
    BY <1>5 DEF Pop
  <2> QED
    BY <1>5, <2>1, <2>2 DEF Pop, NothingLeaks, Pooled
<1>6. ASSUME NEW t \in Threads, Sleep(t) PROVE NothingLeaks'
  BY <1>6 DEF Sleep, NothingLeaks, Pooled
<1>7. ASSUME NEW t \in Threads, TimeOut(t) PROVE NothingLeaks'
  BY <1>7 DEF TimeOut, NothingLeaks, Pooled
<1>8. ASSUME NEW t \in Threads, Deadline(t) PROVE NothingLeaks'
  BY <1>8 DEF Deadline, NothingLeaks, Pooled
<1>9. ASSUME NEW t \in Threads, SpuriousWakeup(t) PROVE NothingLeaks'
  BY <1>9 DEF SpuriousWakeup, NothingLeaks, Pooled
<1>10. ASSUME NEW t \in Threads, PingOk(t) PROVE NothingLeaks'
  BY <1>10 DEF PingOk, NothingLeaks, Pooled
<1>11. ASSUME NEW t \in Threads, PingFail(t) PROVE NothingLeaks'
  BY <1>11 DEF PingFail, NothingLeaks, Pooled
<1>12. ASSUME NEW t \in Threads, Reconnect(t) PROVE NothingLeaks'
  BY <1>12 DEF Reconnect, CreateConnection, NothingLeaks, Pooled
<1>13. ASSUME NEW t \in Threads, Release(t) PROVE NothingLeaks'
  <2>1. conn[t] \in Handles
    BY <1>13 DEF Release
  <2>2. Elems(connection_pool') = Pooled \union {conn[t]}
    BY <1>13, <2>1, AppendElems DEF Release, Pooled
  <2> QED
    BY <1>13, <2>1, <2>2 DEF Release, NothingLeaks, Pooled
<1>14. CASE HealerTick
  BY <1>14 DEF HealerTick, NothingLeaks, Pooled
<1>15. CASE HealerCheck
  BY <1>15 DEF HealerCheck, NothingLeaks, Pooled
<1>16. CASE HealerCreate
  BY <1>16 DEF HealerCreate, CreateConnection, NothingLeaks, Pooled
<1>17. CASE HealerAdd
  <2>1. healer_conn \in Handles
    BY <1>17 DEF HealerAdd
  <2>2. Elems(connection_pool') = Pooled \union {healer_conn}
    BY <1>17, <2>1, AppendElems DEF HealerAdd, Pooled
  <2> QED
    BY <1>17, <2>1, <2>2 DEF HealerAdd, NothingLeaks, Pooled
<1>18. CASE RequestStop
  BY <1>18 DEF RequestStop, NothingLeaks, Pooled
<1>19. CASE DestroyPool
  <2>1. \A h \in open : h \in Elems(connection_pool)
    BY <1>19 DEF DestroyPool, NothingLeaks, Pooled
  <2> QED
    BY <1>19, <2>1 DEF DestroyPool, NothingLeaks
<1>20. CASE DbChange
  BY <1>20 DEF DbChange, NothingLeaks, Pooled
<1>21. CASE UNCHANGED vars
  BY <1>21 DEF vars, NothingLeaks, Pooled
<1> QED
  BY <1>1, <1>2, <1>3, <1>4, <1>5, <1>6, <1>7, <1>8, <1>9, <1>10, <1>11, <1>12,
     <1>13, <1>14, <1>15, <1>16, <1>17, <1>18, <1>19, <1>20, <1>21
     DEF Next, ThreadNext, HealerNext

-----------------------------------------------------------------------------
(* NoLostWakeup *)

\* notify_one together with push_back: one more connection in the pool, and
\* one more thread coming for it if any sleeps on.
LEMMA NotifyCounts ==
  ASSUME IInv, NEW q \in [Threads -> PCs], NotifyOne(q),
         {t \in Threads : q[t] = "woken"} = Woken,
         Sleepers(q) = Sleepers(pc),
         NEW h \in Handles, connection_pool' = Append(connection_pool, h)
  PROVE  NoLostWakeup'
<1> USE ThreadsAssumption DEF IInv, TypeOK
<1>a. Len(connection_pool) \in Nat
  BY LenProperties
<1>b. IsFiniteSet(Woken) /\ Cardinality(Woken) \in Nat
  BY FS_Subset, FS_CardinalityType DEF Woken
<1>1. CASE Sleepers(q) = {} /\ pc' = q
  BY <1>1 DEF NoLostWakeup, Sleepers
<1>2. CASE \E w \in Sleepers(q) : pc' = [q EXCEPT ![w] = "woken"]
  <2>1. PICK w \in Sleepers(q) : pc' = [q EXCEPT ![w] = "woken"]
    BY <1>2
  <2>2. Woken' = Woken \union {w} /\ w \notin Woken
    BY <2>1 DEF Woken, Sleepers
  <2>3. Cardinality(Woken') = Cardinality(Woken) + 1
    BY <1>b, <2>2, FS_AddElement
  <2>4. Len(connection_pool') = Len(connection_pool) + 1
    BY AppendElems
  <2>5. Len(connection_pool) <= Cardinality(Woken)
    BY <2>1 DEF NoLostWakeup
  <2> QED
    BY <1>a, <1>b, <2>3, <2>4, <2>5 DEF NoLostWakeup
<1> QED
  BY <1>1, <1>2 DEF NotifyOne

\* Each push wakes a sleeper, each pop is made by one who was awake.
LEMMA WakeupStep == IInv /\ [Next]_vars => NoLostWakeup'
<1> SUFFICES ASSUME IInv, [Next]_vars PROVE NoLostWakeup'
  OBVIOUS
<1> USE ThreadsAssumption, HandlesAssumption, SizeAssumption
    DEF IInv, TypeOK, threadVars, healerVars
<1>a. Len(connection_pool) \in Nat
  BY LenProperties
<1>b. IsFiniteSet(Woken) /\ Cardinality(Woken) \in Nat
  BY FS_Subset, FS_CardinalityType DEF Woken
<1>c. pc \in [Threads -> PCs]
  BY DEF PCs
<1>1. CASE FirstUse
  BY <1>1 DEF FirstUse, Control, NoLostWakeup, Sleepers
<1>2. CASE InitConnect
  BY <1>2 DEF InitConnect, Control, NoLostWakeup, Sleepers
<1>3. CASE InitDone
  BY <1>3 DEF InitDone, Control, NoLostWakeup, Sleepers
<1>4. ASSUME NEW t \in Threads, Call(t) PROVE NoLostWakeup'
  BY <1>4 DEF Call, NoLostWakeup, Sleepers, Woken
<1>5. ASSUME NEW t \in Threads, Pop(t) PROVE NoLostWakeup'
  <2>1. Len(connection_pool') = Len(connection_pool) - 1
    BY <1>5, FrontElems DEF Pop, OneOwner
  <2>2. Sleepers(pc)' = Sleepers(pc) /\ Woken' = Woken \ {t}
    BY <1>5 DEF Pop, Sleepers, Woken
  <2>3. Cardinality(Woken') \in Nat /\ Cardinality(Woken) - 1 <= Cardinality(Woken')
    BY <1>b, <2>2, CardinalityRemove
  <2> QED
    BY <1>a, <1>b, <2>1, <2>2, <2>3 DEF NoLostWakeup
<1>6. ASSUME NEW t \in Threads, Sleep(t) PROVE NoLostWakeup'
  <2>1. Len(connection_pool') = 0
    BY <1>6, EmptySeq DEF Sleep
  <2>2. Cardinality(Woken') \in Nat
    BY TypeStep, FS_Subset, FS_CardinalityType DEF Woken
  <2> QED
    BY <2>1, <2>2 DEF NoLostWakeup
<1>7. ASSUME NEW t \in Threads, TimeOut(t) PROVE NoLostWakeup'
  <2>1. Len(connection_pool') = 0
    BY <1>7, EmptySeq DEF TimeOut
  <2>2. Cardinality(Woken') \in Nat
    BY TypeStep, FS_Subset, FS_CardinalityType DEF Woken
  <2> QED
    BY <2>1, <2>2 DEF NoLostWakeup
<1>8. ASSUME NEW t \in Threads, Deadline(t) PROVE NoLostWakeup'
  <2>1. Woken' = Woken \union {t} /\ Sleepers(pc)' \subseteq Sleepers(pc)
    BY <1>8 DEF Deadline, Woken, Sleepers
  <2>2. Cardinality(Woken') \in Nat /\ Cardinality(Woken) <= Cardinality(Woken')
    BY <1>b, <2>1, CardinalityAdd
  <2>3. Len(connection_pool') = Len(connection_pool)
    BY <1>8 DEF Deadline
  <2>4. Sleepers(pc)' # {} => Sleepers(pc) # {}
    BY <2>1
  <2> QED
    BY <1>a, <1>b, <2>2, <2>3, <2>4 DEF NoLostWakeup
<1>9. ASSUME NEW t \in Threads, SpuriousWakeup(t) PROVE NoLostWakeup'
  <2>1. Woken' = Woken \union {t} /\ Sleepers(pc)' \subseteq Sleepers(pc)
    BY <1>9 DEF SpuriousWakeup, Woken, Sleepers
  <2>2. Cardinality(Woken') \in Nat /\ Cardinality(Woken) <= Cardinality(Woken')
    BY <1>b, <2>1, CardinalityAdd
  <2>3. Len(connection_pool') = Len(connection_pool)
    BY <1>9 DEF SpuriousWakeup
  <2>4. Sleepers(pc)' # {} => Sleepers(pc) # {}
    BY <2>1
  <2> QED
    BY <1>a, <1>b, <2>2, <2>3, <2>4 DEF NoLostWakeup
<1>10. ASSUME NEW t \in Threads, PingOk(t) PROVE NoLostWakeup'
  BY <1>10 DEF PingOk, NoLostWakeup, Sleepers, Woken
<1>11. ASSUME NEW t \in Threads, PingFail(t) PROVE NoLostWakeup'
  BY <1>11 DEF PingFail, NoLostWakeup, Sleepers, Woken
<1>12. ASSUME NEW t \in Threads, Reconnect(t) PROVE NoLostWakeup'
  <2>1. \/ pc' = [pc EXCEPT ![t] = "using"]
        \/ pc' = [pc EXCEPT ![t] = "idle"]
    BY <1>12 DEF Reconnect
  <2>2. Sleepers(pc)' = Sleepers(pc) /\ Woken' = Woken
    BY <1>12, <2>1 DEF Reconnect, Sleepers, Woken
  <2>3. connection_pool' = connection_pool
    BY <1>12 DEF Reconnect
  <2> QED
    BY <2>2, <2>3 DEF NoLostWakeup
<1>13. ASSUME NEW t \in Threads, Release(t) PROVE NoLostWakeup'
  <2>1. conn[t] \in Handles
    BY <1>13 DEF Release, Control
  <2> DEFINE q == [pc EXCEPT ![t] = "idle"]
  <2>2. q \in [Threads -> PCs]
    BY <1>c DEF PCs
  <2>3. {u \in Threads : q[u] = "woken"} = Woken /\ Sleepers(q) = Sleepers(pc)
    BY <1>13 DEF Release, Woken, Sleepers
  <2>4. NotifyOne(q) /\ connection_pool' = Append(connection_pool, conn[t])
    BY <1>13 DEF Release
  <2> HIDE DEF q
  <2> QED
    BY <2>1, <2>2, <2>3, <2>4, NotifyCounts
<1>14. CASE HealerTick
  BY <1>14 DEF HealerTick, NoLostWakeup, Sleepers, Woken
<1>15. CASE HealerCheck
  BY <1>15 DEF HealerCheck, NoLostWakeup, Sleepers, Woken
<1>16. CASE HealerCreate
  BY <1>16 DEF HealerCreate, NoLostWakeup, Sleepers, Woken
<1>17. CASE HealerAdd
  <2>1. healer_conn \in Handles
    BY <1>17 DEF HealerAdd, Control
  <2>2. NotifyOne(pc) /\ connection_pool' = Append(connection_pool, healer_conn)
    BY <1>17 DEF HealerAdd
  <2> QED
    BY <1>c, <2>1, <2>2, NotifyCounts DEF Woken
<1>18. CASE RequestStop
  BY <1>18 DEF RequestStop, Control, NoLostWakeup, Sleepers
<1>19. CASE DestroyPool
  BY <1>19 DEF DestroyPool, Control, NoLostWakeup, Sleepers
<1>20. CASE DbChange
  BY <1>20 DEF DbChange, NoLostWakeup, Sleepers, Woken
<1>21. CASE UNCHANGED vars
  BY <1>21 DEF vars, NoLostWakeup, Sleepers, Woken
<1> QED
  BY <1>1, <1>2, <1>3, <1>4, <1>5, <1>6, <1>7, <1>8, <1>9, <1>10, <1>11, <1>12,
     <1>13, <1>14, <1>15, <1>16, <1>17, <1>18, <1>19, <1>20, <1>21
     DEF Next, ThreadNext, HealerNext

-----------------------------------------------------------------------------
(* The theorems *)

\* The inductive invariant: what the theorems below follow from.
THEOREM Invariance == Spec => []IInv
<1>1. Init => IInv
  BY InitIInv
<1>2. IInv /\ [Next]_vars => IInv'
  BY TypeStep, ControlStep, AccountingStep, OwnerStep, LeakStep, WakeupStep
     DEF IInv
<1> QED
  BY <1>1, <1>2, PTL DEF Spec

\* Every variable keeps its type: in particular the size_t cur_conns, which
\* line 190 decrements without looking at it, never passes below zero.
THEOREM TypeCorrect == Spec => []TypeOK
<1>1. IInv => TypeOK
  BY DEF IInv
<1> QED
  BY <1>1, Invariance, PTL

\* cur_conns is the number of connections in the pool and with the callers,
\* for every number of threads and every order of their steps.
THEOREM AccountingHolds == Spec => []Accounting
<1>1. IInv => Accounting
  BY DEF IInv
<1> QED
  BY <1>1, Invariance, PTL

\* No MYSQL* is ever in two places, and nothing closed is pooled or lent.
THEOREM OneOwnerHolds == Spec => []OneOwner
<1>1. IInv => OneOwner
  BY DEF IInv
<1> QED
  BY <1>1, Invariance, PTL

\* No open connection is ever forgotten by the pool, its callers and the healer.
THEOREM NothingLeaksHolds == Spec => []NothingLeaks
<1>1. IInv => NothingLeaks
  BY DEF IInv
<1> QED
  BY <1>1, Invariance, PTL

\* A thread never sleeps on pool_cv while a connection that no other thread is
\* coming for lies in the pool.
THEOREM NoLostWakeupHolds == Spec => []NoLostWakeup
<1>1. IInv => NoLostWakeup
  BY DEF IInv
<1> QED
  BY <1>1, Invariance, PTL

-----------------------------------------------------------------------------
(* NeverTooMany: how many handles can be open *)

\* A sequence has at most as many elements as positions.
LEMMA ElemsCardinality ==
  ASSUME NEW S, NEW s \in Seq(S)
  PROVE  /\ IsFiniteSet(Elems(s))
         /\ Cardinality(Elems(s)) \in Nat
         /\ Cardinality(Elems(s)) <= Len(s)
<1> PICK n \in Nat : n = Len(s)
  BY LenProperties
<1>1. IsFiniteSet(1 .. n) /\ Cardinality(1 .. n) = n
  <2>1. IsFiniteSet(1 .. n)
        /\ Cardinality(1 .. n) = IF 1 > n THEN 0 ELSE n - 1 + 1
    <3>1. 1 \in Int /\ n \in Int
      OBVIOUS
    <3> QED
      BY <3>1, FS_Interval, Zenon
  <2>2. 1 > n => n = 0
    OBVIOUS
  <2>3. n - 1 + 1 = n
    OBVIOUS
  <2> QED
    BY <2>1, <2>2, <2>3, Zenon
<1>2. \A i \in 1 .. n : s[i] \in S
  BY ElementOfSeq
<1> DEFINE f == [i \in 1 .. n |-> s[i]]
<1>3. f \in Surjection(1 .. n, Elems(s))
  BY <1>2 DEF Surjection, Elems
<1> HIDE DEF f
<1>4. IsFiniteSet(Elems(s)) /\ Cardinality(Elems(s)) <= n
  BY <1>1, <1>3, FS_Surjection
<1> QED
  BY <1>4, FS_CardinalityType

\* A set of threads has at most as many handles in its hands as members.
LEMMA HeldCardinality ==
  ASSUME NEW T, IsFiniteSet(T), NEW g
  PROVE  /\ IsFiniteSet({g[t] : t \in T})
         /\ Cardinality({g[t] : t \in T}) \in Nat
         /\ Cardinality({g[t] : t \in T}) <= Cardinality(T)
<1> DEFINE f == [t \in T |-> g[t]]
           R == {g[t] : t \in T}
<1>1. f \in Surjection(T, R)
  BY DEF Surjection
<1> HIDE DEF f, R
<1>2. IsFiniteSet(R) /\ Cardinality(R) <= Cardinality(T)
  BY <1>1, FS_Surjection
<1>3. Cardinality(R) \in Nat
  BY <1>2, FS_CardinalityType
<1> QED
  BY <1>2, <1>3 DEF R

\* Two sets together have at most as many elements as both have.
LEMMA UnionCardinality ==
  ASSUME NEW S, NEW T, IsFiniteSet(S), IsFiniteSet(T)
  PROVE  /\ IsFiniteSet(S \union T)
         /\ Cardinality(S \union T) \in Nat
         /\ Cardinality(S \union T) <= Cardinality(S) + Cardinality(T)
<1>1. /\ IsFiniteSet(S \union T)
      /\ Cardinality(S \union T) =
           Cardinality(S) + Cardinality(T) - Cardinality(S \cap T)
  BY FS_Union
<1>2. IsFiniteSet(S \cap T)
  BY FS_Intersection
<1>3. /\ Cardinality(S \union T) \in Nat /\ Cardinality(S \cap T) \in Nat
      /\ Cardinality(S) \in Nat /\ Cardinality(T) \in Nat
  BY <1>1, <1>2, FS_CardinalityType
<1> QED
  BY <1>1, <1>3

\* The open handles are those of the pool, of its borrowers and of the healer:
\* the healer adds one to cur_conns of them only while cur_conns < POOL_SIZE.
LEMMA OpenBound == IInv => Cardinality(open) <= POOL_SIZE
<1> SUFFICES ASSUME IInv PROVE Cardinality(open) <= POOL_SIZE
  OBVIOUS
<1> USE ThreadsAssumption, HandlesAssumption, SizeAssumption DEF IInv, TypeOK
<1> DEFINE Lent == {t \in Threads : conn[t] # NONE}
           Held == {conn[t] : t \in Lent}
           Made == IF healer = "adding" THEN {healer_conn} ELSE {}
<1>1. open \subseteq (Pooled \union Held) \union Made
  BY DEF NothingLeaks, Control
<1>2. /\ IsFiniteSet(Pooled)
      /\ Cardinality(Pooled) \in Nat
      /\ Cardinality(Pooled) <= Len(connection_pool)
  BY ElemsCardinality DEF Pooled
<1>3. /\ IsFiniteSet(Lent) /\ IsFiniteSet(Borrowers)
      /\ Cardinality(Lent) \in Nat /\ Cardinality(Borrowers) \in Nat
      /\ Cardinality(Lent) <= Cardinality(Borrowers)
  <2>1. Lent \subseteq Borrowers
    BY DEF Control, Borrowers
  <2>2. IsFiniteSet(Borrowers)
    BY FS_Subset DEF Borrowers
  <2> HIDE DEF Lent
  <2> QED
    BY <2>1, <2>2, FS_Subset, FS_CardinalityType
<1>4. /\ IsFiniteSet(Held)
      /\ Cardinality(Held) \in Nat
      /\ Cardinality(Held) <= Cardinality(Lent)
  <2> HIDE DEF Lent
  <2> QED
    BY <1>3, HeldCardinality
<1>5. /\ IsFiniteSet(Made)
      /\ Cardinality(Made) \in Nat
      /\ healer = "adding" => Cardinality(Made) = 1
      /\ healer # "adding" => Cardinality(Made) = 0
  <2>1. CASE healer = "adding"
    <3>1. Made = {healer_conn}
      BY <2>1
    <3>2. IsFiniteSet(Made) /\ Cardinality(Made) = 1
      BY <3>1, FS_Singleton, Zenon
    <3> QED
      BY <2>1, <3>2
  <2>2. CASE healer # "adding"
    <3>1. Made = {}
      BY <2>2
    <3>2. IsFiniteSet(Made) /\ Cardinality(Made) = 0
      BY <3>1, FS_EmptySet, Zenon
    <3> QED
      BY <2>2, <3>2
  <2> QED
    BY <2>1, <2>2
<1> HIDE DEF Held, Made
<1>6. /\ IsFiniteSet((Pooled \union Held) \union Made)
      /\ Cardinality((Pooled \union Held) \union Made) \in Nat
      /\ Cardinality((Pooled \union Held) \union Made)
           <= Cardinality(Pooled \union Held) + Cardinality(Made)
      /\ Cardinality(Pooled \union Held) \in Nat
      /\ Cardinality(Pooled \union Held) <= Cardinality(Pooled) + Cardinality(Held)
  BY <1>2, <1>4, <1>5, UnionCardinality
<1>7. /\ Cardinality(open) \in Nat
      /\ Cardinality(open) <= Cardinality((Pooled \union Held) \union Made)
  BY <1>1, <1>6, FS_Subset, FS_CardinalityType
<1>8. Len(connection_pool) \in Nat
  BY LenProperties
<1>9. Len(connection_pool) + Cardinality(Lent) + Cardinality(Made) <= POOL_SIZE
  <2>1. CASE phase \in {"up", "stopping"}
    <3>1. cur_conns = Len(connection_pool) + Cardinality(Borrowers)
      BY <2>1 DEF Accounting
    <3>2. cur_conns + Cardinality(Made) <= POOL_SIZE
      BY <1>5 DEF Control
    <3> HIDE DEF Lent
    <3> QED
      BY <1>3, <1>5, <1>8, <3>1, <3>2
  <2>2. CASE phase \notin {"up", "stopping"}
    <3>1. Lent = {} /\ healer # "adding"
      BY <2>2 DEF Control
    <3>2. Cardinality(Lent) = 0
      BY <3>1, FS_EmptySet
    <3> HIDE DEF Lent
    <3> QED
      BY <1>5, <1>8, <3>1, <3>2 DEF Control
  <2> QED
    BY <2>1, <2>2
<1> HIDE DEF Lent
<1> QED
  BY <1>2, <1>3, <1>4, <1>5, <1>6, <1>7, <1>8, <1>9

\* The pool never counts, nor does the database ever see, more than pool_size
\* connections, although the healer checks and adds under different locks.
THEOREM NeverTooManyHolds == Spec => []NeverTooMany
<1>1. IInv => NeverTooMany
  BY OpenBound DEF IInv, Control, NeverTooMany
<1> QED
  BY <1>1, Invariance, PTL

-----------------------------------------------------------------------------
(* Refinement *)

\* What the abstract pool counts as held is what has left the concrete pool.
LEMMA HoldersAreBorrowers == Abstract!Holders = Borrowers
BY DEF Abstract!Holders, clientBar, Borrowers

\* ConnPool counts with its own instance of the standard module.
LEMMA SameCardinality ==
  \A S : Abstract!Cardinality(S) = Cardinality(S)
BY DEF Abstract!Cardinality, Cardinality

\* Every step of the pool is a step of ConnPool or changes nothing it can see.
LEMMA StepsRefine == IInv /\ [Next]_vars => [Abstract!Next]_(Abstract!vars)
<1> SUFFICES ASSUME IInv, [Next]_vars PROVE [Abstract!Next]_(Abstract!vars)
  OBVIOUS
<1> USE ThreadsAssumption, HandlesAssumption, SizeAssumption
    DEF IInv, TypeOK, threadVars, healerVars
<1>1. CASE FirstUse
  BY <1>1 DEF FirstUse, clientBar, Borrowers, Abstract!vars
<1>2. CASE InitConnect
  BY <1>2 DEF InitConnect, clientBar, Borrowers, Abstract!vars
<1>3. CASE InitDone
  <2>1. cur_conns = 0 /\ Abstract!Holders = {} /\ clientBar' = clientBar
    BY <1>3 DEF InitDone, Control, clientBar, Borrowers, Abstract!Holders
  <2>2. cur_conns' \in 0 .. POOL_SIZE
    BY <1>3, LenProperties DEF InitDone, Control
  <2> QED
    BY <2>1, <2>2 DEF Abstract!Open, Abstract!Next
<1>4. ASSUME NEW t \in Threads, Call(t) PROVE [Abstract!Next]_(Abstract!vars)
  <2>1. Abstract!Ask(t)
    BY <1>4 DEF Call, clientBar, Borrowers, Abstract!Ask
  <2> QED
    BY <2>1 DEF Abstract!Next
<1>5. ASSUME NEW t \in Threads, Pop(t) PROVE [Abstract!Next]_(Abstract!vars)
  <2>1. clientBar[t] = "asking" /\ clientBar' = [clientBar EXCEPT ![t] = "holding"]
    BY <1>5 DEF Pop, clientBar, Borrowers
  <2>2. Cardinality(Abstract!Holders) < cur_conns
    <3>1. Abstract!Holders = Borrowers
      BY HoldersAreBorrowers
    <3>2. phase = "up"
      BY <1>5 DEF Pop, Control
    <3>3. Len(connection_pool) \in Nat \ {0}
      BY <1>5, EmptySeq DEF Pop
    <3>4. Cardinality(Borrowers) \in Nat
      BY FS_Subset, FS_CardinalityType DEF Borrowers
    <3> QED
      BY <3>1, <3>2, <3>3, <3>4 DEF Accounting
  <2>3. UNCHANGED cur_conns
    BY <1>5 DEF Pop
  <2> QED
    BY <2>1, <2>2, <2>3, SameCardinality DEF Abstract!Grant, Abstract!Next
<1>6. ASSUME NEW t \in Threads, Sleep(t) PROVE [Abstract!Next]_(Abstract!vars)
  BY <1>6 DEF Sleep, clientBar, Borrowers, Abstract!vars
<1>7. ASSUME NEW t \in Threads, TimeOut(t) PROVE [Abstract!Next]_(Abstract!vars)
  <2>1. Abstract!Refuse(t)
    BY <1>7 DEF TimeOut, clientBar, Borrowers, Abstract!Refuse
  <2> QED
    BY <2>1 DEF Abstract!Next
<1>8. ASSUME NEW t \in Threads, Deadline(t) PROVE [Abstract!Next]_(Abstract!vars)
  BY <1>8 DEF Deadline, clientBar, Borrowers, Abstract!vars
<1>9. ASSUME NEW t \in Threads, SpuriousWakeup(t) PROVE [Abstract!Next]_(Abstract!vars)
  BY <1>9 DEF SpuriousWakeup, clientBar, Borrowers, Abstract!vars
<1>10. ASSUME NEW t \in Threads, PingOk(t) PROVE [Abstract!Next]_(Abstract!vars)
  BY <1>10 DEF PingOk, clientBar, Borrowers, Abstract!vars
<1>11. ASSUME NEW t \in Threads, PingFail(t) PROVE [Abstract!Next]_(Abstract!vars)
  BY <1>11 DEF PingFail, clientBar, Borrowers, Abstract!vars
<1>12. ASSUME NEW t \in Threads, Reconnect(t) PROVE [Abstract!Next]_(Abstract!vars)
  <2>1. CASE pc' = [pc EXCEPT ![t] = "using"] /\ UNCHANGED cur_conns
    BY <1>12, <2>1 DEF Reconnect, clientBar, Borrowers, Abstract!vars
  <2>2. CASE pc' = [pc EXCEPT ![t] = "idle"] /\ cur_conns' = cur_conns - 1
    <3>1. clientBar[t] = "holding" /\ clientBar' = [clientBar EXCEPT ![t] = "out"]
      BY <1>12, <2>2 DEF Reconnect, clientBar, Borrowers
    <3>2. cur_conns' \in Nat
      BY TypeStep
    <3>3. cur_conns > 0
      BY <2>2, <3>2
    <3> QED
      BY <2>2, <3>1, <3>3 DEF Abstract!Lose, Abstract!Next
  <2> QED
    BY <1>12, <2>1, <2>2 DEF Reconnect
<1>13. ASSUME NEW t \in Threads, Release(t) PROVE [Abstract!Next]_(Abstract!vars)
  <2>1. \A u \in Threads :
          pc'[u] = [pc EXCEPT ![t] = "idle"][u]
          \/ ([pc EXCEPT ![t] = "idle"][u] = "sleeping" /\ pc'[u] = "woken")
    BY <1>13, NotifyFacts, [pc EXCEPT ![t] = "idle"] \in [Threads -> PCs]
       DEF Release, PCs
  <2>2. clientBar[t] = "holding" /\ clientBar' = [clientBar EXCEPT ![t] = "out"]
    BY <1>13, <2>1 DEF Release, clientBar, Borrowers
  <2>3. UNCHANGED cur_conns
    BY <1>13 DEF Release
  <2> QED
    BY <2>2, <2>3 DEF Abstract!Return, Abstract!Next
<1>14. CASE HealerTick
  BY <1>14 DEF HealerTick, clientBar, Borrowers, Abstract!vars
<1>15. CASE HealerCheck
  BY <1>15 DEF HealerCheck, clientBar, Borrowers, Abstract!vars
<1>16. CASE HealerCreate
  BY <1>16 DEF HealerCreate, clientBar, Borrowers, Abstract!vars
<1>17. CASE HealerAdd
  <2>1. pc \in [Threads -> PCs]
    BY DEF PCs
  <2>2. \A u \in Threads :
          pc'[u] = pc[u] \/ (pc[u] = "sleeping" /\ pc'[u] = "woken")
    BY <1>17, <2>1, NotifyFacts DEF HealerAdd
  <2>3. clientBar' = clientBar
    BY <2>2 DEF clientBar, Borrowers
  <2>4. cur_conns < POOL_SIZE /\ cur_conns' = cur_conns + 1
    BY <1>17 DEF HealerAdd, Control
  <2> QED
    BY <2>3, <2>4 DEF Abstract!Heal, Abstract!Next
<1>18. CASE RequestStop
  BY <1>18 DEF RequestStop, clientBar, Borrowers, Abstract!vars
<1>19. CASE DestroyPool
  BY <1>19 DEF DestroyPool, clientBar, Borrowers, Abstract!vars
<1>20. CASE DbChange
  BY <1>20 DEF DbChange, clientBar, Borrowers, Abstract!vars
<1>21. CASE UNCHANGED vars
  BY <1>21 DEF vars, clientBar, Borrowers, Abstract!vars
<1> QED
  BY <1>1, <1>2, <1>3, <1>4, <1>5, <1>6, <1>7, <1>8, <1>9, <1>10, <1>11, <1>12,
     <1>13, <1>14, <1>15, <1>16, <1>17, <1>18, <1>19, <1>20, <1>21
     DEF Next, ThreadNext, HealerNext

\* The pool of db_manager.hpp implements the abstract pool: every connection it
\* hands out was free, and it holds between none and pool_size of them.
THEOREM Refinement == Spec => ImplementsConnPool
<1>1. Init => Abstract!Init
  BY DEF Init, clientBar, Abstract!Init
<1>2. IInv /\ [Next]_vars => [Abstract!Next]_(Abstract!vars)
  BY StepsRefine
<1> QED
  BY <1>1, <1>2, Invariance, PTL DEF Spec, Abstract!Spec, ImplementsConnPool

\* The count is exact and bounded.
THEOREM CapacityHolds == Spec => []Capacity
BY AccountingHolds, NeverTooManyHolds, PTL DEF Capacity

\* Every open connection is in exactly one place.
THEOREM OwnershipHolds == Spec => []Ownership
BY OneOwnerHolds, NothingLeaksHolds, PTL DEF Ownership

-----------------------------------------------------------------------------
(* Calls return, and the shutdown closes what was opened *)

\* Who sleeps has time left, the healer lives as long as the pool, and the
\* destructor leaves nothing in the pool.
SleepersHaveTime == \A t \in Threads : pc[t] = "sleeping" => ~expired[t]
HealerLives == phase = "up" => healer \in {"asleep", "checking", "creating", "adding"}
Emptied == phase = "destroyed" => connection_pool = <<>>

Timely == SleepersHaveTime /\ HealerLives /\ Emptied

\* A thread whose next step waits for nobody: it talks to the database, or it
\* can take the mutex, or it sleeps and its deadline is still to come.
Ready(t) ==
  \/ pc[t] \in {"pinging", "reconnecting"}
  \/ pc[t] \in {"entering", "woken"} /\ Free
  \/ pc[t] = "sleeping" /\ ~expired[t]

\* Nobody inside getConnection waits for ever: who cannot go on, waits for the
\* mutex, and the thread that has it can.
NobodyStuck ==
  \A t \in Threads : pc[t] \notin {"idle", "using"} =>
    Ready(t) \/ (pool_mutex \in Threads /\ Ready(pool_mutex))

\* The steps that a call has left once its deadline is over.
StepsLeft(t) ==
  CASE pc[t] \in {"entering", "sleeping", "woken"} -> 3
    [] pc[t] = "pinging" -> 2
    [] pc[t] = "reconnecting" -> 1
    [] OTHER -> 0

\* After its deadline a call of getConnection is at most three more steps of its
\* thread, whatever the other threads, the healer and the database do.
ReturnsAfterDeadline ==
  [][\A t \in Threads : (expired[t] /\ pc[t] \notin {"idle", "using"}) =>
       /\ expired'[t]
       /\ StepsLeft(t)' <= StepsLeft(t)
       /\ ThreadNext(t) => StepsLeft(t)' < StepsLeft(t)]_vars

\* A connection is given up only while the database does not answer: nothing
\* else lowers the count, and so the healer does not work in vain.
LostOnlyWhenDown == [][cur_conns' < cur_conns => ~dbUp]_vars

\* The destructor closes every handle, also one that the healer was making.
ClosedAtTheEnd == phase = "destroyed" => open = {}

LEMMA StagesOfSteps ==
  ASSUME NEW t \in Threads
  PROVE  /\ pc[t] \in {"entering", "sleeping", "woken"} => StepsLeft(t) = 3
         /\ pc[t] = "pinging" => StepsLeft(t) = 2
         /\ pc[t] = "reconnecting" => StepsLeft(t) = 1
         /\ pc[t] \in {"idle", "using"} => StepsLeft(t) = 0
BY DEF StepsLeft

LEMMA TimelyStep == IInv /\ Timely /\ [Next]_vars => Timely'
<1> SUFFICES ASSUME IInv, Timely, [Next]_vars
             PROVE  Timely'
  OBVIOUS
<1>1. TypeOK /\ Control
  BY DEF IInv
<1>2. SleepersHaveTime'
  <2>1. CASE UNCHANGED <<pc, expired>>
    BY <2>1 DEF Timely, SleepersHaveTime
  <2>2. ASSUME NEW t \in Threads, ThreadNext(t)
        PROVE  SleepersHaveTime'
    <3>1. CASE Call(t) \/ Pop(t) \/ TimeOut(t) \/ Deadline(t) \/ SpuriousWakeup(t) \/ PingOk(t)
               \/ PingFail(t)
      BY <1>1, <3>1
         DEF Call, Pop, TimeOut, Deadline, SpuriousWakeup, PingOk, PingFail, Timely,
             SleepersHaveTime, TypeOK
    <3>2. CASE Sleep(t)
      BY <1>1, <3>2 DEF Sleep, Timely, SleepersHaveTime, TypeOK
    <3>3. CASE Reconnect(t)
      BY <1>1, <3>3 DEF Reconnect, Timely, SleepersHaveTime, TypeOK
    <3>4. CASE Release(t)
      BY <1>1, <3>4 DEF Release, NotifyOne, Sleepers, Timely, SleepersHaveTime, TypeOK
    <3> QED
      BY <2>2, <3>1, <3>2, <3>3, <3>4 DEF ThreadNext
  <2>3. CASE HealerAdd
    BY <1>1, <2>3 DEF HealerAdd, NotifyOne, Sleepers, Timely, SleepersHaveTime, TypeOK
  <2> QED
    BY <2>1, <2>2, <2>3
       DEF Next, FirstUse, InitConnect, InitDone, HealerNext, HealerTick, HealerCheck,
           HealerCreate, RequestStop, DestroyPool, DbChange, vars, threadVars
<1>3. HealerLives'
  BY <1>1
     DEF Timely, HealerLives, Next, FirstUse, InitConnect, InitDone, HealerNext, HealerTick,
         HealerCheck, HealerCreate, HealerAdd, RequestStop, DestroyPool, DbChange, ThreadNext,
         Call, Pop, Sleep, TimeOut, Deadline, SpuriousWakeup, PingOk, PingFail, Reconnect,
         Release, vars, healerVars
<1>4. Emptied'
  <2> SUFFICES ASSUME phase' = "destroyed"
               PROVE  connection_pool' = <<>>
    BY DEF Emptied
  <2>1. CASE DestroyPool
    BY <2>1 DEF DestroyPool
  <2>2. CASE ~DestroyPool
    <3>1. phase = "destroyed"
      BY <2>2
         DEF Next, FirstUse, InitConnect, InitDone, HealerNext, HealerTick, HealerCheck,
             HealerCreate, HealerAdd, RequestStop, DbChange, ThreadNext, Call, Pop, Sleep,
             TimeOut, Deadline, SpuriousWakeup, PingOk, PingFail, Reconnect, Release, vars
    <3>2. connection_pool = <<>>
      BY <3>1 DEF Timely, Emptied
    <3>3. (\A t \in Threads : pc[t] = "idle") /\ healer \in {"unborn", "gone"}
      BY <1>1, <3>1 DEF Control, TypeOK
    <3> QED
      BY <2>2, <3>1, <3>2, <3>3
         DEF Next, FirstUse, InitConnect, InitDone, HealerNext, HealerTick, HealerCheck,
             HealerCreate, HealerAdd, RequestStop, DbChange, ThreadNext, Call, Pop, Sleep,
             TimeOut, Deadline, SpuriousWakeup, PingOk, PingFail, Reconnect, Release, vars
  <2> QED
    BY <2>1, <2>2
<1> QED
  BY <1>2, <1>3, <1>4 DEF Timely

\* This second layer needs the first, and the first does not need it.
LEMMA TimelyAlways == Spec => []Timely
<1>1. Init => Timely
  BY DEF Init, Timely, SleepersHaveTime, HealerLives, Emptied
<1> QED
  BY <1>1, TimelyStep, Invariance, PTL DEF Spec

\* There is no deadlock over the mutex of the pool, and nobody sleeps without a
\* deadline.
THEOREM NobodyStuckHolds == Spec => []NobodyStuck
<1>1. IInv /\ Timely => NobodyStuck
  <2> SUFFICES ASSUME IInv, Timely, NEW t \in Threads, pc[t] \notin {"idle", "using"}, ~Ready(t)
               PROVE  pool_mutex \in Threads /\ Ready(pool_mutex)
    BY DEF NobodyStuck
  <2>1. pc[t] \in {"entering", "woken"} /\ ~Free
    BY DEF IInv, TypeOK, Timely, SleepersHaveTime, Ready
  <2>2. PICK u \in Threads : u = pool_mutex
    BY <2>1 DEF IInv, TypeOK, Free
  <2>3. pc[u] \in {"pinging", "reconnecting"}
    BY <2>2 DEF IInv, Control
  <2> QED
    BY <2>2, <2>3 DEF Ready
<1> QED
  BY <1>1, Invariance, TimelyAlways, PTL

\* Past its deadline every call comes nearer to its end with each step.
THEOREM ReturnsAfterDeadlineHolds == Spec => ReturnsAfterDeadline
<1> DEFINE Nearer(t) ==
      (expired[t] /\ pc[t] \notin {"idle", "using"}) =>
        /\ expired'[t]
        /\ StepsLeft(t)' <= StepsLeft(t)
        /\ ThreadNext(t) => StepsLeft(t)' < StepsLeft(t)
<1>1. IInv /\ Timely /\ [Next]_vars => [\A t \in Threads : Nearer(t)]_vars
  <2> SUFFICES ASSUME IInv, Timely, Next, NEW t \in Threads,
                      expired[t], pc[t] \notin {"idle", "using"}
               PROVE  /\ expired'[t]
                      /\ StepsLeft(t)' <= StepsLeft(t)
                      /\ ThreadNext(t) => StepsLeft(t)' < StepsLeft(t)
    OBVIOUS
  <2>1. TypeOK /\ pc[t] # "sleeping"
    BY DEF IInv, Timely, SleepersHaveTime
  <2>2. StepsLeft(t) \in 0 .. 3
    BY <2>1, StagesOfSteps DEF TypeOK
  <2>3. /\ pc'[t] \in {"entering", "sleeping", "woken"} => StepsLeft(t)' = 3
        /\ pc'[t] = "pinging" => StepsLeft(t)' = 2
        /\ pc'[t] = "reconnecting" => StepsLeft(t)' = 1
        /\ pc'[t] \in {"idle", "using"} => StepsLeft(t)' = 0
    BY DEF StepsLeft
  <2>4. ASSUME ThreadNext(t)
        PROVE  expired'[t] /\ StepsLeft(t)' < StepsLeft(t)
    <3>1. CASE Pop(t) \/ TimeOut(t) \/ PingOk(t) \/ PingFail(t)
      BY <2>1, <2>3, <3>1, StagesOfSteps DEF Pop, TimeOut, PingOk, PingFail, TypeOK
    <3>2. CASE Reconnect(t)
      BY <2>1, <2>3, <3>2, StagesOfSteps DEF Reconnect, TypeOK
    <3> QED
      BY <2>1, <2>4, <3>1, <3>2 DEF ThreadNext, Call, Sleep, Deadline, SpuriousWakeup, Release
  <2>5. ASSUME ~ThreadNext(t)
        PROVE  expired'[t] /\ pc'[t] = pc[t]
    <3>1. ASSUME NEW u \in Threads, u # t, ThreadNext(u)
          PROVE  expired'[t] /\ pc'[t] = pc[t]
      <4>1. expired' = expired \/ \E b : expired' = [expired EXCEPT ![u] = b]
        BY <3>1
           DEF ThreadNext, Call, Pop, Sleep, TimeOut, Deadline, SpuriousWakeup, PingOk,
               PingFail, Reconnect, Release
      <4>2. CASE Release(u)
        BY <2>1, <3>1, <4>2 DEF Release, NotifyOne, Sleepers, TypeOK
      <4>3. CASE ~Release(u)
        <5>1. \E stage : pc' = [pc EXCEPT ![u] = stage]
          BY <3>1, <4>3
             DEF ThreadNext, Call, Pop, Sleep, TimeOut, Deadline, SpuriousWakeup, PingOk,
                 PingFail, Reconnect
        <5> QED
          BY <2>1, <3>1, <4>1, <5>1 DEF TypeOK
      <4> QED
        BY <4>2, <4>3
    <3>2. CASE HealerAdd
      BY <2>1, <3>2 DEF HealerAdd, NotifyOne, Sleepers, TypeOK
    <3> QED
      BY <2>5, <3>1, <3>2
         DEF Next, FirstUse, InitConnect, InitDone, HealerNext, HealerTick, HealerCheck,
             HealerCreate, RequestStop, DestroyPool, DbChange, threadVars
  <2>6. ASSUME pc'[t] = pc[t]
        PROVE  StepsLeft(t)' = StepsLeft(t)
    BY <2>6 DEF StepsLeft
  <2>7. StepsLeft(t)' \in 0 .. 3
    BY DEF StepsLeft
  <2> QED
    BY <2>2, <2>4, <2>5, <2>6, <2>7
<1> QED
  BY <1>1, Invariance, TimelyAlways, PTL DEF Spec, ReturnsAfterDeadline

\* While the database answers, the pool does not shrink.
THEOREM LostOnlyWhenDownHolds == Spec => LostOnlyWhenDown
<1>1. IInv /\ [Next]_vars => [cur_conns' < cur_conns => ~dbUp]_vars
  <2> SUFFICES ASSUME IInv, Next, cur_conns' < cur_conns
               PROVE  ~dbUp
    OBVIOUS
  <2>1. cur_conns \in Nat /\ Len(connection_pool) \in Nat
    BY LenProperties DEF IInv, TypeOK
  <2>2. CASE InitDone
    BY <2>1, <2>2 DEF InitDone, IInv, Control
  <2>3. ASSUME NEW t \in Threads, Reconnect(t)
        PROVE  ~dbUp
    BY <2>1, <2>3, HandlesAssumption DEF Reconnect, CreateConnection
  <2>4. ~HealerAdd
    BY <2>1 DEF HealerAdd
  <2>5. cur_conns' # cur_conns
    BY <2>1
  <2> QED
    BY <2>2, <2>3, <2>4, <2>5
       DEF Next, FirstUse, InitConnect, HealerNext, HealerTick, HealerCheck, HealerCreate,
           RequestStop, DestroyPool, DbChange, ThreadNext, Call, Pop, Sleep, TimeOut, Deadline,
           SpuriousWakeup, PingOk, PingFail, Release
<1> QED
  BY <1>1, Invariance, PTL DEF Spec, LostOnlyWhenDown

\* When the pool is destroyed no connection is open any more.
THEOREM ClosedAtTheEndHolds == Spec => []ClosedAtTheEnd
<1>1. IInv /\ Timely => ClosedAtTheEnd
  <2> SUFFICES ASSUME IInv, Timely, phase = "destroyed", NEW h \in open
               PROVE  FALSE
    BY DEF ClosedAtTheEnd
  <2>1. connection_pool = <<>>
    BY DEF Timely, Emptied
  <2>2. h \notin Pooled
    BY <2>1 DEF Pooled, Elems
  <2>3. \A t \in Threads : conn[t] = NONE
    BY DEF IInv, Control
  <2>4. healer_conn = NONE
    BY DEF IInv, Control
  <2>5. h # NONE
    BY HandlesAssumption DEF IInv, TypeOK
  <2> QED
    BY <2>2, <2>3, <2>4, <2>5 DEF IInv, NothingLeaks
<1> QED
  BY <1>1, Invariance, TimelyAlways, PTL
=============================================================================

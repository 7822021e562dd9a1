------------------------- MODULE ReverseProxy_proofs -------------------------
(***************************************************************************)
(* Proofs about ReverseProxy, for any number of sessions, descriptors and  *)
(* items.  DescInv relates the kernel's table of descriptors to the stages *)
(* of the handlers; from it follows that a running thread has the two      *)
(* connections of its own session.  StreamInv then follows the data.       *)
(***************************************************************************)
EXTENDS ReverseProxy, TLAPS

\* What a peer gets is what its partner sent, in order and from the start.
OwnData ==
  \A k \in Socks : \A i \in DOMAIN got[k] :
    got[k][i] = [from |-> Partner(k), n |-> i]

\* If neither connection breaks, an end of stream comes after all of the data:
\* no message is cut short and looks whole.
EndMeansComplete ==
  \A k \in shut :
    (/\ pc[k[1]] \in {"joining", "closing"}
     /\ peer[k] \in {"open", "finished"}
     /\ line[k] = "up" /\ line[Partner(k)] = "up")
      => Finished(Partner(k)) /\ Len(got[k]) = sent[Partner(k)]

\* The two threads of a session make it a faithful pair of streams, whichever
\* peer leaves first.
Relays == OwnData /\ EndMeansComplete

-----------------------------------------------------------------------------
(* The invariant *)

\* The stages in which a handler has the descriptor of a connection open.
Holding(k) ==
  IF k[2] = "client"
  THEN pc[k[1]] \in {"opening", "connecting", "starting", "joining", "closing"}
  ELSE \/ pc[k[1]] \in {"connecting", "starting", "joining"}
       \/ pc[k[1]] \in {"closing", "closing backend"} /\ fd[k] # 0

Held == \A k \in Socks : Holding(k) => fd[k] \in FDs /\ desc[fd[k]] = k

Accounted ==
  \A f \in FDs, k \in Socks : desc[f] = k => fd[k] = f /\ Holding(k)

NoBackendYet == \A s \in Sessions : pc[s] \in {"waiting", "opening"} => fd[Backend(s)] = 0

Running ==
  \A k \in Socks :
    /\ thread[k] \in {"recv", "send", "shut"} => pc[k[1]] = "joining"
    /\ pc[k[1]] \in {"waiting", "opening", "connecting", "starting"} => thread[k] = "none"

DescInv == Held /\ Accounted /\ NoBackendYet /\ Running

Reads(k) == peer[k] \in {"open", "finished"}
Pending(k) == IF thread[k] = "send" THEN 1 ELSE 0

\* What has been read is in the buffer or, if the receiver reads, has arrived.
Carried ==
  \A k \in Socks :
    /\ read[k] <= sent[k]
    /\ thread[k] = "send" => read[k] # 0 /\ buffer[k] = [from |-> k, n |-> read[k]]
    /\ (thread[k] \in {"none", "recv", "send"} /\ Reads(Partner(k)))
         => Len(got[Partner(k)]) + Pending(k) = read[k]

\* A thread that has left its loop, on connections that are up, has carried all.
Completed ==
  \A k \in Socks :
    (/\ thread[k] \in {"shut", "done"}
     /\ pc[k[1]] \in {"joining", "closing"}
     /\ Reads(Partner(k)) /\ line[Partner(k)] = "up" /\ line[k] = "up")
      => Finished(k) /\ Len(got[Partner(k)]) = sent[k]

ShutByPartner == \A k \in shut : k \in Socks /\ thread[Partner(k)] = "done"

StreamInv == Carried /\ Completed /\ ShutByPartner /\ OwnData

IInv == TypeOK /\ DescInv /\ StreamInv

-----------------------------------------------------------------------------
(* Connections and their names *)

LEMMA SockFacts ==
  ASSUME NEW k \in Socks
  PROVE  /\ k[1] \in Sessions
         /\ k[2] \in {"client", "backend"}
         /\ k = <<k[1], k[2]>>
         /\ Partner(k) \in Socks
         /\ Partner(k)[1] = k[1]
         /\ Partner(k)[2] # k[2]
         /\ Partner(k) # k
         /\ Partner(Partner(k)) = k
         /\ k # NONE
BY NoneAssumption DEF Socks, Partner, Client, Backend

LEMMA SideFacts ==
  ASSUME NEW s \in Sessions
  PROVE  /\ Client(s) \in Socks /\ Client(s)[1] = s /\ Client(s)[2] = "client"
         /\ Backend(s) \in Socks /\ Backend(s)[1] = s /\ Backend(s)[2] = "backend"
         /\ Client(s) # Backend(s)
BY DEF Socks, Client, Backend

LEMMA SockOfSession ==
  ASSUME NEW k \in Socks
  PROVE  /\ k[2] = "client" => k = Client(k[1])
         /\ k[2] = "backend" => k = Backend(k[1])
BY DEF Socks, Client, Backend

LEMMA DescriptorFacts == \A f \in FDs : f \in Nat /\ f # 0 /\ f \in 0 .. NFDS
BY BoundsAssumption DEF FDs

-----------------------------------------------------------------------------
(* The initial state, and the end of the process, which is like it *)

\* Nothing runs and nothing is open.
Nothing ==
  /\ pc = [s \in Sessions |-> "waiting"]
  /\ fd = [k \in Socks |-> 0]
  /\ desc = [f \in FDs |-> NONE]
  /\ thread = [k \in Socks |-> "none"]
  /\ buffer = [k \in Socks |-> NONE]
  /\ peer = [k \in Socks |-> "open"]
  /\ line = [k \in Socks |-> "up"]
  /\ shut = {}
  /\ sent = [k \in Socks |-> 0]
  /\ read = [k \in Socks |-> 0]
  /\ got = [k \in Socks |-> <<>>]
  /\ stalled = {}

MainOK == main \in {"starting", "accepting"} \union Over

LEMMA NothingIInv == Nothing /\ MainOK => IInv
<1> SUFFICES ASSUME Nothing, MainOK PROVE IInv
  OBVIOUS
<1>1. 0 \in 0 .. NFDS /\ 0 \in 0 .. MAX_SENT
  BY BoundsAssumption
<1>2. TypeOK
  <2>1. fd \in [Socks -> 0 .. NFDS] /\ sent \in [Socks -> 0 .. MAX_SENT]
        /\ read \in [Socks -> 0 .. MAX_SENT]
    BY <1>1 DEF Nothing
  <2>2. <<>> \in Seq(Items)
    OBVIOUS
  <2>3. got \in [Socks -> Seq(Items)]
    BY <2>2 DEF Nothing
  <2> QED
    BY <2>1, <2>3 DEF Nothing, TypeOK, MainOK
<1>3. \A k \in Socks : k[1] \in Sessions /\ pc[k[1]] = "waiting" /\ ~Holding(k)
  BY SockFacts DEF Nothing, Holding
<1>4. Held /\ Accounted
  BY <1>3, SockFacts DEF Nothing, Held, Accounted
<1>5. NoBackendYet /\ Running
  BY <1>3, SideFacts DEF Nothing, NoBackendYet, Running
<1>6. \A k \in Socks : Partner(k) \in Socks /\ Len(got[k]) = 0 /\ DOMAIN got[k] = {}
  BY SockFacts DEF Nothing
<1>7. Carried
  <2> SUFFICES ASSUME NEW k \in Socks
               PROVE  /\ read[k] = 0 /\ sent[k] = 0 /\ thread[k] = "none"
                      /\ Len(got[Partner(k)]) = 0 /\ Pending(k) = 0
    BY DEF Carried
  <2> QED
    BY <1>6 DEF Nothing, Pending
<1>8. Completed /\ ShutByPartner /\ OwnData
  BY <1>6 DEF Nothing, Completed, ShutByPartner, OwnData
<1> QED
  BY <1>2, <1>4, <1>5, <1>7, <1>8 DEF IInv, DescInv, StreamInv

LEMMA InitIInv == Init => IInv
BY NothingIInv DEF Init, Nothing, MainOK

LEMMA EndIInv ==
  ASSUME NEW how \in Over, End(how)
  PROVE  IInv'
<1>1. (Nothing /\ MainOK)' => IInv'
  BY NothingIInv, PTL
<1>2. (Nothing /\ MainOK)'
  BY DEF End, Nothing, MainOK
<1> QED
  BY <1>1, <1>2

-----------------------------------------------------------------------------
(* Descriptors *)

LEMMA OwnDescriptorsFollow == IInv => OwnDescriptors
<1> SUFFICES ASSUME IInv, NEW k \in Socks, thread[k] \in {"recv", "send", "shut"}
             PROVE  At(k) = k /\ At(Partner(k)) = Partner(k)
  BY DEF OwnDescriptors
<1>1. pc[k[1]] = "joining" /\ pc[Partner(k)[1]] = "joining" /\ Partner(k) \in Socks
  BY SockFacts DEF IInv, DescInv, Running
<1>2. Holding(k) /\ Holding(Partner(k))
  BY <1>1 DEF Holding
<1> QED
  BY <1>1, <1>2 DEF IInv, DescInv, Held, At

LEMMA NothingLeaksFollows == IInv => NothingLeaks
<1> SUFFICES ASSUME IInv, NEW f \in FDs, desc[f] # NONE
             PROVE  fd[desc[f]] = f /\ pc[desc[f][1]] # "done"
  BY DEF NothingLeaks
<1>1. PICK k \in Socks : k = desc[f]
  BY DEF IInv, TypeOK
<1>2. fd[k] = f /\ Holding(k)
  BY <1>1 DEF IInv, DescInv, Accounted
<1>3. pc[k[1]] # "done"
  BY <1>2 DEF Holding
<1> QED
  BY <1>1, <1>2, <1>3

\* Steps that leave the handlers and the table alone.
LEMMA DescStutter ==
  ASSUME DescInv, UNCHANGED <<pc, fd, desc>>, Running'
  PROVE  DescInv'
BY DEF DescInv, Held, Accounted, NoBackendYet, Holding

\* A new descriptor: no other connection has it, and this one had none.
LEMMA OpenDesc ==
  ASSUME TypeOK, DescInv, NEW k \in Socks, ~Holding(k), NEW f \in FDs, Open(k, f),
         NEW stage, pc' = [pc EXCEPT ![k[1]] = stage],
         \A j \in Socks \ {k} : Holding(j)' <=> Holding(j),
         Holding(k)', Running', NoBackendYet'
  PROVE  DescInv'
<1>1. desc[f] = NONE /\ desc' = [desc EXCEPT ![f] = k] /\ fd' = [fd EXCEPT ![k] = f]
  BY DEF Open, Free
<1>2. Held'
  <2> SUFFICES ASSUME NEW j \in Socks, Holding(j)'
               PROVE  fd'[j] \in FDs /\ desc'[fd'[j]] = j
    BY DEF Held
  <2>1. CASE j = k
    BY <1>1, <2>1 DEF TypeOK
  <2>2. CASE j # k
    <3>1. Holding(j) /\ fd[j] \in FDs /\ desc[fd[j]] = j /\ fd'[j] = fd[j]
      BY <1>1, <2>2 DEF DescInv, Held, TypeOK
    <3>2. fd[j] # f
      BY <1>1, <3>1, SockFacts
    <3> QED
      BY <1>1, <3>1, <3>2 DEF TypeOK
  <2> QED
    BY <2>1, <2>2
<1>3. Accounted'
  <2> SUFFICES ASSUME NEW g \in FDs, NEW j \in Socks, desc'[g] = j
               PROVE  fd'[j] = g /\ Holding(j)'
    BY DEF Accounted
  <2>1. CASE g = f
    BY <1>1, <2>1 DEF TypeOK
  <2>2. CASE g # f
    <3>1. desc[g] = j
      BY <1>1, <2>2 DEF TypeOK
    <3>2. fd[j] = g /\ Holding(j)
      BY <3>1 DEF DescInv, Accounted
    <3>3. fd'[j] = fd[j] /\ (Holding(j)' <=> Holding(j))
      BY <1>1, <3>2 DEF TypeOK
    <3> QED
      BY <3>2, <3>3
  <2> QED
    BY <2>1, <2>2
<1> QED
  BY <1>2, <1>3 DEF DescInv

\* A descriptor is closed: its connection is held no longer, all others are.
LEMMA CloseDesc ==
  ASSUME TypeOK, DescInv, NEW k \in Socks, Holding(k), Close(k), UNCHANGED fd,
         ~Holding(k)', \A j \in Socks \ {k} : Holding(j)' <=> Holding(j),
         Running', NoBackendYet'
  PROVE  DescInv'
<1>1. fd[k] \in FDs /\ desc[fd[k]] = k
  BY DEF DescInv, Held
<1>2. \A g \in FDs : desc'[g] = IF g = fd[k] THEN NONE ELSE desc[g]
  BY DEF Close
<1>3. Held'
  <2> SUFFICES ASSUME NEW j \in Socks, Holding(j)'
               PROVE  fd[j] \in FDs /\ desc'[fd[j]] = j
    BY DEF Held
  <2>1. j # k /\ fd[j] \in FDs /\ desc[fd[j]] = j
    BY DEF DescInv, Held
  <2>2. fd[j] # fd[k]
    BY <1>1, <2>1
  <2> QED
    BY <1>2, <2>1, <2>2
<1>4. Accounted'
  <2> SUFFICES ASSUME NEW g \in FDs, NEW j \in Socks, desc'[g] = j
               PROVE  fd[j] = g /\ Holding(j)'
    BY DEF Accounted
  <2>1. g # fd[k] /\ desc[g] = j
    BY <1>2, SockFacts
  <2>2. fd[j] = g /\ Holding(j)
    BY <2>1 DEF DescInv, Accounted
  <2> QED
    BY <2>1, <2>2
<1> QED
  BY <1>3, <1>4 DEF DescInv

\* A handler goes on and holds what it held.
LEMMA SameDesc ==
  ASSUME DescInv, UNCHANGED <<fd, desc>>,
         \A j \in Socks : Holding(j)' <=> Holding(j), Running', NoBackendYet'
  PROVE  DescInv'
<1>1. Held'
  BY DEF DescInv, Held
<1>2. Accounted'
  BY DEF DescInv, Accounted
<1> QED
  BY <1>1, <1>2 DEF DescInv

\* The stage of one handler says nothing about the connections of the others.
LEMMA OthersHold ==
  ASSUME TypeOK, NEW s \in Sessions, NEW stage, pc' = [pc EXCEPT ![s] = stage],
         NEW j \in Socks, j[1] # s, fd'[j] = fd[j]
  PROVE  Holding(j)' <=> Holding(j)
<1>1. j[1] \in Sessions /\ pc'[j[1]] = pc[j[1]]
  BY SockFacts DEF TypeOK
<1> QED
  BY <1>1 DEF Holding

LEMMA HandlerDesc ==
  ASSUME IInv, NEW s \in Sessions, Accept(s) \/ Handle(s)
  PROVE  DescInv'
<1> USE DEF IInv
<1>0. /\ Client(s) \in Socks /\ Client(s)[1] = s /\ Client(s)[2] = "client"
      /\ Backend(s) \in Socks /\ Backend(s)[1] = s /\ Backend(s)[2] = "backend"
      /\ Client(s) # Backend(s)
      /\ \A j \in Socks : j[1] \in Sessions
      /\ \A j \in Socks : j[1] = s => j = Client(s) \/ j = Backend(s)
  BY SideFacts, SockFacts, SockOfSession
<1>1. ASSUME NEW stage, pc' = [pc EXCEPT ![s] = stage], UNCHANGED thread,
             \/ pc[s] \in {"waiting", "opening", "connecting"}
                /\ stage \in {"opening", "connecting", "starting", "closing"}
             \/ pc[s] = "joining" /\ stage = "closing"
                /\ thread[Client(s)] = "done" /\ thread[Backend(s)] = "done"
             \/ pc[s] \in {"closing", "closing backend"}
                /\ stage \in {"closing backend", "done"}
      PROVE  Running'
  <2> SUFFICES ASSUME NEW k \in Socks
               PROVE  /\ thread[k] \in {"recv", "send", "shut"} => pc'[k[1]] = "joining"
                      /\ pc'[k[1]] \in {"waiting", "opening", "connecting", "starting"}
                           => thread[k] = "none"
    BY <1>1 DEF Running
  <2>1. CASE k[1] # s
    BY <1>0, <1>1, <2>1 DEF DescInv, Running, TypeOK
  <2>2. CASE k[1] = s
    <3>1. pc'[s] = stage
      BY <1>1 DEF TypeOK
    <3>2. CASE pc[s] \in {"waiting", "opening", "connecting"}
      BY <1>1, <2>2, <3>1, <3>2 DEF DescInv, Running
    <3>3. CASE pc[s] = "joining"
      BY <1>0, <1>1, <2>2, <3>1, <3>3 DEF DescInv, Running
    <3>4. CASE pc[s] \in {"closing", "closing backend"}
      BY <1>1, <2>2, <3>1, <3>4 DEF DescInv, Running
    <3> QED
      BY <1>1, <3>2, <3>3, <3>4
  <2> QED
    BY <2>1, <2>2
<1>2. ASSUME NEW stage, pc' = [pc EXCEPT ![s] = stage], UNCHANGED fd,
             stage \notin {"waiting", "opening"}
      PROVE  NoBackendYet'
  <2> SUFFICES ASSUME NEW t \in Sessions, pc'[t] \in {"waiting", "opening"}
               PROVE  fd[Backend(t)] = 0
    BY <1>2 DEF NoBackendYet
  <2>1. t # s /\ pc'[t] = pc[t]
    BY <1>2 DEF TypeOK
  <2> QED
    BY <2>1 DEF DescInv, NoBackendYet
<1>3. ASSUME NEW stage, pc' = [pc EXCEPT ![s] = stage], UNCHANGED <<fd, desc>>,
             Holding(Client(s))' <=> Holding(Client(s)),
             Holding(Backend(s))' <=> Holding(Backend(s)),
             Running', stage \notin {"waiting", "opening"}
      PROVE  DescInv'
  <2>1. ASSUME NEW j \in Socks
        PROVE  Holding(j)' <=> Holding(j)
    BY <1>0, <1>3, OthersHold
  <2> QED
    BY <1>2, <1>3, <2>1, SameDesc
<1>4. CASE Accept(s)
  <2>1. PICK f \in FDs : Open(Client(s), f)
    BY <1>4 DEF Accept
  <2>2. pc' = [pc EXCEPT ![s] = "opening"] /\ pc[s] = "waiting" /\ pc'[s] = "opening"
        /\ UNCHANGED thread
    BY <1>4 DEF Accept, threadVars, TypeOK
  <2>3. \A j \in Socks \ {Client(s)} : fd'[j] = fd[j]
    BY <2>1 DEF Open, TypeOK
  <2>4. ~Holding(Client(s)) /\ Holding(Client(s))'
    BY <1>0, <2>2 DEF Holding
  <2>5. ASSUME NEW j \in Socks \ {Client(s)}
        PROVE  Holding(j)' <=> Holding(j)
    <3>1. CASE j[1] # s
      BY <2>2, <2>3, <3>1, OthersHold
    <3>2. CASE j = Backend(s)
      BY <1>0, <2>2, <3>2 DEF Holding
    <3> QED
      BY <1>0, <3>1, <3>2
  <2>6. Running'
    BY <1>1, <2>2
  <2>7. NoBackendYet'
    <3> SUFFICES ASSUME NEW t \in Sessions, pc'[t] \in {"waiting", "opening"}
                 PROVE  fd'[Backend(t)] = 0
      BY DEF NoBackendYet
    <3>1. pc[t] \in {"waiting", "opening"}
      BY <2>2 DEF TypeOK
    <3>2. Backend(t) \in Socks \ {Client(s)}
      BY <1>0, SideFacts
    <3> QED
      BY <2>3, <3>1, <3>2 DEF DescInv, NoBackendYet
  <2> QED
    BY <1>0, <2>1, <2>2, <2>4, <2>5, <2>6, <2>7, OpenDesc
<1>5. CASE OpenBackend(s)
  <2>1. pc[s] = "opening" /\ UNCHANGED thread
    BY <1>5 DEF OpenBackend, threadVars
  <2>2. CASE (\E f \in FDs : Open(Backend(s), f)) /\ Goto(s, "connecting")
    <3>1. PICK f \in FDs : Open(Backend(s), f)
      BY <2>2
    <3>2. pc' = [pc EXCEPT ![s] = "connecting"] /\ pc'[s] = "connecting"
      BY <2>2 DEF Goto, TypeOK
    <3>3. \A j \in Socks \ {Backend(s)} : fd'[j] = fd[j]
      BY <3>1 DEF Open, TypeOK
    <3>4. ~Holding(Backend(s)) /\ Holding(Backend(s))'
      BY <1>0, <2>1, <3>2 DEF Holding
    <3>5. ASSUME NEW j \in Socks \ {Backend(s)}
          PROVE  Holding(j)' <=> Holding(j)
      <4>1. CASE j[1] # s
        BY <3>2, <3>3, <4>1, OthersHold
      <4>2. CASE j = Client(s)
        BY <1>0, <2>1, <3>2, <4>2 DEF Holding
      <4> QED
        BY <1>0, <4>1, <4>2
    <3>6. Running'
      BY <1>1, <2>1, <3>2
    <3>7. NoBackendYet'
      <4> SUFFICES ASSUME NEW t \in Sessions, pc'[t] \in {"waiting", "opening"}
                   PROVE  fd'[Backend(t)] = 0
        BY DEF NoBackendYet
      <4>1. t # s /\ pc[t] \in {"waiting", "opening"}
        BY <3>2 DEF TypeOK
      <4>2. Backend(t) \in Socks \ {Backend(s)}
        BY <1>0, <4>1, SideFacts
      <4> QED
        BY <3>3, <4>1, <4>2 DEF DescInv, NoBackendYet
    <3> QED
      BY <1>0, <3>1, <3>2, <3>4, <3>5, <3>6, <3>7, OpenDesc
  <2>3. CASE Goto(s, "closing") /\ UNCHANGED <<fd, desc>>
    <3>1. pc' = [pc EXCEPT ![s] = "closing"] /\ pc'[s] = "closing"
      BY <2>3 DEF Goto, TypeOK
    <3>2. fd[Backend(s)] = 0
      BY <2>1 DEF DescInv, NoBackendYet
    <3>3. Holding(Client(s))' <=> Holding(Client(s))
      BY <1>0, <2>1, <3>1 DEF Holding
    <3>4. Holding(Backend(s))' <=> Holding(Backend(s))
      BY <1>0, <2>1, <2>3, <3>1, <3>2 DEF Holding
    <3> QED
      BY <1>1, <1>3, <2>1, <2>3, <3>1, <3>3, <3>4
  <2> QED
    BY <1>5, <2>2, <2>3 DEF OpenBackend
<1>6. ASSUME pc[s] \in {"connecting", "starting", "joining"}
      PROVE  fd[Backend(s)] # 0
  BY <1>0, <1>6, DescriptorFacts DEF Holding, DescInv, Held
<1>7. CASE Connect(s) \/ Join(s)
  <2>1. PICK stage \in {"starting", "closing"} :
          /\ pc' = [pc EXCEPT ![s] = stage] /\ pc'[s] = stage
          /\ \/ pc[s] = "connecting"
             \/ pc[s] = "joining" /\ stage = "closing"
                /\ thread[Client(s)] = "done" /\ thread[Backend(s)] = "done"
    BY <1>7 DEF Connect, Join, Goto, TypeOK
  <2>2. UNCHANGED <<fd, desc, thread>>
    BY <1>7 DEF Connect, Join, threadVars
  <2>3. Holding(Client(s))' <=> Holding(Client(s))
    BY <1>0, <2>1 DEF Holding
  <2>4. Holding(Backend(s))' <=> Holding(Backend(s))
    BY <1>0, <1>6, <2>1, <2>2 DEF Holding
  <2> QED
    BY <1>1, <1>3, <2>1, <2>2, <2>3, <2>4
<1>8. CASE StartThreads(s)
  <2>1. pc' = [pc EXCEPT ![s] = "joining"] /\ pc'[s] = "joining" /\ pc[s] = "starting"
        /\ UNCHANGED <<fd, desc>>
        /\ thread' = [k \in Socks |-> IF k[1] = s THEN "recv" ELSE thread[k]]
    BY <1>8 DEF StartThreads, Goto, TypeOK
  <2>2. Running'
    BY <1>0, <2>1 DEF DescInv, Running, TypeOK
  <2>3. Holding(Client(s))' /\ Holding(Client(s)) /\ Holding(Backend(s))' /\ Holding(Backend(s))
    BY <1>0, <2>1 DEF Holding
  <2> QED
    BY <1>3, <2>1, <2>2, <2>3
<1>9. CASE CloseClient(s)
  <2>1. PICK stage \in {"done", "closing backend"} :
          /\ pc' = [pc EXCEPT ![s] = stage] /\ pc'[s] = stage
          /\ stage = "done" <=> fd[Backend(s)] = 0
    BY <1>9 DEF CloseClient, Goto, TypeOK
  <2>2. pc[s] = "closing" /\ Close(Client(s)) /\ UNCHANGED <<fd, thread>>
    BY <1>9 DEF CloseClient, threadVars
  <2>3. Holding(Client(s)) /\ ~Holding(Client(s))'
    BY <1>0, <2>1, <2>2 DEF Holding
  <2>4. Holding(Backend(s))' <=> Holding(Backend(s))
    BY <1>0, <2>1, <2>2 DEF Holding
  <2>5. ASSUME NEW j \in Socks \ {Client(s)}
        PROVE  Holding(j)' <=> Holding(j)
    BY <1>0, <2>1, <2>2, <2>4, OthersHold
  <2>6. Running' /\ NoBackendYet'
    BY <1>1, <1>2, <2>1, <2>2
  <2> QED
    BY <1>0, <2>2, <2>3, <2>5, <2>6, CloseDesc
<1>10. CASE CloseBackend(s)
  <2>1. pc' = [pc EXCEPT ![s] = "done"] /\ pc'[s] = "done"
        /\ pc[s] = "closing backend" /\ Close(Backend(s)) /\ UNCHANGED <<fd, thread>>
    BY <1>10 DEF CloseBackend, Goto, threadVars, TypeOK
  <2>2. ~Holding(Backend(s))' /\ ~Holding(Client(s)) /\ ~Holding(Client(s))'
    BY <1>0, <2>1 DEF Holding
  <2>3. Running' /\ NoBackendYet'
    BY <1>1, <1>2, <2>1
  <2>4. CASE fd[Backend(s)] = 0
    <3>1. desc' = desc
      BY <2>1, <2>4, DescriptorFacts DEF Close, TypeOK
    <3>2. ~Holding(Backend(s))
      BY <1>0, <2>1, <2>4 DEF Holding
    <3> QED
      BY <1>3, <2>1, <2>2, <2>3, <3>1, <3>2
  <2>5. CASE fd[Backend(s)] # 0
    <3>1. Holding(Backend(s))
      BY <1>0, <2>1, <2>5 DEF Holding
    <3>2. ASSUME NEW j \in Socks \ {Backend(s)}
          PROVE  Holding(j)' <=> Holding(j)
      BY <1>0, <2>1, <2>2, OthersHold
    <3> QED
      BY <1>0, <2>1, <2>2, <2>3, <3>1, <3>2, CloseDesc
  <2> QED
    BY <2>4, <2>5
<1> QED
  BY <1>4, <1>5, <1>7, <1>8, <1>9, <1>10 DEF Handle

-----------------------------------------------------------------------------
(* The steps of the handlers *)

\* The handlers do not touch the streams until they close the connections.
LEMMA StreamSame ==
  ASSUME StreamInv, UNCHANGED <<threadVars, tcpVars>>,
         \A k \in Socks :
           (thread[k] \in {"shut", "done"} /\ pc'[k[1]] \in {"joining", "closing"})
             => pc[k[1]] \in {"joining", "closing"}
  PROVE  StreamInv'
<1>1. Carried' /\ OwnData' /\ ShutByPartner'
  BY DEF StreamInv, Carried, OwnData, ShutByPartner, Pending, Reads, threadVars, tcpVars
<1>2. Completed'
  BY DEF StreamInv, Completed, Reads, Finished, threadVars, tcpVars
<1> QED
  BY <1>1, <1>2 DEF StreamInv

LEMMA HandlerType ==
  ASSUME TypeOK, NEW s \in Sessions, Accept(s) \/ Handle(s)
  PROVE  TypeOK'
<1>0. Client(s) \in Socks /\ Backend(s) \in Socks
  BY SideFacts
<1>1. ASSUME NEW k \in Socks, NEW f \in FDs, Open(k, f)
      PROVE  fd' \in [Socks -> 0 .. NFDS] /\ desc' \in [FDs -> Socks \union {NONE}]
  BY <1>1, DescriptorFacts DEF Open, TypeOK
<1>2. CASE Accept(s)
  <2>1. fd' \in [Socks -> 0 .. NFDS] /\ desc' \in [FDs -> Socks \union {NONE}]
    BY <1>0, <1>1, <1>2 DEF Accept
  <2> QED
    BY <1>2, <2>1 DEF Accept, TypeOK, threadVars, tcpVars
<1>3. CASE OpenBackend(s)
  <2>1. fd' \in [Socks -> 0 .. NFDS] /\ desc' \in [FDs -> Socks \union {NONE}]
    BY <1>0, <1>1, <1>3 DEF OpenBackend, TypeOK
  <2> QED
    BY <1>3, <2>1 DEF OpenBackend, Goto, TypeOK, threadVars, tcpVars
<1>4. CASE Connect(s) \/ Join(s)
  BY <1>4 DEF Connect, Join, Goto, TypeOK, threadVars, tcpVars
<1>5. CASE StartThreads(s)
  BY <1>5 DEF StartThreads, Goto, TypeOK, threadVars, tcpVars
<1>6. ASSUME NEW k \in Socks, Close(k)
      PROVE  desc' \in [FDs -> Socks \union {NONE}]
  BY <1>6 DEF Close, TypeOK
<1>7. CASE CloseClient(s)
  <2>1. desc' \in [FDs -> Socks \union {NONE}]
    BY <1>0, <1>6, <1>7 DEF CloseClient
  <2>2. 0 \in 0 .. MAX_SENT /\ <<>> \in Seq(Items)
    BY BoundsAssumption
  <2>3. /\ peer' \in [Socks -> {"open", "finished", "closed", "gone"}]
        /\ line' \in [Socks -> {"up", "reset", "pipe", "broken"}]
        /\ shut' \in SUBSET Socks /\ stalled' \in SUBSET Socks
    BY <1>7 DEF CloseClient, Forget, TypeOK
  <2>4. /\ sent' \in [Socks -> 0 .. MAX_SENT]
        /\ read' \in [Socks -> 0 .. MAX_SENT]
    BY <1>7, <2>2 DEF CloseClient, Forget, TypeOK
  <2>5. got' \in [Socks -> Seq(Items)]
    BY <1>7, <2>2 DEF CloseClient, Forget, TypeOK
  <2> QED
    BY <1>7, <2>1, <2>3, <2>4, <2>5 DEF CloseClient, Goto, TypeOK, threadVars
<1>8. CASE CloseBackend(s)
  <2>1. desc' \in [FDs -> Socks \union {NONE}]
    BY <1>0, <1>6, <1>8 DEF CloseBackend
  <2> QED
    BY <1>8, <2>1 DEF CloseBackend, Goto, TypeOK, threadVars, tcpVars
<1> QED
  BY <1>2, <1>3, <1>4, <1>5, <1>7, <1>8 DEF Handle

LEMMA HandlerStream ==
  ASSUME IInv, NEW s \in Sessions, Accept(s) \/ Handle(s)
  PROVE  StreamInv'
<1> USE DEF IInv
<1>0. \A k \in Socks : k[1] \in Sessions /\ Partner(k) \in Socks /\ Partner(k)[1] = k[1]
  BY SockFacts
<1>1. CASE Accept(s) \/ OpenBackend(s) \/ Connect(s) \/ Join(s) \/ CloseBackend(s)
  <2>1. PICK stage : pc' = [pc EXCEPT ![s] = stage]
    BY <1>1 DEF Accept, OpenBackend, Connect, Join, CloseBackend, Goto
  <2>2. pc[s] \in {"waiting", "opening", "connecting", "joining", "closing backend"}
        /\ (pc[s] = "closing backend" => stage = "done")
        /\ UNCHANGED <<threadVars, tcpVars>>
    BY <1>1, <2>1 DEF Accept, OpenBackend, Connect, Join, CloseBackend, Goto, TypeOK
  <2>3. ASSUME NEW k \in Socks, thread[k] \in {"shut", "done"},
               pc'[k[1]] \in {"joining", "closing"}
        PROVE  pc[k[1]] \in {"joining", "closing"}
    <3>1. CASE k[1] = s
      BY <2>1, <2>2, <2>3, <3>1 DEF DescInv, Running, TypeOK
    <3>2. CASE k[1] # s
      BY <1>0, <2>1, <2>3, <3>2 DEF TypeOK
    <3> QED
      BY <3>1, <3>2
  <2> QED
    BY <2>2, <2>3, StreamSame
<1>2. CASE StartThreads(s)
  <2>1. /\ pc[s] = "starting" /\ pc' = [pc EXCEPT ![s] = "joining"]
        /\ thread' = [k \in Socks |-> IF k[1] = s THEN "recv" ELSE thread[k]]
        /\ UNCHANGED <<buffer, peer, line, shut, sent, read, got, stalled>>
    BY <1>2 DEF StartThreads, Goto, tcpVars
  <2>2. \A k \in Socks : k[1] = s => thread[k] = "none"
    BY <2>1 DEF DescInv, Running
  <2>3. Carried'
    <3> SUFFICES ASSUME NEW k \in Socks
                 PROVE  /\ thread'[k] = "send" => thread[k] = "send"
                        /\ thread'[k] \in {"none", "recv", "send"}
                             => thread[k] \in {"none", "recv", "send"}
                        /\ Pending(k)' = Pending(k)
      BY <2>1 DEF StreamInv, Carried, Reads
    <3> QED
      BY <2>1, <2>2 DEF Pending
  <2>4. Completed'
    <3> SUFFICES ASSUME NEW k \in Socks, thread'[k] \in {"shut", "done"},
                        pc'[k[1]] \in {"joining", "closing"}
                 PROVE  thread[k] \in {"shut", "done"} /\ pc[k[1]] \in {"joining", "closing"}
      BY <2>1 DEF StreamInv, Completed, Reads, Finished
    <3> QED
      BY <1>0, <2>1 DEF TypeOK
  <2>5. ShutByPartner'
    BY <1>0, <2>1, <2>2 DEF StreamInv, ShutByPartner
  <2>6. OwnData'
    BY <2>1 DEF StreamInv, OwnData
  <2> QED
    BY <2>3, <2>4, <2>5, <2>6 DEF StreamInv
<1>3. CASE CloseClient(s)
  <2>1. pc[s] = "closing" /\ Forget(s) /\ UNCHANGED <<thread, buffer>>
        /\ \A k \in Socks : (k[1] # s => pc'[k[1]] = pc[k[1]])
                             /\ (k[1] = s => pc'[k[1]] \notin {"joining", "closing"})
    BY <1>0, <1>3 DEF CloseClient, Goto, threadVars, TypeOK
  <2>2. ASSUME NEW k \in Socks, k[1] = s
        PROVE  /\ read'[k] = 0 /\ sent'[k] = 0
               /\ got'[k] = <<>> /\ k \notin shut'
               /\ thread[k] \notin {"recv", "send", "shut"}
    BY <2>1, <2>2 DEF Forget, DescInv, Running
  <2>3. ASSUME NEW k \in Socks, k[1] # s
        PROVE  /\ read'[k] = read[k] /\ sent'[k] = sent[k] /\ got'[k] = got[k]
               /\ peer'[k] = peer[k] /\ line'[k] = line[k]
               /\ (k \in shut' <=> k \in shut)
    BY <2>1, <2>3 DEF Forget
  <2>4. Carried'
    <3> SUFFICES ASSUME NEW k \in Socks
                 PROVE  /\ read'[k] <= sent'[k]
                        /\ thread[k] # "send" \/ (read'[k] # 0 /\ buffer[k] = [from |-> k, n |-> read'[k]])
                        /\ (thread[k] \in {"none", "recv", "send"} /\ Reads(Partner(k))')
                             => Len(got'[Partner(k)]) + Pending(k) = read'[k]
      BY <2>1 DEF Carried, Pending
    <3>1. CASE k[1] = s
      <4>1. read'[k] = 0 /\ sent'[k] = 0 /\ thread[k] # "send" /\ Pending(k) = 0
        BY <2>2, <3>1 DEF Pending
      <4>2. got'[Partner(k)] = <<>> /\ Len(got'[Partner(k)]) = 0
        BY <1>0, <2>2, <3>1
      <4> QED
        BY <4>1, <4>2
    <3>2. CASE k[1] # s
      BY <1>0, <2>3, <3>2 DEF StreamInv, Carried, Reads
    <3> QED
      BY <3>1, <3>2
  <2>5. Completed'
    <3> SUFFICES ASSUME NEW k \in Socks, k[1] # s
                 PROVE  (/\ thread[k] \in {"shut", "done"}
                         /\ pc[k[1]] \in {"joining", "closing"}
                         /\ Reads(Partner(k))' /\ line'[Partner(k)] = "up" /\ line'[k] = "up")
                          => Finished(k)' /\ Len(got'[Partner(k)]) = sent'[k]
      BY <2>1 DEF Completed
    <3> QED
      BY <1>0, <2>3 DEF StreamInv, Completed, Reads, Finished
  <2>6. ShutByPartner'
    BY <2>1 DEF Forget, StreamInv, ShutByPartner
  <2>7. OwnData'
    <3> SUFFICES ASSUME NEW k \in Socks, NEW i \in DOMAIN got'[k]
                 PROVE  got'[k][i] = [from |-> Partner(k), n |-> i]
      BY DEF OwnData
    <3>1. k[1] # s
      BY <2>2
    <3> QED
      BY <2>3, <3>1 DEF StreamInv, OwnData
  <2> QED
    BY <2>4, <2>5, <2>6, <2>7 DEF StreamInv
<1> QED
  BY <1>1, <1>2, <1>3 DEF Handle

-----------------------------------------------------------------------------
(* The steps of the forwarding threads *)

\* A thread that takes a step was running, and its handler waits for it.
LEMMA StepRunning ==
  ASSUME TypeOK, Running, NEW k \in Socks, NEW from \in {"recv", "send", "shut"}, NEW to,
         Step(k, from, to), UNCHANGED pc
  PROVE  Running'
<1>1. /\ pc[k[1]] = "joining"
      /\ \A j \in Socks : thread'[j] = IF j = k THEN to ELSE thread[j]
  BY DEF Running, Step, TypeOK
<1> QED
  BY <1>1 DEF Running

\* It has the connections of its session, and no other thread has them so.
LEMMA OwnPair ==
  ASSUME IInv, main = "accepting", NEW k \in Socks, thread[k] \in {"recv", "send", "shut"}
  PROVE  /\ At(k) = k /\ At(Partner(k)) = Partner(k)
         /\ k # NONE /\ Partner(k) # NONE /\ Partner(k) \in Socks /\ Partner(k) # k
         /\ \A j \in Socks : Partner(j) \in Socks /\ (Partner(j) = Partner(k) <=> j = k)
<1>1. At(k) = k /\ At(Partner(k)) = Partner(k)
  BY OwnDescriptorsFollow DEF OwnDescriptors
<1>2. \A j \in Socks : Partner(j) \in Socks /\ Partner(Partner(j)) = j
                       /\ Partner(j) # j /\ j # NONE
  BY SockFacts
<1> QED
  BY <1>1, <1>2

\* What the type invariant says of the counters, for the arithmetic below.
LEMMA Numbers ==
  ASSUME TypeOK
  PROVE  \A k \in Socks :
           /\ read[k] \in Int /\ sent[k] \in Int
           /\ 0 <= read[k] /\ read[k] <= MAX_SENT /\ sent[k] <= MAX_SENT
           /\ MAX_SENT \in Int /\ got[k] \in Seq(Items) /\ Len(got[k]) \in Nat
<1> TAKE k \in Socks
<1>1. read[k] \in 0 .. MAX_SENT /\ sent[k] \in 0 .. MAX_SENT /\ got[k] \in Seq(Items)
  BY DEF TypeOK
<1>2. MAX_SENT \in Int
  BY BoundsAssumption
<1>3. Len(got[k]) \in Nat
  BY <1>1
<1> QED
  BY <1>1, <1>2, <1>3

LEMMA RecvDataStep ==
  ASSUME IInv, NEW k \in Socks, RecvData(k)
  PROVE  IInv'
<1> USE DEF IInv
<1>1. Step(k, "recv", "send") /\ main = "accepting" /\ thread[k] = "recv"
  BY DEF RecvData, Step
<1>2. At(k) = k /\ \A j \in Socks : Partner(j) \in Socks
  BY <1>1, OwnPair
<1>3. /\ read[k] < sent[k]
      /\ buffer' = [buffer EXCEPT ![k] = [from |-> k, n |-> read[k] + 1]]
      /\ read' = [read EXCEPT ![k] = @ + 1]
      /\ thread' = [thread EXCEPT ![k] = "send"]
      /\ UNCHANGED <<main, pc, fd, desc, peer, line, shut, sent, got, stalled>>
  BY <1>1, <1>2 DEF RecvData, Step, handlerVars
<1>4. /\ read[k] \in Int /\ sent[k] \in Int /\ 0 <= read[k] /\ sent[k] <= MAX_SENT
      /\ MAX_SENT \in Int
  BY Numbers
<1>5. read[k] + 1 \in 1 .. MAX_SENT /\ read[k] + 1 \in 0 .. MAX_SENT
  BY <1>3, <1>4
<1>6. TypeOK'
  <2>1. [from |-> k, n |-> read[k] + 1] \in Items
    BY <1>5 DEF Items
  <2> QED
    BY <1>3, <1>5, <2>1 DEF TypeOK
<1>7. DescInv'
  BY <1>1, <1>3, StepRunning, DescStutter DEF DescInv
<1>8. Carried'
  <2> SUFFICES ASSUME NEW j \in Socks
               PROVE  /\ read'[j] <= sent[j]
                      /\ thread'[j] = "send"
                           => read'[j] # 0 /\ buffer'[j] = [from |-> j, n |-> read'[j]]
                      /\ (thread'[j] \in {"none", "recv", "send"} /\ Reads(Partner(j)))
                           => Len(got[Partner(j)]) + Pending(j)' = read'[j]
    BY <1>3 DEF Carried, Reads
  <2>1. CASE j # k
    BY <1>3, <2>1 DEF StreamInv, Carried, Pending, TypeOK
  <2>2. CASE j = k
    <3>0. read'[k] = read[k] + 1 /\ thread'[k] = "send"
          /\ buffer'[k] = [from |-> k, n |-> read[k] + 1]
      BY <1>3 DEF TypeOK
    <3>1. read'[k] <= sent[k] /\ read'[k] # 0 /\ buffer'[k] = [from |-> k, n |-> read'[k]]
      BY <1>3, <1>4, <3>0
    <3>2. Pending(k) = 0 /\ Pending(k)' = 1
      BY <1>1, <3>0 DEF Pending
    <3>3. Reads(Partner(k)) => Len(got[Partner(k)]) + 0 = read[k]
      BY <1>1, <3>2 DEF StreamInv, Carried
    <3>4. Len(got[Partner(k)]) \in Nat
      BY <1>2, Numbers
    <3>5. Reads(Partner(k)) => Len(got[Partner(k)]) + 1 = read[k] + 1
      BY <3>3, <3>4, <1>4
    <3> QED
      BY <2>2, <3>0, <3>1, <3>2, <3>5
  <2> QED
    BY <2>1, <2>2
<1>9. Completed'
  BY <1>3 DEF StreamInv, Completed, Reads, Finished, TypeOK
<1>10. ShutByPartner' /\ OwnData'
  BY <1>1, <1>2, <1>3 DEF StreamInv, ShutByPartner, OwnData, TypeOK
<1> QED
  BY <1>6, <1>7, <1>8, <1>9, <1>10 DEF StreamInv

LEMMA RecvEndStep ==
  ASSUME IInv, NEW k \in Socks, RecvEnd(k)
  PROVE  IInv'
<1> USE DEF IInv
<1>1. Step(k, "recv", "shut") /\ main = "accepting" /\ thread[k] = "recv"
  BY DEF RecvEnd, Step
<1>2. At(k) = k /\ k # NONE /\ \A j \in Socks : Partner(j) \in Socks
  BY <1>1, OwnPair
<1>3. /\ read[k] = sent[k]
      /\ line' = IF ~Finished(k) THEN [line EXCEPT ![k] = "broken"] ELSE line
      /\ thread' = [thread EXCEPT ![k] = "shut"]
      /\ UNCHANGED <<main, pc, fd, desc, buffer, peer, shut, sent, read, got, stalled>>
  BY <1>1, <1>2 DEF RecvEnd, Step, handlerVars
<1>4. /\ \A j \in Socks : line'[j] = "up" => line[j] = "up"
      /\ line'[k] = "up" => Finished(k)
  BY <1>3 DEF TypeOK
<1>5. TypeOK'
  BY <1>3 DEF TypeOK
<1>6. DescInv'
  BY <1>1, <1>3, StepRunning, DescStutter DEF DescInv
<1>7. Carried'
  <2> SUFFICES ASSUME NEW j \in Socks
               PROVE  /\ thread'[j] = "send" => thread[j] = "send"
                      /\ thread'[j] \in {"none", "recv", "send"} => thread'[j] = thread[j]
    BY <1>3 DEF StreamInv, Carried, Reads, Pending
  <2> QED
    BY <1>3 DEF TypeOK
<1>8. Completed'
  <2> SUFFICES ASSUME NEW j \in Socks, thread'[j] \in {"shut", "done"},
                      pc[j[1]] \in {"joining", "closing"}, Reads(Partner(j)),
                      line'[Partner(j)] = "up", line'[j] = "up"
               PROVE  Finished(j) /\ Len(got[Partner(j)]) = sent[j]
    BY <1>3 DEF Completed, Reads, Finished
  <2>1. CASE j # k
    BY <1>2, <1>3, <1>4, <2>1 DEF StreamInv, Completed, TypeOK
  <2>2. CASE j = k
    <3>1. Len(got[Partner(k)]) + 0 = read[k] /\ Len(got[Partner(k)]) \in Nat
      BY <1>1, <1>2, <2>2, Numbers DEF StreamInv, Carried, Pending
    <3> QED
      BY <1>3, <1>4, <2>2, <3>1
  <2> QED
    BY <2>1, <2>2
<1>9. ShutByPartner' /\ OwnData'
  BY <1>1, <1>2, <1>3 DEF StreamInv, ShutByPartner, OwnData, TypeOK
<1> QED
  BY <1>5, <1>6, <1>7, <1>8, <1>9 DEF StreamInv

LEMMA SendDataStep ==
  ASSUME IInv, NEW k \in Socks, SendData(k)
  PROVE  IInv'
<1> USE DEF IInv
<1>1. Step(k, "send", "recv") /\ main = "accepting" /\ thread[k] = "send"
  BY DEF SendData, Step
<1>2. /\ At(Partner(k)) = Partner(k) /\ Partner(k) \in Socks
      /\ \A j \in Socks : Partner(j) \in Socks /\ (Partner(j) = Partner(k) <=> j = k)
  BY <1>1, OwnPair
<1>3. /\ got' = IF Reads(Partner(k))
                THEN [got EXCEPT ![Partner(k)] = Append(@, buffer[k])] ELSE got
      /\ buffer' = [buffer EXCEPT ![k] = NONE]
      /\ thread' = [thread EXCEPT ![k] = "recv"]
      /\ UNCHANGED <<main, pc, fd, desc, peer, line, shut, sent, read>>
      /\ stalled' \in {stalled, stalled \union {Partner(k)}}
  BY <1>1, <1>2 DEF SendData, Step, handlerVars, Reads
<1>4. buffer[k] = [from |-> k, n |-> read[k]] /\ Pending(k) = 1 /\ Pending(k)' = 0
  BY <1>1, <1>3 DEF StreamInv, Carried, Pending, TypeOK
<1>5. buffer[k] \in Items /\ got[Partner(k)] \in Seq(Items) /\ Len(got[Partner(k)]) \in Nat
      /\ read[k] \in Int
  <2>1. read[k] \in 0 .. MAX_SENT /\ read[k] # 0
    BY <1>1 DEF TypeOK, StreamInv, Carried
  <2>2. read[k] \in 1 .. MAX_SENT
    BY <2>1, BoundsAssumption
  <2>3. buffer[k] \in Items
    BY <1>4, <2>2 DEF Items
  <2> QED
    BY <1>2, <2>3, Numbers
<1>6. /\ \A j \in Socks : j # Partner(k) => got'[j] = got[j]
      /\ ~Reads(Partner(k)) => got' = got
      /\ Reads(Partner(k)) => got'[Partner(k)] = Append(got[Partner(k)], buffer[k])
      /\ \A j \in Socks : j # k => Pending(j)' = Pending(j)
  BY <1>2, <1>3 DEF TypeOK, Pending
<1>7. Reads(Partner(k)) => Len(got[Partner(k)]) + 1 = read[k]
  BY <1>1, <1>4 DEF StreamInv, Carried
<1>8. Append(got[Partner(k)], buffer[k]) \in Seq(Items)
      /\ Len(Append(got[Partner(k)], buffer[k])) = Len(got[Partner(k)]) + 1
  BY <1>5
<1>9. TypeOK'
  BY <1>2, <1>3, <1>8 DEF TypeOK
<1>10. DescInv'
  BY <1>1, <1>3, StepRunning, DescStutter DEF DescInv
<1>11. Carried'
  <2> SUFFICES ASSUME NEW j \in Socks
               PROVE  /\ read[j] <= sent[j]
                      /\ thread'[j] = "send"
                           => read[j] # 0 /\ buffer'[j] = [from |-> j, n |-> read[j]]
                      /\ (thread'[j] \in {"none", "recv", "send"} /\ Reads(Partner(j)))
                           => Len(got'[Partner(j)]) + Pending(j)' = read[j]
    BY <1>3 DEF Carried, Reads
  <2>1. CASE j # k
    <3>1. Pending(j)' = Pending(j) /\ got'[Partner(j)] = got[Partner(j)]
          /\ thread'[j] = thread[j] /\ buffer'[j] = buffer[j]
      BY <1>2, <1>3, <1>6, <2>1 DEF TypeOK
    <3> QED
      BY <3>1 DEF StreamInv, Carried
  <2>2. CASE j = k
    <3>1. thread'[k] = "recv" /\ read[k] <= sent[k]
      BY <1>3 DEF TypeOK, StreamInv, Carried
    <3>2. ASSUME Reads(Partner(k))
          PROVE  Len(got'[Partner(k)]) + 0 = read[k]
      <4>1. Len(got'[Partner(k)]) = Len(got[Partner(k)]) + 1
        BY <1>6, <1>8, <3>2
      <4> QED
        BY <1>5, <1>7, <3>2, <4>1
    <3> QED
      BY <1>4, <2>2, <3>1, <3>2
  <2> QED
    BY <2>1, <2>2
<1>12. Completed'
  <2> SUFFICES ASSUME NEW j \in Socks, thread'[j] \in {"shut", "done"}
               PROVE  thread[j] \in {"shut", "done"} /\ got'[Partner(j)] = got[Partner(j)]
    BY <1>3 DEF StreamInv, Completed, Reads, Finished
  <2>1. j # k /\ thread'[j] = thread[j]
    BY <1>3 DEF TypeOK
  <2> QED
    BY <1>2, <1>6, <2>1
<1>13. ShutByPartner'
  BY <1>1, <1>2, <1>3 DEF StreamInv, ShutByPartner, TypeOK
<1>14. OwnData'
  <2> SUFFICES ASSUME NEW j \in Socks, NEW i \in DOMAIN got'[j]
               PROVE  got'[j][i] = [from |-> Partner(j), n |-> i]
    BY DEF OwnData
  <2>1. CASE got'[j] = got[j]
    BY <2>1 DEF StreamInv, OwnData
  <2>2. CASE j = Partner(k) /\ Reads(Partner(k))
    <3>1. Partner(j) = k
      BY <2>2, SockFacts
    <3> DEFINE old == got[Partner(k)]
    <3>2. got'[j] = Append(old, buffer[k]) /\ old \in Seq(Items) /\ Len(old) \in Nat
      BY <1>5, <1>6, <2>2
    <3>3. i \in 1 .. Len(old) + 1
      BY <1>8, <3>2
    <3>4. CASE i = Len(old) + 1
      <4>1. got'[j][i] = buffer[k]
        BY <3>2, <3>4
      <4> QED
        BY <1>4, <1>7, <2>2, <3>1, <3>4, <4>1
    <3>5. CASE i # Len(old) + 1
      <4>1. i \in 1 .. Len(old) /\ i \in DOMAIN old
        BY <3>2, <3>3, <3>5
      <4>2. got'[j][i] = old[i]
        BY <3>2, <4>1
      <4> QED
        BY <2>2, <4>1, <4>2 DEF StreamInv, OwnData
    <3> QED
      BY <3>4, <3>5
  <2> QED
    BY <1>6, <2>1, <2>2
<1> QED
  BY <1>9, <1>10, <1>11, <1>12, <1>13, <1>14 DEF StreamInv

LEMMA SendFailsStep ==
  ASSUME IInv, NEW k \in Socks, SendFails(k)
  PROVE  IInv'
<1> USE DEF IInv
<1>1. Step(k, "send", "shut") /\ main = "accepting" /\ thread[k] = "send"
  BY DEF SendFails, Step
<1>2. /\ At(Partner(k)) = Partner(k) /\ Partner(k) # NONE /\ Partner(k) \in Socks
      /\ \A j \in Socks : Partner(j) \in Socks
  BY <1>1, OwnPair
<1>3. /\ line' = [line EXCEPT ![Partner(k)] = "broken"]
      /\ buffer' = [buffer EXCEPT ![k] = NONE]
      /\ thread' = [thread EXCEPT ![k] = "shut"]
      /\ UNCHANGED <<main, pc, fd, desc, peer, shut, sent, read, got, stalled>>
  BY <1>1, <1>2 DEF SendFails, Step, handlerVars
<1>4. /\ \A j \in Socks : line'[j] = "up" => line[j] = "up"
      /\ line'[Partner(k)] # "up"
  BY <1>2, <1>3 DEF TypeOK
<1>5. TypeOK'
  BY <1>3 DEF TypeOK
<1>6. DescInv'
  BY <1>1, <1>3, StepRunning, DescStutter DEF DescInv
<1>7. Carried'
  <2> SUFFICES ASSUME NEW j \in Socks
               PROVE  /\ thread'[j] = "send" => thread[j] = "send" /\ buffer'[j] = buffer[j]
                      /\ thread'[j] \in {"none", "recv", "send"} => thread'[j] = thread[j]
    BY <1>3 DEF StreamInv, Carried, Reads, Pending
  <2> QED
    BY <1>3 DEF TypeOK
<1>8. Completed'
  <2> SUFFICES ASSUME NEW j \in Socks, thread'[j] \in {"shut", "done"},
                      line'[Partner(j)] = "up"
               PROVE  thread[j] \in {"shut", "done"}
    BY <1>2, <1>3, <1>4 DEF StreamInv, Completed, Reads, Finished
  <2> QED
    BY <1>3, <1>4 DEF TypeOK
<1>9. ShutByPartner' /\ OwnData'
  BY <1>1, <1>2, <1>3 DEF StreamInv, ShutByPartner, OwnData, TypeOK
<1> QED
  BY <1>5, <1>6, <1>7, <1>8, <1>9 DEF StreamInv

LEMMA ShutDownStep ==
  ASSUME IInv, NEW k \in Socks, ShutDown(k)
  PROVE  IInv'
<1> USE DEF IInv
<1>1. Step(k, "shut", "done") /\ main = "accepting" /\ thread[k] = "shut"
  BY DEF ShutDown, Step
<1>2. /\ At(Partner(k)) = Partner(k) /\ Partner(k) # NONE /\ Partner(k) \in Socks
      /\ Partner(Partner(k)) = k
      /\ \A j \in Socks : Partner(j) \in Socks
  BY <1>1, OwnPair, SockFacts
<1>3. /\ shut' = shut \union {Partner(k)}
      /\ thread' = [thread EXCEPT ![k] = "done"]
      /\ UNCHANGED <<main, pc, fd, desc, buffer, peer, line, sent, read, got, stalled>>
  BY <1>1, <1>2 DEF ShutDown, Step, handlerVars
<1>4. TypeOK'
  BY <1>2, <1>3 DEF TypeOK
<1>5. DescInv'
  BY <1>1, <1>3, StepRunning, DescStutter DEF DescInv
<1>6. \A j \in Socks : /\ j # k => thread'[j] = thread[j]
                       /\ thread'[k] = "done"
  BY <1>3 DEF TypeOK
<1>7. Carried' /\ Completed'
  BY <1>1, <1>3, <1>6 DEF StreamInv, Carried, Completed, Reads, Finished, Pending
<1>8. ShutByPartner' /\ OwnData'
  BY <1>2, <1>3, <1>6 DEF StreamInv, ShutByPartner, OwnData
<1> QED
  BY <1>4, <1>5, <1>7, <1>8 DEF StreamInv

-----------------------------------------------------------------------------
(* The peers, and all steps together *)

LEMMA PeerStep ==
  ASSUME IInv, NEW k \in Socks, Peer(k)
  PROVE  IInv'
<1> USE DEF IInv
<1>1. UNCHANGED <<main, pc, fd, desc, thread, buffer, shut, read, got>>
      /\ line[k] = "up" /\ pc[k[1]] = "joining"
  BY DEF Peer, PeerSends, PeerLeaves, PeerResets, PeerReads, Connected, handlerVars, threadVars
<1>2. DescInv' /\ OwnData' /\ ShutByPartner'
  BY <1>1, DescStutter DEF DescInv, Running, StreamInv, OwnData, ShutByPartner
<1>3. CASE PeerSends(k)
  <2>1. /\ peer[k] = "open" /\ sent[k] < MAX_SENT
        /\ sent' = [sent EXCEPT ![k] = @ + 1] /\ UNCHANGED <<peer, line, stalled>>
    BY <1>3 DEF PeerSends
  <2>2. sent[k] \in 0 .. MAX_SENT /\ MAX_SENT \in Nat
        /\ sent'[k] = sent[k] + 1 /\ \A j \in Socks \ {k} : sent'[j] = sent[j]
    BY <2>1, BoundsAssumption DEF TypeOK
  <2>3. sent[k] + 1 \in 0 .. MAX_SENT
    BY <2>1, <2>2
  <2>4. TypeOK'
    BY <1>1, <2>1, <2>3 DEF TypeOK
  <2>5. \A j \in Socks : read[j] <= sent'[j]
    <3> TAKE j \in Socks
    <3>1. read[j] <= sent[j] /\ read[j] \in Int /\ sent[j] \in Int
      BY Numbers DEF StreamInv, Carried
    <3>2. sent'[j] = sent[j] \/ sent'[j] = sent[j] + 1
      BY <2>2
    <3> QED
      BY <3>1, <3>2
  <2>6. Carried'
    BY <1>1, <2>1, <2>5 DEF StreamInv, Carried, Reads, Pending
  <2>7. Completed'
    <3> SUFFICES ASSUME NEW j \in Socks, thread[j] \in {"shut", "done"},
                        pc[j[1]] \in {"joining", "closing"},
                        Reads(Partner(j)), line[Partner(j)] = "up", line[j] = "up"
                 PROVE  Finished(j) /\ Len(got[Partner(j)]) = sent'[j]
      BY <1>1, <2>1 DEF Completed, Reads, Finished
    <3>1. Finished(j) /\ Len(got[Partner(j)]) = sent[j]
      BY DEF StreamInv, Completed
    <3>2. j # k
      BY <2>1, <3>1 DEF Finished
    <3> QED
      BY <2>2, <3>1, <3>2
  <2> QED
    BY <1>2, <2>4, <2>6, <2>7 DEF StreamInv
<1>4. ASSUME UNCHANGED sent, TypeOK',
             \A j \in Socks : /\ line'[j] = "up" => line[j] = "up"
                              /\ Reads(j)' => Reads(j)
                              /\ Finished(j) => Finished(j)'
      PROVE  IInv'
  <2>1. \A j \in Socks : Partner(j) \in Socks
    BY SockFacts
  <2>2. Carried'
    BY <1>1, <1>4, <2>1 DEF StreamInv, Carried, Pending
  <2>3. Completed'
    BY <1>1, <1>4, <2>1 DEF StreamInv, Completed
  <2> QED
    BY <1>2, <1>4, <2>2, <2>3 DEF StreamInv
<1>5. CASE PeerLeaves(k)
  <2>1. UNCHANGED <<line, sent>> /\ TypeOK'
    BY <1>1, <1>5 DEF PeerLeaves, TypeOK
  <2>2. \A j \in Socks : (Reads(j)' => Reads(j)) /\ (Finished(j) => Finished(j)')
    BY <1>5 DEF PeerLeaves, TypeOK, Reads, Finished
  <2> QED
    BY <1>4, <2>1, <2>2
<1>6. CASE PeerResets(k)
  <2>1. UNCHANGED sent /\ TypeOK'
    BY <1>1, <1>6 DEF PeerResets, TypeOK
  <2>2. \A j \in Socks : (Reads(j)' => Reads(j)) /\ (Finished(j) => Finished(j)')
    BY <1>6 DEF PeerResets, TypeOK, Reads, Finished
  <2>3. \A j \in Socks : line'[j] = "up" => line[j] = "up"
    BY <1>6 DEF PeerResets, TypeOK
  <2> QED
    BY <1>4, <2>1, <2>2, <2>3
<1>7. CASE PeerReads(k)
  <2>1. UNCHANGED <<peer, line, sent>> /\ TypeOK'
    BY <1>1, <1>7 DEF PeerReads, TypeOK
  <2>2. \A j \in Socks : (Reads(j)' => Reads(j)) /\ (Finished(j) => Finished(j)')
    BY <2>1 DEF Reads, Finished
  <2> QED
    BY <1>4, <2>1, <2>2
<1> QED
  BY <1>3, <1>5, <1>6, <1>7 DEF Peer

LEMMA ListenStep == IInv /\ Listen => IInv'
<1> SUFFICES ASSUME IInv, Listen PROVE IInv'
  OBVIOUS
<1>1. CASE End("failed")
  BY <1>1, EndIInv DEF Over
<1>2. CASE main' = "accepting" /\ UNCHANGED <<handlerVars, desc, threadVars, tcpVars>>
  <2>1. UNCHANGED <<pc, fd, desc, thread, buffer, peer, line, shut, sent, read, got, stalled>>
    BY <1>2 DEF handlerVars, threadVars, tcpVars
  <2>2. TypeOK'
    BY <1>2, <2>1 DEF IInv, TypeOK
  <2>3. DescInv'
    BY <2>1, DescStutter DEF IInv, DescInv, Running
  <2>4. StreamInv'
    BY <2>1, StreamSame DEF IInv, threadVars, tcpVars
  <2> QED
    BY <2>2, <2>3, <2>4 DEF IInv
<1> QED
  BY <1>1, <1>2 DEF Listen

LEMMA NextIInv == IInv /\ [Next]_vars => IInv'
<1> SUFFICES ASSUME IInv, [Next]_vars PROVE IInv'
  OBVIOUS
<1>1. CASE Listen
  BY <1>1, ListenStep
<1>2. CASE AcceptFails \/ ThreadFails
  BY <1>2, EndIInv DEF AcceptFails, ThreadFails, Over
<1>3. ASSUME NEW s \in Sessions, Accept(s) \/ Handle(s)
      PROVE  IInv'
  BY <1>3, HandlerType, HandlerDesc, HandlerStream DEF IInv
<1>4. ASSUME NEW k \in Socks, Forward(k)
      PROVE  IInv'
  <2>1. CASE SendKills(k)
    BY <2>1, EndIInv DEF SendKills, Over
  <2> QED
    BY <1>4, <2>1, RecvDataStep, RecvEndStep, SendDataStep, SendFailsStep, ShutDownStep
       DEF Forward
<1>5. ASSUME NEW k \in Socks, Peer(k)
      PROVE  IInv'
  BY <1>5, PeerStep
<1>6. CASE UNCHANGED vars
  <2>1. UNCHANGED <<main, pc, fd, desc, thread, buffer, peer, line, shut, sent, read, got, stalled>>
    BY <1>6 DEF vars, handlerVars, threadVars, tcpVars
  <2>2. TypeOK'
    BY <2>1 DEF IInv, TypeOK
  <2>3. DescInv'
    BY <2>1, DescStutter DEF IInv, DescInv, Running
  <2>4. StreamInv'
    BY <2>1, StreamSame DEF IInv, threadVars, tcpVars
  <2> QED
    BY <2>2, <2>3, <2>4 DEF IInv
<1> QED
  BY <1>1, <1>2, <1>3, <1>4, <1>5, <1>6 DEF Next

\* The invariant of every state of the relay.
THEOREM Invariance == Spec => []IInv
<1> QED
  BY InitIInv, NextIInv, PTL DEF Spec

\* The type of every variable, always.
THEOREM TypeCorrect == Spec => []TypeOK
<1>1. IInv => TypeOK
  BY DEF IInv
<1> QED
  BY <1>1, Invariance, PTL

\* A forwarding thread never works on a descriptor that was closed under it or
\* handed to another session.
THEOREM OwnDescriptorsAlways == Spec => []OwnDescriptors
<1> QED
  BY OwnDescriptorsFollow, Invariance, PTL

\* No error path of a handler loses a descriptor.
THEOREM NothingLeaksAlways == Spec => []NothingLeaks
<1> QED
  BY NothingLeaksFollows, Invariance, PTL

\* No session gets the data of another one, or gets it out of order.
THEOREM OwnDataAlways == Spec => []OwnData
<1>1. IInv => OwnData
  BY DEF IInv, StreamInv
<1> QED
  BY <1>1, Invariance, PTL

\* An end of stream is passed on only after everything that came before it, as
\* long as neither connection breaks.
THEOREM EndMeansCompleteAlways == Spec => []EndMeansComplete
<1>1. IInv => EndMeansComplete
  <2> SUFFICES ASSUME IInv, NEW k \in shut, pc[k[1]] \in {"joining", "closing"},
                      peer[k] \in {"open", "finished"},
                      line[k] = "up", line[Partner(k)] = "up"
               PROVE  Finished(Partner(k)) /\ Len(got[k]) = sent[Partner(k)]
    BY DEF EndMeansComplete
  <2>1. k \in Socks /\ thread[Partner(k)] = "done"
    BY DEF IInv, StreamInv, ShutByPartner
  <2>2. Partner(k) \in Socks /\ Partner(Partner(k)) = k /\ Partner(k)[1] = k[1]
    BY <2>1, SockFacts
  <2> QED
    BY <2>1, <2>2 DEF IInv, StreamInv, Completed, Reads
<1> QED
  BY <1>1, Invariance, PTL

\* A session is a faithful pair of streams.
THEOREM RelaysAlways == Spec => []Relays
BY OwnDataAlways, EndMeansCompleteAlways, PTL DEF Relays

-----------------------------------------------------------------------------
(* The streams of Streams.tla *)

\* A thread that is done has told its partner's peer, and a handler that closes
\* after one of its threads closes after both.
Told ==
  \A k \in Socks : thread[k] = "done" =>
    /\ pc[k[1]] \in {"joining", "closing"} => Partner(k) \in shut
    /\ pc[k[1]] = "closing" => thread[Partner(k)] = "done"

\* What one session does leaves the other sessions told.
LEMMA ToldHandler ==
  ASSUME IInv, Told, NEW s \in Sessions, Accept(s) \/ Handle(s)
  PROVE  Told'
<1> SUFFICES ASSUME NEW k \in Socks, thread'[k] = "done"
             PROVE  /\ pc'[k[1]] \in {"joining", "closing"} => Partner(k) \in shut'
                    /\ pc'[k[1]] = "closing" => thread'[Partner(k)] = "done"
  BY DEF Told
<1>1. /\ k[1] \in Sessions /\ Partner(k) \in Socks /\ Partner(k)[1] = k[1]
      /\ k = Client(k[1]) \/ k = Backend(k[1])
      /\ k = Client(k[1]) <=> Partner(k) = Backend(k[1])
      /\ k = Backend(k[1]) <=> Partner(k) = Client(k[1])
  BY SockFacts, SockOfSession DEF Partner, Client, Backend
<1>2. TypeOK /\ Running
  BY DEF IInv, DescInv
<1>3. CASE k[1] # s
  <2>1. pc'[k[1]] = pc[k[1]] /\ thread'[k] = thread[k] /\ thread'[Partner(k)] = thread[Partner(k)]
    <3>1. \E x : pc' = [pc EXCEPT ![s] = x]
      BY DEF Accept, Handle, OpenBackend, Connect, StartThreads, Join, CloseClient,
             CloseBackend, Goto
    <3>2. \/ thread' = thread
          \/ thread' = [j \in Socks |-> IF j[1] = s THEN "recv" ELSE thread[j]]
      BY DEF Accept, Handle, OpenBackend, Connect, StartThreads, Join, CloseClient,
             CloseBackend, threadVars
    <3> QED
      BY <1>1, <1>2, <1>3, <3>1, <3>2 DEF TypeOK
  <2>2. Partner(k) \in shut => Partner(k) \in shut'
    BY <1>1, <1>3
       DEF Accept, Handle, OpenBackend, Connect, StartThreads, Join, CloseClient, CloseBackend,
           Forget, tcpVars
  <2> QED
    BY <2>1, <2>2 DEF Told
<1>4. CASE k[1] = s
  <2>1. CASE Join(s)
    BY <1>1, <1>2, <1>4, <2>1 DEF Join, Goto, threadVars, tcpVars, TypeOK, Told
  <2>2. CASE StartThreads(s)
    BY <1>1, <1>2, <1>4, <2>2 DEF StartThreads
  <2>3. CASE Accept(s) \/ OpenBackend(s) \/ Connect(s)
    BY <1>1, <1>2, <1>4, <2>3 DEF Accept, OpenBackend, Connect, threadVars, Running
  <2>4. CASE CloseClient(s) \/ CloseBackend(s)
    BY <1>1, <1>2, <1>4, <2>4 DEF CloseClient, CloseBackend, Goto, TypeOK
  <2> QED
    BY <2>1, <2>2, <2>3, <2>4 DEF Handle
<1> QED
  BY <1>3, <1>4

LEMMA ToldForward ==
  ASSUME IInv, Told, NEW k \in Socks, Forward(k), ~SendKills(k)
  PROVE  Told'
<1>1. TypeOK /\ Running
  BY DEF IInv, DescInv
<1>2. PICK from \in {"recv", "send", "shut"}, to \in {"recv", "send", "shut", "done"} :
        Step(k, from, to) /\ (to = "done" => ShutDown(k))
  BY DEF Forward, RecvData, RecvEnd, SendData, SendFails, ShutDown
<1>3. /\ main = "accepting" /\ thread[k] = from /\ pc[k[1]] = "joining"
      /\ thread' = [thread EXCEPT ![k] = to] /\ pc' = pc /\ shut \subseteq shut'
  BY <1>1, <1>2
     DEF Step, Running, Forward, RecvData, RecvEnd, SendData, SendFails, ShutDown, handlerVars,
         tcpVars
<1>4. to = "done" => Partner(k) \in shut'
  BY <1>2, <1>3, OwnPair DEF ShutDown
<1> SUFFICES ASSUME NEW j \in Socks, thread'[j] = "done"
             PROVE  /\ pc'[j[1]] \in {"joining", "closing"} => Partner(j) \in shut'
                    /\ pc'[j[1]] = "closing" => thread'[Partner(j)] = "done"
  BY DEF Told
<1>5. CASE j = k
  BY <1>1, <1>3, <1>4, <1>5 DEF TypeOK
<1>6. CASE j # k
  <2>1. thread[j] = "done"
    BY <1>1, <1>3, <1>6 DEF TypeOK
  <2>2. pc[j[1]] = "closing" => Partner(j) # k /\ Partner(j) \in Socks
    BY <1>3, SockFacts
  <2> QED
    BY <1>1, <1>3, <2>1, <2>2 DEF Told, TypeOK
<1> QED
  BY <1>5, <1>6

LEMMA ToldStep == IInv /\ Told /\ [Next]_vars => Told'
<1> SUFFICES ASSUME IInv, Told, [Next]_vars PROVE Told'
  OBVIOUS
<1>1. ASSUME NEW how, End(how) PROVE Told'
  BY <1>1 DEF End, Told
<1>2. CASE UNCHANGED <<pc, thread, shut>>
  BY <1>2 DEF Told
<1>3. CASE Listen \/ AcceptFails \/ ThreadFails
  BY <1>1, <1>2, <1>3 DEF Listen, AcceptFails, ThreadFails, handlerVars, threadVars, tcpVars
<1>4. ASSUME NEW k \in Socks, Forward(k) PROVE Told'
  BY <1>1, <1>4, ToldForward DEF SendKills
<1>5. ASSUME NEW k \in Socks, Peer(k) PROVE Told'
  BY <1>2, <1>5 DEF Peer, PeerSends, PeerLeaves, PeerResets, PeerReads, handlerVars, threadVars
<1>6. CASE UNCHANGED vars
  BY <1>2, <1>6 DEF vars, handlerVars, threadVars, tcpVars
<1> QED
  BY <1>3, <1>4, <1>5, <1>6, ToldHandler DEF Next

\* The names of Streams.tla are those of the relay.
LEMMA SameNames ==
  /\ Relay!Socks = Socks
  /\ \A k \in Socks : Relay!Partner(k) = Partner(k)
  /\ \A k \in Socks : Relay!Reads(k) <=> Reads(k)
BY DEF Relay!Socks, Socks, Relay!Partner, Partner, Client, Backend, Relay!Reads, Reads

\* When a session relays, and what it is otherwise.
Relaying(s) == pc[s] = "joining" \/ (pc[s] = "closing" /\ thread[Client(s)] = "done")
Closed(s) == pc[s] \in {"closing backend", "done"}
StateOf(relaying, closed) ==
  IF relaying THEN "relaying" ELSE IF closed THEN "over" ELSE "waiting"

LEMMA SessionFacts ==
  /\ sessionBar = [s \in Sessions |-> StateOf(Relaying(s), Closed(s))]
  /\ sessionBar' = [s \in Sessions |-> StateOf(Relaying(s)', Closed(s)')]
  /\ \A s \in Sessions : ~(Relaying(s) /\ Closed(s))
BY DEF sessionBar, StateOf, Relaying, Closed

LEMMA ProxyFacts ==
  /\ main = "starting" => proxyBar = "starting"
  /\ main = "accepting" => proxyBar = "serving"
  /\ main' = "accepting" => proxyBar' = "serving"
  /\ main' \in Over => proxyBar' = "over"
  /\ main' = main => proxyBar' = proxyBar
BY DEF proxyBar, Over

\* Steps that no peer can see.
LEMMA Unseen ==
  ASSUME main' = main, UNCHANGED <<peer, line, shut, sent, got>>,
         \A s \in Sessions : (Relaying(s)' <=> Relaying(s)) /\ (Closed(s)' <=> Closed(s))
  PROVE  UNCHANGED Relay!vars
<1>1. sessionBar' = sessionBar
  BY SessionFacts DEF StateOf
<1>2. intactBar' = intactBar
  BY DEF intactBar
<1> QED
  BY <1>1, <1>2, ProxyFacts DEF Relay!vars, Relay!connections

\* The end of the process.
LEMMA EndStops ==
  ASSUME IInv, main \in {"starting", "accepting"}, NEW how \in Over, End(how)
  PROVE  Relay!Stop
<1>1. sessionBar' = [s \in Sessions |-> "waiting"]
  BY SessionFacts DEF End, StateOf, Relaying, Closed
<1>2. intactBar' = [k \in Socks |-> TRUE]
  BY DEF End, intactBar
<1>3. Relay!Renewed(Sessions)
  <2>1. \A k \in Socks : k[1] \in Sessions
    BY SockFacts
  <2>2. shut' = {k \in shut : k[1] \notin Sessions}
    BY <2>1 DEF End, IInv, TypeOK
  <2> QED
    BY <1>2, <2>1, <2>2, SameNames DEF End, Relay!Renewed, Relay!Fresh
<1>4. main' = how /\ proxyBar' = "over" /\ proxyBar # "over"
  BY ProxyFacts DEF End
<1> QED
  BY <1>1, <1>3, <1>4 DEF Relay!Stop

\* A handler closes its session, whose connections are forgotten.
LEMMA CloseCloses ==
  ASSUME IInv, Told, NEW s \in Sessions, CloseClient(s)
  PROVE  Relay!Close(s)
<1>1. /\ main = "accepting" /\ main' = main /\ pc[s] = "closing" /\ thread' = thread
      /\ \E x \in {"closing backend", "done"} : pc' = [pc EXCEPT ![s] = x]
      /\ Forget(s)
  BY DEF CloseClient, Goto, threadVars
<1>2. sessionBar' = [sessionBar EXCEPT ![s] = "over"]
  <2>1. pc'[s] \in {"closing backend", "done"} /\ \A v \in Sessions \ {s} : pc'[v] = pc[v]
    BY <1>1 DEF IInv, TypeOK
  <2>2. ~Relaying(s)' /\ Closed(s)'
    BY <2>1 DEF Relaying, Closed
  <2>3. \A v \in Sessions \ {s} : (Relaying(v)' <=> Relaying(v)) /\ (Closed(v)' <=> Closed(v))
    BY <1>1, <2>1 DEF Relaying, Closed
  <2> QED
    BY <2>2, <2>3, SessionFacts DEF StateOf
<1>3. Relay!Renewed({s})
  <2>1. intactBar' = [k \in Socks |-> IF k[1] \in {s} THEN TRUE ELSE intactBar[k]]
    BY <1>1 DEF Forget, intactBar
  <2> QED
    BY <1>1, <2>1, SameNames DEF Forget, Relay!Renewed, Relay!Fresh
<1>4. \/ sessionBar[s] = "waiting"
      \/ sessionBar[s] = "relaying" /\ {s} \X {"client", "backend"} \subseteq shut
  <2>1. CASE thread[Client(s)] # "done"
    BY <1>1, <2>1, SessionFacts DEF StateOf, Relaying, Closed
  <2>2. CASE thread[Client(s)] = "done"
    <3>1. sessionBar[s] = "relaying"
      BY <1>1, <2>2, SessionFacts DEF StateOf, Relaying
    <3>2. Partner(Client(s)) = Backend(s) /\ Partner(Backend(s)) = Client(s)
      BY DEF Partner, Client, Backend
    <3>3. \A k \in Socks : k[1] = s /\ thread[k] = "done" =>
            Partner(k) \in shut /\ thread[Partner(k)] = "done"
      BY <1>1 DEF Told
    <3>4. Backend(s) \in shut /\ thread[Backend(s)] = "done"
      <4>1. Client(s) \in Socks /\ Client(s)[1] = s
        BY SideFacts
      <4> QED
        BY <2>2, <3>2, <3>3, <4>1
    <3>5. Client(s) \in shut
      <4>1. Backend(s) \in Socks /\ Backend(s)[1] = s
        BY SideFacts
      <4> QED
        BY <3>2, <3>3, <3>4, <4>1
    <3> QED
      BY <3>1, <3>4, <3>5 DEF Client, Backend
  <2> QED
    BY <2>1, <2>2
<1> QED
  BY <1>1, <1>2, <1>3, <1>4, ProxyFacts DEF Relay!Close

LEMMA HandlerRelays ==
  ASSUME IInv, Told, NEW s \in Sessions, Accept(s) \/ Handle(s)
  PROVE  Relay!Begin(s) \/ Relay!Close(s) \/ UNCHANGED Relay!vars
<1>1. TypeOK /\ Running /\ main = "accepting" /\ main' = main
  BY DEF IInv, DescInv, Accept, Handle, OpenBackend, Connect, StartThreads, Join, CloseClient,
         CloseBackend
<1>2. CASE StartThreads(s)
  <2>1. /\ pc[s] = "starting" /\ pc' = [pc EXCEPT ![s] = "joining"]
        /\ thread' = [k \in Socks |-> IF k[1] = s THEN "recv" ELSE thread[k]]
        /\ UNCHANGED <<peer, line, shut, sent, got>>
    BY <1>2 DEF StartThreads, Goto, tcpVars
  <2>2. \A v \in Sessions \ {s} : pc'[v] = pc[v] /\ thread'[Client(v)] = thread[Client(v)]
    BY <1>1, <2>1, SideFacts DEF TypeOK
  <2>3. \A v \in Sessions \ {s} : (Relaying(v)' <=> Relaying(v)) /\ (Closed(v)' <=> Closed(v))
    BY <2>2 DEF Relaying, Closed
  <2>4. Relaying(s)' /\ ~Relaying(s) /\ ~Closed(s)
    BY <1>1, <2>1 DEF Relaying, Closed, TypeOK
  <2>5. sessionBar[s] = "waiting" /\ sessionBar' = [sessionBar EXCEPT ![s] = "relaying"]
    BY <2>3, <2>4, SessionFacts DEF StateOf
  <2>6. intactBar' = intactBar
    BY <2>1 DEF intactBar
  <2> QED
    BY <1>1, <2>1, <2>5, <2>6, ProxyFacts DEF Relay!Begin, Relay!connections
<1>3. CASE Accept(s) \/ OpenBackend(s) \/ Connect(s) \/ Join(s) \/ CloseBackend(s)
  <2>1. \E x : pc' = [pc EXCEPT ![s] = x]
    BY <1>3 DEF Accept, OpenBackend, Connect, Join, CloseBackend, Goto
  <2>2. thread' = thread /\ UNCHANGED <<peer, line, shut, sent, got>>
    BY <1>3 DEF Accept, OpenBackend, Connect, Join, CloseBackend, threadVars, tcpVars
  <2>3. (Relaying(s)' <=> Relaying(s)) /\ (Closed(s)' <=> Closed(s))
    <3>1. CASE Accept(s) \/ OpenBackend(s) \/ Connect(s)
      <4>1. /\ pc[s] \in {"waiting", "opening", "connecting"}
            /\ pc'[s] \in {"opening", "connecting", "starting", "closing"}
        BY <1>1, <3>1 DEF Accept, OpenBackend, Connect, Goto, TypeOK
      <4>2. thread[Client(s)] = "none"
        BY <1>1, <4>1, SideFacts DEF Running
      <4> QED
        BY <2>2, <4>1, <4>2 DEF Relaying, Closed
    <3>2. CASE Join(s)
      <4>1. pc[s] = "joining" /\ pc'[s] = "closing" /\ thread[Client(s)] = "done"
        BY <1>1, <3>2 DEF Join, Goto, TypeOK
      <4> QED
        BY <2>2, <4>1 DEF Relaying, Closed
    <3>3. CASE CloseBackend(s)
      <4>1. pc[s] = "closing backend" /\ pc'[s] = "done"
        BY <1>1, <3>3 DEF CloseBackend, Goto, TypeOK
      <4> QED
        BY <4>1 DEF Relaying, Closed
    <3> QED
      BY <1>3, <3>1, <3>2, <3>3
  <2>4. \A v \in Sessions \ {s} : (Relaying(v)' <=> Relaying(v)) /\ (Closed(v)' <=> Closed(v))
    BY <1>1, <2>1, <2>2 DEF Relaying, Closed, TypeOK
  <2> QED
    BY <1>1, <2>2, <2>3, <2>4, Unseen
<1>4. CASE CloseClient(s)
  BY <1>4, CloseCloses
<1> QED
  BY <1>2, <1>3, <1>4 DEF Handle

\* While a thread forwards its session relays, and goes on to.
LEMMA ForwardFacts ==
  ASSUME IInv, NEW k \in Socks, NEW from \in {"recv", "send", "shut"}, NEW to,
         Step(k, from, to), pc' = pc, main' = main
  PROVE  /\ proxyBar = "serving" /\ proxyBar' = proxyBar
         /\ sessionBar[k[1]] = "relaying" /\ sessionBar' = sessionBar
         /\ \A s \in Sessions : (Relaying(s)' <=> Relaying(s)) /\ (Closed(s)' <=> Closed(s))
         /\ thread[k] = from /\ main = "accepting"
<1>1. /\ main = "accepting" /\ thread[k] = from /\ thread' = [thread EXCEPT ![k] = to]
      /\ TypeOK /\ pc[k[1]] = "joining"
  BY DEF Step, IInv, DescInv, Running
<1>2. ASSUME NEW s \in Sessions
      PROVE  (Relaying(s)' <=> Relaying(s)) /\ (Closed(s)' <=> Closed(s))
  <2>1. pc[s] = "closing" => thread'[Client(s)] = thread[Client(s)]
    BY <1>1, SideFacts DEF TypeOK
  <2> QED
    BY <2>1 DEF Relaying, Closed
<1>3. sessionBar' = sessionBar
  BY <1>2, SessionFacts DEF StateOf
<1>4. sessionBar[k[1]] = "relaying"
  BY <1>1, SockFacts, SessionFacts DEF StateOf, Relaying
<1> QED
  BY <1>1, <1>2, <1>3, <1>4, ProxyFacts

LEMMA RecvRelays ==
  ASSUME IInv, NEW k \in Socks, RecvData(k) \/ RecvEnd(k) \/ SendFails(k)
  PROVE  UNCHANGED Relay!vars
<1>1. /\ \E from \in {"recv", "send", "shut"}, to \in {"send", "shut"} : Step(k, from, to)
      /\ UNCHANGED <<main, pc, peer, shut, sent, got>>
  BY DEF RecvData, RecvEnd, SendFails, handlerVars
<1>2. intactBar' = intactBar
  <2>1. \/ line' = line
        \/ \E c \in Socks : line[c] # "up" /\ line' = [line EXCEPT ![c] = "broken"]
    <3>1. TypeOK /\ At(k) = k /\ At(Partner(k)) = Partner(k) /\ Partner(k) \in Socks
      BY <1>1, OwnPair DEF Step, IInv
    <3> QED
      BY <3>1 DEF RecvData, RecvEnd, SendFails
  <2> QED
    BY <2>1 DEF intactBar, IInv, TypeOK
<1>3. sessionBar' = sessionBar /\ proxyBar' = proxyBar
  BY <1>1, ForwardFacts
<1> QED
  BY <1>1, <1>2, <1>3 DEF Relay!vars, Relay!connections

\* A thread sends what it has read, which is what the peer lacks next; or the
\* peer does not read any more.
LEMMA SendRelays ==
  ASSUME IInv, NEW k \in Socks, SendData(k)
  PROVE  Relay!Deliver(Partner(k)) \/ UNCHANGED Relay!vars
<1>1. Step(k, "send", "recv") /\ main = "accepting" /\ thread[k] = "send" /\ TypeOK
  BY DEF SendData, Step, IInv
<1>2. /\ At(Partner(k)) = Partner(k) /\ Partner(k) \in Socks /\ Partner(Partner(k)) = k
      /\ Partner(k)[1] = k[1]
  BY <1>1, OwnPair, SockFacts
<1>3. /\ line[Partner(k)] = "up"
      /\ got' = IF Reads(Partner(k))
                THEN [got EXCEPT ![Partner(k)] = Append(@, buffer[k])] ELSE got
      /\ UNCHANGED <<main, pc, peer, line, shut, sent>>
  BY <1>2 DEF SendData, Reads, handlerVars
<1>4. /\ proxyBar = "serving" /\ proxyBar' = proxyBar
      /\ sessionBar[k[1]] = "relaying" /\ sessionBar' = sessionBar
  BY <1>1, <1>3, ForwardFacts
<1>5. intactBar' = intactBar /\ intactBar[Partner(k)]
  BY <1>2, <1>3 DEF intactBar
<1>6. CASE ~Reads(Partner(k))
  BY <1>3, <1>4, <1>5, <1>6 DEF Relay!vars, Relay!connections
<1>7. CASE Reads(Partner(k))
  <2>1. /\ read[k] <= sent[k] /\ buffer[k] = [from |-> k, n |-> read[k]]
        /\ Len(got[Partner(k)]) + 1 = read[k]
    BY <1>1, <1>7 DEF IInv, StreamInv, Carried, Pending
  <2>2. PICK n \in Nat : n = Len(got[Partner(k)])
    BY <1>1, <1>2, Numbers
  <2>3. n < sent[k]
    BY <1>1, <2>1, <2>2, Numbers
  <2>4. buffer[k] = [from |-> k, n |-> n + 1]
    BY <2>1, <2>2
  <2>5. Partner(k) \notin shut
    BY <1>1, <1>2 DEF IInv, StreamInv, ShutByPartner
  <2>6. got' = [got EXCEPT ![Partner(k)] = Append(@, [from |-> k, n |-> Len(@) + 1])]
    BY <1>3, <1>7, <2>2, <2>4
  <2>7. Relay!Live(Partner(k)) /\ Relay!Reads(Partner(k)) /\ Relay!Partner(Partner(k)) = k
    BY <1>2, <1>4, <1>5, <1>7, SameNames DEF Relay!Live
  <2> QED
    BY <1>3, <1>4, <1>5, <2>2, <2>3, <2>5, <2>6, <2>7 DEF Relay!Deliver
<1> QED
  BY <1>6, <1>7

LEMMA ShutRelays ==
  ASSUME IInv, NEW k \in Socks, ShutDown(k)
  PROVE  Relay!End(Partner(k))
<1>1. Step(k, "shut", "done") /\ main = "accepting" /\ thread[k] = "shut" /\ TypeOK
  BY DEF ShutDown, Step, IInv
<1>2. /\ At(Partner(k)) = Partner(k) /\ Partner(k) \in Socks /\ Partner(Partner(k)) = k
      /\ Partner(k)[1] = k[1] /\ Partner(k) # NONE
  BY <1>1, OwnPair, SockFacts
<1>3. shut' = shut \union {Partner(k)} /\ UNCHANGED <<main, pc, peer, line, sent, got>>
  BY <1>2 DEF ShutDown, handlerVars
<1>4. /\ proxyBar = "serving" /\ proxyBar' = proxyBar
      /\ sessionBar[k[1]] = "relaying" /\ sessionBar' = sessionBar
  BY <1>1, <1>3, ForwardFacts
<1>5. intactBar' = intactBar
  BY <1>3 DEF intactBar
<1>6. Partner(k) \notin shut
  BY <1>1, <1>2 DEF IInv, StreamInv, ShutByPartner
<1>7. (Reads(Partner(k)) /\ intactBar[Partner(k)] /\ intactBar[k])
        => peer[k] \in {"finished", "closed"} /\ Len(got[Partner(k)]) = sent[k]
  <2>1. pc[k[1]] = "joining"
    BY <1>1 DEF IInv, DescInv, Running
  <2>2. (Reads(Partner(k)) /\ line[Partner(k)] = "up" /\ line[k] = "up")
          => Finished(k) /\ Len(got[Partner(k)]) = sent[k]
    BY <1>1, <2>1 DEF IInv, StreamInv, Completed
  <2> QED
    BY <1>2, <2>2 DEF intactBar, Finished
<1> QED
  BY <1>2, <1>3, <1>4, <1>5, <1>6, <1>7, SameNames DEF Relay!End, Relay!Complete

LEMMA PeerRelays ==
  ASSUME IInv, NEW k \in Socks, Peer(k)
  PROVE  Relay!Send(k) \/ Relay!Leave(k) \/ Relay!Break(k) \/ UNCHANGED Relay!vars
<1>1. /\ main = "accepting" /\ pc[k[1]] = "joining" /\ line[k] = "up" /\ TypeOK
      /\ UNCHANGED <<main, pc, thread, shut, got>>
  BY DEF Peer, PeerSends, PeerLeaves, PeerResets, PeerReads, Connected, handlerVars, threadVars, IInv
<1>2. sessionBar' = sessionBar /\ proxyBar' = proxyBar
  BY <1>1, SessionFacts, ProxyFacts DEF StateOf, Relaying, Closed
<1>3. Relay!Live(k)
  <2>1. sessionBar[k[1]] = "relaying"
    BY <1>1, SockFacts, SessionFacts DEF StateOf, Relaying
  <2> QED
    BY <1>1, <2>1, ProxyFacts DEF Relay!Live, intactBar
<1>4. CASE PeerSends(k)
  <2>1. intactBar' = intactBar
    BY <1>4 DEF PeerSends, intactBar
  <2> QED
    BY <1>1, <1>2, <1>3, <1>4, <2>1 DEF PeerSends, Relay!Send
<1>5. CASE PeerLeaves(k)
  <2>1. intactBar' = intactBar
    BY <1>5 DEF PeerLeaves, intactBar
  <2> QED
    BY <1>1, <1>2, <1>3, <1>5, <2>1 DEF PeerLeaves, Relay!Leave
<1>6. CASE PeerResets(k)
  <2>1. intactBar' = [intactBar EXCEPT ![k] = FALSE]
    BY <1>1, <1>6 DEF PeerResets, intactBar, TypeOK
  <2> QED
    BY <1>1, <1>2, <1>3, <1>6, <2>1 DEF PeerResets, Relay!Break
<1>7. CASE PeerReads(k)
  <2>1. intactBar' = intactBar /\ UNCHANGED <<peer, sent>>
    BY <1>7 DEF PeerReads, intactBar
  <2> QED
    BY <1>1, <1>2, <2>1 DEF Relay!vars, Relay!connections
<1> QED
  BY <1>4, <1>5, <1>6, <1>7 DEF Peer

LEMMA StepsRelay ==
  IInv /\ Told /\ [Next]_vars => [Relay!Next]_(Relay!vars)
<1> SUFFICES ASSUME IInv, Told, [Next]_vars PROVE [Relay!Next]_(Relay!vars)
  OBVIOUS
<1>1. CASE Listen
  <2>1. CASE End("failed")
    BY <1>1, <2>1, EndStops DEF Listen, Over, Relay!Next
  <2>2. CASE main' = "accepting" /\ UNCHANGED <<handlerVars, desc, threadVars, tcpVars>>
    <3>1. sessionBar' = sessionBar /\ intactBar' = intactBar
      BY <2>2 DEF handlerVars, threadVars, tcpVars, sessionBar, intactBar
    <3>2. Relay!Start
      BY <1>1, <2>2, <3>1, ProxyFacts DEF Listen, tcpVars, Relay!Start, Relay!connections
    <3> QED
      BY <3>2 DEF Relay!Next
  <2> QED
    BY <1>1, <2>1, <2>2 DEF Listen
<1>2. CASE AcceptFails \/ ThreadFails
  BY <1>2, EndStops DEF AcceptFails, ThreadFails, Over, Relay!Next
<1>3. ASSUME NEW s \in Sessions, Accept(s) \/ Handle(s)
      PROVE  [Relay!Next]_(Relay!vars)
  BY <1>3, HandlerRelays DEF Relay!Next
<1>4. ASSUME NEW k \in Socks, Forward(k)
      PROVE  [Relay!Next]_(Relay!vars)
  <2>1. CASE SendKills(k)
    BY <2>1, EndStops DEF SendKills, Over, Relay!Next
  <2>2. CASE RecvData(k) \/ RecvEnd(k) \/ SendFails(k)
    BY <2>2, RecvRelays
  <2>3. CASE SendData(k) \/ ShutDown(k)
    <3>1. Partner(k) \in Relay!Socks
      BY SockFacts, SameNames
    <3> QED
      BY <2>3, <3>1, SendRelays, ShutRelays DEF Relay!Next
  <2> QED
    BY <1>4, <2>1, <2>2, <2>3 DEF Forward
<1>5. ASSUME NEW k \in Socks, Peer(k)
      PROVE  [Relay!Next]_(Relay!vars)
  BY <1>5, PeerRelays, SameNames DEF Relay!Next
<1>6. CASE UNCHANGED vars
  BY <1>6 DEF vars, handlerVars, threadVars, tcpVars, Relay!vars, Relay!connections, proxyBar,
              sessionBar, intactBar
<1> QED
  BY <1>1, <1>2, <1>3, <1>4, <1>5, <1>6 DEF Next

\* Every session is the pair of streams of Streams.tla, for any number of
\* sessions and descriptors and streams of any length.
THEOREM Refinement == Spec => ImplementsStreams
<1>1. Init => Relay!Init
  <2> SUFFICES ASSUME Init PROVE Relay!Init
    OBVIOUS
  <2>1. sessionBar = [s \in Sessions |-> "waiting"] /\ proxyBar = "starting"
    BY ProxyFacts, SessionFacts DEF Init, StateOf, Relaying, Closed
  <2>2. intactBar = [k \in Socks |-> TRUE]
    BY DEF Init, intactBar
  <2> QED
    BY <2>1, <2>2, SameNames DEF Init, Relay!Init, Relay!Fresh
<1>2. Init => Told
  BY DEF Init, Told
<1> QED
  BY <1>1, <1>2, ToldStep, StepsRelay, Invariance, PTL
     DEF Spec, Relay!Spec, ImplementsStreams

-----------------------------------------------------------------------------
(* The end of a session *)

\* A handler joins threads that it has started, and a peer that is gone has
\* broken its connection.
Joined ==
  \A k \in Socks : /\ pc[k[1]] = "joining" => thread[k] # "none"
                   /\ peer[k] = "gone" => line[k] # "up"

\* The thread of a connection can go on: recv waits for data or an end, and send
\* for room on a connection that is up.
ThreadReady(k) ==
  \/ thread[k] = "recv" /\ (read[k] < sent[k] \/ Ends(k))
  \/ thread[k] = "send" /\ (line[Partner(k)] = "up" => Partner(k) \notin stalled)
  \/ thread[k] = "shut"

HandlerReady(s) == \A k \in {Client(s), Backend(s)} : thread[k] = "done"

\* Once one side of a session has ended its stream or broken, its three threads
\* wait for nobody but a peer that was told so and does not end its own stream, or
\* that does not read what is being sent to it: the thread of the other direction
\* is never left in recv without the end having been passed on.
NobodyStuck ==
  \A s \in Sessions :
    (main = "accepting" /\ pc[s] = "joining" /\ \E k \in {Client(s), Backend(s)} : Ends(k)) =>
      \/ HandlerReady(s)
      \/ \E k \in {Client(s), Backend(s)} : ThreadReady(k) \/ HoldsOn(k)

\* The steps that are left to a thread: two for each item that its peer has sent
\* and it has not read, and those from where it is to its end.
StepsLeft(k) ==
  IF thread[k] \in {"recv", "send", "shut"}
  THEN 2 * (sent[k] - read[k])
       + (IF thread[k] = "send" THEN 3 ELSE IF thread[k] = "recv" THEN 2 ELSE 1)
  ELSE 0

\* A thread does nothing twice, and has more to do only when its peer sends more.
TwoStepsPerItem ==
  [][\A k \in Socks :
       /\ Forward(k) => StepsLeft(k)' < StepsLeft(k)
       /\ StepsLeft(k)' > StepsLeft(k) => PeerSends(k) \/ StartThreads(k[1])]_vars

LEMMA JoinedStep == IInv /\ Joined /\ [Next]_vars => Joined'
<1> SUFFICES ASSUME IInv, Joined, [Next]_vars
             PROVE  Joined'
  OBVIOUS
<1>1. TypeOK
  BY DEF IInv
<1>2. ASSUME NEW how, End(how)
      PROVE  Joined'
  BY <1>2, SockFacts DEF End, Joined
<1>3. CASE UNCHANGED <<pc, thread, peer, line>>
  BY <1>3 DEF Joined
<1>4. CASE Listen \/ AcceptFails \/ ThreadFails
  BY <1>2, <1>3, <1>4 DEF Listen, AcceptFails, ThreadFails, handlerVars, threadVars, tcpVars
<1>5. ASSUME NEW s \in Sessions, Accept(s) \/ Handle(s)
      PROVE  Joined'
  <2>1. ASSUME NEW stage, stage # "joining", Goto(s, stage), UNCHANGED <<thread, peer, line>>
        PROVE  Joined'
    BY <1>1, <2>1, SockFacts DEF Goto, Joined, TypeOK
  <2>2. CASE Accept(s) \/ OpenBackend(s) \/ Connect(s) \/ Join(s) \/ CloseBackend(s)
    BY <2>1, <2>2
       DEF Accept, OpenBackend, Connect, Join, CloseBackend, Goto, threadVars, tcpVars
  <2>3. CASE StartThreads(s)
    <3>1. /\ thread' = [k \in Socks |-> IF k[1] = s THEN "recv" ELSE thread[k]]
          /\ pc' = [pc EXCEPT ![s] = "joining"] /\ UNCHANGED <<peer, line>>
      BY <2>3 DEF StartThreads, Goto, tcpVars
    <3> QED
      BY <1>1, <3>1, SockFacts DEF Joined, TypeOK
  <2>4. CASE CloseClient(s)
    <3>1. /\ thread' = thread /\ \A r \in Sessions : pc'[r] = "joining" => pc[r] = "joining"
          /\ \A k \in Socks : (peer'[k] = "open" /\ line'[k] = "up")
                              \/ (peer'[k] = peer[k] /\ line'[k] = line[k])
      BY <1>1, <2>4 DEF CloseClient, Goto, Forget, threadVars, TypeOK
    <3> QED
      BY <3>1, SockFacts DEF Joined
  <2> QED
    BY <1>5, <2>2, <2>3, <2>4 DEF Handle
<1>6. ASSUME NEW k \in Socks, Forward(k)
      PROVE  Joined'
  <2>1. CASE SendKills(k)
    BY <1>2, <2>1 DEF SendKills
  <2>2. CASE ~SendKills(k)
    <3>1. /\ UNCHANGED <<pc, peer>>
          /\ \E to \in {"recv", "send", "shut", "done"} : thread' = [thread EXCEPT ![k] = to]
          /\ line' = line \/ \E c : line' = [line EXCEPT ![c] = "broken"]
      BY <1>6, <2>2
         DEF Forward, RecvData, RecvEnd, SendData, SendFails, ShutDown, Step, handlerVars
    <3> QED
      BY <1>1, <3>1 DEF Joined, TypeOK
  <2> QED
    BY <2>1, <2>2
<1>7. ASSUME NEW k \in Socks, Peer(k)
      PROVE  Joined'
  BY <1>1, <1>7
     DEF Peer, PeerSends, PeerLeaves, PeerResets, PeerReads, handlerVars, threadVars, Joined, TypeOK
<1> QED
  BY <1>3, <1>4, <1>5, <1>6, <1>7 DEF Next, vars, handlerVars, threadVars, tcpVars

\* The session ends, unless a peer holds on.
THEOREM NobodyStuckHolds == Spec => []NobodyStuck
<1>1. Init => Told /\ Joined
  BY SockFacts DEF Init, Told, Joined
<1>2. IInv /\ Told /\ Joined => NobodyStuck
  <2> SUFFICES ASSUME IInv, Told, Joined, NEW s \in Sessions, main = "accepting",
                      pc[s] = "joining", NEW k \in {Client(s), Backend(s)}, Ends(k),
                      ~HandlerReady(s), \A j \in {Client(s), Backend(s)} : ~ThreadReady(j)
               PROVE  \E j \in {Client(s), Backend(s)} : HoldsOn(j)
    BY DEF NobodyStuck
  <2> DEFINE o == Partner(k)
  <2>1. /\ k \in Socks /\ k[1] = s /\ o \in {Client(s), Backend(s)} /\ o # k
        /\ o \in Socks /\ o[1] = s
        /\ \A j \in {Client(s), Backend(s)} : j = k \/ j = o
    BY SideFacts DEF Partner
  <2> HIDE DEF o
  <2>2. thread[k] \in {"recv", "send", "shut", "done"}
        /\ thread[o] \in {"recv", "send", "shut", "done"}
    BY <2>1 DEF IInv, TypeOK, Joined
  <2>3. ASSUME NEW j \in {k, o}, thread[j] = "send"
        PROVE  HoldsOn(Partner(j)) /\ Partner(j) \in {k, o}
    <3>1. j \in Socks /\ Partner(Partner(j)) = j /\ Partner(j) \in {k, o}
      BY <2>1, SockFacts DEF o
    <3>2. line[Partner(j)] = "up" /\ Partner(j) \in stalled
      BY <2>1, <2>3 DEF ThreadReady
    <3> QED
      BY <2>3, <3>1, <3>2 DEF HoldsOn
  <2>4. CASE thread[k] = "send" \/ thread[o] = "send"
    BY <2>1, <2>3, <2>4
  <2>5. CASE thread[k] # "send" /\ thread[o] # "send"
    <3>1. thread[k] = "done"
      BY <2>2, <2>5 DEF ThreadReady
    <3>2. o \in shut
      BY <2>1, <3>1 DEF Told, o
    <3>3. thread[o] = "recv" /\ ~Ends(o)
      BY <2>1, <2>2, <2>5, <3>1 DEF HandlerReady, ThreadReady
    <3>4. peer[o] = "open" /\ line[o] = "up"
      BY <2>1, <3>3 DEF Ends, Finished, Joined, IInv, TypeOK
    <3> QED
      BY <2>1, <3>2, <3>4 DEF HoldsOn
  <2> QED
    BY <2>4, <2>5
<1>3. IInv /\ Told /\ Joined /\ [Next]_vars => Told' /\ Joined'
  BY ToldStep, JoinedStep
<1> QED
  BY <1>1, <1>2, <1>3, Invariance, PTL DEF Spec

\* No thread goes round for nothing.
THEOREM TwoStepsPerItemHolds == Spec => TwoStepsPerItem
<1> DEFINE Fewer(k) ==
      /\ Forward(k) => StepsLeft(k)' < StepsLeft(k)
      /\ StepsLeft(k)' > StepsLeft(k) => PeerSends(k) \/ StartThreads(k[1])
<1>1. IInv /\ [Next]_vars => [\A k \in Socks : Fewer(k)]_vars
  <2> SUFFICES ASSUME IInv, Next, NEW k \in Socks
               PROVE  /\ Forward(k) => StepsLeft(k)' < StepsLeft(k)
                      /\ StepsLeft(k)' > StepsLeft(k) => PeerSends(k) \/ StartThreads(k[1])
    OBVIOUS
  <2>1. /\ thread \in [Socks -> {"none", "recv", "send", "shut", "done"}]
        /\ sent \in [Socks -> 0 .. MAX_SENT] /\ read \in [Socks -> 0 .. MAX_SENT]
        /\ MAX_SENT \in Nat
    BY BoundsAssumption DEF IInv, TypeOK
  <2>2. sent[k] \in Nat /\ read[k] \in Nat /\ read[k] <= sent[k]
    <3>1. read[k] <= sent[k]
      BY DEF IInv, StreamInv, Carried
    <3> QED
      BY <2>1, <3>1
  <2>3. StepsLeft(k) \in Nat
    BY <2>2 DEF StepsLeft
  <2>4. ASSUME NEW how, End(how)
        PROVE  StepsLeft(k)' = 0
    BY <2>4 DEF End, StepsLeft
  <2>5. ASSUME Forward(k)
        PROVE  StepsLeft(k)' < StepsLeft(k)
    <3>1. thread[k] \in {"recv", "send", "shut"} /\ main = "accepting"
      BY <2>5 DEF Forward, RecvData, RecvEnd, SendData, SendFails, SendKills, ShutDown, Step
    <3>2. At(k) = k
      BY <3>1, OwnPair
    <3>3. CASE SendKills(k)
      <4>1. StepsLeft(k)' = 0
        BY <2>4, <3>3 DEF SendKills
      <4> QED
        BY <2>2, <3>1, <4>1 DEF StepsLeft
    <3>4. CASE RecvData(k)
      <4>1. /\ thread[k] = "recv" /\ thread'[k] = "send"
            /\ sent' = sent /\ read'[k] = read[k] + 1
        BY <2>1, <3>2, <3>4 DEF RecvData, Step
      <4> QED
        BY <2>2, <4>1 DEF StepsLeft
    <3>5. CASE RecvEnd(k) \/ SendData(k) \/ SendFails(k) \/ ShutDown(k)
      <4>1. sent' = sent /\ read' = read
        BY <3>5 DEF RecvEnd, SendData, SendFails, ShutDown
      <4>2. \/ thread[k] = "recv" /\ thread'[k] = "shut"
            \/ thread[k] = "send" /\ thread'[k] \in {"recv", "shut"}
            \/ thread[k] = "shut" /\ thread'[k] = "done"
        BY <2>1, <3>5 DEF RecvEnd, SendData, SendFails, ShutDown, Step
      <4> QED
        BY <2>2, <4>1, <4>2 DEF StepsLeft
    <3> QED
      BY <2>5, <3>3, <3>4, <3>5 DEF Forward
  <2>6. ASSUME ~Forward(k), ~PeerSends(k), ~StartThreads(k[1])
        PROVE  StepsLeft(k)' <= StepsLeft(k)
    <3>1. ASSUME UNCHANGED <<thread, sent, read>>
          PROVE  StepsLeft(k)' <= StepsLeft(k)
      BY <2>3, <3>1 DEF StepsLeft
    <3>2. ASSUME thread'[k] = thread[k], sent'[k] = sent[k], read'[k] = read[k]
          PROVE  StepsLeft(k)' <= StepsLeft(k)
      BY <2>3, <3>2 DEF StepsLeft
    <3>3. CASE Listen \/ AcceptFails \/ ThreadFails
      BY <2>3, <2>4, <3>1, <3>3
         DEF Listen, AcceptFails, ThreadFails, threadVars, tcpVars
    <3>4. ASSUME NEW s \in Sessions, Accept(s) \/ Handle(s)
          PROVE  StepsLeft(k)' <= StepsLeft(k)
      <4>1. CASE Accept(s) \/ OpenBackend(s) \/ Connect(s) \/ Join(s) \/ CloseBackend(s)
        BY <3>1, <4>1 DEF Accept, OpenBackend, Connect, Join, CloseBackend, threadVars, tcpVars
      <4>2. CASE StartThreads(s)
        BY <2>6, <3>2, <4>2 DEF StartThreads, tcpVars
      <4>3. CASE CloseClient(s)
        <5>1. thread' = thread
          BY <4>3 DEF CloseClient, threadVars
        <5>2. CASE k[1] = s
          <6>1. thread[k] \notin {"recv", "send", "shut"}
            BY <4>3, <5>2 DEF CloseClient, IInv, DescInv, Running
          <6> QED
            BY <5>1, <6>1 DEF StepsLeft
        <5>3. CASE k[1] # s
          BY <3>2, <4>3, <5>1, <5>3 DEF CloseClient, Forget
        <5> QED
          BY <5>2, <5>3
      <4> QED
        BY <3>4, <4>1, <4>2, <4>3 DEF Handle
    <3>5. ASSUME NEW j \in Socks, j # k, Forward(j)
          PROVE  StepsLeft(k)' <= StepsLeft(k)
      <4>1. CASE SendKills(j)
        BY <2>3, <2>4, <4>1 DEF SendKills
      <4>2. CASE ~SendKills(j)
        <5>1. /\ main = "accepting" /\ thread[j] \in {"recv", "send", "shut"}
              /\ \E to : thread' = [thread EXCEPT ![j] = to]
              /\ sent' = sent
              /\ read' = read \/ read' = [read EXCEPT ![At(j)] = @ + 1]
          BY <3>5, <4>2
             DEF Forward, RecvData, RecvEnd, SendData, SendFails, ShutDown, Step
        <5>2. At(j) = j
          BY <5>1, OwnPair
        <5> QED
          BY <2>1, <3>2, <3>5, <5>1, <5>2
      <4> QED
        BY <4>1, <4>2
    <3>6. ASSUME NEW j \in Socks, Peer(j)
          PROVE  StepsLeft(k)' <= StepsLeft(k)
      <4>1. CASE PeerSends(j)
        BY <2>1, <2>6, <3>2, <4>1 DEF PeerSends, threadVars
      <4>2. CASE PeerLeaves(j) \/ PeerResets(j) \/ PeerReads(j)
        BY <3>1, <4>2 DEF PeerLeaves, PeerResets, PeerReads, threadVars
      <4> QED
        BY <3>6, <4>1, <4>2 DEF Peer
    <3> QED
      BY <2>6, <3>3, <3>4, <3>5, <3>6 DEF Next
  <2>7. StepsLeft(k)' \in Int
    <3>1. IInv'
      BY NextIInv
    <3>2. sent' \in [Socks -> 0 .. MAX_SENT] /\ read' \in [Socks -> 0 .. MAX_SENT]
      BY <3>1 DEF IInv, TypeOK
    <3>3. sent'[k] \in 0 .. MAX_SENT /\ read'[k] \in 0 .. MAX_SENT
      BY <3>2
    <3> QED
      BY <2>1, <3>3 DEF StepsLeft
  <2> QED
    BY <2>3, <2>5, <2>6, <2>7
<1> QED
  BY <1>1, Invariance, PTL DEF Spec, TwoStepsPerItem
=============================================================================

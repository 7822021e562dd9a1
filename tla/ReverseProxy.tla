---------------------------- MODULE ReverseProxy ----------------------------
(***************************************************************************)
(* The relay in front of the web server, src/ReverseProxy/main.cpp.  main  *)
(* accepts connections; each is handled by a thread of its own, which      *)
(* connects to the backend and starts two more, one for each direction.    *)
(*                                                                         *)
(* A connection is known by its session and its side; the thread that      *)
(* forwards what comes in on a connection has the name of that connection. *)
(* Threads know connections by descriptors only, which the kernel hands    *)
(* out anew once they are closed.  What recv returns at once is one item,  *)
(* numbered by its sender; send takes it whole, since it blocks, and waits  *)
(* while the peer does not read and the buffers on the way to it are full. *)
(*                                                                         *)
(* A peer that has closed answers data with a reset.  The kernel reports a *)
(* reset once, to the next call: ECONNRESET, or EPIPE if the peer's FIN    *)
(* had come before.  EPIPE, and every send after the report, raises        *)
(* SIGPIPE, which the program does not handle.                             *)
(***************************************************************************)
EXTENDS Integers, Sequences

CONSTANTS Sessions,   \* connections of clients, each with its handler
          MAX_SENT,   \* items that a peer sends at most on a connection
          NFDS,       \* descriptors are 1 .. NFDS
          NONE        \* a free descriptor, a closed connection

Socks == Sessions \X {"client", "backend"}
Client(s) == <<s, "client">>
Backend(s) == <<s, "backend">>
Partner(k) == IF k[2] = "client" THEN Backend(k[1]) ELSE Client(k[1])

FDs == 1 .. NFDS
Items == [from : Socks, n : 1 .. MAX_SENT]

ASSUME BoundsAssumption == MAX_SENT \in Nat /\ NFDS \in Nat
ASSUME NoneAssumption == NONE \notin Socks \union Items

VARIABLES main,      \* main: "starting", "accepting", or the process is over
          pc,        \* where the handler of each session is
          fd,        \* the descriptor each handler keeps for a connection, or 0
          desc,      \* the kernel's table: the connection of each descriptor
          thread,    \* where the forwarding threads are
          buffer,    \* what each of them has read and not sent
          peer,      \* the other end: "open"; after its FIN "finished", reading
                     \* still, or "closed"; "gone" without a FIN
          line,      \* "up"; a reset not yet reported, "reset" or "pipe"; "broken"
          shut,      \* connections on which SHUT_WR was done
          sent,      \* number of items each peer sent
          read,      \* how many of them have been read, in their order
          got,       \* what the relay has written to each peer
          stalled    \* connections whose peer does not read and whose buffers are
                     \* full

handlerVars == <<pc, fd>>
threadVars == <<thread, buffer>>
tcpVars == <<peer, line, shut, sent, read, got, stalled>>
vars == <<main, handlerVars, desc, threadVars, tcpVars>>

Over == {"failed", "stopped", "aborted", "killed"}

Init ==
  /\ main = "starting"
  /\ pc = [s \in Sessions |-> "waiting"]
  /\ fd = [k \in Socks |-> 0]
  /\ desc = [f \in FDs |-> NONE]
  /\ thread = [k \in Socks |-> "none"]
  /\ buffer = [k \in Socks |-> NONE]
  /\ peer = [k \in Socks |-> "open"]
  /\ line = [k \in Socks |-> "up"]
  /\ shut = {}
  /\ sent = [k \in Socks |-> 0]
  /\ read = [k \in Socks |-> 0]
  /\ got = [k \in Socks |-> <<>>]
  /\ stalled = {}

-----------------------------------------------------------------------------
(* The process and its descriptors *)

\* The kernel hands out the lowest descriptor that is free.
Free(f) == desc[f] = NONE /\ \A g \in 1 .. f - 1 : desc[g] # NONE

Open(k, f) ==
  /\ Free(f)
  /\ desc' = [desc EXCEPT ![f] = k]
  /\ fd' = [fd EXCEPT ![k] = f]

\* What a connection is when a thread asks for it by the handler's descriptor.
At(k) == IF fd[k] \in FDs THEN desc[fd[k]] ELSE NONE

Close(k) == desc' = [f \in FDs |-> IF f = fd[k] THEN NONE ELSE desc[f]]

\* The process ends, and all of its threads and connections with it.
End(how) ==
  /\ main' = how
  /\ pc' = [s \in Sessions |-> "waiting"]
  /\ fd' = [k \in Socks |-> 0]
  /\ desc' = [f \in FDs |-> NONE]
  /\ thread' = [k \in Socks |-> "none"]
  /\ buffer' = [k \in Socks |-> NONE]
  /\ peer' = [k \in Socks |-> "open"]
  /\ line' = [k \in Socks |-> "up"]
  /\ shut' = {}
  /\ sent' = [k \in Socks |-> 0]
  /\ read' = [k \in Socks |-> 0]
  /\ got' = [k \in Socks |-> <<>>]
  /\ stalled' = {}

\* socket, bind and listen.
Listen ==
  /\ main = "starting"
  /\ \/ main' = "accepting" /\ UNCHANGED <<handlerVars, desc, threadVars, tcpVars>>
     \/ End("failed")

\* A client is accepted and gets a handler.
Accept(s) ==
  /\ main = "accepting"
  /\ pc[s] = "waiting"
  /\ \E f \in FDs : Open(Client(s), f)
  /\ pc' = [pc EXCEPT ![s] = "opening"]
  /\ UNCHANGED <<main, threadVars, tcpVars>>

\* accept fails, for want of descriptors say: main returns.
AcceptFails == main = "accepting" /\ End("stopped")

\* A thread cannot be created, for a handler or by one: nothing catches the
\* exception.
ThreadFails ==
  /\ main = "accepting"
  /\ \E s \in Sessions : pc[s] \in {"waiting", "starting"}
  /\ End("aborted")

-----------------------------------------------------------------------------
(* handle_client *)

Goto(s, stage) == pc' = [pc EXCEPT ![s] = stage]

OpenBackend(s) ==
  /\ main = "accepting"
  /\ pc[s] = "opening"
  /\ \/ /\ \E f \in FDs : Open(Backend(s), f)
        /\ Goto(s, "connecting")
     \/ Goto(s, "closing") /\ UNCHANGED <<fd, desc>>
  /\ UNCHANGED <<main, threadVars, tcpVars>>

\* getaddrinfo and connect.
Connect(s) ==
  /\ main = "accepting"
  /\ pc[s] = "connecting"
  /\ Goto(s, "starting") \/ Goto(s, "closing")
  /\ UNCHANGED <<main, fd, desc, threadVars, tcpVars>>

StartThreads(s) ==
  /\ main = "accepting"
  /\ pc[s] = "starting"
  /\ thread' = [k \in Socks |-> IF k[1] = s THEN "recv" ELSE thread[k]]
  /\ Goto(s, "joining")
  /\ UNCHANGED <<main, fd, desc, buffer, tcpVars>>

\* Mutant of Join: only the first thread is joined.
JoinOne(s) ==
  /\ main = "accepting"
  /\ pc[s] = "joining"
  /\ thread[Client(s)] = "done"
  /\ Goto(s, "closing")
  /\ UNCHANGED <<main, fd, desc, threadVars, tcpVars>>

\* Both threads are joined, one after the other, which is to wait for both.
Join(s) ==
  /\ main = "accepting"
  /\ pc[s] = "joining"
  /\ thread[Client(s)] = "done" /\ thread[Backend(s)] = "done"
  /\ Goto(s, "closing")
  /\ UNCHANGED <<main, fd, desc, threadVars, tcpVars>>

\* From here on nothing looks at the connections of the session again.
Forget(s) ==
  LET new(f, v) == [k \in Socks |-> IF k[1] = s THEN v ELSE f[k]] IN
    /\ peer' = new(peer, "open")
    /\ line' = new(line, "up")
    /\ shut' = {k \in shut : k[1] # s}
    /\ sent' = new(sent, 0)
    /\ read' = new(read, 0)
    /\ got' = new(got, <<>>)
    /\ stalled' = {k \in stalled : k[1] # s}

CloseClient(s) ==
  /\ main = "accepting"
  /\ pc[s] = "closing"
  /\ Close(Client(s))
  /\ Goto(s, IF fd[Backend(s)] = 0 THEN "done" ELSE "closing backend")
  /\ Forget(s)
  /\ UNCHANGED <<main, fd, threadVars>>

\* Mutant of CloseBackend: the descriptor is forgotten.
CloseBackendForgets(s) ==
  /\ main = "accepting"
  /\ pc[s] = "closing backend"
  /\ Goto(s, "done")
  /\ UNCHANGED <<main, fd, desc, threadVars, tcpVars>>

CloseBackend(s) ==
  /\ main = "accepting"
  /\ pc[s] = "closing backend"
  /\ Close(Backend(s))
  /\ Goto(s, "done")
  /\ UNCHANGED <<main, fd, threadVars, tcpVars>>

-----------------------------------------------------------------------------
(* forward_stream: the thread of k reads from k and sends to its partner *)

Step(k, from, to) ==
  /\ main = "accepting"
  /\ thread[k] = from
  /\ thread' = [thread EXCEPT ![k] = to]

\* recv returns data that has come, whatever has become of the connection.
RecvData(k) ==
  /\ Step(k, "recv", "send")
  /\ LET c == At(k) IN
       /\ c # NONE
       /\ read[c] < sent[c]
       /\ buffer' = [buffer EXCEPT ![k] = [from |-> c, n |-> read[c] + 1]]
       /\ read' = [read EXCEPT ![c] = @ + 1]
  /\ UNCHANGED <<main, handlerVars, desc, peer, line, shut, sent, got, stalled>>

Finished(k) == peer[k] \in {"finished", "closed"}

\* Mutant of RecvEnd: the result is not looked at before it is sent on.
RecvEndUnseen(k) ==
  /\ Step(k, "recv", "send")
  /\ LET c == At(k) IN
       /\ c # NONE
       /\ read[c] = sent[c]
       /\ Finished(c) \/ line[c] # "up"
  /\ UNCHANGED <<main, handlerVars, desc, buffer, tcpVars>>

\* recv returns 0 or -1.
RecvEnd(k) ==
  /\ Step(k, "recv", "shut")
  /\ LET c == At(k) IN
       IF c = NONE THEN UNCHANGED line
       ELSE /\ read[c] = sent[c]
            /\ Finished(c) \/ line[c] # "up"
            /\ line' = IF ~Finished(c) THEN [line EXCEPT ![c] = "broken"] ELSE line
  /\ UNCHANGED <<main, handlerVars, desc, buffer, peer, shut, sent, read, got, stalled>>

\* send on a connection that is up and takes data.  A peer that has closed loses
\* it; any other may not have read it yet, and the buffers may now be full.
SendData(k) ==
  /\ Step(k, "send", "recv")
  /\ LET c == At(Partner(k)) IN
       /\ c # NONE
       /\ line[c] = "up"
       /\ c \notin stalled
       /\ IF peer[c] \in {"open", "finished"}
          THEN /\ got' = [got EXCEPT ![c] = Append(@, buffer[k])]
               /\ stalled' \in {stalled, stalled \union {c}}
          ELSE UNCHANGED <<got, stalled>>
  /\ buffer' = [buffer EXCEPT ![k] = NONE]
  /\ UNCHANGED <<main, handlerVars, desc, peer, line, shut, sent, read>>

\* send fails and reports the reset; or the descriptor is none.
SendFails(k) ==
  /\ Step(k, "send", "shut")
  /\ LET c == At(Partner(k)) IN
       IF c = NONE THEN UNCHANGED line
       ELSE line[c] = "reset" /\ line' = [line EXCEPT ![c] = "broken"]
  /\ buffer' = [buffer EXCEPT ![k] = NONE]
  /\ UNCHANGED <<main, handlerVars, desc, peer, shut, sent, read, got, stalled>>

\* SIGPIPE ends the process.
SendKills(k) ==
  /\ main = "accepting"
  /\ thread[k] = "send"
  /\ At(Partner(k)) # NONE
  /\ line[At(Partner(k))] \in {"pipe", "broken"}
  /\ End("killed")

\* Mutant of ShutDown: the other side is not told.
ShutDownNothing(k) ==
  /\ Step(k, "shut", "done")
  /\ UNCHANGED <<main, handlerVars, desc, buffer, tcpVars>>

\* Mutant of ShutDown: the direction that is shut down is the wrong one.
ShutDownSource(k) ==
  /\ Step(k, "shut", "done")
  /\ shut' = IF At(k) = NONE THEN shut ELSE shut \union {At(k)}
  /\ UNCHANGED <<main, handlerVars, desc, buffer, peer, line, sent, read, got, stalled>>

\* shutdown(dst, SHUT_WR), whatever ended the loop.
ShutDown(k) ==
  /\ Step(k, "shut", "done")
  /\ LET c == At(Partner(k)) IN shut' = IF c = NONE THEN shut ELSE shut \union {c}
  /\ UNCHANGED <<main, handlerVars, desc, buffer, peer, line, sent, read, got, stalled>>

Forward(k) ==
  \/ RecvData(k)
  \/ RecvEnd(k)
  \/ SendData(k)
  \/ SendFails(k)
  \/ SendKills(k)
  \/ ShutDown(k)

Handle(s) ==
  \/ OpenBackend(s)
  \/ Connect(s)
  \/ StartThreads(s)
  \/ Join(s)
  \/ CloseClient(s)
  \/ CloseBackend(s)

-----------------------------------------------------------------------------
(* The peers *)

\* What a peer does before the threads run is as if it did it when they start,
\* and what it does after they have ended is not seen.
Connected(k) ==
  /\ main = "accepting"
  /\ pc[k[1]] = "joining"
  /\ line[k] = "up"

PeerSends(k) ==
  /\ Connected(k)
  /\ peer[k] = "open"
  /\ sent[k] < MAX_SENT
  /\ sent' = [sent EXCEPT ![k] = @ + 1]
  /\ UNCHANGED <<main, handlerVars, desc, threadVars, peer, line, shut, read, got>>
  /\ UNCHANGED stalled

PeerLeaves(k) ==
  /\ Connected(k)
  /\ \/ peer[k] = "open" /\ peer' = [peer EXCEPT ![k] = "finished"]
        /\ UNCHANGED stalled
     \/ peer[k] \in {"open", "finished"} /\ peer' = [peer EXCEPT ![k] = "closed"]
        /\ stalled' = stalled \ {k}
  /\ UNCHANGED <<main, handlerVars, desc, threadVars, line, shut, sent, read, got>>

\* A reset arrives, sent for data that nobody reads any more or by a peer that
\* gives up.
PeerResets(k) ==
  /\ Connected(k)
  /\ line' = [line EXCEPT ![k] = IF peer[k] = "open" THEN "reset" ELSE "pipe"]
  /\ peer' = [peer EXCEPT ![k] = IF @ = "open" THEN "gone" ELSE @]
  /\ stalled' = stalled \ {k}
  /\ UNCHANGED <<main, handlerVars, desc, threadVars, shut, sent, read, got>>

\* The peer makes room in the buffers again.
PeerReads(k) ==
  /\ Connected(k)
  /\ k \in stalled
  /\ stalled' = stalled \ {k}
  /\ UNCHANGED <<main, handlerVars, desc, threadVars, peer, line, shut, sent, read, got>>

Peer(k) ==
  \/ PeerSends(k)
  \/ PeerLeaves(k)
  \/ PeerResets(k)
  \/ PeerReads(k)

Next ==
  \/ Listen
  \/ AcceptFails
  \/ ThreadFails
  \/ \E s \in Sessions : Accept(s) \/ Handle(s)
  \/ \E k \in Socks : Forward(k) \/ Peer(k)

Spec == Init /\ [][Next]_vars

\* Threads run.  Nobody obliges a peer to anything, neither to read nor to close:
\* no socket has a timeout.
FairSpec ==
  /\ Spec
  /\ \A s \in Sessions : WF_vars(Handle(s))
  /\ \A k \in Socks : WF_vars(Forward(k))

-----------------------------------------------------------------------------
(* Properties *)

\* The type of every variable.
TypeOK ==
  /\ main \in {"starting", "accepting"} \union Over
  /\ pc \in [Sessions -> {"waiting", "opening", "connecting", "starting", "joining",
                          "closing", "closing backend", "done"}]
  /\ fd \in [Socks -> 0 .. NFDS]
  /\ desc \in [FDs -> Socks \union {NONE}]
  /\ thread \in [Socks -> {"none", "recv", "send", "shut", "done"}]
  /\ buffer \in [Socks -> Items \union {NONE}]
  /\ peer \in [Socks -> {"open", "finished", "closed", "gone"}]
  /\ line \in [Socks -> {"up", "reset", "pipe", "broken"}]
  /\ shut \in SUBSET Socks
  /\ sent \in [Socks -> 0 .. MAX_SENT]
  /\ read \in [Socks -> 0 .. MAX_SENT]
  /\ got \in [Socks -> Seq(Items)]
  /\ stalled \in SUBSET Socks

\* A thread that still forwards holds the two descriptors of its own session:
\* none has been closed under it and handed out to another session.
OwnDescriptors ==
  \A k \in Socks :
    (main = "accepting" /\ thread[k] \in {"recv", "send", "shut"})
      => At(k) = k /\ At(Partner(k)) = Partner(k)

\* Every open descriptor belongs to a session that will close it.
NothingLeaks ==
  \A f \in FDs :
    desc[f] # NONE => fd[desc[f]] = f /\ pc[desc[f][1]] # "done"

Ends(k) == Finished(k) \/ line[k] # "up"
EndsInTime(k) == (main = "accepting" /\ Ends(k)) ~> (pc[k[1]] = "done" \/ main \in Over)

\* A peer keeps its session waiting: it was told the end of the other's stream and
\* does not end its own, or does not read what is being sent to it.
HoldsOn(k) ==
  /\ line[k] = "up"
  /\ \/ k \in shut /\ peer[k] = "open"
     \/ k \in stalled /\ thread[Partner(k)] = "send"

\* When one side ends its stream, or breaks, the session comes to its end and both
\* connections are closed, unless the very same peer holds on for ever: whatever
\* becomes of one direction, the other learns of it.
SessionsEnd ==
  \A s \in Sessions :
    \/ EndsInTime(Client(s)) /\ EndsInTime(Backend(s))
    \/ <>[]HoldsOn(Client(s))
    \/ <>[]HoldsOn(Backend(s))

\* "Endless waiting is prevented, and the threads end in step": a session of
\* which one side has ended comes to its end, whatever the other does.
NoEndlessWait == \A k \in Socks : EndsInTime(k)

-----------------------------------------------------------------------------
(* The streams *)

proxyBar ==
  CASE main = "starting" -> "starting" [] main = "accepting" -> "serving" [] OTHER -> "over"

\* A session relays from when its threads are started; one that comes to be
\* closed without them was refused.
sessionBar == [s \in Sessions |->
  CASE pc[s] = "joining" \/ (pc[s] = "closing" /\ thread[Client(s)] = "done") -> "relaying"
    [] pc[s] \in {"closing backend", "done"} -> "over"
    [] OTHER -> "waiting"]

intactBar == [k \in Socks |-> line[k] = "up"]

Relay == INSTANCE Streams
  WITH proxy <- proxyBar, session <- sessionBar, intact <- intactBar, ended <- shut

\* The two threads of a session make it a faithful pair of streams, whichever
\* peer leaves first, although what they write to is a number that the kernel
\* may have given to another session: data arrives in order and without gaps,
\* an end of stream comes after all of it, and both ends are told before either
\* connection is closed.
ImplementsStreams == Relay!Spec
=============================================================================

------------------------------ MODULE Lifecycle ------------------------------
(***************************************************************************)
(* The life of the web server, src/src/main.cpp: construction, listen, the *)
(* workers of cpp-httplib that answer requests (ErrorPages), the collector *)
(* thread, signals at any moment, and the destructors in the order of the  *)
(* language: the collector first, the services, the server, and after main *)
(* the pool of the database, a static object.                              *)
(***************************************************************************)
EXTENDS ErrorPages, FiniteSets, Sequences

CONSTANTS POOL,             \* threads of the server's pool
          KEEP_ALIVE_MAX    \* requests that a connection may carry

ASSUME PoolAssumption == POOL \in Nat \ {0} /\ KEEP_ALIVE_MAX \in Nat

VARIABLES main,       \* where main is, or how the process ended
          svr_sock,   \* the listening socket: "none", "open", "invalid"; "stale" when
                      \* it was closed and its number kept
          code,       \* what main returns
          jobs,       \* connections accepted, not yet taken by a worker
          count,      \* requests so far on each connection
          gc,         \* the collector thread
          stop,       \* whether the collector has been asked to stop
          signal,     \* history: "none"; "lost", one came that had no effect; "heard"
          cut         \* history: connections closed while a worker served them

mainVars == <<main, svr_sock, code, signal, cut>>
gcVars == <<gc, stop>>
vars == <<pageVars, mainVars, jobs, count, gcVars>>

Over == {"exited", "killed", "aborted", "crashed"}
Running == main \in {"serving", "draining"}      \* is_running_

\* Connections that have a worker.
Busy == {c \in Conns : stage[c] \in {"open", "routing", "thrown", "writing", "sent"}}

Init ==
  /\ InitPages
  /\ main = "starting"
  /\ svr_sock = "none"
  /\ code = 0
  /\ jobs = <<>>
  /\ count = [c \in Conns |-> 0]
  /\ gc = "none"
  /\ stop = FALSE
  /\ signal = "none"
  /\ cut = {}

-----------------------------------------------------------------------------
(* The main thread *)

From(a, b) == main = a /\ main' = b

\* The server exists and the handlers are set.
Install ==
  /\ From("starting", "constructing")
  /\ UNCHANGED <<pageVars, svr_sock, code, jobs, count, gcVars, signal, cut>>

\* The services, the routes and the collector; what cannot be constructed throws.
Construct ==
  /\ \/ From("constructing", "binding") /\ gc' = "sleeping" /\ UNCHANGED code
     \/ From("constructing", "unwinding") /\ code' = 1 /\ UNCHANGED gc
  /\ UNCHANGED <<pageVars, svr_sock, jobs, count, stop, signal, cut>>

Bind ==
  /\ \/ From("binding", "bound") /\ svr_sock' = "open" /\ UNCHANGED code
     \/ From("binding", "joining") /\ svr_sock' = "invalid" /\ code' = 1
  /\ UNCHANGED <<pageVars, jobs, count, gcVars, signal, cut>>

\* listen_internal makes the pool of threads; if one cannot be started the
\* destructor of the others ends the process.
Listen ==
  /\ From("bound", "serving") \/ From("bound", "aborted")
  /\ UNCHANGED <<pageVars, svr_sock, code, jobs, count, gcVars, signal, cut>>

Accept(c) ==
  /\ main = "serving"
  /\ svr_sock = "open"
  /\ stage[c] = "none"
  /\ MoveOn(c, "queued")
  /\ jobs' = Append(jobs, c)
  /\ UNCHANGED <<res, raised, log, mainVars, count, gcVars>>

\* Mutant of AcceptFails: the failure is not reported.
AcceptFailsSilently ==
  /\ From("serving", "draining")
  /\ svr_sock = "open"
  /\ svr_sock' = "stale"
  /\ UNCHANGED <<pageVars, code, jobs, count, gcVars, signal, cut>>

\* An error of accept for which httplib does not try again.
AcceptFails ==
  /\ From("serving", "draining")
  /\ svr_sock = "open"
  /\ svr_sock' = "stale"
  /\ code' = 1
  /\ UNCHANGED <<pageVars, jobs, count, gcVars, signal, cut>>

LeaveLoop ==
  /\ From("serving", "draining")
  /\ svr_sock = "invalid"
  /\ UNCHANGED <<pageVars, svr_sock, code, jobs, count, gcVars, signal, cut>>

\* task_queue->shutdown joins the workers, which first empty the queue.
Drain ==
  /\ From("draining", "joining")
  /\ jobs = <<>> /\ Busy = {}
  /\ UNCHANGED <<pageVars, svr_sock, code, jobs, count, gcVars, signal, cut>>

\* Mutant of StopCollector: the thread is joined without being asked to stop.
StopCollectorUnasked ==
  /\ From("joining", "stopping")
  /\ UNCHANGED <<pageVars, svr_sock, code, jobs, count, gcVars, signal, cut>>

\* The destructor of the jthread asks it to stop, and joins it.
StopCollector ==
  /\ From("joining", "stopping")
  /\ stop' = TRUE
  /\ UNCHANGED <<pageVars, svr_sock, code, jobs, count, gc, signal, cut>>

\* Mutant of JoinCollector: a detached thread, asked to stop and not joined.
JoinCollectorDetached ==
  /\ From("stopping", "unwinding")
  /\ UNCHANGED <<pageVars, svr_sock, code, jobs, count, gcVars, signal, cut>>

JoinCollector ==
  /\ From("stopping", "unwinding")
  /\ gc = "ended"
  /\ UNCHANGED <<pageVars, svr_sock, code, jobs, count, gcVars, signal, cut>>

\* The services and then the server are destroyed.
Unwind ==
  /\ From("unwinding", "exiting")
  /\ UNCHANGED <<pageVars, svr_sock, code, jobs, count, gcVars, signal, cut>>

\* The destructors of static objects, DbManager's too.
Exit ==
  /\ From("exiting", "exited")
  /\ UNCHANGED <<pageVars, svr_sock, code, jobs, count, gcVars, signal, cut>>

Main ==
  \/ Install \/ Construct \/ Bind \/ Listen
  \/ LeaveLoop \/ Drain
  \/ StopCollector \/ JoinCollector
  \/ Unwind \/ Exit

-----------------------------------------------------------------------------
(* The workers, the collector, and signals *)

Take(c) ==
  /\ main \notin Over
  /\ jobs # <<>> /\ c = Head(jobs)
  /\ Cardinality(Busy) < POOL
  /\ jobs' = Tail(jobs)
  /\ MoveOn(c, "open")
  /\ UNCHANGED <<res, raised, log, mainVars, count, gcVars>>

\* Mutant of Request: the limit is off by one.
RequestOneMore(c) ==
  /\ main \notin Over
  /\ stage[c] \in {"open", "sent"}
  /\ count[c] <= KEEP_ALIVE_MAX
  /\ count' = [count EXCEPT ![c] = @ + 1]
  /\ MoveOn(c, "routing")
  /\ Forget(c)
  /\ UNCHANGED <<log, mainVars, jobs, gcVars>>

\* keep_alive finds a request, even one that comes after the socket was closed
\* if it is there at the first look.
Request(c) ==
  /\ main \notin Over
  /\ stage[c] \in {"open", "sent"}
  /\ count[c] < KEEP_ALIVE_MAX
  /\ count' = [count EXCEPT ![c] = @ + 1]
  /\ MoveOn(c, "routing")
  /\ Forget(c)
  /\ UNCHANGED <<log, mainVars, jobs, gcVars>>

\* It waits for one in vain, for five seconds or until the socket is closed.
Close(c) ==
  /\ main \notin Over
  /\ stage[c] \in {"open", "sent"}
  /\ MoveOn(c, "closed")
  /\ Forget(c)
  /\ UNCHANGED <<log, mainVars, jobs, count, gcVars>>

Work(c) ==
  /\ main \notin Over
  /\ Answer(c)
  /\ UNCHANGED <<mainVars, jobs, count, gcVars>>

GcMove(from, to) ==
  /\ main \notin Over
  /\ gc = from
  /\ gc' = to
  /\ UNCHANGED <<pageVars, mainVars, jobs, count, stop>>

\* Ten seconds are over and the collector was not asked to stop in them.
GcWake == ~stop /\ GcMove("sleeping", "cleaning")

\* cleanupExpiredSessions and cleanupExpiredAttempts.
GcClean == GcMove("cleaning", "sleeping")

GcEnd == stop /\ GcMove("sleeping", "ended")

Collector == GcWake \/ GcClean \/ GcEnd

\* handle_signal, once it is installed.  stop() does nothing unless the server
\* is running.  If accept had failed before, the number that it closes is not a
\* socket of its own, and may be that of a connection.  After the server was
\* destroyed the pointer dangles.
Signal ==
  /\ \/ /\ main = "starting"
        /\ main' = "killed"
        /\ UNCHANGED <<svr_sock, signal, cut>>
     \/ /\ Running
        /\ svr_sock' = "invalid"
        /\ signal' = "heard"
        /\ \/ UNCHANGED cut
           \/ svr_sock = "stale" /\ \E c \in Busy : cut' = cut \union {c}
        /\ UNCHANGED main
     \/ /\ main \in {"constructing", "binding", "bound", "joining", "stopping", "unwinding"}
        /\ signal' = IF signal = "heard" THEN signal ELSE "lost"
        /\ UNCHANGED <<main, svr_sock, cut>>
     \/ /\ main = "exiting"
        /\ main' \in {"exiting", "crashed"}
        /\ UNCHANGED <<svr_sock, signal, cut>>
  /\ UNCHANGED <<pageVars, code, jobs, count, gcVars>>

Next ==
  \/ Main
  \/ AcceptFails
  \/ Signal
  \/ Collector
  \/ \E c \in Conns : Accept(c) \/ Take(c) \/ Request(c) \/ Close(c) \/ Work(c)

Spec == Init /\ [][Next]_vars

\* Every thread runs, and a worker waits for a request only so long; clients and
\* signals need not come.  WF(Work) supposes too that a request that has begun is
\* read in finite time, to which its client has to contribute: the library bounds
\* the wait for each byte and not that for a whole line.
FairSpec ==
  /\ Spec
  /\ WF_vars(Main)
  /\ WF_vars(Collector)
  /\ \A c \in Conns : WF_vars(Take(c)) /\ WF_vars(Close(c)) /\ WF_vars(Work(c))

-----------------------------------------------------------------------------
(* Properties *)

\* The type of every variable.
TypeOK ==
  /\ stage \in [Conns -> {"none", "queued", "open", "routing", "thrown", "writing",
                          "sent", "closed"}]
  /\ res \in [Conns -> Responses]
  /\ raised \in [Conns -> Raised]
  /\ log \in SUBSET Lines
  /\ main \in {"starting", "constructing", "binding", "bound", "serving", "draining",
               "joining", "stopping", "unwinding", "exiting"} \union Over
  /\ svr_sock \in {"none", "open", "stale", "invalid"}
  /\ code \in {0, 1}
  /\ jobs \in Seq(Conns)
  /\ count \in [Conns -> 0 .. KEEP_ALIVE_MAX]
  /\ gc \in {"none", "sleeping", "cleaning", "ended"}
  /\ stop \in BOOLEAN
  /\ signal \in {"none", "lost", "heard"}
  /\ cut \in SUBSET Conns

\* No worker and no collector runs when the services it uses are destroyed.
UsesAlive ==
  main \in {"unwinding", "exiting", "exited"}
    => /\ Busy = {}
       /\ gc \in {"none", "ended"}

\* The process reports success only after a signal that the server heard, and
\* then every connection it had accepted has been served to its end; none was
\* cut by the second close of a socket.
GracefulExit ==
  (main = "exited" /\ code = 0)
    => /\ signal = "heard" /\ cut = {}
       /\ \A c \in Conns : stage[c] \in {"none", "closed"}

\* A server whose socket is closed, by a signal or after a failure, ends.
ServerEnds == (main = "draining" \/ signal = "heard") ~> main \in Over
=============================================================================

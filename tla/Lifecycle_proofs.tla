-------------------------- MODULE Lifecycle_proofs --------------------------
(***************************************************************************)
(* Proofs about Lifecycle and ErrorPages, for any number of connections,   *)
(* workers and tracking ids.  Pages follows one answer through the two     *)
(* handlers; Queue, Threads and Report relate the stages of main to the    *)
(* workers, the collector and the code that main returns.                  *)
(***************************************************************************)
EXTENDS Lifecycle, FiniteSetTheorems, TLAPS

InLog(c, details) ==
  \E line \in log :
    /\ line.id = res[c].body /\ line.conn = c /\ line.status = res[c].status
    /\ line.details = details

Cause(c) == IF raised[c].threw = "yes" THEN "exception" ELSE "status"

\* What is known of an answer at each stage.
Traced(c) ==
  /\ stage[c] = "thrown" => raised[c].threw = "yes"
  /\ (stage[c] = "writing" /\ raised[c].threw = "yes")
       => res[c].status = 500 /\ res[c].body \in Ids /\ InLog(c, "exception")
  /\ (stage[c] = "writing" /\ raised[c].threw = "no")
       => res[c] \in Served(raised[c].status, raised[c].body)
  /\ (stage[c] = "sent" /\ res[c].body \in Ids) => InLog(c, Cause(c))
  /\ stage[c] = "sent" => Kept(c)

Pages == \A c \in Conns : Traced(c)

\* Who waits is in the queue; only a running server has a queue or workers.
Queue ==
  /\ \A c \in Conns : stage[c] = "queued" => \E i \in DOMAIN jobs : jobs[i] = c
  /\ main \notin {"serving", "draining"} => jobs = <<>> /\ Busy = {}

Threads ==
  /\ main \in {"starting", "constructing"} => gc = "none"
  /\ main \in {"unwinding", "exiting", "exited"} => gc \in {"none", "ended"}

\* Code 0 is left only to those who came here by a signal.
Report ==
  /\ main \in {"draining", "joining", "stopping", "unwinding", "exiting", "exited"}
       => code = 1 \/ svr_sock = "invalid"
  /\ svr_sock = "invalid" => code = 1 \/ signal = "heard"
  /\ svr_sock = "stale" => code = 1
  /\ cut # {} => code = 1

LifeInv == Queue /\ Threads /\ Report

IInv == TypeOK /\ Pages /\ LifeInv

-----------------------------------------------------------------------------
(* The answer to one request *)

\* What happens to a connection leaves all the others, but for the log.
LEMMA OthersTraced ==
  ASSUME Pages, NEW c \in Conns, Traced(c)', log \subseteq log',
         \A d \in Conns \ {c} :
           stage'[d] = stage[d] /\ res'[d] = res[d] /\ raised'[d] = raised[d]
  PROVE  Pages'
<1> SUFFICES ASSUME NEW d \in Conns, d # c
             PROVE  Traced(d)'
  BY DEF Pages
<1>1. Traced(d) /\ stage'[d] = stage[d] /\ res'[d] = res[d] /\ raised'[d] = raised[d]
  BY DEF Pages
<1>2. ASSUME NEW details, InLog(d, details)
      PROVE  InLog(d, details)'
  BY <1>1, <1>2 DEF InLog
<1> QED
  BY <1>1, <1>2 DEF Traced, Cause, Kept

\* A line that has just been written is in the log.
LEMMA LineIsLogged ==
  ASSUME NEW c \in Conns, NEW id, NEW status, NEW details,
         Log(id, c, status, details),
         res'[c].body = id, res'[c].status = status
  PROVE  InLog(c, details)'
<1> DEFINE line == [id |-> id, conn |-> c, status |-> status, details |-> details]
<1>1. line \in log'
  BY DEF Log
<1>2. line.id = id /\ line.conn = c /\ line.status = status /\ line.details = details
  OBVIOUS
<1> HIDE DEF line
<1> QED
  BY <1>1, <1>2 DEF InLog

LEMMA AnswerTraced ==
  ASSUME TypeOK, Pages, NEW c \in Conns, Answer(c)
  PROVE  Pages'
<1>0. /\ stage \in [Conns -> {"none", "queued", "open", "routing", "thrown", "writing",
                              "sent", "closed"}]
      /\ res \in [Conns -> Responses]
      /\ raised \in [Conns -> Raised]
      /\ Traced(c)
  BY DEF TypeOK, Pages
<1>1. CASE Route(c)
  <2>. PICK s \in Statuses, b \in {EMPTY, OWN} :
          /\ \E answer \in Served(s, b) : res' = [res EXCEPT ![c] = answer]
          /\ raised' = [raised EXCEPT ![c] = [threw |-> "no", status |-> s, body |-> b]]
    BY <1>1 DEF Route
  <2>1. PICK answer \in Served(s, b) : res' = [res EXCEPT ![c] = answer]
    OBVIOUS
  <2>2. stage' = [stage EXCEPT ![c] = "writing"] /\ log' = log
    BY <1>1 DEF Route, MoveOn
  <2>3. stage'[c] = "writing" /\ res'[c] = answer /\ raised'[c].threw = "no"
        /\ raised'[c].status = s /\ raised'[c].body = b
    BY <1>0, <2>1, <2>2
  <2>4. Traced(c)'
    BY <2>3 DEF Traced
  <2> QED
    BY <1>0, <2>1, <2>2, <2>4, OthersTraced
<1>2. CASE Throw(c)
  <2>1. PICK b \in {EMPTY, OWN} :
          /\ res' = [res EXCEPT ![c] = [status |-> 200, body |-> b]]
          /\ raised' = [raised EXCEPT ![c] = [threw |-> "yes", status |-> 200, body |-> b]]
    BY <1>2 DEF Throw
  <2>2. stage' = [stage EXCEPT ![c] = "thrown"] /\ log' = log
    BY <1>2 DEF Throw, MoveOn
  <2>3. stage'[c] = "thrown" /\ raised'[c].threw = "yes"
    BY <1>0, <2>1, <2>2
  <2>4. Traced(c)'
    BY <2>3 DEF Traced
  <2> QED
    BY <1>0, <2>1, <2>2, <2>4, OthersTraced
<1>3. CASE ExceptionHandler(c)
  <2>1. PICK id \in Ids :
          /\ log' = log \union {[id |-> id, conn |-> c, status |-> 500,
                                 details |-> "exception"]}
          /\ res' = [res EXCEPT ![c] = [status |-> 500, body |-> id]]
    BY <1>3 DEF ExceptionHandler, Log
  <2>0. Log(id, c, 500, "exception")
    BY <2>1 DEF Log
  <2>2. stage[c] = "thrown" /\ stage' = [stage EXCEPT ![c] = "writing"] /\ raised' = raised
    BY <1>3 DEF ExceptionHandler, MoveOn
  <2>3. stage'[c] = "writing" /\ res'[c].status = 500 /\ res'[c].body = id
        /\ raised'[c].threw = "yes"
    BY <1>0, <2>1, <2>2 DEF Traced
  <2>4. InLog(c, "exception")'
    BY <2>0, <2>3, LineIsLogged
  <2>5. Traced(c)'
    BY <2>3, <2>4 DEF Traced
  <2> QED
    BY <1>0, <2>1, <2>2, <2>5, OthersTraced
<1>4. CASE ErrorHandler(c)
  <2>1. PICK id \in Ids :
          /\ log' = log \union {[id |-> id, conn |-> c, status |-> res[c].status,
                                 details |-> "status"]}
          /\ res' = IF res[c].body = EMPTY
                    THEN [res EXCEPT ![c] = [status |-> res[c].status, body |-> id]]
                    ELSE res
    BY <1>4 DEF ErrorHandler, Log
  <2>2. stage[c] = "writing" /\ stage' = [stage EXCEPT ![c] = "sent"] /\ raised' = raised
    BY <1>4 DEF ErrorHandler, MoveOn
  <2>3. stage'[c] = "sent"
    BY <1>0, <2>2
  <2>4. \A d \in Conns \ {c} :
          stage'[d] = stage[d] /\ res'[d] = res[d] /\ raised'[d] = raised[d]
    BY <1>0, <2>1, <2>2
  <2>5. Traced(c)'
    <3>1. CASE raised[c].threw = "yes"
      <4>1. res[c].body \in Ids /\ res[c].body # EMPTY /\ res[c].body # OWN
            /\ InLog(c, "exception")
        BY <1>0, <2>2, <3>1, BodiesAssumption DEF Traced
      <4>2. res' = res
        BY <2>1, <4>1
      <4>3. InLog(c, "exception")'
        BY <2>1, <4>1, <4>2 DEF InLog
      <4> QED
        BY <2>2, <2>3, <3>1, <4>1, <4>2, <4>3 DEF Traced, Cause, Kept
    <3>2. CASE raised[c].threw # "yes"
      <4>1. raised[c].threw = "no" /\ raised[c].body \in {EMPTY, OWN}
            /\ raised[c].status \in {200, 404, 500}
        BY <1>0, <3>2 DEF Raised, Statuses
      <4>2. res[c] \in Served(raised[c].status, raised[c].body)
        BY <1>0, <2>2, <4>1 DEF Traced
      <4>3. CASE res[c].body = EMPTY
        <5>1. res'[c].status = res[c].status /\ res'[c].body = id /\ id # OWN
          BY <1>0, <2>1, <4>3, BodiesAssumption
        <5>2. InLog(c, "status")'
          <6>1. Log(id, c, res[c].status, "status")
            BY <2>1 DEF Log
          <6> QED
            BY <5>1, <6>1, LineIsLogged
        <5>3. ~(raised[c].status >= 400 /\ raised[c].body = OWN)
          BY <4>1, <4>2, <4>3, BodiesAssumption DEF Served
        <5>4. Kept(c)'
          BY <2>2, <5>1, <5>3 DEF Kept
        <5> QED
          BY <2>2, <2>3, <4>1, <5>2, <5>4 DEF Traced, Cause
      <4>4. CASE res[c].body = OWN
        <5>1. res' = res
          BY <2>1, <4>4, BodiesAssumption
        <5>2. Kept(c)'
          BY <2>2, <4>1, <4>2, <4>4, <5>1, BodiesAssumption DEF Served, Kept
        <5> QED
          BY <2>2, <2>3, <4>4, <5>1, <5>2, BodiesAssumption DEF Traced
      <4> QED
        BY <4>1, <4>2, <4>3, <4>4 DEF Served
    <3> QED
      BY <3>1, <3>2
  <2> QED
    BY <2>1, <2>4, <2>5, OthersTraced
<1>5. CASE Send(c)
  <2>1. /\ stage[c] = "writing" /\ res[c].status < 400
        /\ stage' = [stage EXCEPT ![c] = "sent"] /\ UNCHANGED <<res, raised, log>>
    BY <1>5 DEF Send, MoveOn
  <2>2. stage'[c] = "sent"
    BY <1>0, <2>1
  <2>3. raised[c].threw # "yes"
    BY <1>0, <2>1 DEF Traced
  <2>4. raised[c].threw = "no" /\ raised[c].body \in {EMPTY, OWN}
        /\ raised[c].status \in {200, 404, 500}
    BY <1>0, <2>3 DEF Raised, Statuses
  <2>5. res[c] \in Served(raised[c].status, raised[c].body)
    BY <1>0, <2>1, <2>4 DEF Traced
  <2>6. Kept(c)' /\ res'[c].body \in {EMPTY, OWN}
    BY <2>1, <2>4, <2>5, BodiesAssumption DEF Served, Kept
  <2>7. Traced(c)'
    BY <2>1, <2>2, <2>6, BodiesAssumption DEF Traced
  <2> QED
    BY <1>0, <2>1, <2>7, OthersTraced
<1> QED
  BY <1>1, <1>2, <1>3, <1>4, <1>5 DEF Answer

\* A connection that has no answer yet, or none any more.
LEMMA NoAnswerTraced ==
  ASSUME TypeOK, Pages, NEW c \in Conns, NEW to \in {"queued", "open", "routing", "closed"},
         MoveOn(c, to), UNCHANGED log, Forget(c) \/ UNCHANGED <<res, raised>>
  PROVE  Pages'
<1>1. stage' = [stage EXCEPT ![c] = to] /\ stage'[c] = to
  BY DEF MoveOn, TypeOK
<1>2. Traced(c)'
  BY <1>1 DEF Traced
<1>3. \A d \in Conns \ {c} :
        stage'[d] = stage[d] /\ res'[d] = res[d] /\ raised'[d] = raised[d]
  BY <1>1 DEF Forget, TypeOK
<1> QED
  BY <1>2, <1>3, OthersTraced

LEMMA AnswerType ==
  ASSUME TypeOK, NEW c \in Conns, Answer(c)
  PROVE  /\ stage' \in [Conns -> {"none", "queued", "open", "routing", "thrown", "writing",
                                  "sent", "closed"}]
         /\ res' \in [Conns -> Responses]
         /\ raised' \in [Conns -> Raised]
         /\ log' \in SUBSET Lines
<1>1. CASE Route(c) \/ Throw(c)
  <2>. PICK s \in Statuses, b \in {EMPTY, OWN}, threw \in {"no", "yes"} :
          /\ \E answer \in Served(s, b) : res' = [res EXCEPT ![c] = answer]
          /\ raised' = [raised EXCEPT ![c] = [threw |-> threw, status |-> s, body |-> b]]
    BY <1>1 DEF Route, Throw, Statuses, Served
  <2>1. PICK answer \in Served(s, b) : res' = [res EXCEPT ![c] = answer]
    OBVIOUS
  <2>2. answer \in Responses
        /\ [threw |-> threw, status |-> s, body |-> b] \in Raised
    BY DEF Responses, Served, Statuses, Raised
  <2>3. res' \in [Conns -> Responses]
        /\ raised' \in [Conns -> Raised]
    BY <2>1, <2>2 DEF TypeOK
  <2> QED
    BY <1>1, <2>3 DEF Route, Throw, MoveOn, TypeOK
<1>2. CASE ExceptionHandler(c)
  <2>1. PICK id \in Ids :
          /\ Log(id, c, 500, "exception")
          /\ res' = [res EXCEPT ![c] = [status |-> 500, body |-> id]]
    BY <1>2 DEF ExceptionHandler
  <2>2. log' \in SUBSET Lines
    BY <2>1 DEF Log, TypeOK, Lines, Statuses
  <2>3. [status |-> 500, body |-> id] \in Responses
    BY DEF Responses, Statuses
  <2> QED
    BY <1>2, <2>1, <2>2, <2>3 DEF ExceptionHandler, MoveOn, TypeOK
<1>3. CASE ErrorHandler(c)
  <2>1. res[c].status \in Statuses
    BY DEF TypeOK, Responses
  <2>2. PICK id \in Ids :
          /\ Log(id, c, res[c].status, "status")
          /\ res' = IF res[c].body = EMPTY
                    THEN [res EXCEPT ![c] = [status |-> res[c].status, body |-> id]]
                    ELSE res
    BY <1>3 DEF ErrorHandler
  <2>3. log' \in SUBSET Lines
    BY <2>1, <2>2 DEF Log, TypeOK, Lines
  <2>4. [status |-> res[c].status, body |-> id] \in Responses
    BY <2>1 DEF Responses
  <2> QED
    BY <1>3, <2>2, <2>3, <2>4 DEF ErrorHandler, MoveOn, TypeOK
<1>4. CASE Send(c)
  BY <1>4 DEF Send, MoveOn, TypeOK
<1> QED
  BY <1>1, <1>2, <1>3, <1>4 DEF Answer

-----------------------------------------------------------------------------
(* The whole server *)

LEMMA InitIInv == Init => IInv
<1> SUFFICES ASSUME Init PROVE IInv
  OBVIOUS
<1>1. NoResponse \in Responses /\ NothingRaised \in Raised
  BY DEF NoResponse, NothingRaised, Responses, Statuses, Raised
<1>2. 0 \in 0 .. KEEP_ALIVE_MAX
  BY PoolAssumption
<1>3. TypeOK
  <2>1. /\ stage \in [Conns -> {"none", "queued", "open", "routing", "thrown", "writing",
                              "sent", "closed"}]
        /\ res \in [Conns -> Responses]
        /\ raised \in [Conns -> Raised]
        /\ log \in SUBSET Lines
    BY <1>1 DEF Init, InitPages
  <2>2. jobs \in Seq(Conns)
    BY DEF Init
  <2>3. count \in [Conns -> 0 .. KEEP_ALIVE_MAX]
    BY <1>2 DEF Init
  <2>4. /\ main \in {"starting", "constructing", "binding", "bound", "serving", "draining",
                    "joining", "stopping", "unwinding", "exiting"} \union Over
        /\ svr_sock \in {"none", "open", "stale", "invalid"}
        /\ code \in {0, 1}
        /\ gc \in {"none", "sleeping", "cleaning", "ended"}
        /\ stop \in BOOLEAN
        /\ signal \in {"none", "lost", "heard"}
        /\ cut \in SUBSET Conns
    BY DEF Init
  <2> QED
    BY <2>1, <2>2, <2>3, <2>4 DEF TypeOK
<1>4. Pages
  BY DEF Init, InitPages, Pages, Traced
<1>5. LifeInv
  BY DEF Init, InitPages, LifeInv, Queue, Threads, Report, Busy
<1> QED
  BY <1>3, <1>4, <1>5 DEF IInv

LEMMA PagesSame == Pages /\ UNCHANGED pageVars => Pages'
BY DEF Pages, Traced, InLog, Cause, Kept, pageVars

\* Steps of main and of signals, which touch no connection.
LEMMA MainStep ==
  ASSUME IInv, Main \/ AcceptFails \/ Signal
  PROVE  IInv'
<1> USE DEF IInv
<1>1. UNCHANGED <<pageVars, jobs, count>>
  BY DEF Main, AcceptFails, Signal, Install, Construct, Bind, Listen, LeaveLoop, Drain,
         StopCollector, JoinCollector, Unwind, Exit
<1>2. UNCHANGED <<stage, res, raised, log, jobs, count>>
  BY <1>1 DEF pageVars
<1>3. Pages'
  BY <1>1, PagesSame
<1>4. Busy' = Busy
  BY <1>2 DEF Busy
<1>5. CASE Install \/ Construct \/ Bind \/ Listen
  <2>1. /\ main \in {"starting", "constructing", "binding", "bound"}
        /\ UNCHANGED <<signal, cut, stop>>
    BY <1>5 DEF Install, Construct, Bind, Listen, From, gcVars
  <2>2. TypeOK'
    BY <1>2, <1>5 DEF Install, Construct, Bind, Listen, From, gcVars, TypeOK, Over
  <2>3. Queue'
    BY <1>2, <1>4, <2>1 DEF LifeInv, Queue
  <2>4. Threads'
    BY <1>5 DEF Install, Construct, Bind, Listen, From, gcVars, LifeInv, Threads
  <2>5. Report'
    BY <1>5 DEF Install, Construct, Bind, Listen, From, LifeInv, Report
  <2> QED
    BY <1>3, <2>2, <2>3, <2>4, <2>5 DEF LifeInv
<1>6. CASE AcceptFails \/ LeaveLoop
  <2>1. TypeOK'
    BY <1>2, <1>6 DEF AcceptFails, LeaveLoop, From, gcVars, TypeOK
  <2>2. Queue' /\ Threads'
    BY <1>2, <1>4, <1>6 DEF AcceptFails, LeaveLoop, From, gcVars, LifeInv, Queue, Threads
  <2>3. Report'
    BY <1>6 DEF AcceptFails, LeaveLoop, From, LifeInv, Report
  <2> QED
    BY <1>3, <2>1, <2>2, <2>3 DEF LifeInv
<1>7. CASE Drain \/ StopCollector \/ JoinCollector \/ Unwind \/ Exit
  <2>1. TypeOK'
    BY <1>2, <1>7 DEF Drain, StopCollector, JoinCollector, Unwind, Exit, From, gcVars,
                      TypeOK, Over
  <2>2. Queue'
    BY <1>2, <1>4, <1>7 DEF Drain, StopCollector, JoinCollector, Unwind, Exit, From,
                            LifeInv, Queue
  <2>3. Threads'
    BY <1>7 DEF Drain, StopCollector, JoinCollector, Unwind, Exit, From, gcVars,
                LifeInv, Threads
  <2>4. Report'
    BY <1>7 DEF Drain, StopCollector, JoinCollector, Unwind, Exit, From, LifeInv, Report
  <2> QED
    BY <1>3, <2>1, <2>2, <2>3, <2>4 DEF LifeInv
<1>8. CASE Signal
  <2>1. TypeOK'
    BY <1>2, <1>8 DEF Signal, Running, gcVars, TypeOK, Over, Busy
  <2>2. Queue' /\ Threads'
    BY <1>2, <1>4, <1>8 DEF Signal, Running, gcVars, LifeInv, Queue, Threads
  <2>3. Report'
    BY <1>8 DEF Signal, Running, LifeInv, Report
  <2> QED
    BY <1>3, <2>1, <2>2, <2>3 DEF LifeInv
<1> QED
  BY <1>5, <1>6, <1>7, <1>8 DEF Main

LEMMA CollectorStep ==
  ASSUME IInv, Collector
  PROVE  IInv'
<1> USE DEF IInv
<1>1. /\ UNCHANGED <<pageVars, main, svr_sock, code, signal, cut, jobs, count, stop>>
      /\ gc \in {"sleeping", "cleaning"} /\ gc' \in {"cleaning", "sleeping", "ended"}
  BY DEF Collector, GcWake, GcClean, GcEnd, GcMove, mainVars
<1>2. UNCHANGED <<stage, res, raised, log>>
  BY <1>1 DEF pageVars
<1>3. Pages'
  BY <1>1, PagesSame
<1>4. TypeOK'
  BY <1>1, <1>2 DEF TypeOK
<1>5. LifeInv'
  BY <1>1, <1>2 DEF LifeInv, Queue, Threads, Report, Busy
<1> QED
  BY <1>3, <1>4, <1>5

\* A worker works only while the server is running.
LEMMA WorkersRun ==
  ASSUME IInv, NEW c \in Conns, c \in Busy \/ jobs # <<>>
  PROVE  main \in {"serving", "draining"}
BY DEF IInv, LifeInv, Queue

LEMMA ConnStep ==
  ASSUME IInv, NEW c \in Conns, Accept(c) \/ Take(c) \/ Request(c) \/ Close(c) \/ Work(c)
  PROVE  IInv'
<1> USE DEF IInv
<1>1. UNCHANGED <<main, svr_sock, code, signal, cut, gc, stop>>
  BY DEF Accept, Take, Request, Close, Work, mainVars, gcVars
<1>2. Threads' /\ Report'
  BY <1>1 DEF LifeInv, Threads, Report
<1>3. ASSUME main \in {"serving", "draining"},
             \A d \in Conns : stage'[d] = "queued" => \E i \in DOMAIN jobs' : jobs'[i] = d
      PROVE  LifeInv'
  BY <1>1, <1>2, <1>3 DEF LifeInv, Queue
<1>4. CASE Accept(c)
  <2>1. /\ MoveOn(c, "queued") /\ jobs' = Append(jobs, c) /\ main = "serving"
        /\ UNCHANGED <<res, raised, log, count>>
    BY <1>4 DEF Accept
  <2>2. jobs \in Seq(Conns)
    BY DEF TypeOK
  <2>3. TypeOK'
    BY <1>1, <2>1, <2>2 DEF TypeOK, MoveOn
  <2>4. Pages'
    BY <2>1, NoAnswerTraced
  <2>5. ASSUME NEW d \in Conns, stage'[d] = "queued"
        PROVE  \E i \in DOMAIN jobs' : jobs'[i] = d
    <3>1. PICK n \in Nat : n = Len(jobs)
      BY <2>2
    <3>2. jobs'[n + 1] = c /\ n + 1 \in DOMAIN jobs'
          /\ \A i \in DOMAIN jobs : i \in DOMAIN jobs' /\ jobs'[i] = jobs[i]
      BY <2>1, <2>2, <3>1
    <3>3. CASE d = c
      BY <3>2, <3>3
    <3>4. CASE d # c
      <4>1. stage[d] = "queued"
        BY <2>1, <2>5, <3>4 DEF MoveOn, TypeOK
      <4> QED
        BY <3>2, <4>1 DEF LifeInv, Queue
    <3> QED
      BY <3>3, <3>4
  <2> QED
    BY <1>3, <2>1, <2>3, <2>4, <2>5
<1>5. CASE Take(c)
  <2>1. /\ MoveOn(c, "open") /\ jobs # <<>> /\ c = Head(jobs) /\ jobs' = Tail(jobs)
        /\ UNCHANGED <<res, raised, log, count>>
    BY <1>5 DEF Take
  <2>2. jobs \in Seq(Conns)
    BY DEF TypeOK
  <2>3. TypeOK'
    BY <1>1, <2>1, <2>2 DEF TypeOK, MoveOn
  <2>4. Pages'
    BY <2>1, NoAnswerTraced
  <2>5. ASSUME NEW d \in Conns, stage'[d] = "queued"
        PROVE  \E i \in DOMAIN jobs' : jobs'[i] = d
    <3>1. d # c /\ stage[d] = "queued"
      BY <2>1, <2>5 DEF MoveOn, TypeOK
    <3>2. PICK i \in DOMAIN jobs : jobs[i] = d
      BY <3>1 DEF LifeInv, Queue
    <3>3. PICK n \in Nat : n = Len(jobs)
      BY <2>2
    <3>4. jobs[1] = c /\ DOMAIN jobs = 1 .. n
      BY <2>1, <2>2, <3>3
    <3>5. i \in 1 .. n /\ i # 1
      BY <3>1, <3>2, <3>4
    <3>6. i - 1 \in DOMAIN jobs' /\ jobs'[i - 1] = jobs[i]
      BY <2>1, <2>2, <3>3, <3>5
    <3> QED
      BY <3>2, <3>6
  <2> QED
    BY <1>3, <2>1, <2>3, <2>4, <2>5, WorkersRun
<1>6. CASE Request(c) \/ Close(c)
  <2>1. PICK to \in {"routing", "closed"} : MoveOn(c, to)
    BY <1>6 DEF Request, Close
  <2>2. c \in Busy /\ Forget(c) /\ UNCHANGED <<log, jobs>>
    BY <1>6 DEF Request, Close, Busy
  <2>3. count' \in [Conns -> 0 .. KEEP_ALIVE_MAX]
    <3>1. CASE Request(c)
      <4>1. count[c] \in 0 .. KEEP_ALIVE_MAX /\ count[c] < KEEP_ALIVE_MAX
        BY <3>1 DEF Request, TypeOK
      <4>2. count[c] + 1 \in 0 .. KEEP_ALIVE_MAX
        BY <4>1, PoolAssumption
      <4> QED
        BY <3>1, <4>2 DEF Request, TypeOK
    <3>2. CASE Close(c)
      BY <3>2 DEF Close, TypeOK
    <3> QED
      BY <1>6, <3>1, <3>2
  <2>4. NoResponse \in Responses
        /\ NothingRaised \in Raised
    BY DEF NoResponse, NothingRaised, Responses, Statuses, Raised
  <2>5. TypeOK'
    BY <1>1, <2>1, <2>2, <2>3, <2>4 DEF TypeOK, MoveOn, Forget
  <2>6. Pages'
    BY <2>1, <2>2, NoAnswerTraced
  <2>7. \A d \in Conns : stage'[d] = "queued" => stage[d] = "queued"
    BY <2>1 DEF MoveOn, TypeOK
  <2> QED
    BY <1>3, <2>2, <2>5, <2>6, <2>7, WorkersRun DEF LifeInv, Queue
<1>7. CASE Work(c)
  <2>1. Answer(c) /\ UNCHANGED <<jobs, count>>
    BY <1>7 DEF Work
  <2>2. c \in Busy
    BY <2>1 DEF Answer, Route, Throw, ExceptionHandler, ErrorHandler, Send, Busy
  <2>3. TypeOK'
    BY <1>1, <2>1, AnswerType DEF TypeOK
  <2>4. Pages'
    BY <2>1, AnswerTraced
  <2>5. \A d \in Conns : stage'[d] = "queued" => stage[d] = "queued"
    BY <2>1 DEF Answer, Route, Throw, ExceptionHandler, ErrorHandler, Send, MoveOn, TypeOK
  <2> QED
    BY <1>3, <2>1, <2>2, <2>3, <2>4, <2>5, WorkersRun DEF LifeInv, Queue
<1> QED
  BY <1>4, <1>5, <1>6, <1>7

LEMMA NextIInv == IInv /\ [Next]_vars => IInv'
<1> SUFFICES ASSUME IInv, [Next]_vars PROVE IInv'
  OBVIOUS
<1>1. CASE Next
  BY <1>1, MainStep, CollectorStep, ConnStep DEF Next
<1>2. CASE UNCHANGED vars
  <2>1. UNCHANGED <<pageVars, stage, res, raised, log, main, svr_sock, code, signal, cut,
                    jobs, count, gc, stop>>
    BY <1>2 DEF vars, pageVars, mainVars, gcVars
  <2>2. TypeOK'
    BY <2>1 DEF IInv, TypeOK
  <2>3. Pages'
    BY <2>1, PagesSame DEF IInv
  <2>4. LifeInv'
    BY <2>1 DEF IInv, LifeInv, Queue, Threads, Report, Busy
  <2> QED
    BY <2>2, <2>3, <2>4 DEF IInv
<1> QED
  BY <1>1, <1>2

\* The invariant of every state of the server.
THEOREM Invariance == Spec => []IInv
<1> QED
  BY InitIInv, NextIInv, PTL DEF Spec

\* The type of every variable, always.
THEOREM TypeCorrect == Spec => []TypeOK
<1>1. IInv => TypeOK
  BY DEF IInv
<1> QED
  BY <1>1, Invariance, PTL

\* Every error page can be traced in the log, to the exception if there was one.
THEOREM ShownIsLoggedAlways == Spec => []ShownIsLogged
<1>1. IInv => ShownIsLogged
  BY DEF IInv, Pages, Traced, InLog, Cause, ShownIsLogged
<1> QED
  BY <1>1, Invariance, PTL

\* A controller's own error answer is what the client gets.
THEOREM OwnAnswersAlways == Spec => []OwnAnswers
<1>1. IInv => OwnAnswers
  BY DEF IInv, Pages, Traced, OwnAnswers
<1> QED
  BY <1>1, Invariance, PTL

\* Nothing is used after its destruction.
THEOREM UsesAliveAlways == Spec => []UsesAlive
<1>1. IInv => UsesAlive
  BY DEF IInv, LifeInv, Queue, Threads, UsesAlive
<1> QED
  BY <1>1, Invariance, PTL

\* An exit with 0 was asked for, and cut nobody short.
THEOREM GracefulExitAlways == Spec => []GracefulExit
<1>1. IInv => GracefulExit
  <2> SUFFICES ASSUME IInv, main = "exited", code = 0
               PROVE  /\ signal = "heard" /\ cut = {}
                      /\ \A c \in Conns : stage[c] \in {"none", "closed"}
    BY DEF GracefulExit
  <2>1. signal = "heard" /\ cut = {}
    BY DEF IInv, LifeInv, Report
  <2>2. jobs = <<>> /\ Busy = {}
    BY DEF IInv, LifeInv, Queue
  <2>3. ASSUME NEW c \in Conns
        PROVE  stage[c] \in {"none", "closed"}
    <3>1. stage[c] # "queued"
      BY <2>2 DEF IInv, LifeInv, Queue
    <3>2. stage[c] \notin {"open", "routing", "thrown", "writing", "sent"}
      BY <2>2 DEF Busy
    <3> QED
      BY <3>1, <3>2 DEF IInv, TypeOK
  <2> QED
    BY <2>1, <2>3
<1> QED
  BY <1>1, Invariance, PTL

\* A client is shown what happened to its own request.
THEOREM AnswersAlways == Spec => []Answers
BY ShownIsLoggedAlways, OwnAnswersAlways, PTL DEF Answers

-----------------------------------------------------------------------------
(* The end of the server *)

\* Each connection waits in the queue once, and only while no worker has it.
QueuedOnce ==
  /\ \A i \in DOMAIN jobs : stage[jobs[i]] = "queued"
  /\ \A i, j \in DOMAIN jobs : jobs[i] = jobs[j] => i = j

\* A signal is heard by a running server only, and then the socket is closed; the
\* collector runs until it is asked to stop, and it is asked before it is joined.
Asked ==
  /\ signal = "heard" => /\ main \notin {"starting", "constructing", "binding", "bound"}
                         /\ main = "serving" => svr_sock = "invalid"
  /\ stop => main \in {"stopping", "unwinding", "exiting"} \union Over
  /\ main \in {"binding", "bound", "serving", "draining", "joining", "stopping"}
       => gc \in {"sleeping", "cleaning", "ended"}
  /\ main = "stopping" => stop

EndInv == QueuedOnce /\ Asked

\* Whom the main thread waits for, on its way to the end.
MainReady ==
  \/ main \in {"joining", "unwinding", "exiting"}
  \/ main = "serving" /\ svr_sock = "invalid"
  \/ main = "draining" /\ jobs = <<>> /\ Busy = {}
  \/ main = "stopping" /\ gc = "ended"
WorkersReady == Busy # {} \/ (jobs # <<>> /\ Cardinality(Busy) < POOL)
CollectorReady == stop /\ gc \in {"sleeping", "cleaning"}

\* Once the socket is closed the main thread waits for nobody who cannot go on.
NobodyStuck ==
  (main = "draining" \/ signal = "heard") =>
    \/ main \in Over
    \/ MainReady
    \/ main = "draining" /\ WorkersReady
    \/ main = "stopping" /\ CollectorReady

\* The steps that are left to each thread.
StagesOfMain(m) ==
  CASE m = "starting" -> 10 [] m = "constructing" -> 9 [] m = "binding" -> 8
    [] m = "bound" -> 7 [] m = "serving" -> 6 [] m = "draining" -> 5
    [] m = "joining" -> 4 [] m = "stopping" -> 3 [] m = "unwinding" -> 2
    [] m = "exiting" -> 1 [] OTHER -> 0
StagesOfCollector(g) == CASE g = "cleaning" -> 2 [] g = "sleeping" -> 1 [] OTHER -> 0
StagesLeft(s) ==
  CASE s = "routing" -> 4 [] s \in {"none", "thrown"} -> 3 [] s \in {"queued", "writing"} -> 2
    [] s \in {"open", "sent"} -> 1 [] OTHER -> 0
MainLeft == StagesOfMain(main)
CollectorLeft == StagesOfCollector(gc)
WorkLeft(c) == 4 * (KEEP_ALIVE_MAX - count[c]) + StagesLeft(stage[c])

Serves(c) == Accept(c) \/ Take(c) \/ Request(c) \/ Close(c) \/ Work(c)

\* Nothing that the threads do is done twice: every step of main, of a worker for
\* its connection, and of the collector that was asked to stop brings the
\* end nearer, and no step of anybody, nor a signal, takes it further away.
WindsDown ==
  [][/\ MainLeft' <= MainLeft /\ (Main => MainLeft' < MainLeft)
     /\ stop => /\ stop' /\ CollectorLeft' <= CollectorLeft
                /\ Collector => CollectorLeft' < CollectorLeft
     /\ \A c \in Conns : /\ WorkLeft(c)' <= WorkLeft(c)
                         /\ Serves(c) => WorkLeft(c)' < WorkLeft(c)]_vars

LEMMA StageFacts ==
  /\ StagesLeft("routing") = 4 /\ StagesLeft("none") = 3 /\ StagesLeft("thrown") = 3
  /\ StagesLeft("queued") = 2 /\ StagesLeft("writing") = 2
  /\ StagesLeft("open") = 1 /\ StagesLeft("sent") = 1 /\ StagesLeft("closed") = 0
BY DEF StagesLeft

LEMMA MainFacts ==
  /\ StagesOfMain("starting") = 10 /\ StagesOfMain("constructing") = 9
  /\ StagesOfMain("binding") = 8 /\ StagesOfMain("bound") = 7
  /\ StagesOfMain("serving") = 6 /\ StagesOfMain("draining") = 5
  /\ StagesOfMain("joining") = 4 /\ StagesOfMain("stopping") = 3
  /\ StagesOfMain("unwinding") = 2 /\ StagesOfMain("exiting") = 1
  /\ \A m \in Over : StagesOfMain(m) = 0
BY DEF StagesOfMain, Over

LEMMA CollectorFacts ==
  /\ StagesOfCollector("cleaning") = 2 /\ StagesOfCollector("sleeping") = 1
  /\ StagesOfCollector("ended") = 0 /\ StagesOfCollector("none") = 0
BY DEF StagesOfCollector

LEMMA QueuedOnceStep == IInv /\ QueuedOnce /\ [Next]_vars => QueuedOnce'
<1> SUFFICES ASSUME IInv, QueuedOnce, [Next]_vars
             PROVE  QueuedOnce'
  OBVIOUS
<1>1. TypeOK /\ jobs \in Seq(Conns)
  BY DEF IInv, TypeOK
<1>2. PICK n \in Nat : n = Len(jobs)
  BY <1>1
<1>3. DOMAIN jobs = 1 .. n /\ \A i \in 1 .. n : jobs[i] \in Conns
  BY <1>1, <1>2
<1>4. CASE UNCHANGED <<stage, jobs>>
  BY <1>4 DEF QueuedOnce
<1>5. ASSUME NEW c \in Conns, Accept(c)
      PROVE  QueuedOnce'
  <2>1. stage[c] = "none" /\ stage' = [stage EXCEPT ![c] = "queued"] /\ jobs' = Append(jobs, c)
    BY <1>5 DEF Accept, MoveOn
  <2>2. \A i \in 1 .. n : jobs[i] # c
    BY <1>3, <2>1 DEF QueuedOnce
  <2>3. DOMAIN jobs' = 1 .. n + 1 /\ jobs'[n + 1] = c /\ \A i \in 1 .. n : jobs'[i] = jobs[i]
    BY <1>1, <1>2, <2>1
  <2>4. \A i \in 1 .. n + 1 : i = n + 1 \/ i \in 1 .. n
    OBVIOUS
  <2>5. \A i \in 1 .. n : stage'[jobs[i]] = "queued"
    BY <1>1, <1>3, <2>1, <2>2 DEF QueuedOnce, TypeOK
  <2>6. stage'[c] = "queued"
    BY <1>1, <2>1 DEF TypeOK
  <2> QED
    BY <1>3, <2>2, <2>3, <2>4, <2>5, <2>6 DEF QueuedOnce
<1>6. ASSUME NEW c \in Conns, Take(c)
      PROVE  QueuedOnce'
  <2>1. /\ jobs # <<>> /\ c = Head(jobs) /\ jobs' = Tail(jobs)
        /\ stage' = [stage EXCEPT ![c] = "open"]
    BY <1>6 DEF Take, MoveOn
  <2>2. n >= 1 /\ c = jobs[1]
    BY <1>1, <1>2, <2>1
  <2>3. DOMAIN jobs' = 1 .. n - 1 /\ \A i \in 1 .. n - 1 : jobs'[i] = jobs[i + 1]
    BY <1>1, <1>2, <2>1, <2>2
  <2>4. \A i \in 1 .. n - 1 : i + 1 \in 1 .. n /\ i + 1 # 1
    OBVIOUS
  <2>5. \A i \in 1 .. n - 1 : jobs[i + 1] \in Conns \ {c} /\ stage[jobs[i + 1]] = "queued"
    BY <1>3, <2>2, <2>4 DEF QueuedOnce
  <2>6. \A d \in Conns \ {c} : stage'[d] = stage[d]
    BY <1>1, <2>1 DEF TypeOK
  <2>7. \A i, j \in 1 .. n - 1 : jobs[i + 1] = jobs[j + 1] => i = j
    <3> SUFFICES ASSUME NEW i \in 1 .. n - 1, NEW j \in 1 .. n - 1, jobs[i + 1] = jobs[j + 1]
                 PROVE  i = j
      OBVIOUS
    <3>1. i + 1 = j + 1
      BY <1>3, <2>4 DEF QueuedOnce
    <3> QED
      BY <3>1
  <2> QED
    BY <2>3, <2>5, <2>6, <2>7 DEF QueuedOnce
<1>7. ASSUME NEW c \in Conns, Request(c) \/ Close(c) \/ Work(c)
      PROVE  QueuedOnce'
  <2>1. /\ jobs' = jobs /\ stage[c] # "queued"
        /\ \E to : stage' = [stage EXCEPT ![c] = to]
    BY <1>7 DEF Request, Close, Work, Answer, Route, Throw, ExceptionHandler, ErrorHandler, Send,
                MoveOn
  <2>2. \A d \in Conns \ {c} : stage'[d] = stage[d]
    BY <1>1, <2>1 DEF TypeOK
  <2> QED
    BY <1>3, <2>1, <2>2 DEF QueuedOnce
<1> QED
  BY <1>4, <1>5, <1>6, <1>7
     DEF Next, Main, AcceptFails, Signal, Collector, GcWake, GcClean, GcEnd, GcMove, Install,
         Construct, Bind, Listen, LeaveLoop, Drain, StopCollector, JoinCollector, Unwind, Exit,
         vars, pageVars

LEMMA AskedStep == IInv /\ Asked /\ [Next]_vars => Asked'
<1> SUFFICES ASSUME IInv, Asked, [Next]_vars
             PROVE  Asked'
  OBVIOUS
<1>1. TypeOK
  BY DEF IInv
<1>2. CASE UNCHANGED <<main, svr_sock, signal, stop, gc>>
  BY <1>2 DEF Asked
<1>3. CASE Install \/ Construct \/ Bind \/ Listen
  BY <1>1, <1>3 DEF Install, Construct, Bind, Listen, From, gcVars, Asked, Over
<1>4. CASE LeaveLoop \/ Drain \/ StopCollector \/ JoinCollector \/ Unwind \/ Exit \/ AcceptFails
  BY <1>1, <1>4
     DEF LeaveLoop, Drain, StopCollector, JoinCollector, Unwind, Exit, AcceptFails, From, gcVars,
         Asked, Over
<1>5. CASE Signal
  BY <1>1, <1>5 DEF Signal, Running, gcVars, Asked, Over
<1>6. CASE Collector
  BY <1>1, <1>6 DEF Collector, GcWake, GcClean, GcEnd, GcMove, mainVars, Asked
<1>7. ASSUME NEW c \in Conns, Serves(c)
      PROVE  UNCHANGED <<main, svr_sock, signal, stop, gc>>
  BY <1>7 DEF Serves, Accept, Take, Request, Close, Work, mainVars, gcVars
<1> QED
  BY <1>2, <1>3, <1>4, <1>5, <1>6, <1>7 DEF Next, Main, Serves, vars, mainVars, gcVars

LEMMA EndAlways == Spec => []EndInv
<1>1. Init => EndInv
  BY DEF Init, EndInv, QueuedOnce, Asked
<1>2. IInv /\ EndInv /\ [Next]_vars => EndInv'
  BY QueuedOnceStep, AskedStep DEF EndInv
<1> QED
  BY <1>1, <1>2, Invariance, PTL DEF Spec

\* A server that was told to end does not hang in a join.
THEOREM NobodyStuckHolds == Spec => []NobodyStuck
<1>1. IInv /\ EndInv => NobodyStuck
  <2> SUFFICES ASSUME IInv, EndInv, main = "draining" \/ signal = "heard", main \notin Over
               PROVE  \/ MainReady
                      \/ main = "draining" /\ WorkersReady
                      \/ main = "stopping" /\ CollectorReady
    BY DEF NobodyStuck
  <2>1. main \in {"serving", "draining", "joining", "stopping", "unwinding", "exiting"}
    BY DEF IInv, TypeOK, EndInv, Asked
  <2>2. CASE main = "serving"
    BY <2>2 DEF EndInv, Asked, MainReady
  <2>3. CASE main = "draining"
    <3>1. Cardinality({}) < POOL
      BY PoolAssumption, FS_EmptySet
    <3> QED
      BY <2>3, <3>1 DEF MainReady, WorkersReady
  <2>4. CASE main = "stopping"
    BY <2>4 DEF EndInv, Asked, MainReady, CollectorReady
  <2> QED
    BY <2>1, <2>2, <2>3, <2>4 DEF MainReady
<1> QED
  BY <1>1, Invariance, EndAlways, PTL

LEMMA MainWindsDown ==
  ASSUME IInv, [Next]_vars
  PROVE  MainLeft' <= MainLeft /\ (Main => MainLeft' < MainLeft)
<1>1. CASE Main
  <2>1. MainLeft' < MainLeft
    BY <1>1, MainFacts
       DEF Main, Install, Construct, Bind, Listen, LeaveLoop, Drain, StopCollector,
           JoinCollector, Unwind, Exit, From, MainLeft, Over
  <2>2. MainLeft \in 0 .. 10 /\ MainLeft' \in 0 .. 10
    BY DEF MainLeft, StagesOfMain
  <2> QED
    BY <2>1, <2>2
<1>2. CASE AcceptFails \/ Signal
  <2>1. ~Main \/ MainLeft' < MainLeft
    BY <1>1
  <2>2. MainLeft' <= MainLeft
    BY <1>2, MainFacts DEF AcceptFails, Signal, Running, From, MainLeft, Over
  <2> QED
    BY <1>1, <2>2
<1>3. CASE main' = main
  BY <1>1, <1>3 DEF MainLeft, StagesOfMain
<1> QED
  BY <1>1, <1>2, <1>3
     DEF Next, Collector, GcWake, GcClean, GcEnd, GcMove, Accept, Take, Request, Close, Work,
         vars, mainVars

LEMMA CollectorWindsDown ==
  ASSUME IInv, EndInv, [Next]_vars, stop
  PROVE  /\ stop' /\ CollectorLeft' <= CollectorLeft
         /\ Collector => CollectorLeft' < CollectorLeft
<1>1. CollectorLeft \in 0 .. 2 /\ CollectorLeft' \in 0 .. 2
  BY DEF CollectorLeft, StagesOfCollector
<1>2. stop' /\ (UNCHANGED gc \/ GcClean \/ GcEnd)
  BY DEF EndInv, Asked, Over, Next, Main, Install, Construct, Bind, Listen, LeaveLoop, Drain,
         StopCollector, JoinCollector, Unwind, Exit, From, AcceptFails, Signal, Collector, GcWake,
         GcClean, GcEnd, GcMove, Accept, Take, Request, Close, Work, vars, gcVars
<1>3. CASE GcClean \/ GcEnd
  BY <1>1, <1>2, <1>3, CollectorFacts DEF GcClean, GcEnd, GcMove, CollectorLeft
<1>4. CASE UNCHANGED gc
  <2>1. ~Collector
    BY <1>4 DEF Collector, GcWake, GcClean, GcEnd, GcMove
  <2> QED
    BY <1>1, <1>2, <1>4, <2>1 DEF CollectorLeft
<1> QED
  BY <1>2, <1>3, <1>4

LEMMA WorkersWindDown ==
  ASSUME IInv, EndInv, [Next]_vars, NEW c \in Conns
  PROVE  WorkLeft(c)' <= WorkLeft(c) /\ (Serves(c) => WorkLeft(c)' < WorkLeft(c))
<1>1. /\ stage \in [Conns -> {"none", "queued", "open", "routing", "thrown", "writing",
                              "sent", "closed"}]
      /\ count \in [Conns -> 0 .. KEEP_ALIVE_MAX] /\ KEEP_ALIVE_MAX \in Nat
  BY PoolAssumption DEF IInv, TypeOK
<1>2. StagesLeft(stage[c]) \in 0 .. 4 /\ WorkLeft(c) \in Int
  BY <1>1 DEF StagesLeft, WorkLeft
<1>3. ASSUME NEW to \in {"none", "queued", "open", "routing", "thrown", "writing", "sent",
                         "closed"},
             MoveOn(c, to), count'[c] = count[c], StagesLeft(to) < StagesLeft(stage[c])
      PROVE  WorkLeft(c)' < WorkLeft(c)
  <2>1. stage'[c] = to
    BY <1>1, <1>3 DEF MoveOn
  <2>2. StagesLeft(to) \in 0 .. 4
    BY DEF StagesLeft
  <2> QED
    BY <1>1, <1>2, <1>3, <2>1, <2>2 DEF WorkLeft
<1>4. ASSUME Accept(c)
      PROVE  WorkLeft(c)' < WorkLeft(c)
  BY <1>3, <1>4, StageFacts DEF Accept
<1>5. ASSUME Take(c)
      PROVE  WorkLeft(c)' < WorkLeft(c)
  <2>1. stage[c] = "queued"
    <3>1. PICK n \in Nat : n = Len(jobs)
      BY DEF IInv, TypeOK
    <3>2. 1 \in DOMAIN jobs /\ jobs[1] = c
      BY <1>5, <3>1 DEF Take, IInv, TypeOK
    <3> QED
      BY <3>2 DEF EndInv, QueuedOnce
  <2> QED
    BY <1>3, <1>5, <2>1, StageFacts DEF Take
<1>6. ASSUME Request(c)
      PROVE  WorkLeft(c)' < WorkLeft(c)
  <2>1. stage'[c] = "routing" /\ count'[c] = count[c] + 1
    BY <1>1, <1>6 DEF Request, MoveOn
  <2>2. StagesLeft(stage[c]) = 1 /\ StagesLeft(stage'[c]) = 4
    BY <1>6, <2>1, StageFacts DEF Request
  <2>3. count[c] \in Nat
    BY <1>1
  <2> QED
    BY <1>1, <2>1, <2>2, <2>3 DEF WorkLeft
<1>7. ASSUME Close(c)
      PROVE  WorkLeft(c)' < WorkLeft(c)
  BY <1>3, <1>7, StageFacts DEF Close
<1>8. ASSUME Work(c)
      PROVE  WorkLeft(c)' < WorkLeft(c)
  BY <1>3, <1>8, StageFacts
     DEF Work, Answer, Route, Throw, ExceptionHandler, ErrorHandler, Send
<1>9. CASE ~Serves(c)
  <2>1. stage'[c] = stage[c] /\ count'[c] = count[c]
    <3>1. ASSUME NEW d \in Conns, d # c, Serves(d)
          PROVE  stage'[c] = stage[c] /\ count'[c] = count[c]
      <4>1. \E to : stage' = [stage EXCEPT ![d] = to]
        BY <3>1 DEF Serves, Accept, Take, Request, Close, Work, Answer, Route, Throw,
                    ExceptionHandler, ErrorHandler, Send, MoveOn
      <4>2. count' = count \/ \E m : count' = [count EXCEPT ![d] = m]
        BY <3>1 DEF Serves, Accept, Take, Request, Close, Work
      <4> QED
        BY <1>1, <3>1, <4>1, <4>2
    <3> QED
      BY <1>9, <3>1
         DEF Serves, Next, Main, Install, Construct, Bind, Listen, LeaveLoop, Drain,
             StopCollector, JoinCollector, Unwind, Exit, AcceptFails, Signal, Collector, GcWake,
             GcClean, GcEnd, GcMove, vars, pageVars
  <2> QED
    BY <1>2, <1>9, <2>1 DEF WorkLeft
<1>10. CASE Serves(c)
  <2>1. WorkLeft(c)' < WorkLeft(c)
    BY <1>4, <1>5, <1>6, <1>7, <1>8, <1>10 DEF Serves
  <2>2. WorkLeft(c)' \in Int
    <3>1. count'[c] \in Int
      BY <1>1, <1>10 DEF Serves, Accept, Take, Request, Close, Work
    <3>2. StagesLeft(stage'[c]) \in 0 .. 4
      BY DEF StagesLeft
    <3> QED
      BY <1>1, <3>1, <3>2 DEF WorkLeft
  <2> QED
    BY <1>2, <2>1, <2>2
<1> QED
  BY <1>9, <1>10

\* The server winds down.
THEOREM WindsDownHolds == Spec => WindsDown
<1>1. IInv /\ EndInv /\ [Next]_vars =>
        [/\ MainLeft' <= MainLeft /\ (Main => MainLeft' < MainLeft)
         /\ stop => /\ stop' /\ CollectorLeft' <= CollectorLeft
                    /\ Collector => CollectorLeft' < CollectorLeft
         /\ \A c \in Conns : /\ WorkLeft(c)' <= WorkLeft(c)
                             /\ Serves(c) => WorkLeft(c)' < WorkLeft(c)]_vars
  BY MainWindsDown, CollectorWindsDown, WorkersWindDown
<1> QED
  BY <1>1, Invariance, EndAlways, PTL DEF Spec, WindsDown

\* Few steps are left to each thread, and a connection has at most four for each
\* request it may carry and four more.
THEOREM StepsAreFew ==
  Spec => [](/\ MainLeft \in 0 .. 10 /\ CollectorLeft \in 0 .. 2
             /\ \A c \in Conns : WorkLeft(c) \in 0 .. 4 * KEEP_ALIVE_MAX + 4)
<1>1. IInv => /\ MainLeft \in 0 .. 10 /\ CollectorLeft \in 0 .. 2
              /\ \A c \in Conns : WorkLeft(c) \in 0 .. 4 * KEEP_ALIVE_MAX + 4
  <2> SUFFICES ASSUME IInv
               PROVE  /\ MainLeft \in 0 .. 10 /\ CollectorLeft \in 0 .. 2
                      /\ \A c \in Conns : WorkLeft(c) \in 0 .. 4 * KEEP_ALIVE_MAX + 4
    OBVIOUS
  <2>1. MainLeft \in 0 .. 10 /\ CollectorLeft \in 0 .. 2
    BY DEF MainLeft, StagesOfMain, CollectorLeft, StagesOfCollector
  <2>2. ASSUME NEW c \in Conns
        PROVE  WorkLeft(c) \in 0 .. 4 * KEEP_ALIVE_MAX + 4
    <3>1. count[c] \in 0 .. KEEP_ALIVE_MAX /\ KEEP_ALIVE_MAX \in Nat
      BY PoolAssumption DEF IInv, TypeOK
    <3>2. StagesLeft(stage[c]) \in 0 .. 4
      BY DEF StagesLeft
    <3> QED
      BY <3>1, <3>2 DEF WorkLeft
  <2> QED
    BY <2>1, <2>2
<1> QED
  BY <1>1, Invariance, PTL
=============================================================================

----------------------------- MODULE ErrorPages -----------------------------
(***************************************************************************)
(* How a request is answered once it has been routed: the error handler    *)
(* and the exception handler of src/src/main.cpp, and the order in which   *)
(* cpp-httplib calls them.  An error page shows a tracking id, with which  *)
(* an administrator finds the line of the log that says what happened.     *)
(*                                                                         *)
(* A connection carries one request at a time, so that both have one name. *)
(* The log is the standard error stream; error.log gets the same lines     *)
(* when it can be opened.                                                  *)
(***************************************************************************)
EXTENDS Integers

CONSTANTS Conns,   \* connections
          Ids,     \* tracking ids; they are short and may be drawn twice
          EMPTY,   \* no body
          OWN      \* a body that the handler of the route wrote

ASSUME BodiesAssumption == EMPTY # OWN /\ EMPTY \notin Ids /\ OWN \notin Ids

VARIABLES stage,   \* how far each connection is
          res,     \* the response
          raised,  \* history: what the route answered, before anything was made of
                   \* it, and whether it threw
          log      \* the lines of the log

pageVars == <<stage, res, raised, log>>

\* 404 stands for every error of a client, 200 for what is no error.
Statuses == {200, 404, 500}
Responses == [status : Statuses, body : Ids \union {EMPTY, OWN}]
NoResponse == [status |-> 200, body |-> EMPTY]

Raised == [threw : {"no", "yes"}, status : Statuses, body : {EMPTY, OWN}]
NothingRaised == [threw |-> "no", status |-> 200, body |-> EMPTY]

Lines == [id : Ids, conn : Conns, status : Statuses, details : {"status", "exception"}]

InitPages ==
  /\ stage = [c \in Conns |-> "none"]
  /\ res = [c \in Conns |-> NoResponse]
  /\ raised = [c \in Conns |-> NothingRaised]
  /\ log = {}

-----------------------------------------------------------------------------
MoveOn(c, to) == stage' = [stage EXCEPT ![c] = to]

\* The response is destroyed with its request.
Forget(c) ==
  /\ res' = [res EXCEPT ![c] = NoResponse]
  /\ raised' = [raised EXCEPT ![c] = NothingRaised]

\* logErrorToConsoleAndFile
Log(id, c, status, details) ==
  log' = log \union {[id |-> id, conn |-> c, status |-> status, details |-> details]}

\* What is made of an answer before it is written: a good one becomes an error
\* without a body if it has not the range that was asked for, or if it is a file
\* that cannot be mapped.
Served(s, b) ==
  {[status |-> s, body |-> b]} \union
  IF s < 400 THEN {[status |-> 404, body |-> EMPTY]} ELSE {}

\* The pre-routing handler, a file or a route answers, in whatever way.
Route(c) ==
  /\ stage[c] = "routing"
  /\ \E s \in Statuses, b \in {EMPTY, OWN} :
       /\ \E answer \in Served(s, b) : res' = [res EXCEPT ![c] = answer]
       /\ raised' = [raised EXCEPT ![c] = [threw |-> "no", status |-> s, body |-> b]]
  /\ MoveOn(c, "writing")
  /\ UNCHANGED log

\* Or it throws, perhaps after it has written an answer.
Throw(c) ==
  /\ stage[c] = "routing"
  /\ \E b \in {EMPTY, OWN} :
       /\ res' = [res EXCEPT ![c] = [status |-> 200, body |-> b]]
       /\ raised' = [raised EXCEPT ![c] = [threw |-> "yes", status |-> 200, body |-> b]]
  /\ MoveOn(c, "thrown")
  /\ UNCHANGED log

\* The exception handler logs the message and replaces the answer.
ExceptionHandler(c) ==
  /\ stage[c] = "thrown"
  /\ \E id \in Ids :
       /\ Log(id, c, 500, "exception")
       /\ res' = [res EXCEPT ![c] = [status |-> 500, body |-> id]]
  /\ MoveOn(c, "writing")
  /\ UNCHANGED raised

\* Mutant of ErrorHandler: a body that is there is replaced.
ErrorHandlerOverwrites(c) ==
  /\ stage[c] = "writing"
  /\ res[c].status >= 400
  /\ \E id \in Ids :
       /\ Log(id, c, res[c].status, "status")
       /\ res' = [res EXCEPT ![c] = [status |-> res[c].status, body |-> id]]
  /\ MoveOn(c, "sent")
  /\ UNCHANGED raised

\* The error handler is called for every status from 400, after the exception
\* handler too: it draws an id and logs before it looks for a body.
ErrorHandler(c) ==
  /\ stage[c] = "writing"
  /\ res[c].status >= 400
  /\ \E id \in Ids :
       /\ Log(id, c, res[c].status, "status")
       /\ res' = IF res[c].body = EMPTY
                 THEN [res EXCEPT ![c] = [status |-> res[c].status, body |-> id]]
                 ELSE res
  /\ MoveOn(c, "sent")
  /\ UNCHANGED raised

Send(c) ==
  /\ stage[c] = "writing"
  /\ res[c].status < 400
  /\ MoveOn(c, "sent")
  /\ UNCHANGED <<res, raised, log>>

Answer(c) ==
  \/ Route(c)
  \/ Throw(c)
  \/ ExceptionHandler(c)
  \/ ErrorHandler(c)
  \/ Send(c)

-----------------------------------------------------------------------------
(* Properties *)

\* The id on an error page leads to a line about this very request, with the
\* status its user was shown and, if it threw, with the message of the
\* exception, though the error handler has logged a line of its own after it.
ShownIsLogged ==
  \A c \in Conns :
    (stage[c] = "sent" /\ res[c].body \in Ids)
      => \E line \in log :
           /\ line.id = res[c].body /\ line.conn = c /\ line.status = res[c].status
           /\ line.details = IF raised[c].threw = "yes" THEN "exception" ELSE "status"

\* An error answer that a controller wrote reaches the client as it is; and what
\* a controller wrote is never shown with another status than its own, as part
\* of an error page, or when it was being written as the handler threw.
Kept(c) ==
  LET wrote == [status |-> raised[c].status, body |-> raised[c].body] IN
    /\ (raised[c].threw = "no" /\ wrote.status >= 400 /\ wrote.body = OWN)
         => res[c] = wrote
    /\ res[c].body = OWN => raised[c].threw = "no" /\ res[c] = wrote

OwnAnswers == \A c \in Conns : stage[c] = "sent" => Kept(c)

\* After the exception handler and the error handler, which both may write to one
\* response and to the log, a client is shown what happened to its own request.
Answers == ShownIsLogged /\ OwnAnswers
=============================================================================

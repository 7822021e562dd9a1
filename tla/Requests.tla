------------------------------ MODULE Requests ------------------------------
(***************************************************************************)
(* The requests of logged-in users: middleware.hpp, the pre-routing        *)
(* handler of main.cpp and the handlers behind them, run by several worker *)
(* threads at once over one session table.  A request asks the table more  *)
(* than once, and the database between two questions; meanwhile the        *)
(* session may expire, be logged out or be destroyed.                      *)
(*                                                                         *)
(* A route stands for all URLs that are handled alike:                     *)
(*   login   POST /login, once the password has been found right           *)
(*   me      GET /api/me                                                   *)
(*   read    GET /api/posts, GET /api/post, every page but admin.html      *)
(*   users   GET /api/users, /admin.html                                   *)
(*   write   POST /api/post, DELETE /api/post                              *)
(*   logout  POST /logout                                                  *)
(***************************************************************************)
EXTENDS SessionManager

CONSTANTS Admins,     \* users whose role in the database is ADMIN
          Workers     \* threads of the HTTP server

ASSUME AdminsAssumption == Admins \subseteq Users

VARIABLES pc,       \* where each worker is in its request
          req,      \* the request: what came with it, and what was found out
          spent     \* history: time since the login each id stems from, and
                    \* at once all of it when its user was told it is over

vars == <<sessions, issued, pc, req, spent>>

Routes == {"login", "me", "read", "users", "write", "logout"}
NeedsToken == {"write", "logout"}
NeedsRole == {"me", "users"}

NoRequest == [route |-> "read", id |-> NONE, token |-> NONE, user |-> NONE, late |-> FALSE]

GONE == LIFETIME + 1

Init ==
  /\ StoreInit
  /\ pc = [w \in Workers |-> "idle"]
  /\ req = [w \in Workers |-> NoRequest]
  /\ spent = [i \in Ids |-> 0]

GoTo(w, stage) == pc' = [pc EXCEPT ![w] = stage]

\* The response is sent, whatever its status.
Reply(w) ==
  /\ GoTo(w, "idle")
  /\ req' = [req EXCEPT ![w] = NoRequest]

-----------------------------------------------------------------------------
\* The cookie and the X-CSRF-TOKEN header of a request are values that some
\* client was given, perhaps long ago, or missing.
Arrive(w) ==
  /\ pc[w] = "idle"
  /\ \E r \in Routes \ {"login"}, i, t \in issued \union {NONE} :
       /\ r \notin NeedsToken => t = NONE
       /\ req' = [req EXCEPT ![w] =
                    [route |-> r, id |-> i, token |-> t, user |-> NONE,
                     late |-> i # NONE /\ spent[i] = GONE]]
  /\ GoTo(w, "arrived")
  /\ UNCHANGED <<sessions, issued, spent>>

\* requireAuth and the pre-routing handler: 401, or a redirection to
\* login.html, if the cookie names no valid session.
Validate(w) ==
  /\ pc[w] = "arrived"
  /\ Lookup(req[w].id)
  /\ \/ /\ ~Valid(req[w].id)
        /\ Reply(w)
     \/ /\ Valid(req[w].id)
        /\ req' = [req EXCEPT ![w].user = sessions[req[w].id].username]
        /\ GoTo(w, CASE req[w].route \in NeedsToken -> "csrf"
                     [] req[w].route \in NeedsRole -> "role"
                     [] OTHER -> "serving")
  /\ UNCHANGED spent

\* Mutant of CheckCsrf: any token will do.
CheckCsrfAnyToken(w) ==
  /\ pc[w] = "csrf"
  /\ IF req[w].token = NONE
     THEN UNCHANGED <<sessions, issued>>
     ELSE Lookup(req[w].id)
  /\ GoTo(w, IF Valid(req[w].id) /\ req[w].token # NONE
             THEN "serving" ELSE "rejecting")
  /\ UNCHANGED <<req, spent>>

\* Mutant of CheckCsrf: the token is not compared if there is none.
CheckCsrfNoToken(w) ==
  /\ pc[w] = "csrf"
  /\ IF req[w].token = NONE
     THEN UNCHANGED <<sessions, issued>>
     ELSE Lookup(req[w].id)
  /\ GoTo(w, IF Valid(req[w].id) /\ req[w].token \in {req[w].id, NONE}
             THEN "serving" ELSE "rejecting")
  /\ UNCHANGED <<req, spent>>

\* requireAuthAndCsrf: validateCsrfToekn looks the session up a second time,
\* unless the header is empty, and compares its token.
CheckCsrf(w) ==
  /\ pc[w] = "csrf"
  /\ IF req[w].token = NONE
     THEN UNCHANGED <<sessions, issued>>
     ELSE Lookup(req[w].id)
  /\ GoTo(w, IF Valid(req[w].id) /\ req[w].token = req[w].id
             THEN "serving" ELSE "rejecting")
  /\ UNCHANGED <<req, spent>>

\* 403: the session is destroyed, in a critical section of its own.
Reject(w) ==
  /\ pc[w] = "rejecting"
  /\ destroySession(req[w].id)
  /\ spent' = [spent EXCEPT ![req[w].id] = GONE]
  /\ Reply(w)

\* AuthService::getUserRole says USER when anything goes wrong.
Roles(u) == IF u \in Admins THEN {"ADMIN", "USER"} ELSE {"USER"}

\* requireAdmin, the check of admin.html, and the first half of handleGetMe.
GetRole(w) ==
  /\ pc[w] = "role"
  /\ \E role \in Roles(req[w].user) :
       IF req[w].route = "me"
       THEN GoTo(w, "token") /\ UNCHANGED req
       ELSE IF role # "ADMIN"
       THEN Reply(w)
       ELSE GoTo(w, "serving") /\ UNCHANGED req
  /\ UNCHANGED <<sessions, issued, spent>>

\* The second half of handleGetMe: 200 with the token, or with an empty one.
GetToken(w) ==
  /\ pc[w] = "token"
  /\ Lookup(req[w].id)
  /\ Reply(w)
  /\ UNCHANGED spent

\* Mutant of Serve: logout expires the cookie but keeps the session.
ServeKeepsSession(w) ==
  /\ pc[w] = "serving"
  /\ UNCHANGED <<sessions, issued>>
  /\ spent' = IF req[w].route = "logout"
              THEN [spent EXCEPT ![req[w].id] = GONE] ELSE spent
  /\ Reply(w)

\* The handler of the route; only handleLogout touches the table.
Serve(w) ==
  /\ pc[w] = "serving"
  /\ IF req[w].route = "logout"
     THEN /\ destroySession(req[w].id)
          /\ spent' = [spent EXCEPT ![req[w].id] = GONE]
     ELSE UNCHANGED <<sessions, issued, spent>>
  /\ Reply(w)

\* A login whose password was right; it looks at no cookie.
LogIn(w, u) ==
  /\ pc[w] = "idle"
  /\ req' = [req EXCEPT ![w] =
               [route |-> "login", id |-> NONE, token |-> NONE, user |-> u, late |-> FALSE]]
  /\ GoTo(w, "creating")
  /\ UNCHANGED <<sessions, issued, spent>>

\* The last lines of handleLogin: 200 with the new id in the cookie, or 500 if
\* no random bytes are to be had.
Create(w) ==
  /\ pc[w] = "creating"
  /\ \/ \E i \in Ids : createSession(i, req[w].user)
     \/ UNCHANGED <<sessions, issued>>
  /\ UNCHANGED spent
  /\ Reply(w)

Handle(w) ==
  \/ Validate(w)
  \/ CheckCsrf(w)
  \/ Reject(w)
  \/ GetRole(w)
  \/ GetToken(w)
  \/ Serve(w)
  \/ Create(w)

\* The garbage collector's visit, every ten seconds.
Cleanup ==
  /\ cleanupExpiredSessions
  /\ UNCHANGED <<pc, req, spent>>

Tick ==
  /\ StoreTick
  /\ spent' = [i \in Ids |-> IF i \in issued /\ spent[i] < GONE
                             THEN spent[i] + 1 ELSE spent[i]]
  /\ UNCHANGED <<pc, req>>

Next ==
  \/ \E w \in Workers :
       \/ Arrive(w)
       \/ \E u \in Users : LogIn(w, u)
       \/ Handle(w)
  \/ Cleanup
  \/ Tick

Spec == Init /\ [][Next]_vars

\* Time passes and the garbage collector comes back every ten seconds.
FairSpec == Spec /\ WF_vars(Tick) /\ WF_vars(Cleanup)

-----------------------------------------------------------------------------
(* Properties *)

Stages == {"idle", "arrived", "csrf", "rejecting", "role", "token", "serving", "creating"}

Requested ==
  [route : Routes, id : Ids \union {NONE}, token : Ids \union {NONE},
   user : Users \union {NONE}, late : BOOLEAN]

\* The type of every variable.
TypeOK ==
  /\ StoreTypeOK
  /\ pc \in [Workers -> Stages]
  /\ req \in [Workers -> Requested]
  /\ spent \in [Ids -> 0 .. GONE]

\* Workers whose request has been taken for that of a logged-in user.
Admitted(w) == pc[w] \in {"csrf", "rejecting", "role", "token", "serving"}

\* A request that comes after its session's lifetime, after the answer to its
\* logout or after the answer to a forgery is not taken for a user's.
NoServiceAfterEnd == \A w \in Workers : Admitted(w) => ~req[w].late

\* Whatever happened between the checks, a handler that runs has every
\* authority its route asks for: the session's own token, the role ADMIN.
Authority ==
  \A w \in Workers : pc[w] = "serving" =>
    /\ req[w].user \in Users
    /\ req[w].route \in NeedsToken => req[w].token = req[w].id
    /\ req[w].route = "users" => req[w].user \in Admins

\* What may cost a user the session with id i: the passing of its last moment, which
\* leaves it in the table, expired; a logout with its own token; a request with its
\* cookie and a wrong or missing token.
Reason(i) ==
  \/ sessions'[i] # NONE /\ sessions'[i].left < 0
  \/ \E w \in Workers :
       /\ req[w].id = i
       /\ \/ pc[w] = "serving" /\ req[w].route = "logout" /\ req[w].token = i
          \/ pc[w] = "rejecting" /\ req[w].token # i

\* A user loses the session for one of these reasons only.  A rejection that
\* comes too late, of a request with the right token, destroys nothing; and neither
\* a lookup nor the collector erases a session in its last moment.
EndsForAReason ==
  [][\A i \in Ids : (Valid(i) /\ ~Valid(i)') => Reason(i)]_vars

\* A login removes the existing session of the user and allots a new one.
LoginReplacesSession ==
  [][\A i \in issued' \ issued : \A j \in Ids \ {i} :
       Valid(j)' => sessions'[j].username # sessions'[i].username]_vars
=============================================================================

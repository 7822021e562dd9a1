------------------------------ MODULE Services ------------------------------
(***************************************************************************)
(* AuthService and BoardService over the tables users and posts, called by *)
(* several worker threads for the handlers of AuthController and           *)
(* BoardController.  Every function of a service takes the service's       *)
(* db_mutex, borrows a connection of the pool, runs its statements, gives  *)
(* the connection back and releases the mutex.  A request to delete a post *)
(* makes three such calls, between which others may come.                  *)
(*                                                                         *)
(* A call may meet trouble: a statement that fails, or one that is carried *)
(* out but whose answer is lost.  Of what the tables hold only names and   *)
(* authors are kept; that a post whose content exceeds 4096 bytes cannot   *)
(* be read is trouble, too.                                                *)
(***************************************************************************)
EXTENDS Integers, FiniteSets

CONSTANTS Workers,     \* threads of the HTTP server
          Names,       \* usernames
          Seeded,      \* users of init.sql
          Admins,      \* those with the role ADMIN
          MAX_POSTS,   \* AUTO_INCREMENT ids, counted up to here
          POOL_SIZE,
          NONE

ASSUME WorkersAssumption == IsFiniteSet(Workers) /\ NONE \notin Workers
ASSUME NamesAssumption ==
  /\ Admins # {} /\ Admins \subseteq Seeded /\ Seeded \subseteq Names
  /\ NONE \notin Names
ASSUME BoundsAssumption == MAX_POSTS \in Nat \ {0} /\ POOL_SIZE \in Nat \ {0}

VARIABLES
  users,       \* the names in the table users
  posts,       \* the author of each post in the table posts, else NONE
  written,     \* the last id that was given to a post
  mutex,       \* who holds the db_mutex of each service
  live, lost,  \* connections counted by the pool, and those never given back
  lent,        \* workers that have a connection
  pc,          \* where each worker is in a call
  call,        \* the function it is in
  req,         \* what its request asks for, and what it has found out
  deletions,   \* history: requests told that they have deleted each post
  signUps      \* history: requests told that they have registered each name

tables == <<users, posts, written>>
pool == <<live, lost, lent>>
history == <<deletions, signUps>>
vars == <<tables, mutex, pool, pc, call, req, history>>

-----------------------------------------------------------------------------
PostIds == 1 .. MAX_POSTS

AuthCalls == {"signUp", "users", "role"}
BoardCalls == {"write", "list", "read", "delete"}
ServiceOf(c) == IF c \in AuthCalls THEN "auth" ELSE "board"

\* What was requested, and what calls have returned: the author of the post
\* (NONE for a post that was not found), the role, the result of a call that
\* changes a table, and the posts of a list (NONE after trouble).
RequestFor(op, n, p) == [op |-> op, user |-> n, id |-> p, author |-> NONE,
                         role |-> "USER", result |-> "fail", shown |-> NONE]
NoRequest == RequestFor("none", NONE, 1)

Idle == live - lost - Cardinality(lent)

\* The columns of posts in init.sql, and those SELECT_ALL_POSTS asks for.
Columns == {"id", "title", "content", "author", "create_at"}
SelectedColumns == {"id", "title", "content", "author", "created_at"}

Init ==
  /\ users = Seeded
  /\ \E a \in Admins :
       posts = [p \in PostIds |-> IF p = 1 THEN a ELSE NONE]
  /\ written = 1
  /\ mutex = [s \in {"auth", "board"} |-> NONE]
  /\ live = 0 /\ lost = 0 /\ lent = {}
  /\ pc = [w \in Workers |-> "idle"]
  /\ call = [w \in Workers |-> NONE]
  /\ req = [w \in Workers |-> NoRequest]
  /\ deletions = [p \in PostIds |-> 0]
  /\ signUps = [n \in Names |-> 0]

GoTo(w, stage) == pc' = [pc EXCEPT ![w] = stage]

Begin(w, c) ==
  /\ call' = [call EXCEPT ![w] = c]
  /\ GoTo(w, "waiting")

\* The response is sent, whatever its status.
Reply(w) ==
  /\ GoTo(w, "idle")
  /\ call' = [call EXCEPT ![w] = NONE]
  /\ req' = [req EXCEPT ![w] = NoRequest]

Unlock(w) == mutex' = [mutex EXCEPT ![ServiceOf(call[w])] = NONE]

-----------------------------------------------------------------------------
(* Requests *)

\* Anybody may sign up, users write and delete posts in their own name; who
\* asks for something else, and about what, makes no difference.  Login, the
\* check of a role and the list of users read the table users: their call is
\* users.
Requested(op, n, p) ==
  /\ op = "signUp" => n \in Names
  /\ op \in {"write", "delete"} => n \in users
  /\ op \in {"users", "list", "read"} => n = NONE
  /\ op # "delete" => p = 1

Arrive(w) ==
  /\ pc[w] = "idle"
  /\ \E op \in {"signUp", "users", "write", "list", "read", "delete"},
        n \in Names \union {NONE}, p \in PostIds :
       /\ Requested(op, n, p)
       /\ req' = [req EXCEPT ![w] = RequestFor(op, n, p)]
       /\ Begin(w, IF op = "delete" THEN "read" ELSE op)
  /\ UNCHANGED <<tables, mutex, pool, history>>

-----------------------------------------------------------------------------
(* The frame of every call: mutex and connection *)

\* Mutant of Lock: the service has no mutex.
LockUnguarded(w) ==
  /\ pc[w] = "waiting"
  /\ GoTo(w, "connecting")
  /\ UNCHANGED <<tables, mutex, pool, call, req, history>>

Lock(w) ==
  /\ pc[w] = "waiting"
  /\ mutex[ServiceOf(call[w])] = NONE
  /\ mutex' = [mutex EXCEPT ![ServiceOf(call[w])] = w]
  /\ GoTo(w, "connecting")
  /\ UNCHANGED <<tables, pool, call, req, history>>

\* Mutant of Borrow: the pool may be empty.
BorrowAnyway(w) ==
  /\ pc[w] = "connecting"
  /\ lent' = lent \union {w}
  /\ GoTo(w, "running")
  /\ UNCHANGED <<tables, mutex, live, lost, call, req, history>>

Borrow(w) ==
  /\ pc[w] = "connecting"
  /\ Idle > 0
  /\ lent' = lent \union {w}
  /\ GoTo(w, "running")
  /\ UNCHANGED <<tables, mutex, live, lost, call, req, history>>

\* What a handler does when its call has returned: the next call, or the
\* response.  Only the handler of a deletion makes more than one call.
NextCall(w) ==
  CASE call[w] = "read" /\ req[w].author # NONE -> "role"
    [] call[w] = "role" /\ (req[w].author = req[w].user \/ req[w].role = "ADMIN") -> "delete"
    [] OTHER -> "none"

Continue(w) ==
  IF req[w].op = "delete" /\ NextCall(w) # "none"
  THEN /\ Begin(w, NextCall(w))
       /\ UNCHANGED <<req, history>>
  ELSE /\ Reply(w)
       /\ deletions' = [deletions EXCEPT ![req[w].id] =
                          IF call[w] = "delete" /\ req[w].result = "success" THEN @ + 1 ELSE @]
       /\ signUps' = [n \in Names |->
                        IF call[w] = "signUp" /\ req[w].result = "success" /\ n = req[w].user
                        THEN signUps[n] + 1 ELSE signUps[n]]

\* Nothing came in time, or the connection did not answer the ping and could
\* not be replaced: what getConnection does in DbManager.tla.
NoConnection(w) ==
  \/ pc[w] = "connecting" /\ Idle = 0 /\ UNCHANGED pool
  \/ /\ pc[w] = "running"
     /\ live' = live - 1
     /\ lent' = lent \ {w}
     /\ UNCHANGED lost

\* Mutant of Refused: the function asks for a connection until it has one.
RefusedAsksAgain(w) ==
  /\ NoConnection(w)
  /\ GoTo(w, "connecting")
  /\ UNCHANGED <<tables, mutex, call, req, history>>

\* getConnection returns nullptr, and the function returns at once.
Refused(w) ==
  /\ NoConnection(w)
  /\ Unlock(w)
  /\ Continue(w)
  /\ UNCHANGED tables

\* releaseConnection, and the end of the function.
Return(w) ==
  /\ pc[w] = "returning"
  /\ lent' = lent \ {w}
  /\ Unlock(w)
  /\ Continue(w)
  /\ UNCHANGED <<tables, live, lost>>

-----------------------------------------------------------------------------
(* The statements *)

Learns(w, r) ==
  /\ req' = [req EXCEPT ![w] = r]
  /\ GoTo(w, "returning")
  /\ UNCHANGED <<mutex, pool, call, history>>

\* A statement that changes a table, to what change says, and succeeds if
\* good: it is carried out, or not, or it is and the answer is lost.
Statement(w, change, good) ==
  \/ change /\ Learns(w, [req[w] EXCEPT !.result = IF good THEN "success" ELSE "fail"])
  \/ change /\ Learns(w, req[w])
  \/ UNCHANGED tables /\ Learns(w, req[w])

\* login, getUserRole for a check of rights, getAllUsers.
ReadUsers(w) ==
  /\ pc[w] = "running" /\ call[w] = "users"
  /\ Learns(w, req[w])
  /\ UNCHANGED tables

\* signUp, up to the result of the check for a duplicate.  A result that could
\* not be stored has no rows, as that for a free name.
CheckUser(w) ==
  /\ pc[w] = "running" /\ call[w] = "signUp"
  /\ \/ Learns(w, req[w])
     \/ GoTo(w, "inserting") /\ UNCHANGED <<mutex, pool, call, req, history>>
  /\ UNCHANGED tables

UserAdded(w) ==
  /\ users' = users \union {req[w].user}
  /\ UNCHANGED <<posts, written>>

\* The rest of signUp, if the hash can be computed.  username is the primary key.
InsertUser(w) ==
  /\ pc[w] = "inserting"
  /\ Statement(w, UserAdded(w), req[w].user \notin users)

\* If not, hashPasswordArgon2id throws: the mutex is released by its guard, the
\* connection by nobody, and the exception handler of the server answers 500.
HashThrows(w) ==
  /\ pc[w] = "inserting"
  /\ lost' = lost + 1
  /\ lent' = lent \ {w}
  /\ Unlock(w)
  /\ Reply(w)
  /\ UNCHANGED <<tables, live, history>>

\* Mutant of getUserRole: on trouble the caller is an administrator.
GetUserRoleFailsOpen(w) ==
  /\ pc[w] = "running" /\ call[w] = "role"
  /\ \E role \in {"ADMIN", IF req[w].user \in Admins THEN "ADMIN" ELSE "USER"} :
       Learns(w, [req[w] EXCEPT !.role = role])
  /\ UNCHANGED tables

getUserRole(w) ==
  /\ pc[w] = "running" /\ call[w] = "role"
  /\ \E role \in {"USER", IF req[w].user \in Admins THEN "ADMIN" ELSE "USER"} :
       Learns(w, [req[w] EXCEPT !.role = role])
  /\ UNCHANGED tables

RowWritten(w) ==
  /\ written < MAX_POSTS
  /\ written' = written + 1
  /\ posts' = [posts EXCEPT ![written + 1] = req[w].user]
  /\ UNCHANGED users

writePost(w) ==
  /\ pc[w] = "running" /\ call[w] = "write"
  /\ Statement(w, RowWritten(w), TRUE)

\* A SELECT of a column that the table does not have cannot be prepared.
Listed ==
  IF SelectedColumns \subseteq Columns THEN {p \in PostIds : posts[p] # NONE} ELSE {}

getAllPosts(w) ==
  /\ pc[w] = "running" /\ call[w] = "list"
  /\ \E shown \in {NONE, Listed} : Learns(w, [req[w] EXCEPT !.shown = shown])
  /\ UNCHANGED tables

getPostById(w) ==
  /\ pc[w] = "running" /\ call[w] = "read"
  /\ \E author \in {NONE, posts[req[w].id]} : Learns(w, [req[w] EXCEPT !.author = author])
  /\ UNCHANGED tables

Deletable(w) ==
  /\ posts[req[w].id] # NONE
  /\ posts[req[w].id] = req[w].user \/ req[w].role = "ADMIN"

RowDeleted(w) ==
  /\ posts' = IF Deletable(w) THEN [posts EXCEPT ![req[w].id] = NONE] ELSE posts
  /\ UNCHANGED <<users, written>>

\* Mutant of deletePost: the number of affected rows is not looked at.
DeletePostBlindly(w) ==
  /\ pc[w] = "running" /\ call[w] = "delete"
  /\ Statement(w, RowDeleted(w), TRUE)

deletePost(w) ==
  /\ pc[w] = "running" /\ call[w] = "delete"
  /\ Statement(w, RowDeleted(w), Deletable(w))

-----------------------------------------------------------------------------
\* Mutant of Heal: one too many.
HealBeyond ==
  /\ live <= POOL_SIZE
  /\ live' = live + 1
  /\ UNCHANGED <<tables, mutex, lost, lent, pc, call, req, history>>

\* Construction of the pool, and the healer.
Heal ==
  /\ live < POOL_SIZE
  /\ live' = live + 1
  /\ UNCHANGED <<tables, mutex, lost, lent, pc, call, req, history>>

\* What a worker does once it has a request.
Step(w) ==
  \/ Lock(w) \/ Borrow(w) \/ Refused(w) \/ Return(w)
  \/ ReadUsers(w) \/ CheckUser(w) \/ InsertUser(w) \/ HashThrows(w)
  \/ getUserRole(w) \/ writePost(w) \/ getAllPosts(w) \/ getPostById(w) \/ deletePost(w)

Next ==
  \/ \E w \in Workers : Arrive(w) \/ Step(w)
  \/ Heal

Spec == Init /\ [][Next]_vars

\* Threads run, calls to the database return, and a thread that finds the mutex
\* free again and again gets it.  Nobody has to send a request, and the
\* database need never come back.
FairSpec == Spec /\ \A w \in Workers : SF_vars(Step(w))

-----------------------------------------------------------------------------
(* Properties *)

Request ==
  [op : {"none", "signUp", "users", "write", "list", "read", "delete"},
   user : Names \union {NONE}, id : PostIds,
   author : Names \union {NONE}, role : {"ADMIN", "USER"}, result : {"success", "fail"},
   shown : (SUBSET PostIds) \union {NONE}]

\* The type of every variable.
TypeOK ==
  /\ users \in SUBSET Names
  /\ posts \in [PostIds -> Names \union {NONE}]
  /\ written \in PostIds
  /\ mutex \in [{"auth", "board"} -> Workers \union {NONE}]
  /\ live \in 0 .. POOL_SIZE
  /\ lost \in 0 .. POOL_SIZE
  /\ lent \in SUBSET Workers
  /\ pc \in [Workers -> {"idle", "waiting", "connecting", "running",
                         "inserting", "returning"}]
  /\ call \in [Workers -> AuthCalls \union BoardCalls \union {NONE}]
  /\ req \in [Workers -> Request]
  /\ deletions \in [PostIds -> Nat]
  /\ signUps \in [Names -> Nat]

\* However many requests to delete a post pass the checks at the same time, at
\* most one is told that it has deleted it, and then the post is gone.
DeletedOnce ==
  \A p \in PostIds : deletions[p] > 0 => deletions[p] = 1 /\ posts[p] = NONE

\* A name is given to at most one request to sign up, and to none if it was
\* there before, although the check for a duplicate may miss it.
SignedUpOnce ==
  \A n \in Names : signUps[n] > 0 => signUps[n] = 1 /\ n \in users \ Seeded

\* However checks and statements of requests interleave and fail, those that were
\* told of a deletion or of a new name were told the truth, and no two of the same.
ToldTruly == DeletedOnce /\ SignedUpOnce

\* Whoever has to wait for a connection, its db_mutex held, waits for no call of its
\* own service, and only when at most one connection is left, those deducted that
\* died with the database or were taken from the pool by a failed hash: two are
\* enough for any number of threads, and with one the services take turns.
NobodyWaits ==
  \A w \in Workers : (pc[w] = "connecting" /\ Idle = 0) =>
    /\ live - lost <= 1
    /\ \A v \in lent : ServiceOf(call[v]) # ServiceOf(call[w])

\* Every request is answered, and its worker free again, whatever becomes of
\* the database and the connections.
EveryRequestAnswered ==
  \A w \in Workers : []<>(pc[w] = "idle")

\* "Each service borrows a connection at the start of a request and returns it
\* at the end without fail."
AlwaysReturned == lost = 0

\* The list that is shown when there was no trouble contains all posts.
ListShowsAll ==
  \A w \in Workers :
    (pc[w] = "returning" /\ call[w] = "list" /\ req[w].shown # NONE)
      => \A p \in PostIds : posts[p] # NONE => p \in req[w].shown

-----------------------------------------------------------------------------
(* The pool *)

clientBar == [w \in Workers |->
  IF w \in lent THEN "holding" ELSE IF pc[w] = "connecting" THEN "asking" ELSE "out"]

Abstract == INSTANCE ConnPool
  WITH Threads <- Workers, client <- clientBar, live <- live - lost

\* To the pool the services are clients of the kind it is made for; a
\* connection that is not given back looks to it like one that was lost.
FollowsConnPool == Abstract!Spec

-----------------------------------------------------------------------------
(* The board *)

wantBar == [w \in Workers |-> [op |-> req[w].op, user |-> req[w].user, id |-> req[w].id]]

\* The call of a request that changes a table has had its chance to.
Past(w) == pc[w] = "returning" /\ call[w] \in {"signUp", "write", "delete"}

doneBar == [w \in Workers |->
  IF ~Past(w) THEN "open"
  ELSE IF req[w].result = "success" THEN "success" ELSE "settled"]

Board == INSTANCE BoardPolicy WITH want <- wantBar, done <- doneBar

\* Every request acts as if alone: although a sign-up is two statements and a
\* deletion three calls, each of which others may come between and each of which
\* may fail or lose its answer, it changes the tables at one moment, at most
\* once, and by the right its user has at that moment; and who is told of a
\* success has made the change.
ImplementsBoard == Board!Spec
=============================================================================

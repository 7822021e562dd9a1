---------------------------- MODULE BoardPolicy ----------------------------
(***************************************************************************)
(* What the site promises those who sign up, write and delete posts: a     *)
(* request changes the tables at one moment between its arrival and its    *)
(* answer, once, by right, and as a whole or not at all; and a success is  *)
(* told only of a change that the request itself has made.  There are no   *)
(* mutexes, connections or statements, and no calls one after the other;   *)
(* Services.tla has all of those and implements this specification.        *)
(***************************************************************************)
EXTENDS Integers

CONSTANTS Workers,     \* each answers one request at a time
          Names, Seeded, Admins, MAX_POSTS, NONE

VARIABLES users,       \* registered names
          posts,       \* the author of each post, or NONE
          written,     \* the last id that was given to a post
          want,        \* the request each worker has
          done,        \* whether it is "open", "settled" or a "success"
          deletions,   \* requests told that they have deleted each post
          signUps      \* requests told that they have registered each name

tables == <<users, posts, written>>
told == <<deletions, signUps>>
vars == <<tables, want, done, told>>

PostIds == 1 .. MAX_POSTS

Requests ==
  [op : {"signUp", "users", "write", "list", "read", "delete"},
   user : Names \union {NONE}, id : PostIds]
Nothing == [op |-> "none", user |-> NONE, id |-> 1]

Init ==
  /\ users = Seeded
  /\ \E a \in Admins : posts = [p \in PostIds |-> IF p = 1 THEN a ELSE NONE]
  /\ written = 1
  /\ want = [w \in Workers |-> Nothing]
  /\ done = [w \in Workers |-> "open"]
  /\ deletions = [p \in PostIds |-> 0]
  /\ signUps = [n \in Names |-> 0]

\* Posts are written and deleted by registered users.
Ask(w) ==
  /\ want[w] = Nothing
  /\ \E r \in Requests :
       /\ r.op = "signUp" => r.user \in Names
       /\ r.op \in {"write", "delete"} => r.user \in users
       /\ want' = [want EXCEPT ![w] = r]
  /\ UNCHANGED <<tables, done, told>>

Open(w, op) == want[w].op = op /\ done[w] = "open"

\* The change is made; word of it may be lost.
Made(w) == done' = [done EXCEPT ![w] = "success"] \/ done' = [done EXCEPT ![w] = "settled"]

SignUp(w) ==
  /\ Open(w, "signUp")
  /\ want[w].user \notin users
  /\ users' = users \union {want[w].user}
  /\ Made(w)
  /\ UNCHANGED <<posts, written, want, told>>

Write(w) ==
  /\ Open(w, "write")
  /\ written < MAX_POSTS
  /\ written' = written + 1
  /\ posts' = [posts EXCEPT ![written + 1] = want[w].user]
  /\ Made(w)
  /\ UNCHANGED <<users, want, told>>

Delete(w) ==
  /\ Open(w, "delete")
  /\ posts[want[w].id] # NONE
  /\ want[w].user \in Admins \union {posts[want[w].id]}
  /\ posts' = [posts EXCEPT ![want[w].id] = NONE]
  /\ Made(w)
  /\ UNCHANGED <<users, written, want, told>>

\* It will not be made: it is not allowed, or something failed.
Settle(w) ==
  /\ want[w] # Nothing
  /\ done[w] = "open"
  /\ done' = [done EXCEPT ![w] = "settled"]
  /\ UNCHANGED <<tables, want, told>>

Told(w, op) == IF done[w] = "success" /\ want[w].op = op THEN 1 ELSE 0

Answer(w) ==
  /\ want[w] # Nothing
  /\ deletions' = [deletions EXCEPT ![want[w].id] = @ + Told(w, "delete")]
  /\ signUps' = [n \in Names |->
                   signUps[n] + IF n = want[w].user THEN Told(w, "signUp") ELSE 0]
  /\ want' = [want EXCEPT ![w] = Nothing]
  /\ done' = [done EXCEPT ![w] = "open"]
  /\ UNCHANGED tables

Next ==
  \E w \in Workers :
    Ask(w) \/ SignUp(w) \/ Write(w) \/ Delete(w) \/ Settle(w) \/ Answer(w)

Spec == Init /\ [][Next]_vars
=============================================================================

# Specifications of Bartimaeus_app

TLA+ models of the web server in `src/src` (C++17, cpp-httplib, MariaDB) and of the packet filter
and the relay in front of it, the TLC configurations that check them on small instances, and proofs
of their main properties for all instances. Definitions are translated from the code; where a
document or a comment says something else, the difference is stated as a property and shown violated
(see *Disagreements*).

## 1. The system

```
 browser -- ScreeningRouter -- ReverseProxy -- HTTP server (main.cpp)
            (raw sockets,      (two threads      |  thread pool of cpp-httplib
             ACL, NAPT)         per client)      |
                          pre-routing, middleware (requireAuth, ...AndCsrf, requireAdmin)
                                                 |
                     AuthController ------- BoardController
                      |      |    \             /     |
             LoginLimiter SessionManager   AuthService  BoardService
                (mutex)      (mutex)        (db_mutex)     |
                      \      /                  \          |
                   collector thread              DbManager (pool, healer thread) -- MariaDB
```

| component | source | state | operations | interacts with |
|---|---|---|---|---|
| DbManager | `services/db_manager.hpp` | `connection_pool` (LIFO), `cur_conns`, mutex, condition variable, healer thread | `getInstance`, `getConnection`, `releaseConnection`, healer loop, destructor | the services borrow connections; MariaDB answers or not |
| LoginLimiter | `services/login_limiter.hpp` | `attempts_`: count, `lockout_until`, `last_fail_time` per username | `getRemainingLockoutTime`, `recordFailure`, `resetAttempts`, `cleanupExpiredAttempts` | `handleLogin`, collector thread |
| SessionManager | `services/session_manager.hpp` | `sessions_`: user, CSRF token, `expires_at` per id | `createSession`, `validateSession`, `validateCsrfToekn`, `getCsrfToken`, `destroySession`, `cleanupExpiredSessions` | middleware, AuthController, pre-routing, collector thread |
| Middleware and request flow | `middleware.hpp`, `main.cpp` 171-271 | none of its own; what a worker has read | `requireAuth`, `requireAuthAndCsrf`, `requireAdmin`, pre-routing handler | SessionManager, `AuthService::getUserRole` |
| AuthService, AuthController | `services/auth_service.hpp`, `controllers/auth_controller.hpp` | `db_mutex` | `signUp`, `login`, `getUserRole`, `getAllUsers` and their handlers | DbManager, LoginLimiter, SessionManager |
| BoardService, BoardController | `services/board_service.hpp`, `controllers/board_controller.hpp` | none (the table of posts) | write, list, read, delete a post | DbManager, SessionManager, `getUserRole` |
| Server lifecycle | `main.cpp` 29-61, 271-314 | the global `svr`, its listening socket, the queue of connections, the collector thread | signal handler, construction, `listen`, `stop`, destructors in order | owns everything above; cpp-httplib's workers |
| Error pages | `main.cpp` 53-153 | the response, the log | error handler, exception handler | every request, after its handler |
| ScreeningRouter | `ScreeningRouter/main.cpp` | `session_table` (NAPT), `gateway_mac`, `proxy_mac` | set-up, `resolve_arp_mac`, `evaluate_acl`, poll loop with an inbound and an outbound pipeline | the external network and the DMZ, over raw sockets |
| ReverseProxy | `ReverseProxy/main.cpp` | two descriptors and two threads per client | accept loop, `handle_client`, `forward_stream` | client and backend, over TCP |
| Helpers | `helpers.hpp` | none | parsing and escaping of strings, hashing, random ids | the handlers |

What is hard to test, and so what the models are for (`PROJECT.json` lists each point at
its line):

* **Interleavings.** A request asks the session table up to three times, and the limiter
  twice, each time in a critical section of its own. Between two of them other workers,
  the collector and the clock change what was read. The healer reads `cur_conns` under
  one lock, connects without any, and adds under another. The proxy's two threads of a session
  and its handler share descriptors whose numbers other sessions get next.
* **Failure.** The database can go away at any call: at the ping, at the reconnect, in
  the healer, at a fetch. Each has its own path with its own bookkeeping. A TCP peer can
  close or reset at any moment; a signal can come before, during and after `listen`.
* **Time.** Deadlines of waiters race with `notify_one`; expiry races with use; durations
  are truncated to seconds.
* **Erasure.** Expired entries leave the tables in two ways (lazily, or by the collector),
  and a user must not be able to tell which, or whether.
* **Order.** The router learns MACs and addresses from packets in the order in which they
  come; destructors run while threads may still use what is destroyed; two error handlers
  write to one response.
* **Progress.** A waiter must be woken or time out, a lost connection replaced, every
  entry reclaimed, a relay ended when one side ends, a shutdown completed.

What makes each component correct:

* *DbManager*: the count of connections is exact and never above the pool's size; a handle
  is in one place; none is forgotten; no waiter sleeps beside an idle connection; every call
  returns; the pool recovers; a shutdown closes everything.
* *LoginLimiter, login*: five failures lock an account for the lockout from the last
  failure, whether or not entries were erased; what slips through the non-atomic check is
  bounded; the table empties.
* *SessionManager, requests*: a session lasts a fixed time, is not renewed by use, does not
  come back; a handler runs only with the authority its route asks for; a session ends only
  by age, by its owner's logout, or by a forged request.
* *Services and board*: a post is deleted only by its author or an administrator, and once; a
  name is given once; one call at a time in each service, so that nobody waits while two
  connections are left; every request is answered. (That every borrowed connection goes back is not so, see
  *Disagreements*.)
* *ScreeningRouter*: only requests to the web port enter; a reply goes to a client that was
  let in with its port, and to the one it answers unless two share a port; both pipelines are
  served. (That the MACs which the router learns are those of the hosts it means is not so, see
  *Disagreements*.)
* *ReverseProxy*: a thread never reads from or writes to another session's connection; no
  descriptor leaks; the two streams are faithful, and an end of stream comes after all of the
  data; when one side ends or breaks, the session ends unless the other peer holds on for ever.
* *Lifecycle, error pages*: nothing is used after its destruction; the process reports success
  only after a signal it heard, with every accepted connection served to its end; the id on an
  error page leads to the line of the log about that very request.

## 2. The modules

| module | models | extends / instantiates |
|---|---|---|
| `ConnPool` | what the pool promises: a bounded number of connections, at most one per client | |
| `DbManager` | `db_manager.hpp`, thread by thread | `Abstract == INSTANCE ConnPool` |
| `DbManager_proofs` | theorems | extends `DbManager` |
| `LockPolicy` | the lockout policy without a table | |
| `LoginLimiter` | `login_limiter.hpp` | |
| `Login` | `handleLogin`, the limiter and the outcome of `AuthService::login`, by several workers | extends `LoginLimiter`; `Policy == INSTANCE LockPolicy` |
| `Login_proofs` | theorems | extends `Login` |
| `SessionPolicy` | what a session is to its user | |
| `SessionManager` | `session_manager.hpp` | `Policy == INSTANCE SessionPolicy` |
| `SessionManager_proofs` | lemmas about the table alone | extends `SessionManager` |
| `Requests` | middleware, pre-routing and handlers of logged-in users, by several workers over one table | extends `SessionManager` |
| `Requests_proofs` | theorems | extends `Requests`, `SessionManager_proofs` |
| `BoardPolicy` | what the site promises those who sign up, write and delete posts: one change, at one moment, by right | |
| `Services` | `AuthService`, `BoardService` and the handlers that call them, by several workers over the tables and the pool | `Abstract == INSTANCE ConnPool`, `Board == INSTANCE BoardPolicy` |
| `Services_proofs` | theorems | extends `Services` |
| `ErrorPages` | the error and the exception handler of `main.cpp` | |
| `Lifecycle` | the process from construction to the destructors of static objects, its workers answering requests | extends `ErrorPages` |
| `Lifecycle_proofs` | theorems | extends `Lifecycle` |
| `ScreeningRouter` | `ScreeningRouter/main.cpp` | |
| `ScreeningRouter_proofs` | theorems | extends `ScreeningRouter` |
| `Streams` | what the relay promises the two peers: a faithful pair of streams | |
| `ReverseProxy` | `ReverseProxy/main.cpp`, over descriptors and TCP connections | `Relay == INSTANCE Streams` |
| `ReverseProxy_proofs` | theorems | extends `ReverseProxy` |

### DbManager
The singleton's life is `phase`; a thread's place in `getConnection`/`releaseConnection`
is `pc[t]`, its handle `conn[t]`, whether its three seconds are over `expired[t]`. An action
ends where the code releases the mutex, blocks, or calls the database:

| code | actions |
|---|---|
| constructor, `initializePool` | `FirstUse`, `InitConnect` (one attempt), `InitDone` (count set, healer started) |
| `getConnection` up to `pop_back` | `Call`, then `Pop`, or `Sleep` / `TimeOut` when the predicate is false |
| `wait_for` | `Deadline`, `SpuriousWakeup`, and `NotifyOne` in the notifiers |
| ping and reconnect (mutex held: `pool_mutex = t`) | `PingOk`, `PingFail` (old handle closed), `Reconnect` |
| `releaseConnection` | `Release` |
| healer thread | `HealerTick`, `HealerCheck`, `HealerCreate` (no mutex), `HealerAdd` |
| destructor | `RequestStop`, the healer seeing the stop token in `HealerTick`, `DestroyPool` |

`DbChange` lets the database go away or come back at any moment. `CreateConnection` returns
a handle that is not open, or nothing when the database is down. The bounded retry of
construction is `retry_count`; its pauses are not modelled.

### LoginLimiter and Login
Time points are kept relative to now, which is all the code uses them for: `lock` is what is
left of `lockout_until`, `age` is the time since `last_fail_time`, both cut off where the
code can no longer tell values apart. A tick is a fraction of a second, so that
`duration_cast<seconds>` (`Remaining`) rounds as it does in the code. `FAIL_CAP` bounds the
count; the code compares it with `MAX` only, and the cap is at least `MAX`.

`LockPolicy` has no table: a score, the time since the last failure, and `proven`, the users
whose right password has just been given. It says that only these get their record cleared.
In `Login` a worker goes through `CheckLockout`, `Authenticate`, then `Succeed` or
`FailLogin`. `AuthResult` gives the outcome of the query with the troubles of the database.
`leaked` is a history variable: wrong passwords tried since the account was locked.

### SessionManager and Requests
An id is 256 random bits; the model never draws one twice, and the token drawn with an id
is known by the id's name. `left` is `expires_at - now`, cut off at -1. `Lookup` stands for
`validateSession` and `getCsrfToken`, which differ in what they return only.

In `Requests` a route stands for all URLs handled alike (the table is in the module). The
steps of a request are the critical sections of the code: `Validate` (first lookup),
`CheckCsrf` (second lookup and comparison), `Reject` (destruction after a mismatch),
`GetRole` (database), `GetToken` (`GET /api/me`), `Serve` (the handler), `Create` (the end
of a login). Any cookie and token that was ever issued may arrive, at any time. `spent` is a
history variable: how long ago the login was, or that the user was told it is over.

### Services
A worker's `call` is the function of a service it is in, `pc` its place there:

| code | actions |
|---|---|
| a handler is called; the response is sent | `Arrive`; `Reply` inside the actions that end a request |
| `lock_guard` on the service's `db_mutex` | `Lock`; `Unlock` inside the actions that leave a function |
| `getConnection` | `Borrow`, or `Refused` (nothing in time, or the ping and the reconnect fail: `live` drops) |
| the statements of one function, with their error paths | `ReadUsers` (`login`, `getAllUsers`), `CheckUser` and `InsertUser` (the two halves of `signUp`), `getUserRole`, `writePost`, `getAllPosts`, `getPostById`, `deletePost` |
| an exception in `hashPasswordArgon2id` | `HashThrows` |
| `releaseConnection` and return; what the handler does next | `Return` with `Continue`: `handleDeletePost` goes from `read` to `role` to `delete` |
| pool construction and healer, seen from outside | `Heal` |

A statement that changes a table is carried out, or fails, or is carried out and its answer is
lost (`Statement`). A failed `mysql_stmt_store_result` in `signUp` looks like a free name, so
`CheckUser` may go on with any name. The details of the pool are those of `DbManager`; here it
is two counts, and `FollowsConnPool` shows that the services see it and use it as
`ConnPool` says. `deletions` and `signUps` are history variables: how many requests were told
that they succeeded. Contents, titles and sizes are left out.

`BoardPolicy` has no mutexes, connections, statements or calls. A worker has what was asked
(`want`) and whether it is `open`, `settled` or a `success` (`done`); a request changes the tables
in one step, `SignUp`, `Write` or `Delete`, whose guards are the promise: the name is free, the
user is the author or an administrator *when the post goes*. `ImplementsBoard` maps `req` to `want`
and the place after the changing statement to `done` (`Past`, `doneBar`). So the check for a
duplicate and the insertion, or the read, the query for the role and the deletion, are shown to
act as one step, although others come between them and each may fail or lose its answer; and what
`Answer` counts as told was made.

### ErrorPages and Lifecycle
A connection has a `stage` (queued, taken by a worker, and then the stages of its current
request) and a response `res`; `raised` is a history variable with what the route did before any
error handler ran; `log` is the set of lines written. cpp-httplib calls the exception handler
first and the error handler after it, for every status from 400: both draw an id and log,
and only one of the two ids is shown. Between routing and the error handler it may itself turn
a good answer into an error without a body (`Served`: a `Range` that the answer does not have,
416, or a file that cannot be mapped, 404), so that what a controller wrote with status 200 is
not always shown. What `OwnAnswers` claims is that an error answer a controller wrote reaches
the client as it is, and that what a controller wrote never reaches the client with another
status, inside an error page, or after its handler threw.

| code | actions |
|---|---|
| a route answers or throws; what httplib makes of its answer | `Route` with `Served`, `Throw` |
| the two handlers | `ExceptionHandler`, `ErrorHandler`; `Send` when there is no error |
| `std::signal`, the server, the services, the `jthread` | `Install`, `Construct` (may throw) |
| `svr.listen` and what httplib does in it | `Bind`, `Listen`, `Accept`, `AcceptFails`, `LeaveLoop`, `Drain` |
| httplib's workers | `Take`, `Request`, `Close`, `Work` |
| the collector's loop with `wait_for` and stop token | `GcWake`, `GcClean`, `GcEnd` |
| end of the block and of `main`, static objects | `StopCollector`, `JoinCollector`, `Unwind`, `Exit` |
| `handle_signal` | `Signal`, at every moment |

A signal kills the process before the handler is installed, has no effect while the server is not
running, closes the listening socket while it is, closes a number that is no longer the server's
if `accept` has failed before, and uses a dangling pointer once the server is destroyed. `signal`
and `cut` are history variables.

### ScreeningRouter
| code | actions |
|---|---|
| `main` up to the loop | `OpenSockets`, `FindInterfaces` (with the fallback), `GetInterfaceMacs`, `Bind` |
| `resolve_arp_mac` | `ResolveArpMac`, one request and at most one packet read each time |
| `poll` | `Poll`, `PollFails`; `PassOver` for a socket without POLLIN |
| inbound pipeline | `Inbound`: `LearnGateway`, then `Allowed` (the router's own address, `evaluate_acl`), `Register`, `Translated` |
| outbound pipeline | `Outbound`: `LearnProxy`, then `Passes`, `Restored` |
| the network | `Arrive` |

A `continue` in the inbound pipeline goes back to `poll` and skips the outbound socket of that
round; `Ignore` does so. `users` (who was let in with each port) and `refused` (the kernel refused
a call) are history variables. A frame is chosen when it is read; `for` in a packet of the proxy
names the client it answers. A packet socket receives from the moment it is created, and until it
is bound the frames of every interface: `early` counts those that wait from that time, and each of
them may be a frame of either network (`Incoming`). So a host of the DMZ can be let in as a client,
and a client's frame can be what the proxy's MAC is learned from.

### ReverseProxy
`desc` is the kernel's table of descriptors: the lowest free number is handed out, so that a
number that is closed is at once another session's. Threads find a connection through the
number their handler kept (`At`), never by its name.

| code | actions |
|---|---|
| `main` | `Listen`, `Accept`, `AcceptFails`, `ThreadFails` (an uncaught exception) |
| `handle_client` | `OpenBackend`, `Connect`, `StartThreads`, `Join`, `CloseClient`, `CloseBackend` |
| `forward_stream` | `RecvData`, `RecvEnd`, `SendData`, `SendFails`, `SendKills`, `ShutDown` |
| the two peers (`Peer`) | `PeerSends`, `PeerReads`, `PeerLeaves` (FIN, or close), `PeerResets` |

What the kernel does with a reset is modelled, since `forward_stream` meets it: the next call
reports it once, a `send` after the peer's FIN or after the report raises SIGPIPE, which ends
the process (`SendKills`). `send` on a blocking socket takes the whole buffer, and waits while
the peer does not read: after any send the buffers on the way to a peer may be full (`stalled`),
which ends when the peer reads, closes or resets, and need not end at all. `got` is what has been
written to a peer's connection, read by its program or not.

`Streams` has no threads, buffers or descriptors. `Deliver` gives a peer the next item of the other's
stream and no other; `End` tells it the end, which needs all to have been delivered unless a
connection broke or the peer reads no more; `Close` needs both ends told. `ImplementsStreams` maps
`main`, `pc` and `line` to the three states each that matter to a peer (`proxyBar`, `sessionBar`,
`intactBar`) and `shut` to `ended`; what a thread has read and not sent is hidden.

## 3. The runs

| run | question | bounds | distinct states |
|---|---|---|---|
| `db` | exact count and its bound, one owner and no leak, no lost wake-up; progress, recovery, shutdown; implements `ConnPool` | 3 threads, pool of 2, 3 handles, 2 retries | 134 720 |
| `login` | how much slips through; the table implements the policy; it empties | 3 workers, 1 user, MAX 2, lockout 2 s, cooldown 4 s, 2 ticks per second | 22 878 |
| `requests` | no service after the end, authority, ends only for a reason; the table implements the policy; sessions leave memory | 2 workers, 2 ids, 2 users (one ADMIN), lifetime 2 | 445 258 |
| `requests_fixation` | disagreement: a login replaces the session | as above | violation |
| `services` | deletions and names told truly and once, a service waits for the last connection only; every request answered; clients of `ConnPool`; implements `BoardPolicy` | 2 workers, 2 names (1 in the table, ADMIN), 2 post ids, pool of 2 | 591 273 |
| `services_leak` | disagreement: connections are always returned | as above | violation |
| `services_list` | disagreement: the list shows all posts | as above | violation |
| `lifecycle` | nothing used after destruction, success means a graceful end, error pages tell the truth; the server ends | 2 connections, 2 ids, pool of 1 worker, 2 requests per connection | 480 856 |
| `router` | only web requests enter, replies reach their users; both pipelines are served | 2 clients, 2 ports, 1 external MAC, 2 DMZ hosts, 2 waiting frames per socket, 2 ARP requests | 649 639 |
| `router_fallback` | disagreement: the fallback interfaces serve | as above | violation |
| `proxy` | own descriptors, no leak; sessions end unless a peer holds on; implements `Streams` | 2 sessions, 2 items per peer, 2 descriptors | 194 363 |
| `proxy_wait` | disagreement: a session of which one side has ended comes to its end | as above, 1 item | violation |

Why the bounds are enough. *Pool*: the interesting cases are a full pool, an empty one, a
waiter with competitors, and a healer racing with a loss; three threads on two
connections, with one spare handle, give all of them, and the spare one would be created if
the healer could exceed the size. *Login*: three workers may all pass the check before the first
failure is recorded, a lock is meant to leak to the requests in flight, and the bound is
attained; the lockout ends before the cooldown, as in the code, and a count above `MAX` is
reached. Users do not interact: with two users and two workers the run has 304 986 states and
no error. *Requests*: a property concerns one session and one worker, with one more worker to
interfere; the second session gives the wrong token, the second user the missing role.
*Services*: two workers can be in one service, or one in each; a second name can be taken or
free, and is neither author nor ADMIN for the first post; the second id is written, read and
deleted while the first is. `NobodyWaits` can fail with two workers: in one service without its
mutex, one would wait for the other once a failed hash has taken a connection. (That two connections
are enough for more workers than that was tried with 3 workers, a pool of 3, 1 name and 1 post:
416 184 states, no error, and an error without the mutexes; and it is proved for any number.) *Lifecycle*: with one worker a connection can wait in the queue while
another is served and the socket is closed under both; two ids can be drawn twice; the second
request of a connection finds what the first left. (Three connections, and a pool of 2, were
tried as well: 1.1 and 1.7 million states, no error.) *Router*: two clients can share a port or
not, and one of the two ports is the server's; a host of the DMZ besides the proxy makes every
order of learning possible, and one external MAC is enough for a gateway that nothing tells from
other stations; two waiting frames let one from before `bind` wait with one that came after it, and
one arrive while another is handled; entries of the table are compared with one another only. *Proxy*: two descriptors are what one session needs, so
that they are used up (a call fails) and used again by the other session at once, and each
number can be the client's or the backend's; two items show an order and a loss. Sessions meet in
nothing but the table of descriptors. With three descriptors one session closes its second
while the other already relays on its first: tried with one item per peer, 209 917 states,
no error; that two relay at once, and more, is covered by the proofs.

`router`, `proxy` and `lifecycle` do not check for deadlock, because these processes may stop: a
call fails, a signal ends them, or nobody connects any more. The other runs do.

### Fairness
Liveness is claimed under what the scheduler and the operating system provide:

* `DbManager`: weak fairness of a thread's own steps and of calls to the database, which
  return (the client library has timeouts); strong fairness for taking the mutex, which is
  free again and again and not held for ever; weak fairness of a deadline and of the
  healer's sleep. Nothing obliges a caller to call, to return its connection, to end the
  process, or the database to come back.
* `Login`: weak fairness of workers, of the collector thread's visits and of the clock;
  no request has to come.
* `Requests`: weak fairness of the clock and the collector.
* `Services`: strong fairness of a worker's own steps. Only `Lock` needs more than weak
  fairness: a `db_mutex` that is free again and again is got in the end, which the mutexes of
  the platform provide. `getConnection` returns, which `EveryCallReturns` of `db` shows. Nothing
  obliges the healer or the database.
* `Lifecycle`: weak fairness of the main thread, the collector, and each connection's worker,
  including `Close`: `keep_alive` waits five seconds at most. No client, no request and no
  signal has to come. One thing is assumed of clients: that a request which has begun is read in
  finite time (`Work`). httplib has a timeout for each read and none for a whole line or
  request (`getline`, httplib.h:2892), so that a client that goes on sending a byte now and then
  holds a worker, and with it the end of the server after a signal, as long as it likes.
* `ScreeningRouter`: weak fairness of the thread (`Loop`). No frame has to come.
* `ReverseProxy`: weak fairness of the handlers and the forwarding threads. `recv` waits for
  data or an end and `send` while the peer is in `stalled`, which are guards of the steps.
  Nothing is assumed of the peers: no peer has to read, to answer the end of a stream with its
  own, or to close. What the code cannot do without them is in the property (`SessionsEnd`
  holds *unless* a peer holds on for ever) and in a disagreement of section 5 (`NoEndlessWait`).

### Properties
Each property's comment in its module says which behaviour of the code it is about. Every
property of a passing run has a mutant of the code in its module, a plausible slip (a
dropped count, `>` for `>=`, a missing `notify_one`, a session that is kept at logout), under
which TLC finds it violated.

## 4. The proofs

All constants are arbitrary within the named assumptions of the modules: finitely many threads and
workers, positive pool size and number of retries; `MAX <= FAIL_CAP` and `LOCKOUT <= COOLDOWN`; a
natural lifetime; the proxy and the HTTP port among the hosts and the ports; `NONE`, `ANY`, `EMPTY`,
`OWN` and `ABSENT` distinct from what they are not. TLC evaluates the assumptions on the runs.

* **DbManager_proofs.** The inductive invariant joins the types with the accounting
  (`cur_conns` is the pool plus the borrowers) and the ownership facts: what each place in
  the code implies for the handle in hand, the healer's handle and the mutex. The bound on
  `cur_conns` needs the fact that between `HealerCheck` and `HealerAdd` nobody but the healer
  can raise the count; the bound on open handles counts them by their places with the facts
  on cardinalities of the library. From it follow `TypeOK`, `Capacity`, `Ownership`,
  `NoLostWakeup` and `ImplementsConnPool`. A second layer (`Timely`: who sleeps has time left, the
  healer lives as long as the pool, the destructor leaves nothing in the pool) gives
  `NobodyStuck` and `ReturnsAfterDeadline`, the safety part of `EveryCallReturns` (see below);
  `LostOnlyWhenDown`, no step lowers the count while the database answers, the part of
  `PoolHeals` that a healer at work in vain would break; and `ClosedAtTheEnd`, the part of
  `ShutdownCloses` that says what has been reached when the shutdown is done.
* **Login_proofs.** `TypeOK`, `LockMatchesPolicy` (from the invariant `Consistent`: the lock of
  an entry is a function of its count and its last failure), `LeakBound` and the refinement of
  `LockPolicy`: every operation maps to one step of the policy or to none, and a record is
  cleared for a worker that is at `resetting`, which it reaches with the right password only.
  `LeakBound` does not hold for the count alone. It is strengthened to the sum of `leaked[u]` and
  the workers that are past the check for `u` (`Bounded`): while `u` is locked, the sum does not
  grow, and at the moment of locking the worker that locked is no longer among them.
* **SessionManager_proofs.** Lemmas about the table: only issued ids have a session, which makes
  an end final, and each operation is a step of `SessionPolicy` or none. Two tables that look alike
  (`Alike`) are equal to the policy; lookups and the collector lead to tables that look alike.
* **Requests_proofs.** `TypeOK`, `NoServiceAfterEnd`, `Authority`, `EndsForAReason` and the
  refinement of `SessionPolicy`, for any number of workers. The invariant has a part about the table
  (`Aged`: what is left of a session and the time since its login add up to the lifetime) and a part
  about each worker (`Sound`: what its place in the code says about its request). Every operation on
  the table is shown to revive nothing (`Grows`), which keeps every worker that does not move
  `Sound`; so each action is examined for the worker that takes it only. `EndsForAReason` is proved
  of each step from the same invariant: a rejected request whose token was right belongs to a
  session that is gone, and whose id is never issued again.
* **Services_proofs.** `TypeOK`, `ToldTruly`, `NobodyWaits`, `FollowsConnPool` and
  `ImplementsBoard`, for any number of workers, names and posts. The first layer of the invariant
  (`Control`) says who holds which mutex, that the lent connections are those of workers at a
  statement, and that lent and lost ones are among those counted; `NobodyWaits` follows because each
  mutex admits one worker, so that at most one connection is lent, and to the other service, while
  a worker asks for another. With one connection left a service does wait, its mutex held, for the
  other one; that this ends is `EveryRequestAnswered`. The second (`Truthful`, `AboutToTell`) says that what was told, and what
  a worker is about to tell, is true: an id is never given again, and of two workers in the same
  service one is not at its statement. For `BoardRefinement` each action is a step of the worker's
  request or hidden. A role that a worker has learned is still right when it deletes, since roles do
  not change; the author it has read does not matter, for the statement compares the author again
  (`Deletable`). `DeletedByRightHolds` is the consequence that a post disappears only by the hand of
  its author or of an administrator.

  `NobodyStuck`, `BoundedWork` and `StepsAreFew` are the safety part of `EveryRequestAnswered`.

* **ScreeningRouter_proofs.** About the access list: the first rule that matches decides, whatever
  comes after it (`FirstMatchWins`), and what no rule matches is denied (`DefaultDeny`), for every
  list of rules. About the loop: `TypeOK`, `OnlyWebEnters` and `RepliesReachUsers`. The invariant says
  that an entry of the NAPT table is a client that was let in with the port, by when some MAC has
  been learned as the gateway's (`Registered`): that is why a TCP or UDP reply is never sent to the
  zeros, though the code does not ask. Packets of other protocols need no entry, and so the theorem
  does not speak of them.
* **ReverseProxy_proofs.** `TypeOK`, `OwnDescriptors`, `NothingLeaks` and `ImplementsStreams`, for
  any number of sessions and descriptors. `DescInv` relates the kernel's table to the handlers'
  numbers by the handler's place (`Held`, `Accounted`): between `CloseClient` and the end of the
  handler a number is stale, and no thread is left to use it. `StreamInv` says where each item is
  (got by the peer, in a thread's buffer, or not yet read: `Carried`), and that a thread which left
  its loop on unbroken connections has carried all (`Completed`). `RelaysAlways` is what they say of
  the data. `NobodyStuck` and `TwoStepsPerItem` are the safety part of `SessionsEnd`. For the
  refinement `Told` adds that a thread which is done has told its partner's peer the end, and that a
  handler closes after both of its threads are done.
* **Lifecycle_proofs.** `TypeOK`, `Answers`, `UsesAlive` and `GracefulExit`, for any number of
  connections, workers and ids. The parts of the invariant: `Pages` (an id in a response has its
  line in the log), `Queue` (who waits is in the queue; only a running server has a queue or
  workers), `Threads` (what main's place says about workers and collector) and `Report` (what the
  exit code says about signals and the socket). `EndInv` adds that a connection waits in the queue
  once, and that the collector runs until it is asked to stop, and is asked before it is joined;
  `NobodyStuck`, `WindsDown` and `StepsAreFew`, the safety part of `ServerEnds`, follow.

**The safety part of liveness.** That something happens under fairness is beyond the prover, but
the two facts that such an argument rests on are not, and four modules have them:

1. *Nobody is stuck* (`NobodyStuck`, an invariant): whoever has not finished can go on, or waits for
   somebody who can. In the pool, who cannot take `pool_mutex` waits for a thread that is talking
   to the database, and who sleeps has a deadline to come; in the services, who cannot take a
   `db_mutex` waits for a worker inside a call, and every way out of a function, exceptions
   included, gives it back; in the relay, once one side has ended or broken, no thread is left in
   `recv` unless its peer was told so and does not close, or in `send` unless the peer it writes
   to does not read; a server whose socket is closed waits for no worker and no collector that
   will not end.
2. *Every step counts* (`BoundedWork`, `ReturnsAfterDeadline`, `TwoStepsPerItem`, `WindsDown`, action
   properties): a step of a thread lowers a number, nobody else raises it, and it is small
   (`StepsAreFew`). A request is at most 15 steps of its worker, for no call is retried; a call
   of `getConnection` is at most 3 steps once its deadline is over, whatever wake-ups there
   are; a forwarding thread does 2 steps for each item and no more than 3 to end; each thread of
   the server has a bounded way to its end, and a signal makes none longer.

The weak part of a scheduler's promise, that a thread which can go on does, then gives the
liveness property. What is left to TLC is this last step: that ready is enabled, and that
the stated fairness is enough.

Model-checked only: the liveness properties themselves (`EveryCallReturns`, `PoolHeals`,
`ShutdownCloses`, `TableEmpties`, `SessionsEnd` of `Requests` and of `ReverseProxy`,
`EveryRequestAnswered`, `BothServed`, `ServerEnds`), which are beyond the prover. Those of `Login`,
`Requests` and the router have no waiting to speak of: one thread, or a clock and a collector, takes
turns.

## 5. Disagreements

Each of these is a run that TLC finds violated.

| run | the code | the text |
|---|---|---|
| `services_leak` | when hashing throws, `signUp` is left without `releaseConnection`: the pool is one connection smaller for good | `docs/ARCHITECTURE.md:91`: borrowed at the start and returned at the end without fail |
| `services_list` | the query of `getAllPosts` names `created_at`, the table of `docker/init.sql` has `create_at`: the list is always empty | `board_service.hpp:93`: a summary of all posts |
| `requests_fixation` | a login adds a session and keeps the old ones | `docs/ARCHITECTURE.md:108`: the old one is removed |
| `router_fallback` | the name kept for a default interface is `eth1(fallback)`, which the kernel does not know: the router gives up | `ScreeningRouter/main.cpp:333`: the default interfaces are tried when the search fails |
| `proxy_wait` | neither `recv` nor `send` has a timeout: a peer that is told the end and does not close (or does not read) keeps its thread, the handler and two descriptors for ever | `ReverseProxy/main.cpp:52`: endless waiting is prevented, the threads end in step; `docs/NETWORK_STATUS.md:129`: deadlock is prevented |

Read in the code while modelling it, and part of the models, but not given a run of their own:

* a lost slot of the pool is replaced by the healer; `docs/ARCHITECTURE.md:165` says that it is
  lost (`PoolHeals` shows the contrary);
* in the last second of a lock `getRemainingLockoutTime` returns 0, "not locked" to its caller
  (`login_limiter.hpp:34`), and the account can be tried (`Remaining`, `CheckLockout`);
* a packet of the proxy that is neither TCP nor UDP is sent out without asking whether the gateway's
  MAC is known (`ScreeningRouter/main.cpp:690`, `Restored`): before the first frame from outside it
  goes to the zeros with which `gateway_mac` begins;
* when ARP gave no answer, the sender of the first frame at the DMZ socket is taken for the proxy
  before its address is compared, and kept (`ScreeningRouter/main.cpp:615`, `LearnProxy`): another
  host of the DMZ or, by a frame from before `bind`, a station outside. From then on requests go
  there. The gateway's MAC is learned in the same way (477, `LearnGateway`);
* a fetch that fails counts as a wrong password, although `AuthResult` has `DbError`
  (`auth_service.hpp:37`, `AuthResult`);
* `send` without MSG_NOSIGNAL (`ReverseProxy/main.cpp:47`, `SendKills`): a client that has closed
  and reset its connection can end the process, and all other sessions with it;
* a signal that comes before `listen` is lost (`main.cpp:29`, `Signal`), and the server goes on;
* the error handler takes `/login`, `/signup` and `/logout` for API paths (`main.cpp:71`), the
  exception handler does not (`main.cpp:138`; `docs/CONTEXT.md:72`);
* `docs/ARCHITECTURE.md` 3.10 describes a migration of old SHA-256 passwords at login, which this
  version of the code does not have; nothing is modelled for it.

## 6. Not modelled

* The SQL text and the protocol of MariaDB: the database is an environment that answers or
  does not.
* HTTP parsing, Argon2 and the random generator, except that each may fail where the code
  handles it. `helpers.hpp:60` shares one generator among threads without a lock; ids of error
  pages are drawn with repetition, so no property rests on it.
* The functions on strings in `helpers.hpp` and `isValidUsername`: they are sequential, have no
  state, and unit tests reach them well. The form of an error page (JSON or HTML).
* Requests refused before they touch any state (400, CORS), logging other than the lines of
  error pages, layout, the wording of answers, the browser's scripts (whatever they may send is
  in the environment).
* Clocks that are set back. Both tables use the system clock; the models assume it advances.
* Case and accents of names, which the collation of the tables ignores; sizes of texts: a post
  whose content exceeds 4096 bytes cannot be read back by `getPostById`, which in `Services` is
  one of the troubles a read may have.
* In the router: checksums and header lengths, which are recomputed from the packet that is sent
  (a TCP header shorter than its ports is not told apart); a host that changes its MAC after it was
  learned (the code never learns anew).
* In the proxy: what `recv` and `send` do once a reset has been reported, beyond the outcome; a
  `send` interrupted half-way; the Windows branches.
* A second signal during `stop`, which meets an assertion of cpp-httplib in builds that keep it.
* `docker/` (but for `init.sql`), certificates, vendored code in `3rdparty/`, except what
  `listen`, `stop` and the thread pool of cpp-httplib do with connections (`Lifecycle`).

## 7. What is left

1. `getCookieValue`, `safeStoi` and the escaping functions as recursive functions compared with
   reference definitions over short strings.
2. Sizes of posts: the 4096-byte buffer of `getPostById` and the failed fetch it leads to.
3. The two front processes composed: a reset that the router's table causes (an entry taken over by
   a second client) seen by the proxy as the end of a session.
4. A bound on the NAPT table, which the code never shrinks; today its entries are bounded by the
   ports alone.
5. An abstract specification of the address translation (who may talk to whom, and who is answered)
   for `ScreeningRouter` to implement, as `ReverseProxy` implements `Streams`.
6. Bounds on the steps of one request in `Login` and `Requests`, as `BoundedWork` has for `Services`.

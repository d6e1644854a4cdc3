# Verification of user-center

TLA+ specifications of `user-center`, an HTTP server for user accounts: an epoll
reactor on one I/O thread, a thread pool that runs the handlers, a pool of MySQL
connections, sessions in Redis and an asynchronous logger. TLC checks the
specifications on small instances; TLAPS proves theorems about ten of them for every
value of the constants.

## 1. Inventory

| Part | Code | State | Operations |
|---|---|---|---|
| Thread pool | `threadpool/ThreadPool.{h,cpp}` | `tasks_`, `stop_`, `mutex_`, `cv_`, `workers_` | Submit, WorkerLoop, Cleanup |
| MySQL connection pool | `db/MySQLConnectionPool.{h,cpp}` | `idleConnections_`, `currentSize_`, `stop_`, `mutex_`, `cond_` | init, getConnection, returnConnection (deleter), closeAll |
| Connections, TCP server, channels | `net/Connection`, `net/TcpServer`, `net/Channel` | `connections_`, buffers, `fd_`, `events_`, `inEpoll_`, `lastActiveTime_` | handleRead/Write/Error/Close, send, shutdown, forceClose, checkIdleTimeout, onNewConnection, onConnectionClosed |
| Event loop | `net/EventLoop`, `net/EpollPoller` | `activeChannels`, `pendingFunctors_`, `quit_`, eventfd, `inEpoll_` of each channel | loop, queueInLoop, doPendingFunctors, wakeup, quit, updateChannel |
| Acceptor | `net/Acceptor` | listening socket, spare descriptor | listen, handleRead |
| Timers | `net/TimerQueue` | heap of timers, timerfd | addTimer, handleRead, resetTimerfd |
| Request callback | `main.cpp` | the globals `g_threadPool`, `router` | rate limit, Submit, dispatch, send, shutdown |
| Sessions | `auth/TokenManager.cpp`, parts of `UserService.cpp`, `UserHandler.cpp` | Redis `token:<t>`, `user_tokens:<id>`; MySQL `users.password_hash` | createToken, verifyToken, removeToken, removeAllTokensForUser; login, logout, password change |
| Registration and profiles | the rest of `UserService.cpp`, `UserHandler.cpp` | MySQL `users`, `user_profiles`, the transaction of each pooled connection, Redis `user:info:<id>` | register, get and update the profile |
| Rate limiter | `common/RateLimiter.h` | Redis counter per address | INCR, EXPIRE |
| HTTP parser | `http/Context.cpp`, `http/HttpRequest.cpp` | `state_`, `request_` | parse, parseRequestLine, parseHeader, parseBody |
| Router | `router/` | routes | addRoute, dispatch |
| Buffer | `utils/Buffer` | a vector of bytes, two indices | append, prepend, retrieve, readFd, writeFd, shrink, the searches and integers |
| Logger | `utils/Logger` | `current_buffer_`, `next_buffer_`, `is_running_`, `mtx_`, `cv_`, log file | init, log, writeThreadFunc, rollFile, writeWhenExit, shutdown |

How they interact. The I/O thread owns every `Connection` through
`TcpServer::connections_`. A parsed request leaves it as a task that captures a
`shared_ptr` to its `Connection`; a worker runs the handler (which uses the MySQL pool
and Redis) and hands the answer back as a *functor with a raw `this`* that the loop
runs at the end of a round. Timers run on the I/O thread as handlers of a descriptor.
Workers share nothing but the two pools, Redis, MySQL and the logger.

What is hard, and what makes each part correct:

* **Thread pool**: one `notify_one` per task against threads that return from tasks,
  wake spuriously or are about to sleep; destruction while threads sleep or work.
  Correct when no task is lost, run twice or left waiting with every thread asleep, and
  the destructor returns with the queue drained.
* **Connection pool**: waiters compete with new callers; connections are lost, fail to
  reconnect and come back after `closeAll`. Correct when a connection has one owner, the
  count and the bound hold, and no thread sleeps beside a connection it could have.
* **Connections**: objects outlive their descriptor, descriptor numbers are reused,
  several events of one round and functors of an earlier one refer to objects that a
  handler may just have destroyed. Correct when descriptors, map and epoll agree, output
  is never stranded or duplicated, every answer reaches the client that asked, and
  nothing is used after its destruction.
* **Sessions**: every operation is several Redis commands and MySQL statements, each may
  fail, and requests of one account interleave between them. Correct when every valid
  token stays within reach of `removeAllTokensForUser`, dies at logout, at a password
  change and after its TTL.
* **Profile cache**: reads fill a copy that updates delete, each command may fail. Correct
  when an acknowledged update is seen by later reads and a stale copy does not stay.
* **Logger**: writers, timer and exit swap three buffers; the back end is stopped through
  an atomic outside the mutex. Correct when entries come out in order and once, are dropped
  only when both buffers are full, and the destructor drains and returns.
* **Registration**: a transaction of several statements on a pooled connection; errors of
  `START TRANSACTION`, `ROLLBACK` and `COMMIT` are ignored, exceptions leave the function
  with the transaction open, and the connection takes it to the next request. Correct when
  both rows are stored or none, the transaction ends with the registration, and a later
  login finds the user.
* **Rate limiter**: the counter and its TTL are two commands; each may fail or be lost, and
  the process may end between them. Correct when no period sees more than two windows' worth of
  requests and a refused address is let in again.
* **Event loop and timers**: functors, wakeups and `quit()` from other threads and a signal
  handler race with `epoll_wait`; timers fall behind and callbacks add timers. Correct
  when functors run once and in order, nothing that is due is slept on, periodic timers keep
  their phase and `quit()` ends the loop.
* **Buffer and parser**: reads cut the stream anywhere, the vector grows or moves its
  bytes between them, bodies may look like headers. Correct when the callback gets exactly
  what was sent, as soon as it is there.

## 2. Modules

    TaskService              what the thread pool promises: a bounded FIFO service
    ThreadPool               refines TaskService   <- MCThreadPool
    ThreadPoolProofs         theorems about it
    MySQLConnectionPool                            <- MCMySQLConnectionPool
    MySQLConnectionPoolProofs  theorems about it
    Reactor                  loop, connections, workers and kernel composed <- MCReactor
    ReactorProofs            theorems about it
    Sessions                 login, logout, password change over MySQL and Redis <- MCSessions
    SessionsProofs           theorems about it
    UserInfoCache            reading and updating a profile over both            <- MCUserInfoCache
    UserInfoCacheProofs      theorems about it
    PooledRow                one row of MySQL under the transactions that pooled connections may
                             carry; Sessions and UserInfoCache extend it
    LogService               what the logger promises: a FIFO that may refuse
    AsyncLogger              refines LogService    <- MCAsyncLogger
    Registration             registerUser next to updates and logins, over MySQL <- MCRegistration
    RegistrationProofs       theorems about it
    EventLoop                functors, wakeups, timers and quit by themselves    <- MCEventLoop
    EventLoopProofs          theorems about it
    Buffer                   utils/Buffer as operators on a vector and two indices
    UtilsProofs              theorems about AsyncLogger, HttpParser and RateLimiter, and what each
                             operation of Buffer does to the readable bytes
    HttpParser               uses Buffer: from the wire to the request callback  <- MCHttpParser
    RateLimiter              one address, its counter and TTL in Redis           <- MCRateLimiter

Definitions that begin with "Mutant of" in their comment are faulty variants of the
definition they name; each breaks a property of a run, which shows that the property
depends on that code. They are part of no specification.

### ThreadPool
Every critical section of `mutex_` is one action. `worker[w]` says whether a thread
competes for the mutex (`ready`), is in the wait set of `cv_` (`asleep`), runs a task
outside the mutex (`busy`) or has left `WorkerLoop`. `Submit` has three ways out (stopped,
full, accepted with `notify_one`), `WorkerLoop` is `Sleep`, `Exit`, `Take`, `Execute`
and the spurious wakeup; `Cleanup` is four steps, since `notify_all` and the joins
happen outside the mutex. `verdict` is the state of the future each `Submit` returned,
or the exception it threw. Time limits and the content of tasks are left out.

### MySQLConnectionPool
`caller[t]` and `holds[t]` are a thread's place in `getConnection` and what its
`shared_ptr` owns. `Block`, `TakeIdle`, `TakeReconnected`, `ReconnectFails`, `Create`,
`CreateFails`, `ReturnNullStopped` are the outcomes of one hold of the mutex, connection
attempts included, because the code connects with the mutex held. `currentSize` is a
`size_t`: it is decremented modulo `SizeMod`, so it wraps when a connection comes back after `closeAll`.
`CloseIsFinal` is the property that this wrong count does no harm: the pool stays closed, since nothing
that reads the count runs after the test of `stop_`.

### Reactor
One action per handler the loop calls, each with everything it calls (for example
`SubmitRequest` is `handleRead`, the parser's verdict, the request callback, the rate
limiter's verdict and `Submit`). A client connects once and so names its socket, its
`Connection` and its `Channel`; descriptor numbers are apart from them, are given out
lowest first and reused. The kernel resolves a number at each call, so a stale `fd_`
reaches whichever socket it denotes by then. `epoll_wait` delivers any order of the ready
channels. A slow client's socket may be ready again at `epoll_wait` and refuse the write by the time of
`handleWrite` (`EAGAIN`), any number of times. Use of freed memory is the status `undefined` where it stops the model, with
`touched` recording how it came about; where reading freed memory may as well go
unnoticed, both outcomes are behaviours. `aborted` is the failed `epoll_ctl` that the
code turns into `abort`, `terminated` the exception that leaves the loop.

What the environment may do is the constant `Env` (hang-ups, pipelining, slow
sockets, idling, `Connection: close`, bad requests, rate limiting, throwing handlers), so
that each run says under which conditions its properties hold. Abstracted: bytes (a
request is one unit, read whole), addresses, the routing. A write to a socket whose
client has left is modelled as data that vanishes or as an error; `SIGPIPE`, which the
code neither blocks nor ignores itself, is not modelled. A worker's three last acts, `send`,
`shutdown` and the release of its `shared_ptr`, are three actions.

### Sessions
One action per MySQL statement and per Redis command, the code around it included.
One account (accounts share no key). All TTLs are seven days, so the order of
the keys' TTLs (`deadlines`) replaces the clock and `Expire` takes the least. A token is
a value no login has drawn. bcrypt is equality of passwords. The row `users` is the row of `PooledRow`;
login and password change hold their connection from the SELECT to their end. A change whose UPDATE ran in
an inherited transaction is answered with success and has committed nothing, so `cleared` counts only
UPDATEs that committed. `raced`, `overtaken` and `inheriting` record the ways in which a session can
survive a change (its SADD fell into the removal, or the set expired before its EXPIRE; its login was past the check
when the UPDATE committed; its login found an open transaction), so that `TrackedUnlessRaced` and
`OnlyOverlapsSurvive` can state that nothing else does it.

### UserInfoCache
One action per MySQL statement and per Redis command. A state of the row is its version in `PooledRow`,
since an update is one `INSERT ... ON DUPLICATE KEY UPDATE`. `Gone` is the `"null"` marker.
`answer` is what the request that ended last was answered; `"silence"` is a handler left by an
exception, after which nothing is sent. `settled` and `since` say which
committed updates a request ought to see. `suspect` marks a copy that an accident befell: filled by a
reader with a version that was not the row's any more (or, in an inherited transaction, never was), present when a
DEL or an UPDATE failed, when the user was removed, or when a registration committed an update that an inherited
transaction had held. `StaleOnlyIfKnown` states that a copy becomes stale in none but these ways, and
`AnswersFresh` excepts answers that were read in an inherited transaction. `Elsewhere` is what registrations and
requests of other users do to the connections.

### PooledRow
What `Registration` shows of transactions that a registration leaves open, reduced to what a request about one
row meets with: `open` is the set of connections that carry one, `view` and `wrote` are its snapshot and its
uncommitted version. `Read` is a SELECT, `Write` an UPDATE or upsert, which commits at once outside a transaction
and not at all inside; it waits while another connection has the row uncommitted (`Blocked`). `LeaveOpen`,
`LookElsewhere`, `Settle` and `Lose` are what others do to a connection: leave a transaction open, take its snapshot, commit it by
the next `START TRANSACTION`, lose it. A version is committed over older ones only (`Newer`), which
rows locked by their writers ensure.

### AsyncLogger
`log` is the test of `is_running_` (`Admit`) and the critical section (`Store`); the back end's
`wait_for` is predicate, block, and one of notification, time limit and spurious wakeup, with
`mtx_` held between predicate and block, since `shutdown` takes no mutex. An entry is one
unit of buffer and file. `file.length` is the true length, `file.size` what `file_size_`
says. The destructor of the singleton runs before that of the global `g_threadPool`, so
threads that log may outlive the logger; what they then store is `undefined`.
Not modelled: levels, formatting, a rename that throws in `rollFile`.

### Registration
One action per SQL statement. `by[c]`, `view[c]` and `wrote[c]` are the session MySQL keeps for
connection `c`: whose transaction is open, its snapshot and its uncommitted rows. They belong to
the connection, so what a request leaves open the next holder inherits, and its own
`START TRANSACTION` commits it. MySQL is modelled as InnoDB at REPEATABLE READ with the unique
keys of the README's schema; an insertion or an upsert that would wait for another transaction either
succeeds later or times out. Detection of a deadlock (of three insertions of one name the first is rolled back) is left
out: its victim gets an exception as after a lock wait timeout, but loses its transaction too.
The three ways in which `MySQLClient` reports an error (ignored -1, `nullptr`,
exception) are three different ways to go on. `mishap[r]` records that an exception left the
registration or that an ignored -1 did harm to it, `inherited[r]` that it found a transaction open;
so the properties can say that nothing else makes them fail.

### EventLoop
Other threads' `queueInLoop` is two steps, the push under `mutex_` (`Post`) and the write to the
eventfd (`Wakeup`); `quit()` likewise. The loop's round is `Check`, `Poll`, one action per
handler, `SwapFunctors` and one `RunFunctor` per functor, so that pushes come between any two of
them. `epoll_wait` returns any order of the ready descriptors, or nothing: it has a limit of
10 ms and signals interrupt it. The ready set is read at the return. `Quit(Loop)` is the signal
handler on the main thread. Time is discrete, `Tick` may come anywhere, so a callback may take as
long as it likes; `first`, `fired`, `posted` and `ran` are history. Equal expiries run in any order,
as the heap leaves it open. The timers a callback or functor adds are `Adds`; the functor it posts is `Posts`
(`QueueInLoop`, with the wakeup that `callingPendingFunctors_` asks for). `Reactor` has the
connections and runs the same loop without a clock.

### Buffer and HttpParser
`Buffer` has no behaviour of its own: each operation is an operator from a record of `cells`,
`readIndex` and `writeIndex` to another. The byte order of the integers and `std::search` are modelled
by what they do.
`HttpParser` is the behaviour: a client sends messages, `handleRead` reads as many bytes as it likes
through `readFd` (`ReadBytes`), the loop of `parse` takes them line by line, and one request at most goes to the
callback. Each way a pass of the loop can go is an action (`parseRequestLine`, `parseHeader`, `EndOfHeaders`,
`parseBody`, and the breaks, `WaitForMore`); `parsing` holds from the read to the end of `handleRead`
(`WaitForMore`, `HandOver`, `RejectAndClose`), and keeps the I/O thread from reading again before. A request
line or header line without its end is one unit, since the parser decides about it when it is complete; `CR`,
`LF` and the bytes of bodies are units, so reads cut line ends and bodies. What is inside a line is reduced to
what the parser tells apart: does it parse, and which `Content-Length` does it state. `stream`, `ends` and
`arrived` say which bytes the messages are and how many have been read. The names have their `Parser` because
`UtilsProofs` extends this module next to `AsyncLogger`.

### RateLimiter
`INCR` and `EXPIRE` are two actions, each may fail before or after Redis executes it, and the process
may be restarted between and around them. Requests do not overlap, as `isAllowed` runs on the I/O
thread only. `passed` counts the requests of the last `Period` units of time that were let in after Redis had counted
them within the limit, whether its answers arrived or not, `waved` those that the catch block let in although Redis had not
counted them or had counted them beyond the limit (at most `MaxWaved` per unit of time, a bound); addresses share
no key, so one is enough. `LimiterInit`, `LimiterNext` and `LimiterSpec` have their prefix because `UtilsProofs`
extends this module next to `AsyncLogger`.

## 3. Runs

Bounds are in the `.cfg` files. Actions without a bound of their own are bounded by the
sets: a task is submitted once, a client connects once, a token is drawn once.

| Run | Instance | Shows |
|---|---|---|
| `ThreadPool` | 4 tasks, 3 threads, queue of 2 | `NoLostWakeup`, `OneHome`; refinement of `TaskService` with its liveness; `CleanupTerminates` |
| `MySQLConnectionPool` | 4 threads, 2 to 3 connections, 4 addresses | `Exclusive`, `SizeAccounts`, `NoIdleWhileAsleep`; `CloseReleasesWaiters`, `CloseIsFinal` |
| `Reactor` | 2 clients for 1 descriptor, all of `Env` but pipelining | `DescriptorsAccounted`, `OutputIsWatched`, `AnsweredAtMostOnce` |
| `ReactorPatient` | 2 clients, 2 descriptors, 2 workers, 2 requests each, slow sockets, limiter | `RepliesReachTheirClient`, `FunctorsHaveTargets`, `RequestsAnswered` with clients that wait for their answers |
| `ReactorReaped` | 2 clients for 1 descriptor, hang-ups, slow sockets, bad requests | `HangupsReaped` |
| `Sessions` | 2 requests at a time, 2 tokens, 2 passwords, 1 change, 2 connections that may carry transactions, every command may fail | `TrackedUnlessRaced`, `LogoutEnds`, `OnlyOverlapsSurvive` |
| `UserInfoCache` | 2 requests at a time, 2 updates, 2 connections that may carry transactions, every command may fail, the user may be removed | `StaleOnlyIfKnown`, `AnswersFresh` |
| `AsyncLogger` | 2 threads with 3 calls each, buffers of 2, files of less than 5, opens may fail | `AwakeWhenFull`, `NothingLeftBehind`, `FileBounded`, `ShutdownReturns`; refinement of `LogService` with its liveness |
| `Registration` | 2 registrations of one name, 2 updates and a login on 2 connections that break, statements that fail | `NoLeftovers`, `AllOrNothing`, `LoginsFindTheRegistered` |
| `EventLoop` | 2 threads, 2 functors, a periodic timer whose callback adds one that is due at once, a functor that adds an early one (both post the second functor), 5 units of time | `FunctorsRunInOrder`, `NeverSleepsOnWork`, `PhaseKept`, `EverythingRuns`, `QuitEnds` |
| `HttpParser` | 2 of 7 kinds of message, pipelined or not, a buffer of 3 that grows | `RequestsAsSent`, `HandedWhenComplete` |
| `RateLimiter` | 3 requests per window of 3 units, failures and restarts | `TwiceTheLimitAtMost`, `RefusalsEnd` |

The invariants `DrainedWhenJoined`, `QueueBounded`, `WithinMax`, `WatchedWhileOpen` and the
`TypeOK`s have no run of their own: where they are proved they follow from theorems of section 4.
Nor have `TokensExpire` (every token dies) and `StaleCopiesGo` (no stale copy stays), liveness that rests on each `SETEX`
giving its TTL. TLC finds them to hold, without symmetry, on the instances of `MCSessions.cfg` with `Conns = {c1}` and without
`"left"`, and of `MCUserInfoCache.cfg` with `Conns = {c1}`.

Why the bounds are enough to be interesting. ThreadPool: three threads can be asleep,
notified and busy at once, and four tasks overfill a queue of two while others run.
Connection pool: four threads for three connections, so a thread waits while others return,
lose, reconnect and create; `size_t` has three bits and does wrap. Reactor: two clients
for one number is the least instance with reuse, and the second waits in the backlog while
`accept` fails; three clients over the same number (hang-ups, slow sockets,
idling, 3.5 million states) satisfy the same invariants and `WatchedWhileOpen`. Sessions: two requests are
what it takes for a window; two tokens let a set hold a stale and a fresh one.
UserInfoCache: a reader that fills late next to an updater, the one on the row and the other on an inherited transaction
of the second connection; three requests at a time without failures (2.3 million states) satisfy the same invariants.
Registration: two registrations of a name, one of which finds the other's transaction or its
rows, an update that waits for the row of another, and a login that inherits a snapshot need two connections and
five requests.
EventLoop: the periodic timer can miss two of its expiries and each functor may be posted in every
state of the round. HttpParser: with three messages (a million states) the same holds; a buffer
of three bytes grows, moves its bytes and reads through the extra array. RateLimiter: the window and the
limit of three are the least with a request in the middle of both; a counter above `Limit + 1` is no
different from `Limit + 1`. AsyncLogger: six entries against two buffers of two and a batch of two, so that both
buffers fill and entries are dropped; a file rolls at the third batch.

Deadlock checking is off everywhere: a pool that was destroyed, clients that are all
gone and tokens that are all drawn are ends the system may reach.

Symmetry is used in runs with invariants only.

Fairness. ThreadPool: weak fairness of each thread's step (the scheduler runs runnable
threads, tasks end; `Sleep` is a thread's step too, `SpuriousWakeup` is not fair) and of
the steps of a destructor that was entered. Connection pool: weak fairness of each
thread's way through `getConnection` and of its giving back what it holds (handlers end),
not of calling again and not of `closeAll`. Reactor: weak fairness of the
loop as a whole and of the workers as a whole, and a client that stays reads now and then (strong fairness of a `HandleWrite` that gets bytes out, since `EAGAIN` may
come between), nothing else about clients, nothing about time. Sessions:
workers finish requests they began and time passes. UserInfoCache: TTLs run out (Redis
failing for ever in a way that renews a stale copy each time is excluded), nothing about
requests. EventLoop: the main thread runs, and a thread that has pushed a functor or called `quit()`
also writes to the eventfd; nobody has to post, time need not pass. RateLimiter: Redis lets time pass and
the I/O thread finishes what it began. AsyncLogger: the back end runs, `wait_for` ends after its time limit, and a
destructor that was entered goes on. Nobody has to submit, connect, log in
or destroy anything.

`RequestsAnswered` and `HangupsReaped` except a process that is no longer `up`; that
the process may end is what the runs and the table below say apart.

### Statements the code does not keep
Each is a comment, declaration or README line that the code contradicts. They are defined in the modules;
no run of the project checks them, and the instance given refutes each: replace the constants and the
properties of the module's `.cfg`.

| Statement | Where it is said | Refuted by |
|---|---|---|
| `SleepsForAReason` | `MySQLConnectionPool.cpp:46` | a failed reconnect decrements `currentSize_` (`:73`) without `notify_one`, and a waiter sleeps on: 3 threads, 2 addresses, `MinSize = MaxSize = 1` |
| `FunctorsHaveTargets` | `Connection.h:23-24` | the functors of `send` and `shutdown` hold a raw `this`; the client hangs up, the worker lets go first: 1 client, `Env = {"hangup"}` |
| `RepliesReachTheirClient` | `Connection.h:17` | a closed `Connection` a worker still holds writes to its old number, by now another client's: 2 clients, 1 descriptor, `QueueMax = 2`, 1 worker, `Env = {"hangup"}` |
| `RequestsAnswered` | `Connection.cpp:107` | one request is parsed per read event; a pipelined one waits for data that need not come: 1 client, 2 requests, `Env = {"pipeline"}` |
| `StaleTokensDie` | `README.md:22` | a login validated before the UPDATE stores its token after SMEMBERS: 2 workers, 2 tokens, 1 change, `Env = {"overlap"}`; without overlap, a login reads the old password in an inherited snapshot: 2 connections, `Env = {"left"}` |
| `AnsweredIsCommitted` | `UserService.cpp:387` | the UPDATE of a password runs in a transaction that a registration left open, is answered with success and stays uncommitted: `Env = {"left"}` |
| `WindowsEnd` | `README.md:29` | the process ends, or EXPIRE fails, after the INCR that makes the counter: it never gets a TTL, and the address is refused for ever: `Env = {"crash"}` or `{"errors"}` |
| `ClosesOwnSocket` | `Connection.h:17` | a closed `Connection` that a worker still holds keeps the number its socket had, by now another client's, and would close that: 2 clients, 1 descriptor, `QueueMax = 2`, 1 worker, `Env = {"hangup"}` |
| `SizeInRange` | `MySQLConnectionPool.h:40` | `closeAll` zeroes the count, returns decrement it below zero: 2 threads, 2 addresses, `MinSize = MaxSize = 1` |
| `NothingAfterClose` | `Connection.cpp:143` | `Channel::handleEvent` tests `revents_` after the read callback destroyed the channel: 1 client, `Env = {}` |
| `TimersCloseOnlyIdle` | `TcpServer.cpp:38` | `forceClose` runs a round later and does not look again: 1 client, `Env = {"idle"}` |
| `ShutdownAfterOutput` | `Connection.cpp:46` | `shutdown` does not wait for `outputBuffer_`: 1 client, `Env = {"slow", "close"}` |
| `SurvivesBursts` | `ThreadPool.h:30` | `Submit` throws through the event loop: 3 clients, 3 descriptors, `QueueMax = 1`, 1 worker |
| `OldPasswordVerified` | `README.md:22` | two changes that verified the same password both UPDATE: 3 passwords, 2 changes, `Env = {"overlap"}` |
| `LoginSuccessHasToken` | `ErrorCode.h:5,26` | a Redis error in `createToken` is answered with code 0: `Env = {"redis"}` |
| `RedisErrorsAnswered` | `ErrorCode.h:26` | an error of `redis->del` leaves the handler, nothing is sent: 1 worker, 1 update, `Env = {"redis"}` |
| `NothingAfterShutdown` | `Logger.cpp:100` | a call tests `is_running_`, the shutdown follows, the entry is stored: the constants of `MCAsyncLogger` |
| `ExitWritesRest` | `Logger.h:60` | such an entry misses the last drain; without an open file the rest is lost too |
| `EveryRequestAnswered` | `README.md:31` | the INSERT of the second registration of a name throws past `handleRegister`: `Env = {}` |
| `UpdatesAreStored` | `UserService.cpp:332` | an update on a connection that inherited a transaction is lost with it: `Env = {}` |
| `RefusedForTheName` | `UserHandler.cpp:55` | the SELECT compares emails too, and two users who give none share the empty one: 2 registrations of different names, `Env = {}` |
| `SuccessIsStored` | `UserHandler.cpp:50` | the result of COMMIT is ignored: `Env = {"lost"}` or `{"errors"}`; it holds with `{}` |
| `BodiesFollowLengths` | `HttpRequest.cpp:27` | the length is looked up under one spelling, and `content-length: 1` counts for none: `Messages <- Lowercase` |
| `LimitPerPeriod` | `README.md:29` | a full window's worth at the end of one window and at the start of the next |
| `QuitAlwaysEnds` | `EventLoop.h:45` | `loop()` resets `quit_`, and a signal before it is lost |
| `LoopOutlivesItsThreads` | `EventLoop.h:19` | the global pool is destroyed after the loop on the stack of `main`, and its threads still post |

`UpdatesSeenAtOnce` (an acknowledged update is seen by every later read, and by the answer to the update
itself) is the aim of the DEL at `UserService.cpp:334`, though no comment claims it. A reader that fills
the copy after the DEL breaks it: 2 workers, 1 update, `Env = {"overlap"}`; so does, without any overlap, an update in
an inherited transaction, or a read in an old snapshot: `Env = {"left"}`.
`LogoutEnds` and `OnlyOverlapsSurvive` are stated for histories in which Redis answered (`failed`): `removeToken`
and `removeAllTokensForUser` swallow errors and the request is answered with success.

## 4. Proofs

For any set of tasks, any non-empty finite set of threads and any queue bound
(`PoolAssumption`), `ThreadPoolProofs` proves `TypeCorrect`, `WakeupsSuffice`,
`EveryTaskHasOneHome`, `JoinDrains`, `QueueStaysBounded` and `RefinesTaskService`. The
inductive invariant is
`TypeOK /\ BusyCarriesTask /\ ShutdownOrder /\ NoLostWakeup /\ OneHome`:
`BusyCarriesTask` is what lets `Execute` type `verdict`, `ShutdownOrder` says that an
exited thread has seen `stop_` and an empty queue, without which `Exit` could break
`NoLostWakeup` and the joined pool could still hold tasks. `NoLostWakeup` counts: the
lemmas `ReadyGrows`, `ReadyShrinks` and `NotifyOneWakes` say how each step changes the number of ready
threads, and a task is matched by a thread that is ready or by nobody being asleep.
`RefinesTaskService` maps each step to a step of the service or a stutter.

For any numbers of threads and connections with `MaxSize` below the number of addresses
and that below the size of `size_t` (`ConnPoolAssumption`),
`MySQLConnectionPoolProofs` proves `TypeCorrect`, `ConnectionsAreExclusive`,
`SizeIsExact`, `PoolIsBounded`, `ReturnsWake` and `ClosedForGood`, from the conjunction of those with
`HoldersHold` (a thread past `getConnection` owns a connection) and `StoppedIsEmpty`
(after `closeAll` the queue stays empty, so late returns cannot refill it).

For any finite sets of clients and descriptors, any queue bound, number of threads and `Env`,
`ReactorProofs` proves `DescriptorsNeverLeak`, `OpenMeansWatched` and `OutputNeverStranded`
(`ReactorAssumption`: finite sets, and clients are apart from `None` and from the listening socket and the timer). `OpenMeansWatched` says that
epoll has some channel for every open number; a closed connection's `EPOLL_CTL_MOD` of a reused number can make it the wrong one,
so more is not true. None is inductive alone: a close through a stale number is harmless only if the map, the
descriptors and epoll agree at every number, and `Send` keeps output watched only if the
connection is registered for reading to begin with. The inductive invariant `IInv` is
`TaskTypes /\ Net /\ BacklogFresh`, where `Net` has the three with `RegisteredReads`,
`MapIsHome` (a connection in the map is under its own number), `UnbornIsSilent`, and the types they need, and
`BacklogFresh` says that a client in the backlog is there once and has no descriptor yet, which is what
keeps `Accept` from giving it two. The loop's helpers (`CloseEach`, `UpdateChannel`,
`Send`) have a lemma each that they preserve `Net`, cited by every handler that calls them.

`RepliesAtMostOnce` rests on a second invariant, `OInv`, that follows a request through the program. `Held`
lists the requests at each of its places: the client's socket, `inputBuffer_`, the pool's queue, a worker that
has not answered, a functor that sends, `outputBuffer_`, the client. `OnePlace` says that no place has a request
twice and no two places have the same; `HeldAreAsked` that a request which is somewhere was sent, so that a new
one is nowhere. `Moved` proves once that a step keeps this if it moves requests among some places, and
`OutputStep` that splitting the output between client and `outputBuffer_` is such a move.

`RepliesReachTheirClient` and `FunctorsHaveTargets` are false for clients that hang up (section 3), that stay
idle, or that pipeline a bad request behind one in work, and the second also if a response closes its
connection (`Env` `{"hangup"}`, `{"idle"}`, `{"pipeline", "bad"}`, `{"close"}`: 2 clients, 1 descriptor, 1 worker).
`PatientClientsGetTheirs` and `KeptAliveFunctorsHaveTargets` prove them for the clients the code works for:
under `Patient` nobody leaves or asks again before the answer and the idle check closes nobody, under `KeptAlive`
in addition no handler asks for `Connection: close`. Slow sockets, refused and limited requests, handlers
that throw and a full pool remain (and `Connection: close` for the first theorem). The invariant `PInv` says
why that is enough: whatever is not answered is the one request its client waits for (`OneAtATime`), an object that
still owes an answer has its descriptor (`HomeWhileAsking`), so a close never comes before the answer
is in the buffer of the object that closes; what epoll reported stays true until its handler runs (`BatchHome`), but
for the write event of an object the read event has just closed. `FInv` adds that every functor is a send
for an object that was made; being owed an answer, the object is in `connections_`.

For any set of threads, any number of calls and any buffer and file sizes with two buffers
below `MAX_FILE_SIZE` (`LoggerAssumption`), `UtilsProofs` proves `TypeCorrect`,
`FullBuffersWake`, `NothingLeft`, `FilesStaySmall` and `RefinesLogService`. The inductive
invariant adds to `TypeOK`, `AwakeWhenFull` and `FileBounded`: `Homes` (the stored entries
are those of the batch and the two buffers, each in one of them, the written ones those of the
output), without which a write could repeat an entry; `RestIsLate` (after the last drain the
buffers hold late entries only) and `ShutdownOrder`, which give `NothingLeft`; `FileHonest`
(`file_size_` is the true length until the last write, which does not count), which bounds
the file; and `BufferStates` (only full buffers are handed over), without which an entry could
be dropped, or refused in the eyes of `LogService`, while there is room. `RefinesLogService` maps
the stores to the end of the line, `Write` and `WriteRest` to its front (`SplitConcat`), and
`Take` and `TakeRest` to stutters.

For any set of requests of the three kinds, any names and emails, any set of connections and any `Env`
(`RegistrationAssumption`), `RegistrationProofs` proves `TypeCorrect`, `TransactionsEnd`,
`BothRowsOrNone` and `LoginsFind`. The inductive invariant `IInv` has one conjunct per request and one per
connection. `TransactionsEnd` and `LoginsFind` except registrations that met with an accident (`mishap`), and `LoginsFind` also logins
that inherited a transaction: there the code does leave transactions open and does miss users. `InPlace` is what makes `AllOrNothing` inductive: until the answer, the rows of a
registration are in the transaction of the connection it holds and nowhere else, exactly those
that precede its next statement. It needs `RequestInv` (an unharmed registration between its first and last
statement owns the transaction of its connection), `ConnInv` (nothing is uncommitted without a
transaction, and whoever opened one still holds the connection or met with an accident) and `Exclusive`.
`Frame` proves once that a step of one request keeps the conjuncts of all others, `Ended`
and `Proceeded` that the two ways a request goes on keep its own.

For any threads, functors, timers, intervals and delays (`EventLoopAssumption`), `EventLoopProofs` proves
`InOrder`, `NoLostWakeup` and `InPhase`. `NeverSleepsOnWork` alone is not inductive, since `handleWakeup` clears
the eventfd: `QueueInv` adds that the loop then still has the swap of this round before it. `TimersInv` says that
the next expiry of a periodic timer is its first plus some number `k` of intervals, and that it ran at most `k`
times, callbacks taken off the heap and not yet run included; `SkipsWholePeriods` is the arithmetic of
`handleRead`'s skip.

`UtilsProofs` also proves, for buffers of any size and content that are `WellFormed`, what the operations do to
`Readable`: `AppendAppends`, `ReadFdAppends`, `RetrieveRetrieves`, `PrependPrepends` and `ShrinkKeeps`, whether
the vector has room, grows or moves its bytes.

On these rests what it proves of `HttpParser`, for any set of messages with any number of headers and any bodies
(`MessagesAssumption`: a line has no `CR` or `LF`, a body may hold anything and is as long as HTTP has it), any
number of messages, pipelined or not, any size of the buffer and any cuts: `RequestsArriveAsSent` and
`RequestsHandedWhenComplete`. Both have the hypothesis `LengthsAgree`: the parser's `getContentLength` of a message
that parses is the length of its body. It cannot be dropped: with `Messages <- Lowercase` TLC refutes
`RequestsAsSent`, which is `BodiesFollowLengths` in the table of section 3. The inductive invariant `ParserInv`
has four parts. `Framed`: the stream is the messages one after the other, `ends` telling where. `BufferHolds`: what the
buffer holds are the bytes of the stream from `Position` to `arrived`, whatever growing and moving it took.
`HandedInOrder`: what was handed over are the first messages. `Progress`: what `Position` and `context` are by the state of
the parser, for example at the headers (`AtHeaders`) as many lines into the coming message as it has taken headers,
all of them the message's. So a search for `CR LF` begins at a line or the empty line of the coming message
(`LineAhead`, from `EncodedBytes`, which says where its lines lie among its bytes) and finds its end or nothing; a
`CR LF` in a body is never looked at. `WaitsForWhatMisses` draws the second theorem from that: where the loop breaks,
the coming message has bytes that have not arrived.

For any limit, period and `Env` (`LimiterAssumption`) it proves `AtMostTwoWindows`: no stretch of a period has more than twice the limit, beside the requests in `waved`. The invariant is `TwoCounters`: some age `b` parts
the requests let in, the younger counted by the counter Redis has now, at most `count` and at most `Limit`, the
elder by the one before, at most `Limit`. A counter with a TTL is so old that when the TTL runs out nothing
older is left in the period (`PartedAt`), and that holds because only a new counter gets a TTL (`CounterStates`).
`AgedAreNoMore` and `OneMore` count requests as time passes and as one is let in.

For any finite sets of workers and tokens, any passwords and number of changes, and any `Env`
(`SessionsAssumption`: model values are apart from each other and from numbers), `SessionsProofs` proves
`TypeCorrect`, `SessionsAreTracked`, `LogoutsAreFinal` and `ChangesEndSessions`. Each of the three
properties speaks of a token between the commands of several requests, so the inductive invariant
follows a token from its login on. `Holding` and `LoginsDiffer` say that a token in a login
step is its alone and nowhere else yet, `Drawn` that a token which exists anywhere passed a login's check.
`SetOutlives` is why an expiry is harmless: unless it was raced, a client's token in the set expires no later
than the set, which rests on `EXPIRE` following `SADD`. `AddedUnlessRaced` carries the membership from
`SADD` to the answer; `ClosedIsClean` says that a connection outside a transaction has no snapshot and nothing uncommitted,
so that its checks see the committed password and its UPDATEs commit; `ListComplete` says that what `removeAllTokensForUser` has not deleted yet is on
its list, so that its last `DEL` of the set loses nothing. For changes, `LateLogins` says that logins
that store a token of a replaced password were overtaken by a committed UPDATE or inherited a transaction, and `ListEndsOlder` gives the list all sessions it
has to end. The proof goes through `Step`, the conjunction of what any step may do to requests, keys, set and
records; every action is shown to be such a step, and the invariants follow from `Step` without another look at
the actions. `VersionsSuffice` is there for the bound: a change begins only if a version is left for it.

For any sets of workers and connections, any number of updates and any `Env` (`CacheAssumption`), `UserInfoCacheProofs`
proves `TypeCorrect`, `StaleCopiesAreKnown` and `AnswersAreFresh`, again through a `Step`. The invariant adds to
them `ClosedIsClean` (a connection outside a transaction has no snapshot and nothing uncommitted, so that its reads
see the row and its writes commit) and `Committed` (requests count on committed versions only).
`AnswersFresh` needs two more: `ReadersFresh` (what a reader is about
to write is no older than its request, unless it inherited a transaction) for answers from the SELECT, and `CopyFresh` for
answers from Redis: a copy without an accident is as new as every answered update and as every update that has got past its DEL.

Only model-checked: all liveness properties, since fairness and ENABLED are out of the prover's reach. Every invariant
and every action property of the runs, and the safety part of both refinements, is a theorem; four of them
(`RepliesReachTheirClient`, `FunctorsHaveTargets`, `RequestsAsSent`, `HandedWhenComplete`) under the hypotheses
which their paragraphs name.

## 5. Not modelled, and what is left

Not modelled:

* `nlohmann/json.hpp`, vendored: 25 526 of the 30 083 lines of C++ here. The server's own code is about
  4 560 lines, demos and test stubs included, so the modelled share of the whole stays small whatever is done.
* The demos and test stubs (`server.cpp`, `client.cpp`, `*Test.cpp`): not part of the server.
* `Router`, a lookup in a map that is filled before the threads start, whose branch for 405 no route reaches.
* `HttpResponse`, `ResponseHelper`, `ErrorCode`, `InetAddr`: stateless formatting and conversion; likewise the
  parsing of JSON bodies, and method, path, query and version inside a request line.
* The destructor of `TcpServer`, which runs when the loop has ended, and the set-up of the listening socket.
* `SIGPIPE`, a `rename` that throws in `rollFile`, and MySQL's detection of deadlocks.

Left, most important first:

1. A larger composition: `Registration` over the connection pool's own queue instead of any free
   connection.
2. The end of `main`: the destructors of `TcpServer`, `Router` and the pool in their order, with the tasks
   that still run.

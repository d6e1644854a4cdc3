------------------------------- MODULE Reactor -------------------------------
(***************************************************************************)
(* The life of a connection: TcpServer, Acceptor, Connection, Channel and  *)
(* EpollPoller on the I/O thread, the request callback of main.cpp, the    *)
(* worker threads that answer, and the kernel's descriptors.               *)
(*                                                                         *)
(* A client connects once, so it names its socket, its Connection object   *)
(* and that object's Channel.  Descriptor numbers are reused: an object    *)
(* keeps the number fd_ after ::close, and the kernel resolves the number  *)
(* at each system call.  Each handler the loop calls is one action; worker *)
(* threads, clients and the passing of time interleave with them.          *)
(*                                                                         *)
(* The bytes of a request are one unit that is read whole (how a request   *)
(* is cut into reads does not matter to the lifetimes), and a request also *)
(* names the response to it.                                               *)
(***************************************************************************)
EXTENDS Naturals, Sequences, FiniteSets, SequencesExt

CONSTANTS
    Clients,      \* clients; each connects at most once
    Fds,          \* descriptor numbers for accepted sockets
    None,         \* no client, no descriptor
    MaxRequests,  \* bound: requests a client sends
    QueueMax,     \* max_queue_size of g_threadPool
    PoolThreads,  \* thread_count of g_threadPool
    Env           \* what clients, kernel and handlers may do, see below

(* "hangup": a client leaves with requests unanswered; "pipeline": it sends a
   request before the last one is answered; "slow": the socket buffer of a
   client fills up; "idle": 120 s pass; "close": requests ask for Connection:
   close; "bad": the parser refuses a request; "limit": the rate limiter does;
   "throw": a handler leaves router.dispatch by an exception. *)
Behaviours == {"hangup", "pipeline", "slow", "idle", "close", "bad", "limit", "throw"}

ASSUME ReactorAssumption ==
    /\ Fds \subseteq Nat /\ IsFiniteSet(Fds) /\ IsFiniteSet(Clients)
    /\ None \notin Clients /\ None \notin Fds /\ {"listen", "timer"} \cap Clients = {}
    /\ MaxRequests \in Nat /\ QueueMax \in Nat \ {0} /\ PoolThreads \in Nat \ {0}
    /\ Env \subseteq Behaviours

Requests == Clients \X (1..MaxRequests)
Sender(r) == r[1]

(* What the lambda submitted to the pool captures: the Connection (named by the
   client it was made for) and the request. *)
Tasks == [conn : Clients, req : Requests]

VARIABLES
    (* the kernel and the clients *)
    peer,         \* each client: "away", "here" (connected), "gone"
    backlog,      \* connections the kernel has completed, oldest first
    fdTable,      \* the client whose socket each descriptor number denotes
    epoll,        \* the channel registered with epoll for each descriptor
    sock,         \* requests that reached the server's socket and are not read
    asked,        \* how many requests each client has sent
    answers,      \* responses each client has got
    shutWr,       \* sockets whose sending direction the server shut down
    (* Connection objects and TcpServer *)
    connections,  \* TcpServer::connections_
    connFd,       \* Connection::fd_, None until the object exists
    interest,     \* Channel::events_
    inEpoll,      \* objects whose Channel::inEpoll_ is true
    inBuf,        \* inputBuffer_
    outBuf,       \* outputBuffer_
    idle,         \* objects with no activity for 120 s
    (* EventLoop and TimerQueue *)
    batch,        \* activeChannels of the current round, None outside it
    pending,      \* pendingFunctors_
    functors,     \* the functors doPendingFunctors still has to run
    tick,         \* the periodic idle check is due
    doomed,       \* Connections in a runAfter(0) closure
    (* the thread pool *)
    queue,        \* tasks submitted
    working,      \* tasks in a worker: [task, todo]
    (* the process *)
    status,       \* "up", "undefined", "aborted" or "terminated"
    touched       \* history: how freed memory was accessed

kernel == <<peer, backlog, fdTable, epoll, sock, asked, answers, shutWr>>
objects == <<connections, connFd, interest, inEpoll, inBuf, outBuf, idle>>
loop == <<batch, pending, functors, tick, doomed>>
pool == <<queue, working>>
vars == <<kernel, objects, loop, pool, status, touched>>

Init ==
    /\ peer = [c \in Clients |-> "away"]
    /\ backlog = <<>>
    /\ fdTable = [f \in Fds |-> None]
    /\ epoll = [f \in Fds |-> None]
    /\ sock = [c \in Clients |-> <<>>]
    /\ asked = [c \in Clients |-> 0]
    /\ answers = [c \in Clients |-> <<>>]
    /\ shutWr = {}
    /\ connections = [f \in Fds |-> None]
    /\ connFd = [c \in Clients |-> None]
    /\ interest = [c \in Clients |-> {}]
    /\ inEpoll = {}
    /\ inBuf = [c \in Clients |-> <<>>]
    /\ outBuf = [c \in Clients |-> <<>>]
    /\ idle = {}
    /\ batch = None
    /\ pending = <<>>
    /\ functors = <<>>
    /\ tick = FALSE
    /\ doomed = {}
    /\ queue = <<>>
    /\ working = {}
    /\ status = "up"
    /\ touched = {}

Up == status = "up"

Created(c) == connFd[c] # None

(* The shared_ptrs to c outside connections_: in tasks, in workers and in
   timer closures.  Functors hold a raw pointer. *)
HeldElsewhere(c) ==
    \/ \E t \in ToSet(queue) : t.conn = c
    \/ \E w \in working : w.task.conn = c
    \/ c \in doomed

(* The object exists; otherwise it was never made or is destroyed. *)
Alive(c) == Created(c) /\ (HeldElsewhere(c) \/ \E f \in Fds : connections[f] = c)

(* The client at the other end of descriptor f can be written to. *)
Writable(f) == fdTable[f] # None /\ peer[fdTable[f]] = "here" /\ fdTable[f] \notin shutWr

-----------------------------------------------------------------------------
(* EpollPoller::updateChannel after events_ of c became ev.  epoll_ctl fails,
   and update aborts, for a number that is not open or not registered, or that
   is registered already. *)
UpdateChannel(c, ev) ==
    LET f == connFd[c]
        fails == CASE ev = {} -> c \in inEpoll /\ epoll[f] = None
                   [] ev # {} /\ c \in inEpoll -> epoll[f] = None
                   [] OTHER -> fdTable[f] = None \/ epoll[f] # None
    IN
    /\ interest' = [interest EXCEPT ![c] = ev]
    /\ status' = IF fails THEN "aborted" ELSE status
    /\ IF fails \/ (ev = {} /\ c \notin inEpoll)
       THEN UNCHANGED <<epoll, inEpoll>>
       ELSE /\ epoll' = [epoll EXCEPT ![f] = IF ev = {} THEN None ELSE c]
            /\ inEpoll' = IF ev = {} THEN inEpoll \ {c} ELSE inEpoll \cup {c}

(* Mutant of CloseEach: the entry of connections_ is not erased. *)
CloseWithoutErase(D) ==
    LET fds == {connFd[c] : c \in D}
        Without(g) == [f \in Fds |-> IF f \in fds THEN None ELSE g[f]]
    IN
    /\ fdTable' = Without(fdTable)
    /\ epoll' = Without(epoll)
    /\ interest' = [c \in Clients |-> IF c \in D THEN {} ELSE interest[c]]
    /\ inEpoll' = inEpoll \ D
    /\ UNCHANGED connections

(* closeCallback_ for the objects of D, that is TcpServer::onConnectionClosed
   and Connection::removeConnection: whoever is in connections_ under the
   number goes, the object's own channel is deregistered and the number is
   closed, whosever socket it denotes by now. *)
CloseEach(D) ==
    LET fds == {connFd[c] : c \in D}
        Without(g) == [f \in Fds |-> IF f \in fds THEN None ELSE g[f]]
    IN
    /\ connections' = Without(connections)
    /\ fdTable' = Without(fdTable)
    /\ epoll' = Without(epoll)
    /\ interest' = [c \in Clients |-> IF c \in D THEN {} ELSE interest[c]]
    /\ inEpoll' = inEpoll \ D

CloseAborts(D) == \E c \in D : c \in inEpoll /\ epoll[connFd[c]] = None

(* Close one object from a handler of its own.  If nothing else refers to it,
   it is destroyed before the handler returns; "after" says what the handler
   then still accesses: "nothing", "member" (a field of the Connection) or
   "revents" (Channel::handleEvent testing EPOLLOUT).  Reading freed memory may
   go unnoticed or not. *)
Close(c, after) ==
    /\ CloseEach({c})
    /\ \/ CloseAborts({c}) /\ status' = "aborted" /\ UNCHANGED touched
       \/ /\ ~CloseAborts({c})
          /\ HeldElsewhere(c) \/ after = "nothing"
          /\ UNCHANGED <<status, touched>>
       \/ /\ ~CloseAborts({c})
          /\ ~HeldElsewhere(c) /\ after # "nothing"
          /\ touched' = touched \cup {after}
          /\ status' \in {"up", "undefined"}

(* Mutant of Send: enableWriting is forgotten after a write that took a part. *)
SendUnwatched(c, r, after) ==
    LET out == Append(outBuf[c], r) IN
    /\ "out" \notin interest[c]
    /\ Writable(connFd[c])
    /\ \E m \in 0..Len(out) :
         /\ answers' = [answers EXCEPT ![fdTable[connFd[c]]] = @ \o SubSeq(out, 1, m)]
         /\ outBuf' = [outBuf EXCEPT ![c] = SubSeq(out, m + 1, Len(out))]
    /\ UNCHANGED <<connections, fdTable, epoll, interest, inEpoll, status, touched>>

(* Connection::sendInLoop(r): the write is left to the next write event, takes
   everything, takes a part (nothing: EAGAIN), vanishes in a connection the
   client has left, or fails, which ends in handleError. *)
Send(c, r, after) ==
    LET f == connFd[c]
        out == Append(outBuf[c], r)
        objectsOf == <<connections, fdTable>>
    IN
    \/ /\ "out" \in interest[c]
       /\ outBuf' = [outBuf EXCEPT ![c] = out]
       /\ UNCHANGED <<answers, objectsOf, epoll, interest, inEpoll, status, touched>>
    \/ /\ "out" \notin interest[c]
       /\ Writable(f)
       /\ answers' = [answers EXCEPT ![fdTable[f]] = @ \o out]
       /\ outBuf' = [outBuf EXCEPT ![c] = <<>>]
       /\ UNCHANGED <<objectsOf, epoll, interest, inEpoll, status, touched>>
    \/ /\ "out" \notin interest[c]
       /\ Writable(f)
       /\ "slow" \in Env
       /\ \E m \in 0..(Len(out) - 1) :
            /\ answers' = [answers EXCEPT ![fdTable[f]] = @ \o SubSeq(out, 1, m)]
            /\ outBuf' = [outBuf EXCEPT ![c] = SubSeq(out, m + 1, Len(out))]
       /\ UpdateChannel(c, interest[c] \cup {"out"})
       /\ UNCHANGED <<objectsOf, touched>>
    \/ /\ "out" \notin interest[c]
       /\ fdTable[f] # None /\ peer[fdTable[f]] = "gone"
       /\ outBuf' = [outBuf EXCEPT ![c] = <<>>]
       /\ UNCHANGED <<answers, objectsOf, epoll, interest, inEpoll, status, touched>>
    \/ /\ "out" \notin interest[c]
       /\ ~Writable(f)
       /\ outBuf' = [outBuf EXCEPT ![c] = out]
       /\ Close(c, after)
       /\ UNCHANGED answers

-----------------------------------------------------------------------------
(* EventLoop::loop: poll, the handlers of the active channels in the order
   epoll reports them, then the functors queued until then. *)

(* What epoll may report for the channel registered under f: an error or a
   hang-up instead of readability once the client has left. *)
Reports(f) ==
    LET c == epoll[f]
        gone == fdTable[f] # None /\ peer[fdTable[f]] = "gone"
        readable == "in" \in interest[c] /\ fdTable[f] # None
                    /\ (gone \/ sock[fdTable[f]] # <<>>)
        flags == (IF readable THEN {"in"} ELSE {})
                 \cup (IF "out" \in interest[c] THEN {"out"} ELSE {})
    IN (IF flags = {} THEN {} ELSE {[ch |-> c, ev |-> flags]})
       \cup (IF gone THEN {[ch |-> c, ev |-> {"err"}]} ELSE {})

Ready ==
    (IF backlog # <<>> THEN {[ch |-> "listen", ev |-> {"in"}]} ELSE {})
    \cup (IF tick \/ doomed # {} THEN {[ch |-> "timer", ev |-> {"in"}]} ELSE {})
    \cup UNION {Reports(f) : f \in {g \in Fds : epoll[g] # None}}

Poll ==
    /\ Up
    /\ batch = None /\ functors = <<>>
    /\ Ready # {} \/ pending # <<>>
    /\ \E active \in SUBSET Ready :
         /\ \A e \in Ready : Cardinality({a \in active : a.ch = e.ch}) = 1
         /\ batch' \in SetToSeqs(active)
    /\ UNCHANGED <<kernel, objects, pending, functors, tick, doomed, pool,
                   status, touched>>

Event == Head(batch)
InEvent == Up /\ batch # None /\ batch # <<>>
Handled == batch' = Tail(batch)

(* A handler of channel c that does not change what waits for the loop. *)
OnChannel(c, flag) ==
    /\ InEvent
    /\ Event.ch = c
    /\ flag \in Event.ev
    /\ flag = "out" => Event.ev = {"out"}
    /\ Alive(c)
    /\ UNCHANGED <<peer, backlog, asked, shutWr, connFd, pending, functors, tick,
                   doomed, working>>

(* The channel was destroyed by an earlier handler of the same round. *)
DanglingChannel ==
    /\ InEvent
    /\ Event.ch \in Clients /\ ~Alive(Event.ch)
    /\ touched' = touched \cup {"channel"}
    /\ status' = "undefined"
    /\ UNCHANGED <<kernel, objects, loop, pool>>

(* Acceptor::handleRead and TcpServer::onNewConnection: accept until the
   backlog is empty or the numbers run out (EMFILE).  fd[i] is the number the
   i-th connection gets: of those still free, the lowest. *)
Accept ==
    LET free == {f \in Fds : fdTable[f] = None}
        n == IF Len(backlog) <= Cardinality(free) THEN Len(backlog) ELSE Cardinality(free)
    IN
    /\ InEvent /\ Event.ch = "listen" /\ Handled
    /\ \E fd \in [1..n -> free] :
         LET Install(g) == [f \in Fds |-> IF \E i \in 1..n : fd[i] = f
                              THEN backlog[CHOOSE i \in 1..n : fd[i] = f] ELSE g[f]]
         IN
         /\ \A i \in 1..n, f \in free : f < fd[i] <=> \E j \in 1..(i - 1) : fd[j] = f
         /\ fdTable' = Install(fdTable)
         /\ connections' = Install(connections)
         /\ epoll' = Install(epoll)
         /\ connFd' = [c \in Clients |-> IF \E i \in 1..n : backlog[i] = c
                          THEN fd[CHOOSE i \in 1..n : backlog[i] = c] ELSE connFd[c]]
    /\ backlog' = SubSeq(backlog, n + 1, Len(backlog))
    /\ interest' = [c \in Clients |-> IF \E i \in 1..n : backlog[i] = c
                                      THEN {"in"} ELSE interest[c]]
    /\ inEpoll' = inEpoll \cup {backlog[i] : i \in 1..n}
    /\ UNCHANGED <<peer, sock, asked, answers, shutWr, inBuf, outBuf, idle, pending,
                   functors, tick, doomed, pool, status, touched>>

(* TimerQueue::handleRead with the two timers the server uses.  The forceClose
   closures are due first; then TcpServer::checkIdleConnections gives every
   connection still in the map and idle a closure for a later round. *)
RunTimers ==
    LET left == {c \in Clients : \E f \in Fds :
                    connections[f] = c /\ \A d \in doomed : connFd[d] # f}
    IN
    /\ InEvent /\ Event.ch = "timer" /\ Handled
    /\ CloseEach(doomed)
    /\ status' = IF CloseAborts(doomed) THEN "aborted" ELSE status
    /\ doomed' = IF tick THEN left \cap idle ELSE {}
    /\ tick' = FALSE
    /\ UNCHANGED <<peer, backlog, sock, asked, answers, shutWr, connFd, inBuf, outBuf,
                   idle, pending, functors, pool, touched>>

-----------------------------------------------------------------------------
(* Channel::handleEvent of a connection. *)

(* Mutant of HandleError: no error callback is set. *)
IgnoreError(c) ==
    /\ OnChannel(c, "err")
    /\ Handled
    /\ UNCHANGED <<sock, answers, inBuf, outBuf, idle, queue, connections, fdTable,
                   epoll, interest, inEpoll, status, touched>>

HandleError(c) ==
    /\ OnChannel(c, "err")
    /\ Close(c, "nothing")
    /\ Handled
    /\ UNCHANGED <<sock, answers, inBuf, outBuf, idle, queue>>

(* After the read callback the write callback runs if EPOLLOUT was reported;
   a destroyed channel is taken not to have it (Close allows for the rest). *)
ThenWrite(c) ==
    batch' = IF "out" \in Event.ev /\ Alive(c)'
             THEN <<[ch |-> c, ev |-> {"out"}]>> \o Tail(batch) ELSE Tail(batch)

(* readFd returns 0 or an error, EAGAIN included: handleClose or handleError. *)
ReadNothing(c) ==
    /\ OnChannel(c, "in")
    /\ fdTable[connFd[c]] # None => sock[fdTable[connFd[c]]] = <<>>
    /\ Close(c, "revents")
    /\ UNCHANGED <<sock, answers, inBuf, outBuf, idle, queue>>
    /\ ThenWrite(c)

(* readFd appends what the socket has, the parser takes the first request and
   leaves the rest in inputBuffer_. *)
ReadRequest(c, r) ==
    LET k == fdTable[connFd[c]] IN
    /\ OnChannel(c, "in")
    /\ k # None /\ sock[k] # <<>>
    /\ r = Head(inBuf[c] \o sock[k])
    /\ sock' = [sock EXCEPT ![k] = <<>>]
    /\ inBuf' = [inBuf EXCEPT ![c] = Tail(@ \o sock[k])]
    /\ idle' = idle \ {c}

(* 400 through sendInLoop, then handleError whatever became of the send: also
   when it failed and has closed, and freed, the connection already.  An object
   whose channel is not registered any more cannot watch for the rest. *)
RefuseRequest(c) ==
    LET f == connFd[c]
        k == fdTable[f]
        rewatchFails == "out" \notin interest[c] /\ c \notin inEpoll
    IN
    /\ "bad" \in Env
    /\ \E r \in Requests :
         LET out == Append(outBuf[c], r) IN
         /\ ReadRequest(c, r)
         /\ \/ /\ "out" \in interest[c]
               /\ outBuf' = [outBuf EXCEPT ![c] = out]
               /\ Close(c, "revents")
               /\ UNCHANGED answers
            \/ /\ "out" \notin interest[c] /\ Writable(f)
               /\ \E m \in (IF "slow" \in Env THEN 0 ELSE Len(out))..Len(out) :
                    /\ answers' = [answers EXCEPT ![k] = @ \o SubSeq(out, 1, m)]
                    /\ outBuf' = [outBuf EXCEPT ![c] = SubSeq(out, m + 1, Len(out))]
                    /\ IF m < Len(out) /\ rewatchFails
                       THEN /\ status' = "aborted"
                            /\ UNCHANGED <<connections, fdTable, epoll, interest, inEpoll, touched>>
                       ELSE Close(c, "revents")
            \/ /\ "out" \notin interest[c] /\ ~Writable(f)
               /\ \/ outBuf' = [outBuf EXCEPT ![c] = out] /\ Close(c, "member")
                  \/ peer[k] = "gone" /\ outBuf' = [outBuf EXCEPT ![c] = <<>>] /\ Close(c, "revents")
               /\ UNCHANGED answers
    /\ UNCHANGED queue
    /\ ThenWrite(c)

(* main.cpp: the rate limiter says no, 429 is sent from the I/O thread. *)
LimitRequest(c) ==
    /\ "limit" \in Env
    /\ \E r \in Requests : ReadRequest(c, r) /\ Send(c, r, "member")
    /\ UNCHANGED queue
    /\ ThenWrite(c)

(* Mutant of SubmitRequest: the lambda refers to a variable that names another
   connection by the time it runs. *)
SubmitByReference(c) ==
    /\ Len(queue) < QueueMax
    /\ \E r \in Requests, d \in {e \in Clients : Alive(e)} :
         /\ ReadRequest(c, r)
         /\ queue' = Append(queue, [conn |-> d, req |-> r])
    /\ UNCHANGED <<answers, outBuf, connections, fdTable, epoll, interest, inEpoll,
                   status, touched>>
    /\ ThenWrite(c)

(* Mutant of SubmitRequest: the shared_ptr moves from the map into the task. *)
SubmitAndForget(c) ==
    /\ Len(queue) < QueueMax
    /\ \E r \in Requests :
         /\ ReadRequest(c, r)
         /\ queue' = Append(queue, [conn |-> c, req |-> r])
    /\ connections' = [connections EXCEPT ![connFd[c]] = None]
    /\ UNCHANGED <<answers, outBuf, fdTable, epoll, interest, inEpoll, status, touched>>
    /\ ThenWrite(c)

(* main.cpp: the request goes to the thread pool. *)
SubmitRequest(c) ==
    /\ Len(queue) < QueueMax
    /\ \E r \in Requests :
         /\ ReadRequest(c, r)
         /\ queue' = Append(queue, [conn |-> c, req |-> r])
    /\ UNCHANGED <<answers, outBuf, connections, fdTable, epoll, interest, inEpoll,
                   status, touched>>
    /\ ThenWrite(c)

(* Submit throws through handleRead, handleEvent, loop and main. *)
OverflowPool(c) ==
    /\ Len(queue) >= QueueMax
    /\ \E r \in Requests : ReadRequest(c, r)
    /\ status' = "terminated"
    /\ Handled
    /\ UNCHANGED <<answers, outBuf, queue, connections, fdTable, epoll, interest,
                   inEpoll, touched>>

(* handleWrite when the socket takes all of the output: the buffer it leaves and
   the events it goes on to watch. *)
WriteAll(c, rest, ev) ==
    /\ answers' = [answers EXCEPT ![fdTable[connFd[c]]] = @ \o outBuf[c]]
    /\ outBuf' = [outBuf EXCEPT ![c] = rest]
    /\ UpdateChannel(c, ev)
    /\ idle' = idle \ {c}
    /\ UNCHANGED <<connections, fdTable, touched>>

(* Mutant of HandleWrite: what was written is not retrieved from the buffer. *)
WriteWithoutRetrieve(c) ==
    /\ OnChannel(c, "out") /\ Handled
    /\ outBuf[c] # <<>> /\ Writable(connFd[c])
    /\ WriteAll(c, outBuf[c], interest[c])
    /\ UNCHANGED <<sock, inBuf, queue>>

(* Mutant of HandleWrite: writing is disabled before the output is written. *)
DisableBeforeWrite(c) ==
    /\ OnChannel(c, "out") /\ Handled
    /\ UpdateChannel(c, interest[c] \ {"out"})
    /\ UNCHANGED <<answers, outBuf, connections, fdTable, idle, touched, sock, inBuf, queue>>

(* Connection::handleWrite: nothing to write, EAGAIN (the client still has not
   read; a round in which epoll does not report the descriptor is the same), a part
   written, all written, all lost in a connection the client has left, or an error. *)
HandleWrite(c) ==
    LET f == connFd[c] IN
    /\ OnChannel(c, "out")
    /\ Handled
    /\ \/ /\ outBuf[c] = <<>>
          /\ UpdateChannel(c, interest[c] \ {"out"})
          /\ UNCHANGED <<answers, outBuf, connections, fdTable, idle, touched>>
       \/ /\ outBuf[c] # <<>> /\ Writable(f)
          /\ "slow" \in Env
          /\ UNCHANGED <<answers, outBuf, idle, connections, fdTable, interest, inEpoll,
                         epoll, status, touched>>
       \/ /\ outBuf[c] # <<>> /\ Writable(f)
          /\ \E m \in 1..(Len(outBuf[c]) - 1) :
               /\ answers' = [answers EXCEPT ![fdTable[f]] = @ \o SubSeq(outBuf[c], 1, m)]
               /\ outBuf' = [outBuf EXCEPT ![c] = SubSeq(@, m + 1, Len(@))]
          /\ idle' = idle \ {c}
          /\ UNCHANGED <<connections, fdTable, interest, inEpoll, epoll, status, touched>>
       \/ /\ outBuf[c] # <<>> /\ Writable(f)
          /\ WriteAll(c, <<>>, interest[c] \ {"out"})
       \/ /\ outBuf[c] # <<>> /\ fdTable[f] # None /\ peer[fdTable[f]] = "gone"
          /\ outBuf' = [outBuf EXCEPT ![c] = <<>>]
          /\ UpdateChannel(c, interest[c] \ {"out"})
          /\ idle' = idle \ {c}
          /\ UNCHANGED <<answers, connections, fdTable, touched>>
       \/ /\ outBuf[c] # <<>> /\ ~Writable(f)
          /\ Close(c, "nothing")
          /\ UNCHANGED <<answers, outBuf, idle>>
    /\ UNCHANGED <<sock, inBuf, queue>>

HandleEvent ==
    \/ Accept \/ RunTimers \/ DanglingChannel
    \/ \E c \in Clients :
         \/ HandleError(c) \/ HandleWrite(c) \/ ReadNothing(c)
         \/ RefuseRequest(c) \/ LimitRequest(c) \/ SubmitRequest(c) \/ OverflowPool(c)

(* doPendingFunctors: take the queue, then run what was in it. *)
SwapFunctors ==
    /\ Up
    /\ batch = <<>>
    /\ batch' = None
    /\ functors' = pending
    /\ pending' = <<>>
    /\ UNCHANGED <<kernel, objects, tick, doomed, pool, status, touched>>

InFunctor == Up /\ batch = None /\ functors # <<>>
Target == Head(functors).task.conn

(* The raw this of Connection::send and shutdown points to freed memory. *)
DanglingFunctor ==
    /\ InFunctor
    /\ ~Alive(Target)
    /\ touched' = touched \cup {"functor"}
    /\ status' = "undefined"
    /\ UNCHANGED <<kernel, objects, loop, pool>>

RunSend ==
    LET c == Target
        r == Head(functors).task.req
    IN
    /\ InFunctor /\ Alive(c) /\ Head(functors).call = "send"
    /\ Send(c, r, "nothing")
    /\ idle' = IF outBuf'[c] = Append(outBuf[c], r) THEN idle ELSE idle \ {c}
    /\ functors' = Tail(functors)
    /\ UNCHANGED <<peer, backlog, sock, asked, shutWr, connFd, inBuf, batch, pending,
                   tick, doomed, pool>>

(* ::shutdown(fd_, SHUT_WR); what outputBuffer_ still holds stays there. *)
RunShutdown ==
    LET k == fdTable[connFd[Target]] IN
    /\ InFunctor /\ Alive(Target) /\ Head(functors).call = "shutdown"
    /\ shutWr' = IF k = None THEN shutWr ELSE shutWr \cup {k}
    /\ functors' = Tail(functors)
    /\ UNCHANGED <<peer, backlog, fdTable, epoll, sock, asked, answers, objects,
                   batch, pending, tick, doomed, pool, status, touched>>

LoopStep == Poll \/ HandleEvent \/ SwapFunctors \/ DanglingFunctor \/ RunSend \/ RunShutdown

-----------------------------------------------------------------------------
(* A worker runs the lambda of main.cpp: dispatch and send, shutdown unless the
   connection is kept alive, then its shared_ptr is released. *)

TakeRequest ==
    /\ Up
    /\ queue # <<>>
    /\ Cardinality(working) < PoolThreads
    /\ working' = working \cup {[task |-> Head(queue), todo |-> "dispatch"]}
    /\ queue' = Tail(queue)
    /\ UNCHANGED <<kernel, objects, loop, status, touched>>

Proceed(w, todo) == working' = (working \ {w}) \cup {[w EXCEPT !.todo = todo]}

Dispatch(w) ==
    /\ Up /\ w.todo = "dispatch"
    /\ \/ /\ pending' = Append(pending, [call |-> "send", task |-> w.task])
          /\ \/ Proceed(w, "release")
             \/ "close" \in Env /\ Proceed(w, "shutdown")
       \/ /\ "throw" \in Env
          /\ Proceed(w, "release")
          /\ UNCHANGED pending
    /\ UNCHANGED <<kernel, objects, batch, functors, tick, doomed, queue, status, touched>>

ShutdownAfterSend(w) ==
    /\ Up /\ w.todo = "shutdown"
    /\ pending' = Append(pending, [call |-> "shutdown", task |-> w.task])
    /\ Proceed(w, "release")
    /\ UNCHANGED <<kernel, objects, batch, functors, tick, doomed, queue, status, touched>>

Release(w) ==
    /\ Up /\ w.todo = "release"
    /\ working' = working \ {w}
    /\ UNCHANGED <<kernel, objects, loop, queue, status, touched>>

WorkerStep ==
    TakeRequest \/ \E w \in working : Dispatch(w) \/ ShutdownAfterSend(w) \/ Release(w)

-----------------------------------------------------------------------------
(* Clients and time. *)

Connect(c) ==
    /\ Up /\ peer[c] = "away"
    /\ peer' = [peer EXCEPT ![c] = "here"]
    /\ backlog' = Append(backlog, c)
    /\ UNCHANGED <<fdTable, epoll, sock, asked, answers, shutWr, objects, loop, pool,
                   status, touched>>

Ask(c) ==
    /\ Up /\ peer[c] = "here"
    /\ asked[c] < MaxRequests
    /\ "pipeline" \in Env \/ Len(answers[c]) = asked[c]
    /\ c \in ToSet(backlog) \/ \E f \in Fds : fdTable[f] = c
    /\ asked' = [asked EXCEPT ![c] = @ + 1]
    /\ sock' = [sock EXCEPT ![c] = Append(@, <<c, asked[c] + 1>>)]
    /\ UNCHANGED <<peer, backlog, fdTable, epoll, answers, shutWr, objects, loop, pool,
                   status, touched>>

Leave(c) ==
    /\ Up /\ peer[c] = "here"
    /\ "hangup" \in Env \/ Len(answers[c]) = asked[c]
    /\ peer' = [peer EXCEPT ![c] = "gone"]
    /\ UNCHANGED <<backlog, fdTable, epoll, sock, asked, answers, shutWr, objects, loop,
                   pool, status, touched>>

GrowIdle(c) ==
    /\ Up /\ "idle" \in Env
    /\ Alive(c) /\ c \notin idle
    /\ idle' = idle \cup {c}
    /\ UNCHANGED <<kernel, connections, connFd, interest, inEpoll, inBuf, outBuf, loop,
                   pool, status, touched>>

Tick ==
    /\ Up /\ "idle" \in Env
    /\ ~tick
    /\ tick' = TRUE
    /\ UNCHANGED <<kernel, objects, batch, pending, functors, doomed, pool, status, touched>>

World == Tick \/ \E c \in Clients : Connect(c) \/ Ask(c) \/ Leave(c) \/ GrowIdle(c)

Next == LoopStep \/ WorkerStep \/ World

(* The loop thread and the workers keep running; clients and time need not, but a
   slow client that stays reads some of what waits for it now and then. *)
Fairness ==
    /\ WF_vars(LoopStep) /\ WF_vars(WorkerStep)
    /\ \A c \in Clients : SF_vars(HandleWrite(c) /\ outBuf'[c] # outBuf[c])

Spec == Init /\ [][Next]_vars /\ Fairness

-----------------------------------------------------------------------------
TypeOK ==
    /\ peer \in [Clients -> {"away", "here", "gone"}]
    /\ \A g \in {fdTable, epoll, connections} : g \in [Fds -> Clients \cup {None}]
    /\ connFd \in [Clients -> Fds \cup {None}]
    /\ interest \in [Clients -> SUBSET {"in", "out"}]
    /\ \A S \in {shutWr, inEpoll, idle, doomed} : S \subseteq Clients
    /\ asked \in [Clients -> 0..MaxRequests]
    /\ \A c \in Clients :
         \A q \in {sock[c], inBuf[c], outBuf[c], answers[c]} : q \in Seq(Requests)
    /\ backlog \in Seq(Clients)
    /\ queue \in Seq(Tasks)
    /\ working \subseteq [task : Tasks, todo : {"dispatch", "shutdown", "release"}]
    /\ \A q \in {pending, functors} : q \in Seq([call : {"send", "shutdown"}, task : Tasks])
    /\ tick \in BOOLEAN
    /\ status \in {"up", "undefined", "aborted", "terminated"}
    /\ touched \subseteq {"member", "revents", "channel", "functor"}

(* TcpServer::connections_ and the process's descriptors say the same: under
   every open descriptor the map has the connection whose socket it is, and
   nothing else.  So a descriptor cannot leak past the idle check, and a late
   close through a reused number does not leave a stale entry behind. *)
DescriptorsAccounted == connections = fdTable

(* epoll has some channel for a descriptor exactly while it is open, whatever the
   order of closes, late closes and reuse.  The channel need not be that of the
   connection that owns the descriptor now (the EPOLL_CTL_MOD of a closed one names
   its old number), and nothing is said of the events it is registered for. *)
WatchedWhileOpen == \A f \in Fds : epoll[f] # None <=> fdTable[f] # None

(* Output left in outputBuffer_ of an open connection waits for a write event:
   no order of sends, partial writes and write events strands a response. *)
OutputIsWatched ==
    \A f \in Fds : LET c == connections[f] IN
        (c # None /\ outBuf[c] # <<>>) => "out" \in interest[c]

(* However requests, partial writes and closes interleave, a request is answered
   at most once, counting all clients. *)
AnsweredAtMostOnce ==
    \A c, d \in Clients : \A i \in DOMAIN answers[c], j \in DOMAIN answers[d] :
        answers[c][i] = answers[d][j] => c = d /\ i = j

(* A response goes to the client that sent the request (Connection.h:17: each
   Connection has a socket descriptor of its own). *)
RepliesReachTheirClient ==
    \A c \in Clients : \A i \in DOMAIN answers[c] : Sender(answers[c][i]) = c

(* Connection.h:23-24: the Connection outlives the worker's use of it, so no
   functor a worker queued finds its object destroyed. *)
FunctorsHaveTargets == "functor" \notin touched

(* The next five state what comments of the code say; the code does not keep them
   (README.md, "Statements the code does not keep").

   Connection.cpp:143: closeCallback_ may destroy the object, so members are not
   accessed afterwards. *)
NothingAfterClose == touched \cap {"member", "revents"} = {}

(* Connection.h:17: the number an object uses and closes (fd_) denotes its own
   socket, or no socket any more. *)
ClosesOwnSocket ==
    \A c \in Clients : Alive(c) => fdTable[connFd[c]] \in {c, None}

(* TcpServer.cpp:38, README: the idle check closes connections that are idle. *)
TimersCloseOnlyIdle ==
    (InEvent /\ Event.ch = "timer") => doomed \subseteq idle

(* Connection.cpp:46 "graceful close": the sending direction is shut down after
   the response has gone out. *)
ShutdownAfterOutput == \A c \in shutWr : Alive(c) => outBuf[c] = <<>>

(* ThreadPool.h:30 "suitable for high concurrency": a burst of requests does not
   end the server. *)
SurvivesBursts == status # "terminated"

(* Connection.cpp:107 "the next handleRead goes on parsing": a server that keeps
   running answers every request of an accepted client. *)
RequestsAnswered ==
    \A r \in Requests :
        (Created(Sender(r)) /\ asked[Sender(r)] >= r[2])
            ~> (~Up \/ r \in ToSet(answers[Sender(r)]))

(* The descriptor of a client that has left is closed and free again. *)
HangupsReaped ==
    \A c \in Clients :
        (peer[c] = "gone" /\ Created(c)) ~> (~Up \/ \A f \in Fds : fdTable[f] # c)
=============================================================================

--------------------------- MODULE ReactorProofs ---------------------------
(***************************************************************************)
(* Proofs about Reactor for every finite set of clients and of descriptor  *)
(* numbers, every bound and every behaviour of the environment.            *)
(***************************************************************************)
EXTENDS Reactor, FiniteSetTheorems, SequenceTheorems, TLAPS

Calls == [call : {"send", "shutdown"}, task : Tasks]
Workings == [task : Tasks, todo : {"dispatch", "shutdown", "release"}]

(* The tasks and functors on their way name Connection objects. *)
TaskTypes ==
    /\ queue \in Seq(Tasks)
    /\ working \subseteq Workings
    /\ pending \in Seq(Calls)
    /\ functors \in Seq(Calls)
    /\ doomed \subseteq Clients

(* The types of what the kernel, epoll and TcpServer know of a connection. *)
NetTypes ==
    /\ connections \in [Fds -> Clients \cup {None}]
    /\ fdTable \in [Fds -> Clients \cup {None}]
    /\ epoll \in [Fds -> Clients \cup {None}]
    /\ connFd \in [Clients -> Fds \cup {None}]
    /\ interest \in [Clients -> SUBSET {"in", "out"}]
    /\ inEpoll \subseteq Clients
    /\ outBuf = [c \in Clients |-> outBuf[c]]

(* An object that believes itself registered with epoll wants to read. *)
RegisteredReads == \A c \in inEpoll : "in" \in interest[c]

(* The object connections_ has under a number believes in that number and is
   registered. *)
MapIsHome ==
    \A f \in Fds : connections[f] # None =>
        connFd[connections[f]] = f /\ connections[f] \in inEpoll

(* An object that does not exist yet has no output. *)
UnbornIsSilent == \A c \in Clients : connFd[c] = None => outBuf[c] = <<>>

(* The inductive part about descriptors, registrations and output. *)
Net ==
    /\ NetTypes
    /\ DescriptorsAccounted
    /\ WatchedWhileOpen
    /\ RegisteredReads
    /\ MapIsHome
    /\ UnbornIsSilent
    /\ OutputIsWatched

(* The kernel's backlog holds connected clients, each once, that the server has
   not accepted. *)
BacklogFresh ==
    /\ peer \in [Clients -> {"away", "here", "gone"}]
    /\ backlog \in Seq(Clients)
    /\ \A i, j \in 1..Len(backlog) : backlog[i] = backlog[j] => i = j
    /\ \A i \in 1..Len(backlog) : connFd[backlog[i]] = None /\ peer[backlog[i]] # "away"
    /\ \A c \in Clients : connFd[c] # None => peer[c] # "away"

(* The inductive invariant. *)
IInv == TaskTypes /\ Net /\ BacklogFresh

-----------------------------------------------------------------------------
(* onConnectionClosed for the objects of D: what else changes is the output of
   objects of D that exist. *)
LEMMA CloseEachKeeps ==
  ASSUME Net, NEW D \in SUBSET Clients, CloseEach(D),
         connFd' = connFd,
         outBuf' = [c \in Clients |-> outBuf'[c]],
         \A c \in Clients : c \notin D \/ connFd[c] = None => outBuf'[c] = outBuf[c]
  PROVE  Net'
<1> DEFINE fds == {connFd[c] : c \in D}
<1>1. /\ \A f \in Fds : f \in fds => connections'[f] = None /\ fdTable'[f] = None /\ epoll'[f] = None
      /\ \A f \in Fds : f \notin fds => connections'[f] = connections[f]
                          /\ fdTable'[f] = fdTable[f] /\ epoll'[f] = epoll[f]
      /\ \A c \in Clients : interest'[c] = IF c \in D THEN {} ELSE interest[c]
      /\ inEpoll' = inEpoll \ D
  BY DEF CloseEach
<1>2. NetTypes'
  BY DEF CloseEach, Net, NetTypes
<1>3. DescriptorsAccounted'
  BY DEF CloseEach, Net, DescriptorsAccounted
<1>4. WatchedWhileOpen'
  BY <1>1 DEF Net, WatchedWhileOpen
<1>5. RegisteredReads'
  BY <1>1 DEF Net, NetTypes, RegisteredReads
<1>6. \A f \in Fds : connections'[f] # None =>
         connections'[f] = connections[f] /\ connections[f] \in Clients \ D
  BY <1>1 DEF Net, NetTypes, MapIsHome
<1>7. MapIsHome'
  BY <1>1, <1>6 DEF Net, MapIsHome
<1>8. UnbornIsSilent'
  BY DEF Net, UnbornIsSilent
<1>9. OutputIsWatched'
  BY <1>1, <1>6 DEF Net, OutputIsWatched
<1> QED
  BY <1>2, <1>3, <1>4, <1>5, <1>7, <1>8, <1>9 DEF Net

(* updateChannel that adds or takes away the interest in writing, after a change
   of the object's output that agrees with it. *)
LEMMA UpdateKeeps ==
  ASSUME Net, NEW c \in Clients, Created(c), NEW ev,
         ev = interest[c] \cup {"out"} \/ ev = interest[c] \ {"out"},
         UpdateChannel(c, ev),
         UNCHANGED <<connections, fdTable, connFd>>,
         outBuf' = [d \in Clients |-> outBuf'[d]],
         \A d \in Clients \ {c} : outBuf'[d] = outBuf[d],
         outBuf'[c] # <<>> => "out" \in ev
  PROVE  Net'
<1> DEFINE f == connFd[c]
<1>f. f \in Fds
  BY DEF Net, NetTypes, Created
<1>e. ev \in SUBSET {"in", "out"}
  BY DEF Net, NetTypes
<1>1. interest' = [interest EXCEPT ![c] = ev]
  BY DEF UpdateChannel
<1>2. \/ epoll' = epoll /\ inEpoll' = inEpoll
      \/ /\ c \in inEpoll /\ epoll[f] # None
         /\ epoll' = [epoll EXCEPT ![f] = c] /\ inEpoll' = inEpoll
  <2>1. c \in inEpoll => ev # {}
    BY DEF Net, RegisteredReads
  <2>2. fdTable[f] = None \/ epoll[f] # None
    BY <1>f DEF Net, WatchedWhileOpen
  <2> QED
    BY <2>1, <2>2 DEF UpdateChannel
<1>3. inEpoll' = inEpoll
  BY <1>2
<1>4. NetTypes'
  BY <1>1, <1>2, <1>e, <1>f DEF Net, NetTypes
<1>5. DescriptorsAccounted'
  BY DEF Net, DescriptorsAccounted
<1>6. WatchedWhileOpen'
  <2>1. \A g \in Fds : epoll'[g] # None <=> epoll[g] # None
    BY <1>2, <1>f, ReactorAssumption DEF Net, NetTypes
  <2> QED
    BY <2>1 DEF Net, WatchedWhileOpen
<1>7. RegisteredReads'
  BY <1>1, <1>3 DEF Net, NetTypes, RegisteredReads
<1>8. MapIsHome'
  BY <1>3 DEF Net, MapIsHome
<1>9. UnbornIsSilent'
  BY DEF Net, UnbornIsSilent, Created
<1>10. OutputIsWatched'
  <2>1. \A d \in Clients : interest'[d] = IF d = c THEN ev ELSE interest[d]
    BY <1>1 DEF Net, NetTypes
  <2>2. \A g \in Fds : connections[g] # None => connections[g] \in Clients
    BY DEF Net, NetTypes
  <2> QED
    BY <2>1, <2>2 DEF Net, OutputIsWatched
<1> QED
  BY <1>4, <1>5, <1>6, <1>7, <1>8, <1>9, <1>10 DEF Net

(* A change of the output of c alone, towards nothing, or while c waits for a
   write event or is not in the map. *)
LEMMA OutputKeeps ==
  ASSUME Net, NEW c \in Clients, Created(c),
         UNCHANGED <<connections, fdTable, epoll, connFd, interest, inEpoll>>,
         outBuf' = [d \in Clients |-> outBuf'[d]],
         \A d \in Clients \ {c} : outBuf'[d] = outBuf[d],
         \/ outBuf'[c] = <<>>
         \/ "out" \in interest[c]
         \/ \A f \in Fds : connections[f] # c
  PROVE  Net'
<1>1. NetTypes' /\ DescriptorsAccounted' /\ WatchedWhileOpen' /\ RegisteredReads'
  BY DEF Net, NetTypes, DescriptorsAccounted, WatchedWhileOpen, RegisteredReads
<1>2. MapIsHome' /\ UnbornIsSilent'
  BY DEF Net, MapIsHome, UnbornIsSilent, Created
<1>3. OutputIsWatched'
  <2>1. \A g \in Fds : connections[g] # None => connections[g] \in Clients
    BY DEF Net, NetTypes
  <2> QED
    BY <2>1 DEF Net, OutputIsWatched
<1> QED
  BY <1>1, <1>2, <1>3 DEF Net

(* Nothing that Net is about changes. *)
LEMMA NetUnchanged ==
  ASSUME Net, UNCHANGED <<connections, fdTable, epoll, connFd, interest, inEpoll, outBuf>>
  PROVE  Net'
BY DEF Net, NetTypes, DescriptorsAccounted, WatchedWhileOpen, RegisteredReads,
       MapIsHome, UnbornIsSilent, OutputIsWatched

-----------------------------------------------------------------------------
(* The handlers of the I/O thread keep Net. *)

LEMMA CloseKeeps ==
  ASSUME Net, NEW c \in Clients, Created(c), NEW after, Close(c, after),
         connFd' = connFd,
         outBuf' = [d \in Clients |-> outBuf'[d]],
         \A d \in Clients \ {c} : outBuf'[d] = outBuf[d]
  PROVE  Net'
<1>1. CloseEach({c}) /\ {c} \in SUBSET Clients
  BY DEF Close
<1> QED
  BY <1>1, CloseEachKeeps DEF Created

(* Connection::sendInLoop, called by the loop for an object that exists. *)
LEMMA SendKeeps ==
  ASSUME Net, NEW c \in Clients, Created(c), NEW r, NEW after, Send(c, r, after),
         connFd' = connFd
  PROVE  Net'
<1> DEFINE out == Append(outBuf[c], r)
<1>0. /\ outBuf' = [d \in Clients |-> outBuf'[d]]
      /\ \A d \in Clients \ {c} : outBuf'[d] = outBuf[d]
  BY DEF Send, Net, NetTypes
<1>1. CASE /\ "out" \in interest[c]
           /\ UNCHANGED <<connections, fdTable, epoll, interest, inEpoll>>
  BY <1>0, <1>1, OutputKeeps
<1>2. CASE /\ outBuf' = [outBuf EXCEPT ![c] = <<>>]
           /\ UNCHANGED <<connections, fdTable, epoll, interest, inEpoll>>
  <2>1. outBuf'[c] = <<>>
    BY <1>2 DEF Net, NetTypes
  <2> QED
    BY <1>0, <1>2, <2>1, OutputKeeps
<1>3. CASE /\ UpdateChannel(c, interest[c] \cup {"out"})
           /\ UNCHANGED <<connections, fdTable>>
  BY <1>0, <1>3, UpdateKeeps
<1>4. CASE Close(c, after)
  BY <1>0, <1>4, CloseKeeps
<1> QED
  BY <1>1, <1>2, <1>3, <1>4 DEF Send

(* What OnChannel says of the object and leaves alone. *)
LEMMA OnChannelFacts ==
  ASSUME NEW c \in Clients, NEW flag, OnChannel(c, flag)
  PROVE  /\ Created(c)
         /\ UNCHANGED <<peer, backlog, connFd, pending, functors, doomed, working>>
BY DEF OnChannel, Alive

LEMMA HandleErrorKeeps ==
  ASSUME Net, NEW c \in Clients, HandleError(c)
  PROVE  Net'
<1>1. Created(c) /\ connFd' = connFd /\ outBuf' = outBuf /\ Close(c, "nothing")
  BY OnChannelFacts DEF HandleError
<1> QED
  BY <1>1, CloseKeeps DEF Net, NetTypes

LEMMA ReadNothingKeeps ==
  ASSUME Net, NEW c \in Clients, ReadNothing(c)
  PROVE  Net'
<1>1. Created(c) /\ connFd' = connFd /\ outBuf' = outBuf /\ Close(c, "revents")
  BY OnChannelFacts DEF ReadNothing
<1> QED
  BY <1>1, CloseKeeps DEF Net, NetTypes

LEMMA RefuseRequestKeeps ==
  ASSUME Net, NEW c \in Clients, RefuseRequest(c)
  PROVE  Net'
<1>1. PICK r \in Requests : ReadRequest(c, r)
  BY DEF RefuseRequest
<1>2. Created(c) /\ connFd' = connFd
  BY <1>1, OnChannelFacts DEF ReadRequest
<1>3. /\ outBuf' = [d \in Clients |-> outBuf'[d]]
      /\ \A d \in Clients \ {c} : outBuf'[d] = outBuf[d]
  BY DEF RefuseRequest, Net, NetTypes
<1>4. CASE \E after : Close(c, after)
  BY <1>2, <1>3, <1>4, CloseKeeps
<1>5. CASE /\ c \notin inEpoll
           /\ UNCHANGED <<connections, fdTable, epoll, interest, inEpoll>>
  <2>1. \A f \in Fds : connections[f] # c
    BY <1>5, ReactorAssumption DEF Net, MapIsHome
  <2> QED
    BY <1>2, <1>3, <1>5, <2>1, OutputKeeps
<1> QED
  BY <1>4, <1>5 DEF RefuseRequest

LEMMA LimitRequestKeeps ==
  ASSUME Net, NEW c \in Clients, LimitRequest(c)
  PROVE  Net'
<1>1. PICK r \in Requests : ReadRequest(c, r) /\ Send(c, r, "member")
  BY DEF LimitRequest
<1>2. Created(c) /\ connFd' = connFd
  BY <1>1, OnChannelFacts DEF ReadRequest
<1> QED
  BY <1>1, <1>2, SendKeeps

LEMMA SubmitKeeps ==
  ASSUME Net, NEW c \in Clients, SubmitRequest(c) \/ OverflowPool(c)
  PROVE  Net'
<1>1. PICK r \in Requests : ReadRequest(c, r)
  BY DEF SubmitRequest, OverflowPool
<1>2. connFd' = connFd
  BY <1>1, OnChannelFacts DEF ReadRequest
<1> QED
  BY <1>2, NetUnchanged DEF SubmitRequest, OverflowPool

LEMMA HandleWriteKeeps ==
  ASSUME Net, NEW c \in Clients, HandleWrite(c)
  PROVE  Net'
<1>1. Created(c) /\ connFd' = connFd
  BY OnChannelFacts DEF HandleWrite
<1>2. /\ outBuf' = [d \in Clients |-> outBuf'[d]]
      /\ \A d \in Clients \ {c} : outBuf'[d] = outBuf[d]
  BY DEF HandleWrite, WriteAll, Net, NetTypes
<1>3. CASE /\ outBuf'[c] = <<>>
           /\ UpdateChannel(c, interest[c] \ {"out"})
           /\ UNCHANGED <<connections, fdTable>>
  BY <1>1, <1>2, <1>3, UpdateKeeps
<1>4. CASE /\ outBuf[c] # <<>>
           /\ UNCHANGED <<connections, fdTable, interest, inEpoll, epoll>>
  <2>1. ASSUME NEW f \in Fds, connections[f] = c PROVE "out" \in interest[c]
    BY <1>4, <2>1, ReactorAssumption DEF Net, OutputIsWatched
  <2> QED
    BY <1>1, <1>2, <1>4, <2>1, OutputKeeps
<1>5. CASE Close(c, "nothing")
  BY <1>1, <1>2, <1>5, CloseKeeps
<1>6. \/ /\ outBuf[c] = <<>> /\ outBuf' = outBuf
         /\ UpdateChannel(c, interest[c] \ {"out"})
         /\ UNCHANGED <<connections, fdTable>>
      \/ /\ outBuf' = [outBuf EXCEPT ![c] = <<>>]
         /\ UpdateChannel(c, interest[c] \ {"out"})
         /\ UNCHANGED <<connections, fdTable>>
      \/ /\ outBuf[c] # <<>>
         /\ UNCHANGED <<connections, fdTable, interest, inEpoll, epoll>>
      \/ Close(c, "nothing")
  BY DEF HandleWrite, WriteAll
<1> QED
  BY <1>3, <1>4, <1>5, <1>6 DEF Net, NetTypes

LEMMA RunTimersKeeps ==
  ASSUME Net, TaskTypes, RunTimers
  PROVE  Net'
<1>1. /\ CloseEach(doomed) /\ doomed \in SUBSET Clients
      /\ connFd' = connFd /\ outBuf' = outBuf
  BY DEF RunTimers, TaskTypes
<1> QED
  BY <1>1, CloseEachKeeps DEF Net, NetTypes

LEMMA RunSendKeeps ==
  ASSUME Net, TaskTypes, RunSend
  PROVE  Net'
<1>1. Head(functors) \in Calls
  BY DEF RunSend, InFunctor, TaskTypes
<1>2. Target \in Clients
  BY <1>1 DEF Target, Calls, Tasks
<1>3. Created(Target) /\ Send(Target, Head(functors).task.req, "nothing") /\ connFd' = connFd
  BY DEF RunSend, Alive
<1> QED
  BY <1>2, <1>3, SendKeeps

-----------------------------------------------------------------------------
(* Accept: the objects it makes come from the backlog, so they are new, each
   under a number of its own that was free. *)
LEMMA AcceptKeeps ==
  ASSUME Net, BacklogFresh, Accept
  PROVE  Net' /\ BacklogFresh'
<1> DEFINE free == {f \in Fds : fdTable[f] = None}
           n == IF Len(backlog) <= Cardinality(free) THEN Len(backlog) ELSE Cardinality(free)
           new == {backlog[i] : i \in 1..n}
<1>n. n \in 0..Len(backlog)
  <2>1. IsFiniteSet(free)
    BY ReactorAssumption, FS_Subset
  <2>2. Cardinality(free) \in Nat
    BY <2>1, FS_CardinalityType
  <2> QED
    BY <2>2 DEF BacklogFresh
<1>1. PICK fd \in [1..n -> free] :
        LET Install(g) == [f \in Fds |-> IF \E i \in 1..n : fd[i] = f
                             THEN backlog[CHOOSE i \in 1..n : fd[i] = f] ELSE g[f]]
        IN
        /\ fdTable' = Install(fdTable)
        /\ connections' = Install(connections)
        /\ epoll' = Install(epoll)
        /\ connFd' = [c \in Clients |-> IF \E i \in 1..n : backlog[i] = c
                         THEN fd[CHOOSE i \in 1..n : backlog[i] = c] ELSE connFd[c]]
  BY DEF Accept
<1>2. /\ backlog' = SubSeq(backlog, n + 1, Len(backlog))
      /\ interest' = [c \in Clients |-> IF \E i \in 1..n : backlog[i] = c
                                        THEN {"in"} ELSE interest[c]]
      /\ inEpoll' = inEpoll \cup new
      /\ outBuf' = outBuf /\ peer' = peer
  BY DEF Accept
<1> HIDE DEF n
<1>3. \A i \in 1..n : /\ backlog[i] \in Clients /\ backlog[i] # None
                      /\ connFd[backlog[i]] = None /\ peer[backlog[i]] # "away"
                      /\ \A j \in 1..n : backlog[i] = backlog[j] => i = j
  BY <1>n, ReactorAssumption DEF BacklogFresh
<1>4. \A i \in 1..n : /\ connFd'[backlog[i]] = fd[i]
                      /\ fd[i] \in Fds
  BY <1>1, <1>3
<1>5. \A c \in Clients \ new : connFd'[c] = connFd[c]
  BY <1>1
<1>6. ASSUME NEW f \in Fds
      PROVE  \/ \E i \in 1..n : /\ fd[i] = f
                                /\ connections'[f] = backlog[i]
                                /\ fdTable'[f] = backlog[i]
                                /\ epoll'[f] = backlog[i]
             \/ /\ connections'[f] = connections[f]
                /\ fdTable'[f] = fdTable[f]
                /\ epoll'[f] = epoll[f]
  <2>1. CASE \E i \in 1..n : fd[i] = f
    <3> DEFINE k == CHOOSE i \in 1..n : fd[i] = f
    <3>1. k \in 1..n /\ fd[k] = f
      BY <2>1
    <3>2. connections'[f] = backlog[k] /\ fdTable'[f] = backlog[k] /\ epoll'[f] = backlog[k]
      BY <1>1, <2>1
    <3> QED
      BY <3>1, <3>2
  <2>2. CASE ~\E i \in 1..n : fd[i] = f
    BY <1>1, <2>2
  <2> QED
    BY <2>1, <2>2
<1>7. NetTypes'
  <2>1. /\ connections' \in [Fds -> Clients \cup {None}]
        /\ fdTable' \in [Fds -> Clients \cup {None}]
        /\ epoll' \in [Fds -> Clients \cup {None}]
    <3>1. /\ connections' = [f \in Fds |-> connections'[f]]
          /\ fdTable' = [f \in Fds |-> fdTable'[f]]
          /\ epoll' = [f \in Fds |-> epoll'[f]]
      BY <1>1
    <3>2. \A f \in Fds : /\ connections'[f] \in Clients \cup {None}
                         /\ fdTable'[f] \in Clients \cup {None}
                         /\ epoll'[f] \in Clients \cup {None}
      BY <1>3, <1>6 DEF Net, NetTypes
    <3> QED
      BY <3>1, <3>2
  <2>2. connFd' \in [Clients -> Fds \cup {None}]
    <3>1. connFd' = [c \in Clients |-> connFd'[c]]
      BY <1>1
    <3>2. \A c \in Clients : connFd'[c] \in Fds \cup {None}
      BY <1>4, <1>5 DEF Net, NetTypes
    <3> QED
      BY <3>1, <3>2
  <2>3. inEpoll' \subseteq Clients
    BY <1>2, <1>3 DEF Net, NetTypes
  <2>4. interest' \in [Clients -> SUBSET {"in", "out"}]
    BY <1>2 DEF Net, NetTypes
  <2> QED
    BY <1>2, <2>1, <2>2, <2>3, <2>4 DEF Net, NetTypes
<1>8. DescriptorsAccounted'
  BY <1>1 DEF Net, DescriptorsAccounted
<1>9. WatchedWhileOpen'
  BY <1>3, <1>6 DEF Net, WatchedWhileOpen
<1>10. RegisteredReads'
  BY <1>2, <1>3 DEF Net, NetTypes, RegisteredReads
<1>11. \A f \in Fds : connections[f] # None => connections[f] \in Clients \ new
  BY <1>3, ReactorAssumption DEF Net, NetTypes, MapIsHome
<1>12. MapIsHome'
  BY <1>2, <1>4, <1>5, <1>6, <1>11 DEF Net, MapIsHome
<1>13. UnbornIsSilent'
  BY <1>2, <1>4, <1>5, ReactorAssumption DEF Net, UnbornIsSilent
<1>14. OutputIsWatched'
  <2>1. \A i \in 1..n : outBuf[backlog[i]] = <<>>
    BY <1>3 DEF Net, UnbornIsSilent
  <2>2. \A c \in Clients \ new : interest'[c] = interest[c]
    BY <1>2
  <2> QED
    BY <1>2, <1>6, <1>11, <2>1, <2>2 DEF Net, OutputIsWatched
<1>15. BacklogFresh'
  <2>1. /\ backlog' \in Seq(Clients)
        /\ Len(backlog') = Len(backlog) - n
        /\ \A i \in 1..Len(backlog') : /\ backlog'[i] = backlog[i + n]
                                       /\ i + n \in 1..Len(backlog)
    BY <1>2, <1>n DEF BacklogFresh
  <2>2. ASSUME NEW i \in 1..Len(backlog')
        PROVE  backlog'[i] \in Clients \ new
    <3>1. backlog'[i] = backlog[i + n] /\ i + n \in 1..Len(backlog)
      BY <2>1
    <3>2. \A j \in 1..n : j \in 1..Len(backlog) /\ j # i + n
      BY <1>n, <2>1
    <3>3. \A j \in 1..n : backlog[j] # backlog[i + n]
      BY <3>1, <3>2 DEF BacklogFresh
    <3> QED
      BY <3>1, <3>3 DEF BacklogFresh
  <2>3. ASSUME NEW i \in 1..Len(backlog'), NEW j \in 1..Len(backlog'),
               backlog'[i] = backlog'[j]
        PROVE  i = j
    <3>1. i + n = j + n
      BY <2>1, <2>3 DEF BacklogFresh
    <3> QED
      BY <1>n, <3>1
  <2>4. ASSUME NEW i \in 1..Len(backlog')
        PROVE  connFd'[backlog'[i]] = None /\ peer'[backlog'[i]] # "away"
    <3>1. connFd[backlog'[i]] = None /\ peer[backlog'[i]] # "away"
      BY <2>1 DEF BacklogFresh
    <3> QED
      BY <1>2, <1>5, <2>2, <3>1
  <2>5. \A c \in Clients : connFd'[c] # None => peer'[c] # "away"
    BY <1>2, <1>3, <1>5 DEF BacklogFresh
  <2> QED
    BY <1>2, <2>1, <2>3, <2>4, <2>5 DEF BacklogFresh
<1> QED
  BY <1>7, <1>8, <1>9, <1>10, <1>12, <1>13, <1>14, <1>15 DEF Net

-----------------------------------------------------------------------------
(* The loop thread keeps Net. *)
LEMMA LoopKeepsNet ==
  ASSUME Net, TaskTypes, BacklogFresh, LoopStep
  PROVE  Net'
<1>1. CASE Poll \/ SwapFunctors \/ DanglingFunctor \/ DanglingChannel \/ RunShutdown
  BY <1>1, NetUnchanged
     DEF Poll, SwapFunctors, DanglingFunctor, DanglingChannel, RunShutdown, kernel, objects
<1>2. CASE Accept
  BY <1>2, AcceptKeeps
<1>3. CASE RunTimers
  BY <1>3, RunTimersKeeps
<1>4. ASSUME NEW c \in Clients,
             \/ HandleError(c) \/ HandleWrite(c) \/ ReadNothing(c)
             \/ RefuseRequest(c) \/ LimitRequest(c) \/ SubmitRequest(c) \/ OverflowPool(c)
      PROVE  Net'
  BY <1>4, HandleErrorKeeps, HandleWriteKeeps, ReadNothingKeeps, RefuseRequestKeeps,
     LimitRequestKeeps, SubmitKeeps
<1>5. CASE RunSend
  BY <1>5, RunSendKeeps
<1> QED
  BY <1>1, <1>2, <1>3, <1>4, <1>5 DEF LoopStep, HandleEvent

(* So does every step: workers, clients and time change nothing of it. *)
LEMMA NetInductive == IInv /\ [Next]_vars => Net'
<1> SUFFICES ASSUME IInv, [Next]_vars PROVE Net'
  OBVIOUS
<1>1. CASE LoopStep
  BY <1>1, LoopKeepsNet DEF IInv
<1>2. CASE WorkerStep
  BY <1>2, NetUnchanged
     DEF IInv, WorkerStep, TakeRequest, Dispatch, ShutdownAfterSend, Release, kernel, objects
<1>3. CASE World
  BY <1>3, NetUnchanged
     DEF IInv, World, Tick, Connect, Ask, Leave, GrowIdle, kernel, objects
<1>4. CASE UNCHANGED vars
  BY <1>4, NetUnchanged DEF IInv, vars, kernel, objects
<1> QED
  BY <1>1, <1>2, <1>3, <1>4 DEF Next

(* The backlog: clients join it once, Accept takes them from its front. *)
LEMMA BacklogInductive == IInv /\ [Next]_vars => BacklogFresh'
<1> SUFFICES ASSUME IInv, [Next]_vars PROVE BacklogFresh'
  OBVIOUS
<1>u. UNCHANGED <<peer, backlog, connFd>> => BacklogFresh'
  BY DEF IInv, BacklogFresh
<1>1. CASE Accept
  BY <1>1, AcceptKeeps DEF IInv
<1>2. CASE Poll \/ SwapFunctors \/ DanglingFunctor \/ DanglingChannel \/ RunShutdown
             \/ RunTimers \/ RunSend
  BY <1>2, <1>u
     DEF Poll, SwapFunctors, DanglingFunctor, DanglingChannel, RunShutdown, RunTimers,
         RunSend, kernel, objects
<1>3. ASSUME NEW c \in Clients,
             \/ HandleError(c) \/ HandleWrite(c) \/ ReadNothing(c)
             \/ RefuseRequest(c) \/ LimitRequest(c) \/ SubmitRequest(c) \/ OverflowPool(c)
      PROVE  BacklogFresh'
  <2>1. \E flag : OnChannel(c, flag)
    BY <1>3 DEF HandleError, HandleWrite, ReadNothing, RefuseRequest, LimitRequest,
                SubmitRequest, OverflowPool, ReadRequest
  <2> QED
    BY <2>1, <1>u, OnChannelFacts
<1>4. CASE WorkerStep
  BY <1>4, <1>u
     DEF WorkerStep, TakeRequest, Dispatch, ShutdownAfterSend, Release, kernel, objects
<1>5. ASSUME NEW c \in Clients, Connect(c) PROVE BacklogFresh'
  <2>1. /\ peer[c] = "away" /\ peer' = [peer EXCEPT ![c] = "here"]
        /\ backlog' = Append(backlog, c) /\ connFd' = connFd
    BY <1>5 DEF Connect, objects
  <2>2. connFd[c] = None
    BY <2>1 DEF IInv, BacklogFresh
  <2> QED
    BY <2>1, <2>2 DEF IInv, BacklogFresh
<1>6. ASSUME NEW c \in Clients, Leave(c) PROVE BacklogFresh'
  BY <1>6 DEF Leave, objects, IInv, BacklogFresh
<1>7. CASE Tick \/ \E c \in Clients : Ask(c) \/ GrowIdle(c)
  BY <1>7, <1>u DEF Tick, Ask, GrowIdle, kernel, objects
<1>8. CASE UNCHANGED vars
  BY <1>8, <1>u DEF vars, kernel, objects
<1> QED
  BY <1>1, <1>2, <1>3, <1>4, <1>5, <1>6, <1>7, <1>8
     DEF Next, LoopStep, HandleEvent, World

(* Tasks and functors keep naming Connection objects. *)
LEMMA TasksInductive == IInv /\ [Next]_vars => TaskTypes'
<1> SUFFICES ASSUME IInv, [Next]_vars PROVE TaskTypes'
  OBVIOUS
<1>t. TaskTypes
  BY DEF IInv
<1>u. UNCHANGED <<queue, working, pending, functors, doomed>> => TaskTypes'
  BY <1>t DEF TaskTypes
<1>1. CASE Poll \/ DanglingFunctor \/ DanglingChannel \/ Accept
  BY <1>1, <1>u DEF Poll, DanglingFunctor, DanglingChannel, Accept, loop, pool
<1>2. CASE SwapFunctors
  BY <1>2, <1>t DEF SwapFunctors, TaskTypes, pool
<1>3. CASE RunSend \/ RunShutdown
  <2>1. /\ functors # <<>> /\ functors' = Tail(functors)
        /\ UNCHANGED <<queue, working, pending, doomed>>
    BY <1>3 DEF RunSend, RunShutdown, InFunctor, pool
  <2> QED
    BY <1>t, <2>1 DEF TaskTypes
<1>4. CASE RunTimers
  BY <1>4, <1>t DEF RunTimers, TaskTypes, pool
<1>5. ASSUME NEW c \in Clients,
             \/ HandleError(c) \/ HandleWrite(c) \/ ReadNothing(c)
             \/ RefuseRequest(c) \/ LimitRequest(c) \/ OverflowPool(c)
      PROVE  TaskTypes'
  <2>1. \E flag : OnChannel(c, flag)
    BY <1>5 DEF HandleError, HandleWrite, ReadNothing, RefuseRequest, LimitRequest,
                OverflowPool, ReadRequest
  <2>2. queue' = queue
    BY <1>5 DEF HandleError, HandleWrite, ReadNothing, RefuseRequest, LimitRequest,
                OverflowPool
  <2> QED
    BY <2>1, <2>2, <1>u, OnChannelFacts
<1>6. ASSUME NEW c \in Clients, SubmitRequest(c) PROVE TaskTypes'
  <2>1. PICK r \in Requests :
          ReadRequest(c, r) /\ queue' = Append(queue, [conn |-> c, req |-> r])
    BY <1>6 DEF SubmitRequest
  <2>2. UNCHANGED <<working, pending, functors, doomed>>
    BY <2>1, OnChannelFacts DEF ReadRequest
  <2>3. [conn |-> c, req |-> r] \in Tasks
    BY DEF Tasks
  <2> QED
    BY <1>t, <2>1, <2>2, <2>3 DEF TaskTypes
<1>7. CASE TakeRequest
  BY <1>7, <1>t DEF TakeRequest, TaskTypes, Workings, loop
<1>8. ASSUME NEW w \in working, Dispatch(w) \/ ShutdownAfterSend(w) PROVE TaskTypes'
  <2>1. w \in Workings /\ w.task \in Tasks
    BY <1>t DEF TaskTypes, Workings
  <2>2. \E todo \in {"release", "shutdown"} : Proceed(w, todo)
    BY <1>8 DEF Dispatch, ShutdownAfterSend
  <2>3. working' \subseteq Workings
    BY <1>t, <2>1, <2>2 DEF Proceed, TaskTypes, Workings
  <2>4. pending' = pending \/ \E k \in {"send", "shutdown"} :
          pending' = Append(pending, [call |-> k, task |-> w.task])
    BY <1>8 DEF Dispatch, ShutdownAfterSend
  <2>5. pending' \in Seq(Calls)
    <3>1. \A k \in {"send", "shutdown"} : [call |-> k, task |-> w.task] \in Calls
      BY <2>1 DEF Calls
    <3>2. CASE pending' = pending
      BY <1>t, <3>2 DEF TaskTypes
    <3>3. ASSUME NEW k \in {"send", "shutdown"},
                 pending' = Append(pending, [call |-> k, task |-> w.task])
          PROVE  pending' \in Seq(Calls)
      <4>1. \A x \in Calls : Append(pending, x) \in Seq(Calls)
        BY <1>t DEF TaskTypes
      <4> QED
        BY <3>1, <3>3, <4>1
    <3> QED
      BY <2>4, <3>2, <3>3
  <2>6. UNCHANGED <<queue, functors, doomed>>
    BY <1>8 DEF Dispatch, ShutdownAfterSend
  <2> QED
    BY <1>t, <2>3, <2>5, <2>6 DEF TaskTypes
<1>9. ASSUME NEW w \in working, Release(w) PROVE TaskTypes'
  BY <1>9, <1>t DEF Release, TaskTypes, loop
<1>10. CASE World
  BY <1>10, <1>u DEF World, Tick, Connect, Ask, Leave, GrowIdle, loop, pool
<1>11. CASE UNCHANGED vars
  BY <1>11, <1>u DEF vars, loop, pool
<1> QED
  BY <1>1, <1>2, <1>3, <1>4, <1>5, <1>6, <1>7, <1>8, <1>9, <1>10, <1>11
     DEF Next, LoopStep, HandleEvent, WorkerStep

-----------------------------------------------------------------------------
LEMMA InitInvariant == Init => IInv
<1> SUFFICES ASSUME Init PROVE IInv
  OBVIOUS
<1>1. TaskTypes
  BY DEF Init, TaskTypes
<1>2. NetTypes /\ DescriptorsAccounted /\ WatchedWhileOpen
  BY DEF Init, NetTypes, DescriptorsAccounted, WatchedWhileOpen
<1>3. RegisteredReads /\ MapIsHome /\ UnbornIsSilent /\ OutputIsWatched
  BY DEF Init, RegisteredReads, MapIsHome, UnbornIsSilent, OutputIsWatched
<1>4. BacklogFresh
  BY DEF Init, BacklogFresh
<1> QED
  BY <1>1, <1>2, <1>3, <1>4 DEF IInv, Net

LEMMA Invariance == Spec => []IInv
<1>1. IInv /\ [Next]_vars => IInv'
  BY NetInductive, BacklogInductive, TasksInductive DEF IInv
<1> QED
  BY <1>1, InitInvariant, PTL DEF Spec

(* Whatever the order of accepts, closes, late closes through a number that was
   given out again, idle closes and failures: TcpServer::connections_ and the
   process's open descriptors agree. *)
THEOREM DescriptorsNeverLeak == Spec => []DescriptorsAccounted
<1>1. IInv => DescriptorsAccounted
  BY DEF IInv, Net
<1> QED
  BY <1>1, Invariance, PTL

(* epoll has some channel for a descriptor exactly while it is open; which one, and
   for which events, the theorem does not say. *)
THEOREM OpenMeansWatched == Spec => []WatchedWhileOpen
<1>1. IInv => WatchedWhileOpen
  BY DEF IInv, Net
<1> QED
  BY <1>1, Invariance, PTL

(* Output an open connection still has to send waits for a write event. *)
THEOREM OutputNeverStranded == Spec => []OutputIsWatched
<1>1. IInv => OutputIsWatched
  BY DEF IInv, Net
<1> QED
  BY <1>1, Invariance, PTL

-----------------------------------------------------------------------------
(* A request is at one place at a time: in the socket, in inputBuffer_, in the
   queue of the pool, with a worker that has not answered it, in a functor that
   sends the answer, in outputBuffer_, or answered.  Places that belong to no
   client have None for one. *)

Places == ({"sock", "in", "out", "answers"} \X Clients)
          \cup ({"queue", "working", "pending", "functors"} \X {None})

Distinct(s) == \A i, j \in DOMAIN s : s[i] = s[j] => i = j

(* Of tasks, of workers and of functors only some have a request to answer. *)
Waiting(q) == {q[i].req : i \in DOMAIN q}
WaitingOnce(q) == \A i, j \in DOMAIN q : q[i].req = q[j].req => i = j

Dispatching(W) == {w.task.req : w \in {v \in W : v.todo = "dispatch"}}
DispatchingOnce(W) ==
    \A v, w \in W : v.todo = "dispatch" /\ w.todo = "dispatch" /\ v.task.req = w.task.req => v = w

Sending(q) == {q[i].task.req : i \in {j \in DOMAIN q : q[j].call = "send"}}
SendingOnce(q) ==
    \A i, j \in DOMAIN q :
        q[i].call = "send" /\ q[j].call = "send" /\ q[i].task.req = q[j].task.req => i = j

(* The requests at a place. *)
Held(p) ==
    CASE p[1] = "sock" -> ToSet(sock[p[2]])
      [] p[1] = "in" -> ToSet(inBuf[p[2]])
      [] p[1] = "out" -> ToSet(outBuf[p[2]])
      [] p[1] = "answers" -> ToSet(answers[p[2]])
      [] p[1] = "queue" -> Waiting(queue)
      [] p[1] = "working" -> Dispatching(working)
      [] p[1] = "pending" -> Sending(pending)
      [] p[1] = "functors" -> Sending(functors)

(* A place has each of its requests once. *)
HeldOnce(p) ==
    CASE p[1] = "sock" -> Distinct(sock[p[2]])
      [] p[1] = "in" -> Distinct(inBuf[p[2]])
      [] p[1] = "out" -> Distinct(outBuf[p[2]])
      [] p[1] = "answers" -> Distinct(answers[p[2]])
      [] p[1] = "queue" -> WaitingOnce(queue)
      [] p[1] = "working" -> DispatchingOnce(working)
      [] p[1] = "pending" -> SendingOnce(pending)
      [] p[1] = "functors" -> SendingOnce(functors)

LineTypes ==
    /\ asked \in [Clients -> 0..MaxRequests]
    /\ sock \in [Clients -> Seq(Requests)]
    /\ inBuf \in [Clients -> Seq(Requests)]
    /\ outBuf \in [Clients -> Seq(Requests)]
    /\ answers \in [Clients -> Seq(Requests)]

OnePlace ==
    /\ \A p \in Places : HeldOnce(p)
    /\ \A p, q \in Places : p # q => Held(p) \cap Held(q) = {}

(* Requests that are somewhere have been sent. *)
HeldAreAsked == \A p \in Places : \A r \in Held(p) : r[2] <= asked[r[1]]

OInv == LineTypes /\ OnePlace /\ HeldAreAsked

-----------------------------------------------------------------------------
(* Sequences without duplicates. *)

LEMMA ConcatDistinct ==
  ASSUME NEW s \in Seq(Requests), NEW t \in Seq(Requests)
  PROVE  /\ s \o t \in Seq(Requests)
         /\ ToSet(s \o t) = ToSet(s) \cup ToSet(t)
         /\ Distinct(s) /\ Distinct(t) /\ ToSet(s) \cap ToSet(t) = {} => Distinct(s \o t)
<1> DEFINE r == s \o t
<1>1. /\ Len(s) \in Nat /\ Len(t) \in Nat
      /\ r \in Seq(Requests) /\ Len(r) = Len(s) + Len(t)
      /\ \A i \in 1..Len(s) + Len(t) : r[i] = IF i <= Len(s) THEN s[i] ELSE t[i - Len(s)]
      /\ DOMAIN s = 1..Len(s) /\ DOMAIN t = 1..Len(t) /\ DOMAIN r = 1..Len(r)
  BY ConcatProperties, LenProperties
<1> HIDE DEF r
<1>2. \A i \in 1..Len(s) : i \in DOMAIN r /\ r[i] = s[i]
  BY <1>1
<1>3. \A i \in 1..Len(t) : Len(s) + i \in DOMAIN r /\ r[Len(s) + i] = t[i]
  BY <1>1
<1>4. \A i \in DOMAIN r : \/ i \in 1..Len(s) /\ r[i] = s[i]
                          \/ i - Len(s) \in 1..Len(t) /\ r[i] = t[i - Len(s)]
  BY <1>1
<1>5. ToSet(r) \subseteq ToSet(s) \cup ToSet(t)
  BY <1>1, <1>4 DEF ToSet
<1>6. ToSet(s) \subseteq ToSet(r) /\ ToSet(t) \subseteq ToSet(r)
  <2>1. ToSet(s) \subseteq ToSet(r)
    BY <1>1, <1>2 DEF ToSet
  <2>2. ASSUME NEW i \in DOMAIN t PROVE t[i] \in ToSet(r)
    <3>1. Len(s) + i \in DOMAIN r /\ r[Len(s) + i] = t[i]
      BY <1>1, <1>3
    <3> QED
      BY <3>1 DEF ToSet
  <2>3. ToSet(t) \subseteq ToSet(r)
    BY <2>2 DEF ToSet
  <2> QED
    BY <2>1, <2>3
<1>7. ASSUME Distinct(s), Distinct(t), ToSet(s) \cap ToSet(t) = {} PROVE Distinct(r)
  <2>1. \A i \in 1..Len(s), j \in 1..Len(t) : s[i] # t[j]
    BY <1>1, <1>7 DEF ToSet
  <2>2. \A i, j \in 1..Len(s) : s[i] = s[j] => i = j
    BY <1>1, <1>7 DEF Distinct
  <2>3. \A i, j \in 1..Len(t) : t[i] = t[j] => i = j
    BY <1>1, <1>7 DEF Distinct
  <2>4. ASSUME NEW i \in DOMAIN r, NEW j \in DOMAIN r, r[i] = r[j] PROVE i = j
    <3>1. i \in Int /\ j \in Int /\ Len(s) \in Int
      BY <1>1
    <3>2. CASE i \in 1..Len(s) /\ r[i] = s[i]
      BY <1>4, <2>1, <2>2, <2>4, <3>2
    <3>3. CASE i - Len(s) \in 1..Len(t) /\ r[i] = t[i - Len(s)]
      <4>1. j - Len(s) \in 1..Len(t) /\ r[j] = t[j - Len(s)]
        BY <1>4, <2>1, <2>4, <3>3
      <4>2. i - Len(s) = j - Len(s)
        BY <2>3, <2>4, <3>3, <4>1
      <4> QED
        BY <3>1, <4>2
    <3> QED
      BY <1>4, <3>2, <3>3
  <2> QED
    BY <2>4 DEF Distinct
<1> QED
  BY <1>1, <1>5, <1>6, <1>7 DEF r

LEMMA AppendDistinct ==
  ASSUME NEW s \in Seq(Requests), NEW r \in Requests
  PROVE  /\ Append(s, r) \in Seq(Requests)
         /\ ToSet(Append(s, r)) = ToSet(s) \cup {r}
         /\ Distinct(s) /\ r \notin ToSet(s) => Distinct(Append(s, r))
<1>1. <<r>> \in Seq(Requests) /\ ToSet(<<r>>) = {r} /\ Distinct(<<r>>)
  BY DEF ToSet, Distinct
<1>2. Append(s, r) = s \o <<r>>
  BY AppendIsConcat
<1>3. r \notin ToSet(s) => ToSet(s) \cap ToSet(<<r>>) = {}
  BY <1>1
<1>4. /\ s \o <<r>> \in Seq(Requests)
      /\ ToSet(s \o <<r>>) = ToSet(s) \cup ToSet(<<r>>)
      /\ Distinct(s) /\ Distinct(<<r>>) /\ ToSet(s) \cap ToSet(<<r>>) = {} => Distinct(s \o <<r>>)
  BY <1>1, ConcatDistinct
<1> QED
  BY <1>1, <1>2, <1>3, <1>4

(* The first element and the rest. *)
LEMMA PopDistinct ==
  ASSUME NEW s \in Seq(Requests), s # <<>>
  PROVE  /\ Head(s) \in ToSet(s) /\ Head(s) \in Requests
         /\ Tail(s) \in Seq(Requests)
         /\ ToSet(Tail(s)) \subseteq ToSet(s)
         /\ Distinct(s) => Distinct(Tail(s)) /\ Head(s) \notin ToSet(Tail(s))
<1> DEFINE t == Tail(s)
<1>1. /\ Len(s) \in Nat \ {0} /\ DOMAIN s = 1..Len(s) /\ DOMAIN t = 1..Len(t)
      /\ t \in Seq(Requests) /\ Len(t) = Len(s) - 1 /\ Head(s) = s[1] /\ Head(s) \in Requests
      /\ \A i \in 1..Len(t) : t[i] = s[i + 1]
  BY HeadTailProperties, LenProperties, EmptySeq
<1> HIDE DEF t
<1>2. \A i \in DOMAIN t : i + 1 \in DOMAIN s /\ i + 1 # 1 /\ t[i] = s[i + 1]
  BY <1>1
<1>3. Head(s) \in ToSet(s) /\ ToSet(t) \subseteq ToSet(s)
  BY <1>1, <1>2 DEF ToSet
<1>4. ASSUME Distinct(s) PROVE Distinct(t) /\ Head(s) \notin ToSet(t)
  <2>1. \A i, j \in DOMAIN s : s[i] = s[j] => i = j
    BY <1>4 DEF Distinct
  <2>2. Distinct(t)
    BY <1>1, <1>2, <2>1 DEF Distinct
  <2>3. Head(s) \notin ToSet(t)
    BY <1>1, <1>2, <2>1 DEF ToSet
  <2> QED
    BY <2>2, <2>3
<1> QED
  BY <1>1, <1>3, <1>4 DEF t

(* A and B are parts of s that do not overlap. *)
Parts(A, B, s) ==
    /\ A \in Seq(Requests) /\ B \in Seq(Requests)
    /\ ToSet(A) \subseteq ToSet(s) /\ ToSet(B) \subseteq ToSet(s)
    /\ Distinct(s) => Distinct(A) /\ Distinct(B) /\ ToSet(A) \cap ToSet(B) = {}

LEMMA SplitDistinct ==
  ASSUME NEW s \in Seq(Requests), NEW m \in 0..Len(s)
  PROVE  Parts(SubSeq(s, 1, m), SubSeq(s, m + 1, Len(s)), s)
<1> DEFINE n == Len(s)
           a == SubSeq(s, 1, m)
           b == SubSeq(s, m + 1, n)
<1>1. n \in Nat /\ m \in Nat /\ m <= n /\ DOMAIN s = 1..n /\ \A i \in 1..n : s[i] \in Requests
  BY LenProperties, ElementOfSeq
<1>2. /\ a \in Seq(Requests) /\ Len(a) = m /\ \A i \in 1..m : a[i] = s[i]
  <2>1. /\ a \in Seq(Requests)
        /\ Len(a) = IF 1 <= m THEN m - 1 + 1 ELSE 0
        /\ \A i \in 1..m - 1 + 1 : a[i] = s[1 + i - 1]
    <3>1. 1 \in Int /\ m \in Int /\ \A i \in 1..m : s[i] \in Requests
      BY <1>1
    <3> QED
      BY <3>1, SubSeqProperties
  <2>2. m - 1 + 1 = m /\ \A i \in 1..m : 1 + i - 1 = i
    BY <1>1
  <2> QED
    BY <1>1, <2>1, <2>2
<1>3. /\ b \in Seq(Requests) /\ Len(b) = n - m /\ \A i \in 1..n - m : b[i] = s[m + i]
  <2>1. /\ b \in Seq(Requests)
        /\ Len(b) = IF m + 1 <= n THEN n - (m + 1) + 1 ELSE 0
        /\ \A i \in 1..n - (m + 1) + 1 : b[i] = s[m + 1 + i - 1]
    <3>1. m + 1 \in Int /\ n \in Int /\ \A i \in m + 1..n : s[i] \in Requests
      BY <1>1
    <3> QED
      BY <3>1, SubSeqProperties
  <2>2. n - (m + 1) + 1 = n - m /\ \A i \in 1..n - m : m + 1 + i - 1 = m + i
    BY <1>1
  <2>3. (IF m + 1 <= n THEN n - (m + 1) + 1 ELSE 0) = n - m
    <3> HIDE DEF n
    <3>1. m + 1 <= n \/ m = n
      BY <1>1
    <3> QED
      BY <1>1, <3>1
  <2> QED
    BY <2>1, <2>2, <2>3
<1>4. DOMAIN a = 1..m /\ DOMAIN b = 1..n - m
  BY <1>2, <1>3, LenProperties
<1> HIDE DEF a, b, n
<1>5. \A i \in DOMAIN a : i \in 1..m /\ i \in DOMAIN s /\ a[i] = s[i]
  BY <1>1, <1>2, <1>4
<1>6. \A i \in DOMAIN b : m + i \in DOMAIN s /\ m + i \notin 1..m /\ b[i] = s[m + i] /\ i \in Int
  BY <1>1, <1>3, <1>4
<1>7. ToSet(a) \subseteq ToSet(s) /\ ToSet(b) \subseteq ToSet(s)
  BY <1>5, <1>6 DEF ToSet
<1>8. ASSUME Distinct(s) PROVE Distinct(a) /\ Distinct(b) /\ ToSet(a) \cap ToSet(b) = {}
  <2>1. \A i, j \in DOMAIN s : s[i] = s[j] => i = j
    BY <1>8 DEF Distinct
  <2>2. Distinct(a)
    BY <1>5, <2>1 DEF Distinct
  <2>3. Distinct(b)
    <3>1. ASSUME NEW i \in DOMAIN b, NEW j \in DOMAIN b, b[i] = b[j] PROVE i = j
      <4>1. m + i = m + j
        BY <1>6, <2>1, <3>1
      <4> QED
        BY <1>1, <1>6, <4>1
    <3> QED
      BY <3>1 DEF Distinct
  <2>4. ToSet(a) \cap ToSet(b) = {}
    BY <1>5, <1>6, <2>1 DEF ToSet
  <2> QED
    BY <2>2, <2>3, <2>4
<1> QED
  BY <1>2, <1>3, <1>7, <1>8 DEF Parts, a, b, n

(* The same for tasks, functors and workers. *)

LEMMA SubmitOnce ==
  ASSUME NEW q \in Seq(Tasks), NEW t \in Tasks
  PROVE  /\ Waiting(Append(q, t)) \subseteq Waiting(q) \cup {t.req}
         /\ WaitingOnce(q) /\ t.req \notin Waiting(q) => WaitingOnce(Append(q, t))
<1> DEFINE s == Append(q, t)
<1>1. /\ Len(q) \in Nat /\ DOMAIN q = 1..Len(q) /\ DOMAIN s = 1..Len(q) + 1
      /\ \A i \in 1..Len(q) : s[i] = q[i]
      /\ s[Len(q) + 1] = t
  BY AppendProperties, LenProperties
<1> HIDE DEF s
<1>2. \A i \in DOMAIN s : (i \in DOMAIN q /\ s[i] = q[i]) \/ (i = Len(q) + 1 /\ s[i] = t)
  BY <1>1
<1>3. Waiting(s) \subseteq Waiting(q) \cup {t.req}
  BY <1>2 DEF Waiting
<1>4. ASSUME WaitingOnce(q), t.req \notin Waiting(q) PROVE WaitingOnce(s)
  <2>1. \A i \in DOMAIN q : q[i].req # t.req
    BY <1>4 DEF Waiting
  <2>2. \A i, j \in DOMAIN q : q[i].req = q[j].req => i = j
    BY <1>4 DEF WaitingOnce
  <2> QED
    BY <1>2, <2>1, <2>2 DEF WaitingOnce
<1> QED
  BY <1>3, <1>4 DEF s

LEMMA TakeOnce ==
  ASSUME NEW q \in Seq(Tasks), q # <<>>
  PROVE  /\ Head(q) \in Tasks /\ Head(q).req \in Waiting(q)
         /\ Waiting(Tail(q)) \subseteq Waiting(q)
         /\ WaitingOnce(q) => WaitingOnce(Tail(q)) /\ Head(q).req \notin Waiting(Tail(q))
<1> DEFINE t == Tail(q)
<1>1. /\ Len(q) \in Nat \ {0} /\ DOMAIN q = 1..Len(q) /\ DOMAIN t = 1..Len(t)
      /\ Len(t) = Len(q) - 1 /\ Head(q) = q[1] /\ Head(q) \in Tasks
      /\ \A i \in 1..Len(t) : t[i] = q[i + 1]
  BY HeadTailProperties, LenProperties, EmptySeq
<1> HIDE DEF t
<1>2. \A i \in DOMAIN t : i + 1 \in DOMAIN q /\ i + 1 # 1 /\ t[i] = q[i + 1] /\ i \in Int
  BY <1>1
<1>3. Head(q).req \in Waiting(q)
  BY <1>1 DEF Waiting
<1>4. ASSUME NEW i \in DOMAIN t PROVE t[i].req \in Waiting(q)
  <2>1. i + 1 \in DOMAIN q /\ t[i] = q[i + 1]
    BY <1>2
  <2> QED
    BY <2>1 DEF Waiting
<1>5. ASSUME WaitingOnce(q) PROVE WaitingOnce(t) /\ Head(q).req \notin Waiting(t)
  <2>1. \A i, j \in DOMAIN q : q[i].req = q[j].req => i = j
    BY <1>5 DEF WaitingOnce
  <2>2. WaitingOnce(t)
    <3>1. ASSUME NEW i \in DOMAIN t, NEW j \in DOMAIN t, t[i].req = t[j].req PROVE i = j
      <4>1. i + 1 = j + 1
        BY <1>2, <2>1, <3>1
      <4> QED
        BY <1>2, <4>1
    <3> QED
      BY <3>1 DEF WaitingOnce
  <2>3. ASSUME NEW i \in DOMAIN t PROVE t[i].req # Head(q).req
    BY <1>1, <1>2, <2>1
  <2> QED
    BY <2>2, <2>3 DEF Waiting
<1> QED
  BY <1>1, <1>3, <1>4, <1>5 DEF t, Waiting

LEMMA QueueOnce ==
  ASSUME NEW q \in Seq(Calls), NEW x \in Calls
  PROVE  /\ x.call = "send" => Sending(Append(q, x)) \subseteq Sending(q) \cup {x.task.req}
         /\ x.call # "send" => Sending(Append(q, x)) \subseteq Sending(q)
         /\ SendingOnce(q) /\ (x.call = "send" => x.task.req \notin Sending(q))
              => SendingOnce(Append(q, x))
<1> DEFINE s == Append(q, x)
<1>1. /\ Len(q) \in Nat /\ DOMAIN q = 1..Len(q) /\ DOMAIN s = 1..Len(q) + 1
      /\ \A i \in 1..Len(q) : s[i] = q[i]
      /\ s[Len(q) + 1] = x
  BY AppendProperties, LenProperties
<1> HIDE DEF s
<1>2. \A i \in DOMAIN s : (i \in DOMAIN q /\ s[i] = q[i]) \/ (i = Len(q) + 1 /\ s[i] = x)
  BY <1>1
<1>3. ASSUME NEW i \in DOMAIN s, s[i].call = "send"
      PROVE  s[i].task.req \in Sending(q) \/ (x.call = "send" /\ s[i].task.req = x.task.req)
  BY <1>2, <1>3 DEF Sending
<1>4. ASSUME SendingOnce(q), x.call = "send" => x.task.req \notin Sending(q) PROVE SendingOnce(s)
  <2>1. \A i \in DOMAIN q : q[i].call = "send" /\ x.call = "send" => q[i].task.req # x.task.req
    BY <1>4 DEF Sending
  <2>2. \A i, j \in DOMAIN q :
          q[i].call = "send" /\ q[j].call = "send" /\ q[i].task.req = q[j].task.req => i = j
    BY <1>4 DEF SendingOnce
  <2> QED
    BY <1>2, <2>1, <2>2 DEF SendingOnce
<1>5. \A y \in Sending(s) : y \in Sending(q) \/ (x.call = "send" /\ y = x.task.req)
  BY <1>3 DEF Sending
<1> QED
  BY <1>4, <1>5 DEF s

LEMMA RunOnce ==
  ASSUME NEW q \in Seq(Calls), q # <<>>
  PROVE  /\ Head(q) \in Calls
         /\ Head(q).call = "send" => Head(q).task.req \in Sending(q)
         /\ Sending(Tail(q)) \subseteq Sending(q)
         /\ SendingOnce(q) => SendingOnce(Tail(q))
         /\ SendingOnce(q) /\ Head(q).call = "send" => Head(q).task.req \notin Sending(Tail(q))
<1> DEFINE t == Tail(q)
<1>1. /\ Len(q) \in Nat \ {0} /\ DOMAIN q = 1..Len(q) /\ DOMAIN t = 1..Len(t)
      /\ Len(t) = Len(q) - 1 /\ Head(q) = q[1] /\ Head(q) \in Calls
      /\ \A i \in 1..Len(t) : t[i] = q[i + 1]
  BY HeadTailProperties, LenProperties, EmptySeq
<1> HIDE DEF t
<1>2. \A i \in DOMAIN t : i + 1 \in DOMAIN q /\ i + 1 # 1 /\ t[i] = q[i + 1] /\ i \in Int
  BY <1>1
<1>3. Head(q).call = "send" => Head(q).task.req \in Sending(q)
  BY <1>1 DEF Sending
<1>4. ASSUME NEW i \in DOMAIN t, t[i].call = "send" PROVE t[i].task.req \in Sending(q)
  <2>1. i + 1 \in DOMAIN q /\ t[i] = q[i + 1]
    BY <1>2
  <2> QED
    BY <1>4, <2>1 DEF Sending
<1>5. ASSUME SendingOnce(q) PROVE SendingOnce(t)
  <2>1. ASSUME NEW i \in DOMAIN t, NEW j \in DOMAIN t, t[i].call = "send", t[j].call = "send",
               t[i].task.req = t[j].task.req
        PROVE  i = j
    <3>1. i + 1 = j + 1
      BY <1>2, <1>5, <2>1 DEF SendingOnce
    <3> QED
      BY <1>2, <3>1
  <2> QED
    BY <2>1 DEF SendingOnce
<1>6. ASSUME SendingOnce(q), Head(q).call = "send", NEW i \in DOMAIN t, t[i].call = "send"
      PROVE  t[i].task.req # Head(q).task.req
  BY <1>1, <1>2, <1>6 DEF SendingOnce
<1> QED
  BY <1>1, <1>3, <1>4, <1>5, <1>6 DEF t, Sending

-----------------------------------------------------------------------------
(* Steps as moves between places. *)

(* What a place has does not change unless its variable does. *)
LEMMA Elsewhere ==
  ASSUME NEW S \in SUBSET Places,
         \A c \in Clients : <<"sock", c>> \in S \/ sock'[c] = sock[c],
         \A c \in Clients : <<"in", c>> \in S \/ inBuf'[c] = inBuf[c],
         \A c \in Clients : <<"out", c>> \in S \/ outBuf'[c] = outBuf[c],
         \A c \in Clients : <<"answers", c>> \in S \/ answers'[c] = answers[c],
         <<"queue", None>> \in S \/ queue' = queue,
         <<"working", None>> \in S \/ working' = working,
         <<"pending", None>> \in S \/ pending' = pending,
         <<"functors", None>> \in S \/ functors' = functors
  PROVE  \A p \in Places \ S : Held(p)' = Held(p) /\ HeldOnce(p)' = HeldOnce(p)
<1> SUFFICES ASSUME NEW p \in Places \ S
             PROVE  Held(p)' = Held(p) /\ HeldOnce(p)' = HeldOnce(p)
  OBVIOUS
<1>1. CASE p \in {"sock"} \X Clients
  BY <1>1 DEF Held, HeldOnce
<1>2. CASE p \in {"in"} \X Clients
  BY <1>2 DEF Held, HeldOnce
<1>3. CASE p \in {"out"} \X Clients
  BY <1>3 DEF Held, HeldOnce
<1>4. CASE p \in {"answers"} \X Clients
  BY <1>4 DEF Held, HeldOnce
<1>5. CASE p = <<"queue", None>>
  BY <1>5 DEF Held, HeldOnce
<1>6. CASE p = <<"working", None>>
  BY <1>6 DEF Held, HeldOnce
<1>7. CASE p = <<"pending", None>>
  BY <1>7 DEF Held, HeldOnce
<1>8. CASE p = <<"functors", None>>
  BY <1>8 DEF Held, HeldOnce
<1> QED
  BY <1>1, <1>2, <1>3, <1>4, <1>5, <1>6, <1>7, <1>8 DEF Places

(* Requests may be moved among the places of S, or get lost. *)
LEMMA Moved ==
  ASSUME OnePlace, HeldAreAsked, NEW S \in SUBSET Places, asked' = asked,
         \A p \in Places \ S : Held(p)' = Held(p) /\ HeldOnce(p)' = HeldOnce(p),
         \A p \in S : HeldOnce(p)' /\ \A r \in Held(p)' : \E q \in S : r \in Held(q),
         \A p, q \in S : p # q => Held(p)' \cap Held(q)' = {}
  PROVE  OnePlace' /\ HeldAreAsked'
<1>1. \A p \in Places : HeldOnce(p)'
  BY DEF OnePlace
<1>2. ASSUME NEW p \in Places, NEW q \in Places, p # q PROVE Held(p)' \cap Held(q)' = {}
  <2>1. CASE p \in S /\ q \in S
    BY <1>2, <2>1
  <2>2. CASE p \notin S /\ q \notin S
    BY <1>2, <2>2 DEF OnePlace
  <2>3. CASE p \in S /\ q \notin S
    BY <2>3 DEF OnePlace
  <2>4. CASE p \notin S /\ q \in S
    BY <2>4 DEF OnePlace
  <2> QED
    BY <2>1, <2>2, <2>3, <2>4
<1>3. ASSUME NEW p \in Places, NEW r \in Held(p)' PROVE r[2] <= asked'[r[1]]
  <2>1. \E q \in Places : r \in Held(q)
    BY <1>3
  <2> QED
    BY <2>1 DEF HeldAreAsked
<1> QED
  BY <1>1, <1>2, <1>3 DEF OnePlace, HeldAreAsked

(* The definitions of Held and HeldOnce, place by place. *)
LEMMA AtPlaces ==
  /\ \A c \in Clients :
       /\ Held(<<"sock", c>>) = ToSet(sock[c]) /\ HeldOnce(<<"sock", c>>) = Distinct(sock[c])
       /\ Held(<<"in", c>>) = ToSet(inBuf[c]) /\ HeldOnce(<<"in", c>>) = Distinct(inBuf[c])
       /\ Held(<<"out", c>>) = ToSet(outBuf[c]) /\ HeldOnce(<<"out", c>>) = Distinct(outBuf[c])
       /\ Held(<<"answers", c>>) = ToSet(answers[c])
       /\ HeldOnce(<<"answers", c>>) = Distinct(answers[c])
  /\ Held(<<"queue", None>>) = Waiting(queue)
  /\ HeldOnce(<<"queue", None>>) = WaitingOnce(queue)
  /\ Held(<<"working", None>>) = Dispatching(working)
  /\ HeldOnce(<<"working", None>>) = DispatchingOnce(working)
  /\ Held(<<"pending", None>>) = Sending(pending)
  /\ HeldOnce(<<"pending", None>>) = SendingOnce(pending)
  /\ Held(<<"functors", None>>) = Sending(functors)
  /\ HeldOnce(<<"functors", None>>) = SendingOnce(functors)
BY DEF Held, HeldOnce

LEMMA AtPlacesNext ==
  /\ \A c \in Clients :
       /\ Held(<<"sock", c>>)' = ToSet(sock'[c]) /\ HeldOnce(<<"sock", c>>)' = Distinct(sock'[c])
       /\ Held(<<"in", c>>)' = ToSet(inBuf'[c]) /\ HeldOnce(<<"in", c>>)' = Distinct(inBuf'[c])
       /\ Held(<<"out", c>>)' = ToSet(outBuf'[c]) /\ HeldOnce(<<"out", c>>)' = Distinct(outBuf'[c])
       /\ Held(<<"answers", c>>)' = ToSet(answers'[c])
       /\ HeldOnce(<<"answers", c>>)' = Distinct(answers'[c])
  /\ Held(<<"queue", None>>)' = Waiting(queue')
  /\ HeldOnce(<<"queue", None>>)' = WaitingOnce(queue')
  /\ Held(<<"working", None>>)' = Dispatching(working')
  /\ HeldOnce(<<"working", None>>)' = DispatchingOnce(working')
  /\ Held(<<"pending", None>>)' = Sending(pending')
  /\ HeldOnce(<<"pending", None>>)' = SendingOnce(pending')
  /\ Held(<<"functors", None>>)' = Sending(functors')
  /\ HeldOnce(<<"functors", None>>)' = SendingOnce(functors')
BY DEF Held, HeldOnce, ToSet, Distinct, Waiting, WaitingOnce, Dispatching, DispatchingOnce,
       Sending, SendingOnce

LEMMA ArePlaces ==
  /\ \A c \in Clients : {<<"sock", c>>, <<"in", c>>, <<"out", c>>, <<"answers", c>>} \subseteq Places
  /\ {<<"queue", None>>, <<"working", None>>, <<"pending", None>>, <<"functors", None>>}
       \subseteq Places
BY DEF Places

(* What becomes of out, the output of c and what is added to it: a part reaches a
   client, if the descriptor denotes a socket, a part stays in outputBuffer_, the
   rest is lost. *)
Output(c, out) ==
    \E k \in Clients, A, B \in Seq(Requests) :
        /\ Parts(A, B, out)
        /\ A = <<>> \/ k = fdTable[connFd[c]]
        /\ answers' = [answers EXCEPT ![k] = @ \o A]
        /\ outBuf' = [outBuf EXCEPT ![c] = B]

LEMMA OutputMoves ==
  ASSUME LineTypes, OnePlace, NEW c \in Clients, NEW out \in Seq(Requests), Output(c, out),
         Distinct(out),
         \A k \in Clients : ToSet(out) \cap ToSet(answers[k]) = {}
  PROVE  /\ outBuf' \in [Clients -> Seq(Requests)] /\ answers' \in [Clients -> Seq(Requests)]
         /\ \A d \in Clients \ {c} : outBuf'[d] = outBuf[d]
         /\ Distinct(outBuf'[c]) /\ ToSet(outBuf'[c]) \subseteq ToSet(out)
         /\ \E k \in Clients :
              /\ \A d \in Clients \ {k} : answers'[d] = answers[d]
              /\ Distinct(answers'[k])
              /\ ToSet(answers'[k]) \subseteq ToSet(answers[k]) \cup ToSet(out)
              /\ ToSet(outBuf'[c]) \cap ToSet(answers'[k]) = {}
<1>1. PICK k \in Clients, A \in Seq(Requests), B \in Seq(Requests) :
        /\ Parts(A, B, out)
        /\ answers' = [answers EXCEPT ![k] = @ \o A]
        /\ outBuf' = [outBuf EXCEPT ![c] = B]
  BY DEF Output
<1>2. /\ ToSet(A) \subseteq ToSet(out) /\ ToSet(B) \subseteq ToSet(out)
      /\ Distinct(A) /\ Distinct(B) /\ ToSet(A) \cap ToSet(B) = {}
  BY <1>1 DEF Parts
<1>3. answers[k] \in Seq(Requests) /\ Distinct(answers[k])
  BY AtPlaces, ArePlaces DEF LineTypes, OnePlace
<1>4. ToSet(answers[k]) \cap ToSet(A) = {} /\ ToSet(answers[k]) \cap ToSet(B) = {}
  BY <1>2
<1>5. /\ answers[k] \o A \in Seq(Requests)
      /\ ToSet(answers[k] \o A) = ToSet(answers[k]) \cup ToSet(A)
      /\ Distinct(answers[k] \o A)
  BY <1>2, <1>3, <1>4, ConcatDistinct
<1>6. /\ answers' \in [Clients -> Seq(Requests)] /\ answers'[k] = answers[k] \o A
      /\ \A d \in Clients \ {k} : answers'[d] = answers[d]
  BY <1>1, <1>5 DEF LineTypes
<1>7. /\ outBuf' \in [Clients -> Seq(Requests)] /\ outBuf'[c] = B
      /\ \A d \in Clients \ {c} : outBuf'[d] = outBuf[d]
  BY <1>1 DEF LineTypes
<1>8. /\ ToSet(answers'[k]) \subseteq ToSet(answers[k]) \cup ToSet(out)
      /\ ToSet(outBuf'[c]) \cap ToSet(answers'[k]) = {}
  BY <1>2, <1>4, <1>5, <1>6, <1>7
<1> QED
  BY <1>2, <1>5, <1>6, <1>7, <1>8

LEMMA OutputCases ==
  ASSUME LineTypes, Net, NEW c \in Clients, Created(c), NEW out \in Seq(Requests),
         \/ answers' = answers /\ outBuf' = [outBuf EXCEPT ![c] = out]
         \/ answers' = answers /\ outBuf' = [outBuf EXCEPT ![c] = <<>>]
         \/ /\ Writable(connFd[c])
            /\ answers' = [answers EXCEPT ![fdTable[connFd[c]]] = @ \o out]
            /\ outBuf' = [outBuf EXCEPT ![c] = <<>>]
         \/ /\ Writable(connFd[c])
            /\ \E m \in 0..Len(out) :
                 /\ answers' = [answers EXCEPT ![fdTable[connFd[c]]] = @ \o SubSeq(out, 1, m)]
                 /\ outBuf' = [outBuf EXCEPT ![c] = SubSeq(out, m + 1, Len(out))]
  PROVE  Output(c, out)
<1> DEFINE f == connFd[c]
<1>1. <<>> \in Seq(Requests)
  BY EmptySeq
<1>2. Parts(<<>>, out, out) /\ Parts(out, <<>>, out) /\ Parts(<<>>, <<>>, out)
  BY <1>1 DEF Parts, ToSet, Distinct
<1>3. f \in Fds
  BY DEF Created, Net, NetTypes
<1>4. answers' = answers => answers' = [answers EXCEPT ![c] = @ \o <<>>]
  <2>1. answers[c] \o <<>> = answers[c]
    BY ConcatEmptySeq DEF LineTypes
  <2> QED
    BY <2>1 DEF LineTypes
<1>5. Writable(f) => fdTable[f] \in Clients
  BY <1>3, ReactorAssumption DEF Writable, Net, NetTypes
<1>6. CASE answers' = answers /\ outBuf' = [outBuf EXCEPT ![c] = out]
  BY <1>1, <1>2, <1>4, <1>6 DEF Output
<1>7. CASE answers' = answers /\ outBuf' = [outBuf EXCEPT ![c] = <<>>]
  BY <1>1, <1>2, <1>4, <1>7 DEF Output
<1>8. CASE /\ Writable(f)
           /\ answers' = [answers EXCEPT ![fdTable[f]] = @ \o out]
           /\ outBuf' = [outBuf EXCEPT ![c] = <<>>]
  BY <1>1, <1>2, <1>5, <1>8 DEF Output
<1>9. ASSUME Writable(f), NEW m \in 0..Len(out),
             answers' = [answers EXCEPT ![fdTable[f]] = @ \o SubSeq(out, 1, m)],
             outBuf' = [outBuf EXCEPT ![c] = SubSeq(out, m + 1, Len(out))]
      PROVE  Output(c, out)
  <2> DEFINE A == SubSeq(out, 1, m)
             B == SubSeq(out, m + 1, Len(out))
  <2>1. Parts(A, B, out)
    BY SplitDistinct
  <2>2. A \in Seq(Requests) /\ B \in Seq(Requests)
    BY <2>1 DEF Parts
  <2> HIDE DEF A, B
  <2>3. /\ answers' = [answers EXCEPT ![fdTable[f]] = @ \o A]
        /\ outBuf' = [outBuf EXCEPT ![c] = B]
    BY <1>9 DEF A, B
  <2> QED
    BY <1>5, <1>9, <2>1, <2>2, <2>3 DEF Output
<1> QED
  BY <1>6, <1>7, <1>8, <1>9

(* sendInLoop hands r to Output, behind what is there. *)
LEMMA SendOutputs ==
  ASSUME LineTypes, Net, NEW c \in Clients, Created(c), NEW r \in Requests, NEW after,
         Send(c, r, after)
  PROVE  Output(c, Append(outBuf[c], r))
<1> DEFINE out == Append(outBuf[c], r)
<1>1. out \in Seq(Requests)
  BY AppendDistinct DEF LineTypes
<1>2. \A m \in 0..Len(out) - 1 : m \in 0..Len(out)
  BY <1>1, LenProperties
<1>3. \/ answers' = answers /\ outBuf' = [outBuf EXCEPT ![c] = out]
      \/ answers' = answers /\ outBuf' = [outBuf EXCEPT ![c] = <<>>]
      \/ /\ Writable(connFd[c])
         /\ answers' = [answers EXCEPT ![fdTable[connFd[c]]] = @ \o out]
         /\ outBuf' = [outBuf EXCEPT ![c] = <<>>]
      \/ /\ Writable(connFd[c])
         /\ \E m \in 0..Len(out) - 1 :
              /\ answers' = [answers EXCEPT ![fdTable[connFd[c]]] = @ \o SubSeq(out, 1, m)]
              /\ outBuf' = [outBuf EXCEPT ![c] = SubSeq(out, m + 1, Len(out))]
  BY DEF Send
<1> HIDE DEF out
<1>4. Output(c, out)
  BY <1>1, <1>2, <1>3, OutputCases
<1> QED
  BY <1>4 DEF out

(* So does the refusal of r. *)
LEMMA RefusalOutputs ==
  ASSUME LineTypes, Net, NEW c \in Clients, RefuseRequest(c)
  PROVE  \E r \in Requests : ReadRequest(c, r) /\ Output(c, Append(outBuf[c], r))
<1>1. PICK r \in Requests :
        /\ ReadRequest(c, r)
        /\ \/ /\ outBuf' = [outBuf EXCEPT ![c] = Append(outBuf[c], r)]
              /\ answers' = answers
           \/ /\ Writable(connFd[c])
              /\ \E m \in (IF "slow" \in Env THEN 0 ELSE Len(Append(outBuf[c], r)))
                           ..Len(Append(outBuf[c], r)) :
                   /\ answers' = [answers EXCEPT ![fdTable[connFd[c]]] =
                                    @ \o SubSeq(Append(outBuf[c], r), 1, m)]
                   /\ outBuf' = [outBuf EXCEPT ![c] =
                                    SubSeq(Append(outBuf[c], r), m + 1, Len(Append(outBuf[c], r)))]
           \/ outBuf' = [outBuf EXCEPT ![c] = <<>>] /\ answers' = answers
  BY DEF RefuseRequest
<1> DEFINE out == Append(outBuf[c], r)
<1>2. out \in Seq(Requests)
  BY AppendDistinct DEF LineTypes
<1>3. Created(c)
  BY <1>1, OnChannelFacts DEF ReadRequest
<1>4. \A m \in (IF "slow" \in Env THEN 0 ELSE Len(out))..Len(out) : m \in 0..Len(out)
  BY <1>2, LenProperties
<1>5. \/ outBuf' = [outBuf EXCEPT ![c] = out] /\ answers' = answers
      \/ /\ Writable(connFd[c])
         /\ \E m \in (IF "slow" \in Env THEN 0 ELSE Len(out))..Len(out) :
              /\ answers' = [answers EXCEPT ![fdTable[connFd[c]]] = @ \o SubSeq(out, 1, m)]
              /\ outBuf' = [outBuf EXCEPT ![c] = SubSeq(out, m + 1, Len(out))]
      \/ outBuf' = [outBuf EXCEPT ![c] = <<>>] /\ answers' = answers
  BY <1>1
<1> HIDE DEF out
<1>6. Output(c, out)
  BY <1>2, <1>3, <1>4, <1>5, OutputCases
<1> QED
  BY <1>1, <1>6 DEF out

(* handleWrite outputs what is there. *)
LEMMA WriteOutputs ==
  ASSUME LineTypes, Net, NEW c \in Clients, HandleWrite(c)
  PROVE  Output(c, outBuf[c])
<1> DEFINE out == outBuf[c]
<1>1. out \in Seq(Requests) /\ outBuf = [outBuf EXCEPT ![c] = out]
  BY DEF LineTypes
<1>2. Created(c)
  BY OnChannelFacts DEF HandleWrite
<1>3. \A m \in 1..Len(out) - 1 : m \in 0..Len(out)
  BY <1>1, LenProperties
<1>4. \/ answers' = answers /\ outBuf' = outBuf
      \/ answers' = answers /\ outBuf' = [outBuf EXCEPT ![c] = <<>>]
      \/ /\ Writable(connFd[c])
         /\ answers' = [answers EXCEPT ![fdTable[connFd[c]]] = @ \o out]
         /\ outBuf' = [outBuf EXCEPT ![c] = <<>>]
      \/ /\ Writable(connFd[c])
         /\ \E m \in 1..Len(out) - 1 :
              /\ answers' = [answers EXCEPT ![fdTable[connFd[c]]] = @ \o SubSeq(out, 1, m)]
              /\ outBuf' = [outBuf EXCEPT ![c] = SubSeq(out, m + 1, Len(out))]
  BY DEF HandleWrite, WriteAll
<1> HIDE DEF out
<1>5. Output(c, out)
  BY <1>1, <1>2, <1>3, <1>4, OutputCases
<1> QED
  BY <1>5 DEF out

(* readFd and the parser take r and leave the rest, apart from it, with c. *)
LEMMA ReadMoves ==
  ASSUME LineTypes, OnePlace, Net, NEW c \in Clients, NEW r, ReadRequest(c, r)
  PROVE  \E k \in Clients :
           /\ r \in Requests /\ r \in ToSet(inBuf[c]) \cup ToSet(sock[k])
           /\ sock' \in [Clients -> Seq(Requests)] /\ inBuf' \in [Clients -> Seq(Requests)]
           /\ \A d \in Clients \ {k} : sock'[d] = sock[d]
           /\ \A d \in Clients \ {c} : inBuf'[d] = inBuf[d]
           /\ ToSet(sock'[k]) = {} /\ Distinct(sock'[k])
           /\ Distinct(inBuf'[c]) /\ r \notin ToSet(inBuf'[c])
           /\ ToSet(inBuf'[c]) \subseteq ToSet(inBuf[c]) \cup ToSet(sock[k])
<1>1. Created(c) /\ connFd[c] \in Fds
  BY OnChannelFacts DEF ReadRequest, Created, Net, NetTypes
<1>2. fdTable[connFd[c]] \in Clients
  BY <1>1 DEF ReadRequest, Net, NetTypes
<1>3. PICK k \in Clients : k = fdTable[connFd[c]]
  BY <1>2
<1> DEFINE s == inBuf[c] \o sock[k]
<1>4. /\ sock[k] # <<>> /\ r = Head(s)
      /\ sock' = [sock EXCEPT ![k] = <<>>]
      /\ inBuf' = [inBuf EXCEPT ![c] = Tail(s)]
  BY <1>3 DEF ReadRequest, LineTypes
<1>5. inBuf[c] \in Seq(Requests) /\ sock[k] \in Seq(Requests)
  BY DEF LineTypes
<1>6. Distinct(inBuf[c]) /\ Distinct(sock[k]) /\ ToSet(inBuf[c]) \cap ToSet(sock[k]) = {}
  <2>1. <<"in", c>> \in Places /\ <<"sock", k>> \in Places /\ <<"in", c>> # <<"sock", k>>
    BY ArePlaces
  <2> QED
    BY <2>1, AtPlaces DEF OnePlace
<1>7. /\ s \in Seq(Requests) /\ ToSet(s) = ToSet(inBuf[c]) \cup ToSet(sock[k])
      /\ Distinct(s)
  BY <1>5, <1>6, ConcatDistinct
<1>8. s # <<>>
  BY <1>4, <1>5, ConcatEqualIffEmpty
<1> HIDE DEF s
<1>9. /\ r \in ToSet(s) /\ r \in Requests /\ Tail(s) \in Seq(Requests)
      /\ ToSet(Tail(s)) \subseteq ToSet(s)
      /\ Distinct(Tail(s)) /\ r \notin ToSet(Tail(s))
  BY <1>4, <1>7, <1>8, PopDistinct
<1>10. /\ sock' \in [Clients -> Seq(Requests)] /\ sock'[k] = <<>>
       /\ \A d \in Clients \ {k} : sock'[d] = sock[d]
  BY <1>4, EmptySeq DEF LineTypes
<1>11. /\ inBuf' \in [Clients -> Seq(Requests)] /\ inBuf'[c] = Tail(s)
       /\ \A d \in Clients \ {c} : inBuf'[d] = inBuf[d]
  BY <1>4, <1>9 DEF LineTypes
<1>12. ToSet(<<>>) = {} /\ Distinct(<<>>)
  BY DEF ToSet, Distinct
<1> QED
  BY <1>7, <1>9, <1>10, <1>11, <1>12

(* Requests only go on: none comes back from answers or from an outputBuffer_. *)
Onward ==
    \A p \in Places : p[1] # "answers" => \A r \in Held(p)' :
        \E q \in Places : q[1] # "answers" /\ (q[1] = "out" => p[1] = "out") /\ r \in Held(q)

LEMMA MovedOnward ==
  ASSUME NEW S \in SUBSET Places, \A p \in S : p[1] \notin {"out", "answers"},
         \A p \in Places \ S : Held(p)' = Held(p),
         \A p \in S : \A r \in Held(p)' : \E q \in S : r \in Held(q)
  PROVE  Onward
<1> SUFFICES ASSUME NEW p \in Places, p[1] # "answers", NEW r \in Held(p)'
             PROVE  \E q \in Places : /\ q[1] # "answers" /\ (q[1] = "out" => p[1] = "out")
                                     /\ r \in Held(q)
  BY DEF Onward
<1>1. CASE p \in S
  BY <1>1
<1>2. CASE p \notin S
  BY <1>2
<1> QED
  BY <1>1, <1>2

(* An output together with changes at the places of T, from which its requests
   come. *)
LEMMA OutputStep ==
  ASSUME OInv, NEW c \in Clients, NEW out \in Seq(Requests), Output(c, out), Distinct(out),
         asked' = asked,
         NEW T \in SUBSET Places,
         \A p \in T : p[1] \notin {"out", "answers"},
         \A r \in ToSet(out) : \E q \in T \cup {<<"out", c>>} : r \in Held(q),
         \A p \in T : HeldOnce(p)' /\ \A r \in Held(p)' : r \notin ToSet(out) /\ \E q \in T : r \in Held(q),
         \A p, q \in T : p # q => Held(p)' \cap Held(q)' = {},
         \A d \in Clients : <<"sock", d>> \in T \/ sock'[d] = sock[d],
         \A d \in Clients : <<"in", d>> \in T \/ inBuf'[d] = inBuf[d],
         queue' = queue, working' = working, pending' = pending,
         <<"functors", None>> \in T \/ functors' = functors
  PROVE  /\ outBuf' \in [Clients -> Seq(Requests)] /\ answers' \in [Clients -> Seq(Requests)]
         /\ OnePlace' /\ HeldAreAsked' /\ Onward
         /\ \A p \in Places : p[1] \notin {"out", "answers"} => Held(p)' \cap ToSet(out) = {}
<1>0. /\ <<"out", c>> \notin T /\ \A k \in Clients : <<"answers", k>> \notin T
  OBVIOUS
<1>1. ASSUME NEW k \in Clients PROVE ToSet(out) \cap ToSet(answers[k]) = {}
  <2>1. ASSUME NEW r \in ToSet(out) PROVE r \notin ToSet(answers[k])
    <3>1. PICK q \in T \cup {<<"out", c>>} : r \in Held(q)
      BY <2>1
    <3>2. q \in Places /\ <<"answers", k>> \in Places /\ q # <<"answers", k>>
      <4>1. <<"answers", k>> \in Places /\ <<"out", c>> \in Places
        BY ArePlaces
      <4>2. <<"answers", k>> # <<"out", c>> /\ <<"answers", k>> \notin T
        BY <1>0
      <4> QED
        BY <4>1, <4>2
    <3>3. r \notin Held(<<"answers", k>>)
      BY <3>1, <3>2 DEF OInv, OnePlace
    <3> QED
      BY <3>3, AtPlaces
  <2> QED
    BY <2>1
<1>2. /\ outBuf' \in [Clients -> Seq(Requests)] /\ answers' \in [Clients -> Seq(Requests)]
      /\ \A d \in Clients \ {c} : outBuf'[d] = outBuf[d]
      /\ Distinct(outBuf'[c]) /\ ToSet(outBuf'[c]) \subseteq ToSet(out)
      /\ \E k \in Clients :
           /\ \A d \in Clients \ {k} : answers'[d] = answers[d]
           /\ Distinct(answers'[k])
           /\ ToSet(answers'[k]) \subseteq ToSet(answers[k]) \cup ToSet(out)
           /\ ToSet(outBuf'[c]) \cap ToSet(answers'[k]) = {}
  BY <1>1, OutputMoves DEF OInv
<1>3. PICK k \in Clients :
        /\ \A d \in Clients \ {k} : answers'[d] = answers[d]
        /\ Distinct(answers'[k])
        /\ ToSet(answers'[k]) \subseteq ToSet(answers[k]) \cup ToSet(out)
        /\ ToSet(outBuf'[c]) \cap ToSet(answers'[k]) = {}
  BY <1>2
<1> DEFINE o == <<"out", c>>
           a == <<"answers", k>>
           S == T \cup {o, a}
<1>4. /\ o \in Places /\ a \in Places /\ o # a /\ a \notin T /\ o \notin T /\ S \in SUBSET Places
      /\ o[1] = "out" /\ a[1] = "answers"
  BY <1>0, ArePlaces
<1>5. /\ Held(o) = ToSet(outBuf[c]) /\ Held(a) = ToSet(answers[k])
      /\ Held(o)' = ToSet(outBuf'[c]) /\ Held(a)' = ToSet(answers'[k])
      /\ HeldOnce(o)' /\ HeldOnce(a)'
  BY <1>2, <1>3, AtPlaces, AtPlacesNext
<1>6. \A p \in Places \ S : Held(p)' = Held(p) /\ HeldOnce(p)' = HeldOnce(p)
  <2>1. \A d \in Clients : <<"out", d>> \in S \/ outBuf'[d] = outBuf[d]
    BY <1>2
  <2>2. \A d \in Clients : <<"answers", d>> \in S \/ answers'[d] = answers[d]
    BY <1>3
  <2>3. T \subseteq S
    OBVIOUS
  <2> HIDE DEF S
  <2> QED
    BY <1>4, <2>1, <2>2, <2>3, Elsewhere
<1> HIDE DEF o, a
<1>7. \A r \in ToSet(out) : \E q \in S : r \in Held(q)
  BY DEF o
<1>8. ASSUME NEW p \in S
      PROVE  HeldOnce(p)' /\ \A r \in Held(p)' : \E q \in S : r \in Held(q)
  <2>1. CASE p = o
    BY <1>2, <1>5, <1>7, <2>1
  <2>2. CASE p = a
    BY <1>3, <1>5, <1>7, <2>2
  <2>3. CASE p \in T
    BY <2>3
  <2> QED
    BY <2>1, <2>2, <2>3
<1>9. \A p \in T : Held(p)' \cap Held(o)' = {} /\ Held(p)' \cap Held(a)' = {}
  <2>1. ASSUME NEW p \in T, NEW r \in Held(p)' PROVE r \notin Held(o)' /\ r \notin Held(a)'
    <3>1. r \notin ToSet(out)
      BY <2>1
    <3>2. r \notin Held(a)
      <4>1. PICK q \in T : r \in Held(q)
        BY <2>1
      <4> QED
        BY <1>4, <4>1 DEF OInv, OnePlace
    <3> QED
      BY <1>2, <1>3, <1>5, <3>1, <3>2
  <2> QED
    BY <2>1
<1>10. Held(o)' \cap Held(a)' = {}
  BY <1>3, <1>5
<1>11. \A p, q \in S : p # q => Held(p)' \cap Held(q)' = {}
  BY <1>9, <1>10
<1>12. ASSUME NEW p \in Places, p[1] # "answers", NEW r \in Held(p)'
       PROVE  \E q \in Places : /\ q[1] # "answers" /\ (q[1] = "out" => p[1] = "out")
                               /\ r \in Held(q)
  <2>1. CASE p = o
    <3>1. r \in ToSet(out)
      BY <1>2, <1>5, <1>12, <2>1
    <3>2. PICK q \in T \cup {o} : r \in Held(q)
      BY <3>1 DEF o
    <3> QED
      BY <1>4, <2>1, <3>2
  <2>2. CASE p \in T
    <3>1. PICK q \in T : r \in Held(q)
      BY <1>12, <2>2
    <3> QED
      BY <3>1
  <2>3. CASE p \notin S
    BY <1>6, <1>12, <2>3
  <2> QED
    BY <1>4, <1>12, <2>1, <2>2, <2>3
<1>13. ASSUME NEW p \in Places, p[1] \notin {"out", "answers"}
       PROVE  Held(p)' \cap ToSet(out) = {}
  <2>1. CASE p \in T
    BY <2>1
  <2>2. CASE p \notin T
    <3>1. p # o /\ p # a /\ Held(p)' = Held(p)
      BY <1>4, <1>6, <1>13, <2>2
    <3>2. ASSUME NEW r \in ToSet(out) PROVE r \notin Held(p)
      <4>1. PICK q \in T \cup {o} : r \in Held(q)
        BY <3>2 DEF o
      <4>2. q # p /\ q \in Places
        BY <1>4, <2>2, <3>1
      <4> QED
        BY <4>1, <4>2 DEF OInv, OnePlace
    <3> QED
      BY <3>1, <3>2
  <2> QED
    BY <2>1, <2>2
<1> HIDE DEF S
<1>14. OnePlace' /\ HeldAreAsked'
  BY <1>4, <1>6, <1>8, <1>11, Moved DEF OInv
<1> QED
  BY <1>2, <1>12, <1>13, <1>14 DEF Onward

-----------------------------------------------------------------------------
(* The actions as moves. *)

(* A request read and output at once. *)
LEMMA ReadAndOutput ==
  ASSUME OInv, Net, NEW c \in Clients, NEW r \in Requests, ReadRequest(c, r),
         Output(c, Append(outBuf[c], r)), queue' = queue
  PROVE  /\ OInv' /\ Onward
         /\ \A p \in Places : p[1] \notin {"out", "answers"} =>
              Held(p)' \cap ToSet(Append(outBuf[c], r)) = {}
<1>1. PICK k \in Clients :
        /\ r \in Requests /\ r \in ToSet(inBuf[c]) \cup ToSet(sock[k])
        /\ sock' \in [Clients -> Seq(Requests)] /\ inBuf' \in [Clients -> Seq(Requests)]
        /\ \A d \in Clients \ {k} : sock'[d] = sock[d]
        /\ \A d \in Clients \ {c} : inBuf'[d] = inBuf[d]
        /\ ToSet(sock'[k]) = {} /\ Distinct(sock'[k])
        /\ Distinct(inBuf'[c]) /\ r \notin ToSet(inBuf'[c])
        /\ ToSet(inBuf'[c]) \subseteq ToSet(inBuf[c]) \cup ToSet(sock[k])
  BY ReadMoves DEF OInv
<1>2. UNCHANGED <<asked, working, pending, functors>>
  BY OnChannelFacts DEF ReadRequest, OnChannel
<1> DEFINE s == <<"sock", k>>
           i == <<"in", c>>
           o == <<"out", c>>
           T == {s, i}
           out == Append(outBuf[c], r)
<1>3. /\ s \in Places /\ i \in Places /\ o \in Places /\ T \in SUBSET Places
      /\ s # i /\ s # o /\ i # o
  BY ArePlaces
<1>t. \A p \in T : p[1] \notin {"out", "answers"}
  OBVIOUS
<1>4. /\ Held(s) = ToSet(sock[k]) /\ Held(i) = ToSet(inBuf[c]) /\ Held(o) = ToSet(outBuf[c])
      /\ HeldOnce(o) = Distinct(outBuf[c])
      /\ Held(s)' = ToSet(sock'[k]) /\ Held(i)' = ToSet(inBuf'[c])
      /\ HeldOnce(s)' = Distinct(sock'[k]) /\ HeldOnce(i)' = Distinct(inBuf'[c])
  BY AtPlaces, AtPlacesNext
<1>5. /\ \A d \in Clients : <<"sock", d>> \in T \/ sock'[d] = sock[d]
      /\ \A d \in Clients : <<"in", d>> \in T \/ inBuf'[d] = inBuf[d]
  BY <1>1
<1> HIDE DEF s, i, o
<1>6. (Held(s) \cup Held(i)) \cap Held(o) = {} /\ Distinct(outBuf[c])
  BY <1>3, <1>4 DEF OInv, OnePlace
<1>7. outBuf[c] \in Seq(Requests)
  BY DEF OInv, LineTypes
<1>8. /\ out \in Seq(Requests) /\ ToSet(out) = ToSet(outBuf[c]) \cup {r} /\ Distinct(out)
  <2>1. r \notin ToSet(outBuf[c])
    BY <1>1, <1>4, <1>6
  <2> QED
    BY <1>6, <1>7, <2>1, AppendDistinct
<1>9. \E q \in T : r \in Held(q)
  BY <1>1, <1>4
<1>10. \A x \in ToSet(out) : \E q \in T \cup {o} : x \in Held(q)
  BY <1>4, <1>8, <1>9
<1>11. ASSUME NEW p \in T
       PROVE  HeldOnce(p)' /\ \A x \in Held(p)' : x \notin ToSet(out) /\ \E q \in T : x \in Held(q)
  <2>1. CASE p = s
    BY <1>1, <1>4, <2>1
  <2>2. CASE p = i
    <3>1. HeldOnce(i)' /\ \A x \in Held(i)' : \E y \in T : x \in Held(y)
      BY <1>1, <1>4
    <3>2. ASSUME NEW x \in Held(i)' PROVE x \notin ToSet(out)
      <4>1. x # r
        BY <1>1, <1>4, <3>2
      <4>2. x \notin ToSet(outBuf[c])
        BY <1>1, <1>4, <1>6, <3>2
      <4> QED
        BY <1>8, <4>1, <4>2
    <3> QED
      BY <2>2, <3>1, <3>2
  <2> QED
    BY <2>1, <2>2
<1>12. \A p, q \in T : p # q => Held(p)' \cap Held(q)' = {}
  BY <1>1, <1>4
<1> HIDE DEF T, out
<1>13. /\ outBuf' \in [Clients -> Seq(Requests)] /\ answers' \in [Clients -> Seq(Requests)]
       /\ OnePlace' /\ HeldAreAsked' /\ Onward
       /\ \A p \in Places : p[1] \notin {"out", "answers"} => Held(p)' \cap ToSet(out) = {}
  <2>1. Output(c, out)
    BY DEF out
  <2> QED
    BY <1>2, <1>3, <1>t, <1>5, <1>8, <1>10, <1>11, <1>12, <2>1, OutputStep DEF o
<1> QED
  BY <1>1, <1>2, <1>13 DEF OInv, LineTypes, out

(* A request read that goes to the pool, or is lost because that is full. *)
LEMMA ReadAndSubmit ==
  ASSUME OInv, Net, TaskTypes, NEW c \in Clients, SubmitRequest(c) \/ OverflowPool(c)
  PROVE  OInv' /\ Onward
<1>1. PICK r \in Requests :
        /\ ReadRequest(c, r)
        /\ queue' = queue \/ queue' = Append(queue, [conn |-> c, req |-> r])
  BY DEF SubmitRequest, OverflowPool
<1>2. PICK k \in Clients :
        /\ r \in Requests /\ r \in ToSet(inBuf[c]) \cup ToSet(sock[k])
        /\ sock' \in [Clients -> Seq(Requests)] /\ inBuf' \in [Clients -> Seq(Requests)]
        /\ \A d \in Clients \ {k} : sock'[d] = sock[d]
        /\ \A d \in Clients \ {c} : inBuf'[d] = inBuf[d]
        /\ ToSet(sock'[k]) = {} /\ Distinct(sock'[k])
        /\ Distinct(inBuf'[c]) /\ r \notin ToSet(inBuf'[c])
        /\ ToSet(inBuf'[c]) \subseteq ToSet(inBuf[c]) \cup ToSet(sock[k])
  BY <1>1, ReadMoves DEF OInv
<1>3. UNCHANGED <<asked, working, pending, functors, outBuf, answers>>
  BY <1>1, OnChannelFacts DEF ReadRequest, OnChannel, SubmitRequest, OverflowPool
<1> DEFINE s == <<"sock", k>>
           i == <<"in", c>>
           q == <<"queue", None>>
           S == {s, i, q}
<1>4. /\ s \in Places /\ i \in Places /\ q \in Places /\ S \in SUBSET Places
      /\ s # i /\ s # q /\ i # q
  BY ArePlaces
<1>t. \A p \in S : p[1] \notin {"out", "answers"}
  OBVIOUS
<1>5. /\ Held(s) = ToSet(sock[k]) /\ Held(i) = ToSet(inBuf[c]) /\ Held(q) = Waiting(queue)
      /\ HeldOnce(q) = WaitingOnce(queue)
      /\ Held(s)' = ToSet(sock'[k]) /\ Held(i)' = ToSet(inBuf'[c]) /\ Held(q)' = Waiting(queue')
      /\ HeldOnce(s)' = Distinct(sock'[k]) /\ HeldOnce(i)' = Distinct(inBuf'[c])
      /\ HeldOnce(q)' = WaitingOnce(queue')
  BY AtPlaces, AtPlacesNext
<1>6. (Held(s) \cup Held(i)) \cap Held(q) = {} /\ WaitingOnce(queue)
  BY <1>4, <1>5 DEF OInv, OnePlace
<1>7. Waiting(queue') \subseteq Waiting(queue) \cup {r} /\ WaitingOnce(queue')
  <2>1. CASE queue' = queue
    BY <1>6, <2>1
  <2>2. CASE queue' = Append(queue, [conn |-> c, req |-> r])
    <3>1. [conn |-> c, req |-> r] \in Tasks /\ queue \in Seq(Tasks)
      BY DEF Tasks, TaskTypes
    <3>2. r \notin Waiting(queue)
      BY <1>2, <1>5, <1>6
    <3>3. PICK t \in Tasks : t = [conn |-> c, req |-> r] /\ t.req = r
      BY <3>1
    <3> QED
      BY <1>6, <2>2, <3>1, <3>2, <3>3, SubmitOnce
  <2> QED
    BY <1>1, <2>1, <2>2
<1>8. \A p \in Places \ S : Held(p)' = Held(p) /\ HeldOnce(p)' = HeldOnce(p)
  <2>1. /\ \A d \in Clients : <<"sock", d>> \in S \/ sock'[d] = sock[d]
        /\ \A d \in Clients : <<"in", d>> \in S \/ inBuf'[d] = inBuf[d]
        /\ <<"queue", None>> \in S
    BY <1>2
  <2> HIDE DEF S
  <2> QED
    BY <1>3, <1>4, <2>1, Elsewhere
<1> HIDE DEF s, i, q
<1>9. /\ HeldOnce(s)' /\ HeldOnce(i)' /\ HeldOnce(q)'
      /\ Held(s)' = {} /\ Held(i)' \subseteq Held(i) \cup Held(s)
      /\ Held(q)' \subseteq Held(q) \cup Held(i) \cup Held(s)
      /\ Held(i)' \cap Held(q)' = {}
  <2>1. HeldOnce(s)' /\ HeldOnce(i)' /\ HeldOnce(q)' /\ Held(s)' = {}
    BY <1>2, <1>5, <1>7
  <2>2. Held(i)' \subseteq Held(i) \cup Held(s)
    BY <1>2, <1>5
  <2>3. r \in Held(i) \cup Held(s) /\ r \notin Held(i)'
    BY <1>2, <1>5
  <2>4. Held(q)' \subseteq Held(q) \cup {r}
    BY <1>5, <1>7
  <2>5. Held(i)' \cap Held(q)' = {}
    BY <1>6, <2>2, <2>3, <2>4
  <2> QED
    BY <2>1, <2>2, <2>3, <2>4, <2>5
<1>10. \A p \in S : HeldOnce(p)' /\ \A x \in Held(p)' : \E y \in S : x \in Held(y)
  BY <1>9
<1>11. \A x, y \in S : x # y => Held(x)' \cap Held(y)' = {}
  BY <1>9
<1> HIDE DEF S
<1>12. OnePlace' /\ HeldAreAsked' /\ Onward
  BY <1>3, <1>4, <1>t, <1>8, <1>10, <1>11, Moved, MovedOnward DEF OInv
<1> QED
  BY <1>2, <1>3, <1>12 DEF OInv, LineTypes

LEMMA HandleWriteMoves ==
  ASSUME OInv, Net, NEW c \in Clients, HandleWrite(c)
  PROVE  /\ OInv' /\ Onward
         /\ \A p \in Places : p[1] \notin {"out", "answers"} =>
              Held(p)' \cap ToSet(outBuf[c]) = {}
<1>1. Output(c, outBuf[c])
  BY WriteOutputs DEF OInv
<1>2. UNCHANGED <<asked, sock, inBuf, queue, working, pending, functors>>
  BY OnChannelFacts DEF HandleWrite, OnChannel
<1> DEFINE o == <<"out", c>>
           T == {}
<1>3. o \in Places /\ Held(o) = ToSet(outBuf[c]) /\ HeldOnce(o) = Distinct(outBuf[c])
  BY ArePlaces, AtPlaces
<1>4. outBuf[c] \in Seq(Requests) /\ Distinct(outBuf[c])
  BY <1>3 DEF OInv, LineTypes, OnePlace
<1>5. /\ \A r \in ToSet(outBuf[c]) : \E q \in T \cup {o} : r \in Held(q)
      /\ T \in SUBSET Places /\ \A p \in T : p # p
  BY <1>3
<1> HIDE DEF T
<1>6. /\ outBuf' \in [Clients -> Seq(Requests)] /\ answers' \in [Clients -> Seq(Requests)]
      /\ OnePlace' /\ HeldAreAsked' /\ Onward
      /\ \A p \in Places : p[1] \notin {"out", "answers"} =>
           Held(p)' \cap ToSet(outBuf[c]) = {}
  BY <1>1, <1>2, <1>4, <1>5, OutputStep
<1> QED
  BY <1>2, <1>6 DEF OInv, LineTypes

LEMMA RunSendMoves ==
  ASSUME OInv, Net, TaskTypes, RunSend
  PROVE  /\ OInv' /\ Onward
         /\ \A p \in Places : p[1] \notin {"out", "answers"} =>
              Held(p)' \cap ToSet(Append(outBuf[Target], Head(functors).task.req)) = {}
<1>1. /\ functors \in Seq(Calls) /\ functors # <<>> /\ functors' = Tail(functors)
      /\ Head(functors).call = "send"
  BY DEF RunSend, InFunctor, TaskTypes
<1>2. /\ Head(functors) \in Calls
      /\ Head(functors).task.req \in Sending(functors)
      /\ Sending(Tail(functors)) \subseteq Sending(functors)
      /\ SendingOnce(functors) =>
           /\ SendingOnce(Tail(functors))
           /\ Head(functors).task.req \notin Sending(Tail(functors))
  BY <1>1, RunOnce
<1>3. PICK c \in Clients, r \in Requests : c = Target /\ r = Head(functors).task.req
  BY <1>2 DEF Target, Calls, Tasks
<1>4. Created(c) /\ Send(c, r, "nothing")
  BY <1>3 DEF RunSend, Alive
<1>5. UNCHANGED <<asked, sock, inBuf, queue, working, pending>>
  BY DEF RunSend, pool
<1>6. Output(c, Append(outBuf[c], r))
  BY <1>4, SendOutputs DEF OInv
<1> DEFINE f == <<"functors", None>>
           o == <<"out", c>>
           T == {f}
           out == Append(outBuf[c], r)
<1>7. /\ f \in Places /\ o \in Places /\ f # o /\ T \in SUBSET Places
      /\ Held(f) = Sending(functors) /\ HeldOnce(f) = SendingOnce(functors)
      /\ Held(f)' = Sending(functors') /\ HeldOnce(f)' = SendingOnce(functors')
      /\ Held(o) = ToSet(outBuf[c]) /\ HeldOnce(o) = Distinct(outBuf[c])
  BY ArePlaces, AtPlaces, AtPlacesNext
<1>t. \A p \in T : p[1] \notin {"out", "answers"}
  OBVIOUS
<1> HIDE DEF f, o
<1>8. /\ HeldOnce(f) /\ HeldOnce(o) /\ Held(f) \cap Held(o) = {}
  BY <1>7 DEF OInv, OnePlace
<1>9. outBuf[c] \in Seq(Requests) /\ r \notin ToSet(outBuf[c])
  BY <1>2, <1>3, <1>7, <1>8 DEF OInv, LineTypes
<1>10. out \in Seq(Requests) /\ ToSet(out) = ToSet(outBuf[c]) \cup {r} /\ Distinct(out)
  BY <1>7, <1>8, <1>9, AppendDistinct
<1>11. HeldOnce(f)' /\ r \notin Held(f)' /\ Held(f)' \subseteq Held(f) /\ r \in Held(f)
  BY <1>1, <1>2, <1>3, <1>7, <1>8
<1>12. \A x \in ToSet(out) : \E q \in T \cup {o} : x \in Held(q)
  BY <1>7, <1>10, <1>11
<1>13. \A p \in T : HeldOnce(p)' /\ \A x \in Held(p)' : x \notin ToSet(out) /\ \E q \in T : x \in Held(q)
  BY <1>7, <1>8, <1>10, <1>11
<1>14. \A p, q \in T : p # q => Held(p)' \cap Held(q)' = {}
  OBVIOUS
<1>15. <<"functors", None>> \in T
  BY DEF f
<1> HIDE DEF T, out
<1>16. /\ outBuf' \in [Clients -> Seq(Requests)] /\ answers' \in [Clients -> Seq(Requests)]
       /\ OnePlace' /\ HeldAreAsked' /\ Onward
       /\ \A p \in Places : p[1] \notin {"out", "answers"} => Held(p)' \cap ToSet(out) = {}
  <2>1. Output(c, out)
    BY <1>6 DEF out
  <2> QED
    BY <1>5, <1>7, <1>t, <1>10, <1>12, <1>13, <1>14, <1>15, <2>1, OutputStep DEF o
<1> QED
  BY <1>3, <1>5, <1>16 DEF OInv, LineTypes, out

(* Moves between two places x and y that belong to no client. *)
LEMMA PoolMoves ==
  ASSUME OInv, NEW x \in Places, NEW y \in Places, x # y,
         x[1] \notin {"out", "answers"}, y[1] \notin {"out", "answers"},
         UNCHANGED <<asked, sock, inBuf, outBuf, answers>>,
         \A p \in Places \ {x, y} : Held(p)' = Held(p) /\ HeldOnce(p)' = HeldOnce(p),
         HeldOnce(x)', HeldOnce(y)', Held(x)' \cap Held(y)' = {},
         Held(x)' \subseteq Held(x), Held(y)' \subseteq Held(x) \cup Held(y)
  PROVE  OInv' /\ Onward
<1> DEFINE S == {x, y}
<1>1. S \in SUBSET Places
  OBVIOUS
<1>2. \A p \in S : HeldOnce(p)' /\ \A r \in Held(p)' : \E q \in S : r \in Held(q)
  OBVIOUS
<1>3. \A p, q \in S : p # q => Held(p)' \cap Held(q)' = {}
  OBVIOUS
<1>4. \A p \in Places \ S : Held(p)' = Held(p) /\ HeldOnce(p)' = HeldOnce(p)
  OBVIOUS
<1>5. \A p \in S : p[1] \notin {"out", "answers"}
  OBVIOUS
<1> HIDE DEF S
<1>6. OnePlace' /\ HeldAreAsked' /\ Onward
  BY <1>1, <1>2, <1>3, <1>4, <1>5, Moved, MovedOnward DEF OInv
<1> QED
  BY <1>6 DEF OInv, LineTypes

LEMMA TakeMoves ==
  ASSUME OInv, TaskTypes, TakeRequest
  PROVE  OInv' /\ Onward
<1> DEFINE x == <<"queue", None>>
           y == <<"working", None>>
           t == Head(queue)
           v == [task |-> t, todo |-> "dispatch"]
<1>1. /\ queue \in Seq(Tasks) /\ queue # <<>> /\ queue' = Tail(queue)
      /\ working' = working \cup {v}
      /\ UNCHANGED <<asked, sock, inBuf, outBuf, answers, pending, functors>>
  BY DEF TakeRequest, TaskTypes, kernel, objects, loop
<1>2. /\ x \in Places /\ y \in Places /\ x # y /\ {x, y} \in SUBSET Places
      /\ x[1] \notin {"out", "answers"} /\ y[1] \notin {"out", "answers"}
      /\ Held(x) = Waiting(queue) /\ HeldOnce(x) = WaitingOnce(queue)
      /\ Held(x)' = Waiting(queue') /\ HeldOnce(x)' = WaitingOnce(queue')
      /\ Held(y) = Dispatching(working) /\ HeldOnce(y) = DispatchingOnce(working)
      /\ Held(y)' = Dispatching(working') /\ HeldOnce(y)' = DispatchingOnce(working')
  BY ArePlaces, AtPlaces, AtPlacesNext
<1>3. \A p \in Places \ {x, y} : Held(p)' = Held(p) /\ HeldOnce(p)' = HeldOnce(p)
  BY <1>1, <1>2, Elsewhere
<1> HIDE DEF x, y, t
<1>4. HeldOnce(x) /\ HeldOnce(y) /\ Held(x) \cap Held(y) = {}
  BY <1>2 DEF OInv, OnePlace
<1>5. /\ t.req \in Waiting(queue)
      /\ Waiting(queue') \subseteq Waiting(queue)
      /\ WaitingOnce(queue') /\ t.req \notin Waiting(queue')
  BY <1>1, <1>2, <1>4, TakeOnce DEF t
<1>6. t.req \notin Dispatching(working)
  BY <1>2, <1>4, <1>5
<1>7. Dispatching(working') \subseteq Dispatching(working) \cup {t.req}
  BY <1>1 DEF Dispatching
<1>8. DispatchingOnce(working')
  <2>1. \A w \in working : w.todo = "dispatch" => w.task.req # t.req
    BY <1>6 DEF Dispatching
  <2>2. DispatchingOnce(working)
    BY <1>2, <1>4
  <2>3. v.task.req = t.req
    OBVIOUS
  <2> HIDE DEF v
  <2> QED
    BY <1>1, <2>1, <2>2, <2>3 DEF DispatchingOnce
<1>9. /\ HeldOnce(x)' /\ HeldOnce(y)' /\ Held(x)' \cap Held(y)' = {}
      /\ Held(x)' \subseteq Held(x) /\ Held(y)' \subseteq Held(x) \cup Held(y)
  BY <1>2, <1>4, <1>5, <1>6, <1>7, <1>8
<1> QED
  BY <1>1, <1>2, <1>3, <1>9, PoolMoves

LEMMA DispatchMoves ==
  ASSUME OInv, TaskTypes, NEW w \in working, Dispatch(w) \/ ShutdownAfterSend(w)
  PROVE  OInv' /\ Onward
<1> DEFINE x == <<"working", None>>
           y == <<"pending", None>>
<1>1. w \in Workings /\ w.task \in Tasks /\ pending \in Seq(Calls) /\ working \subseteq Workings
  BY DEF TaskTypes, Workings
<1>2. PICK todo \in {"release", "shutdown"} : working' = (working \ {w}) \cup {[w EXCEPT !.todo = todo]}
  BY DEF Dispatch, ShutdownAfterSend, Proceed
<1>3. PICK v : v = [w EXCEPT !.todo = todo] /\ v.todo = todo
  <2>1. [w EXCEPT !.todo = todo].todo = todo
    BY <1>1 DEF Workings
  <2> QED
    BY <2>1
<1>4. UNCHANGED <<asked, sock, inBuf, outBuf, answers, queue, functors>>
  BY DEF Dispatch, ShutdownAfterSend, kernel, objects
<1>5. \/ pending' = pending
      \/ /\ w.todo = "dispatch"
         /\ pending' = Append(pending, [call |-> "send", task |-> w.task])
      \/ pending' = Append(pending, [call |-> "shutdown", task |-> w.task])
  BY DEF Dispatch, ShutdownAfterSend
<1>6. /\ x \in Places /\ y \in Places /\ x # y /\ {x, y} \in SUBSET Places
      /\ x[1] \notin {"out", "answers"} /\ y[1] \notin {"out", "answers"}
      /\ Held(x) = Dispatching(working) /\ HeldOnce(x) = DispatchingOnce(working)
      /\ Held(x)' = Dispatching(working') /\ HeldOnce(x)' = DispatchingOnce(working')
      /\ Held(y) = Sending(pending) /\ HeldOnce(y) = SendingOnce(pending)
      /\ Held(y)' = Sending(pending') /\ HeldOnce(y)' = SendingOnce(pending')
  BY ArePlaces, AtPlaces, AtPlacesNext
<1>7. \A p \in Places \ {x, y} : Held(p)' = Held(p) /\ HeldOnce(p)' = HeldOnce(p)
  BY <1>4, <1>6, Elsewhere
<1> HIDE DEF x, y
<1>8. HeldOnce(x) /\ HeldOnce(y) /\ Held(x) \cap Held(y) = {}
  BY <1>6 DEF OInv, OnePlace
<1>9. \A u \in working' : u.todo = "dispatch" => u \in working /\ u # w
  BY <1>2, <1>3
<1>10. DispatchingOnce(working') /\ Dispatching(working') \subseteq Dispatching(working)
  BY <1>6, <1>8, <1>9 DEF DispatchingOnce, Dispatching
<1>11. w.todo = "dispatch" =>
         /\ w.task.req \in Dispatching(working) /\ w.task.req \notin Dispatching(working')
  BY <1>6, <1>8, <1>9 DEF DispatchingOnce, Dispatching
<1>12. /\ SendingOnce(pending')
       /\ \/ Sending(pending') \subseteq Sending(pending)
          \/ /\ w.todo = "dispatch"
             /\ Sending(pending') \subseteq Sending(pending) \cup {w.task.req}
  <2>1. CASE pending' = pending
    BY <1>6, <1>8, <2>1
  <2>2. CASE /\ w.todo = "dispatch"
             /\ pending' = Append(pending, [call |-> "send", task |-> w.task])
    <3> DEFINE a == [call |-> "send", task |-> w.task]
    <3>1. a \in Calls /\ a.call = "send" /\ a.task.req = w.task.req
      BY <1>1 DEF Calls
    <3>2. w.task.req \notin Sending(pending)
      BY <1>6, <1>8, <1>11, <2>2
    <3>3. pending' = Append(pending, a)
      BY <2>2
    <3> HIDE DEF a
    <3> QED
      BY <1>1, <1>6, <1>8, <2>2, <3>1, <3>2, <3>3, QueueOnce
  <2>3. CASE pending' = Append(pending, [call |-> "shutdown", task |-> w.task])
    <3> DEFINE a == [call |-> "shutdown", task |-> w.task]
    <3>1. a \in Calls /\ a.call # "send"
      BY <1>1 DEF Calls
    <3>2. pending' = Append(pending, a)
      BY <2>3
    <3> HIDE DEF a
    <3> QED
      BY <1>1, <1>6, <1>8, <3>1, <3>2, QueueOnce
  <2> QED
    BY <1>5, <2>1, <2>2, <2>3
<1>13. /\ HeldOnce(x)' /\ HeldOnce(y)' /\ Held(x)' \cap Held(y)' = {}
       /\ Held(x)' \subseteq Held(x) /\ Held(y)' \subseteq Held(x) \cup Held(y)
  BY <1>6, <1>8, <1>10, <1>11, <1>12
<1> QED
  BY <1>4, <1>6, <1>7, <1>13, PoolMoves

LEMMA ReleaseMoves ==
  ASSUME OInv, TaskTypes, NEW w \in working, Release(w)
  PROVE  OInv' /\ Onward
<1> DEFINE x == <<"working", None>>
           y == <<"pending", None>>
<1>1. /\ working' = working \ {w}
      /\ UNCHANGED <<asked, sock, inBuf, outBuf, answers, queue, pending, functors>>
  BY DEF Release, kernel, objects, loop
<1>2. /\ x \in Places /\ y \in Places /\ x # y /\ {x, y} \in SUBSET Places
      /\ x[1] \notin {"out", "answers"} /\ y[1] \notin {"out", "answers"}
      /\ Held(x) = Dispatching(working) /\ HeldOnce(x) = DispatchingOnce(working)
      /\ Held(x)' = Dispatching(working') /\ HeldOnce(x)' = DispatchingOnce(working')
      /\ Held(y) = Sending(pending) /\ HeldOnce(y) = SendingOnce(pending)
      /\ Held(y)' = Sending(pending') /\ HeldOnce(y)' = SendingOnce(pending')
  BY ArePlaces, AtPlaces, AtPlacesNext
<1>3. \A p \in Places \ {x, y} : Held(p)' = Held(p) /\ HeldOnce(p)' = HeldOnce(p)
  BY <1>1, <1>2, Elsewhere
<1> HIDE DEF x, y
<1>4. HeldOnce(x) /\ HeldOnce(y) /\ Held(x) \cap Held(y) = {}
  BY <1>2 DEF OInv, OnePlace
<1>5. DispatchingOnce(working') /\ Dispatching(working') \subseteq Dispatching(working)
  BY <1>1, <1>2, <1>4 DEF DispatchingOnce, Dispatching
<1>6. Held(y)' = Held(y) /\ HeldOnce(y)'
  BY <1>1, <1>2, <1>4
<1> QED
  BY <1>1, <1>2, <1>3, <1>4, <1>5, <1>6, PoolMoves

LEMMA SwapMoves ==
  ASSUME OInv, TaskTypes, SwapFunctors
  PROVE  OInv' /\ Onward
<1> DEFINE x == <<"pending", None>>
           y == <<"functors", None>>
<1>1. /\ functors' = pending /\ pending' = <<>>
      /\ UNCHANGED <<asked, sock, inBuf, outBuf, answers, queue, working>>
  BY DEF SwapFunctors, kernel, objects, pool
<1>2. /\ x \in Places /\ y \in Places /\ x # y /\ {x, y} \in SUBSET Places
      /\ x[1] \notin {"out", "answers"} /\ y[1] \notin {"out", "answers"}
      /\ Held(x) = Sending(pending) /\ HeldOnce(x) = SendingOnce(pending)
      /\ Held(x)' = Sending(pending') /\ HeldOnce(x)' = SendingOnce(pending')
      /\ Held(y)' = Sending(functors') /\ HeldOnce(y)' = SendingOnce(functors')
  BY ArePlaces, AtPlaces, AtPlacesNext
<1>3. \A p \in Places \ {x, y} : Held(p)' = Held(p) /\ HeldOnce(p)' = HeldOnce(p)
  BY <1>1, <1>2, Elsewhere
<1> HIDE DEF x, y
<1>4. Sending(<<>>) = {} /\ SendingOnce(<<>>)
  BY DEF Sending, SendingOnce
<1>5. HeldOnce(x)
  BY <1>2 DEF OInv, OnePlace
<1> QED
  BY <1>1, <1>2, <1>3, <1>4, <1>5, PoolMoves

LEMMA RunShutdownMoves ==
  ASSUME OInv, TaskTypes, RunShutdown
  PROVE  OInv' /\ Onward
<1> DEFINE x == <<"functors", None>>
           y == <<"pending", None>>
<1>1. /\ functors \in Seq(Calls) /\ functors # <<>> /\ functors' = Tail(functors)
      /\ UNCHANGED <<asked, sock, inBuf, outBuf, answers, queue, working, pending>>
  BY DEF RunShutdown, InFunctor, TaskTypes, objects, pool
<1>2. /\ x \in Places /\ y \in Places /\ x # y /\ {x, y} \in SUBSET Places
      /\ x[1] \notin {"out", "answers"} /\ y[1] \notin {"out", "answers"}
      /\ Held(x) = Sending(functors) /\ HeldOnce(x) = SendingOnce(functors)
      /\ Held(x)' = Sending(functors') /\ HeldOnce(x)' = SendingOnce(functors')
      /\ Held(y) = Sending(pending) /\ HeldOnce(y) = SendingOnce(pending)
      /\ Held(y)' = Sending(pending') /\ HeldOnce(y)' = SendingOnce(pending')
  BY ArePlaces, AtPlaces, AtPlacesNext
<1>3. \A p \in Places \ {x, y} : Held(p)' = Held(p) /\ HeldOnce(p)' = HeldOnce(p)
  BY <1>1, <1>2, Elsewhere
<1> HIDE DEF x, y
<1>4. HeldOnce(x) /\ HeldOnce(y) /\ Held(x) \cap Held(y) = {}
  BY <1>2 DEF OInv, OnePlace
<1>5. SendingOnce(functors') /\ Sending(functors') \subseteq Sending(functors)
  BY <1>1, <1>2, <1>4, RunOnce
<1>6. /\ HeldOnce(x)' /\ HeldOnce(y)' /\ Held(x)' \cap Held(y)' = {}
      /\ Held(x)' \subseteq Held(x) /\ Held(y)' \subseteq Held(x) \cup Held(y)
  BY <1>1, <1>2, <1>4, <1>5
<1> QED
  BY <1>1, <1>2, <1>3, <1>6, PoolMoves

LEMMA HeldAreRequests ==
  ASSUME LineTypes, TaskTypes, NEW p \in Places, NEW r \in Held(p)
  PROVE  r \in Requests
<1>1. ASSUME NEW s \in Seq(Requests), NEW x \in ToSet(s) PROVE x \in Requests
  BY <1>1 DEF ToSet
<1>2. CASE p \in {"sock", "in", "out", "answers"} \X Clients
  <2>1. \A c \in Clients : {sock[c], inBuf[c], outBuf[c], answers[c]} \subseteq Seq(Requests)
    BY DEF LineTypes
  <2> QED
    BY <1>1, <1>2, <2>1 DEF Held
<1>3. CASE p = <<"queue", None>>
  <2>1. PICK i \in DOMAIN queue : r = queue[i].req
    BY <1>3, AtPlaces DEF Waiting
  <2>2. queue[i] \in Tasks
    BY DEF TaskTypes
  <2> QED
    BY <2>1, <2>2 DEF Tasks
<1>4. CASE p = <<"working", None>>
  BY <1>4 DEF Held, Dispatching, TaskTypes, Workings, Tasks
<1>5. CASE p = <<"pending", None>> \/ p = <<"functors", None>>
  <2>1. PICK q \in {pending, functors} : r \in Sending(q)
    BY <1>5, AtPlaces
  <2>2. PICK i \in DOMAIN q : r = q[i].task.req
    BY <2>1 DEF Sending
  <2>3. q[i] \in Calls
    BY DEF TaskTypes
  <2> QED
    BY <2>2, <2>3 DEF Calls, Tasks
<1> QED
  BY <1>2, <1>3, <1>4, <1>5 DEF Places

(* A client's next request is at no place yet. *)
LEMMA AskMoves ==
  ASSUME OInv, TaskTypes, NEW c \in Clients, Ask(c)
  PROVE  /\ OInv'
         /\ \A p \in Places : \A x \in Held(p)' :
              x \in Held(p) \/ (p = <<"sock", c>> /\ x = <<c, asked[c] + 1>>)
<1> DEFINE s == <<"sock", c>>
           n == asked[c] + 1
           r == <<c, n>>
<1>1. /\ asked[c] \in Nat /\ n \in 1..MaxRequests /\ n > asked[c] /\ r \in Requests
      /\ r[1] = c /\ r[2] = n
      /\ sock[c] \in Seq(Requests)
  BY ReactorAssumption DEF Ask, OInv, LineTypes, Requests
<1>2. /\ sock' = [sock EXCEPT ![c] = Append(@, r)] /\ asked' = [asked EXCEPT ![c] = n]
      /\ UNCHANGED <<inBuf, outBuf, answers, queue, working, pending, functors>>
  BY DEF Ask, objects, loop, pool
<1>3. asked' \in [Clients -> 0..MaxRequests] /\ \A d \in Clients : asked'[d] >= asked[d]
      /\ asked'[c] = n
  BY <1>1, <1>2, ReactorAssumption DEF OInv, LineTypes
<1> HIDE DEF n, r
<1>4. \A p \in Places : r \notin Held(p)
  BY <1>1 DEF OInv, HeldAreAsked
<1>5. /\ s \in Places /\ {s} \in SUBSET Places
      /\ Held(s) = ToSet(sock[c]) /\ HeldOnce(s) = Distinct(sock[c])
      /\ Held(s)' = ToSet(sock'[c]) /\ HeldOnce(s)' = Distinct(sock'[c])
  BY ArePlaces, AtPlaces, AtPlacesNext
<1>6. /\ Append(sock[c], r) \in Seq(Requests)
      /\ ToSet(Append(sock[c], r)) = ToSet(sock[c]) \cup {r}
      /\ Distinct(Append(sock[c], r))
  BY <1>1, <1>4, <1>5, AppendDistinct DEF OInv, OnePlace
<1>7. /\ sock' \in [Clients -> Seq(Requests)] /\ sock'[c] = Append(sock[c], r)
      /\ \A d \in Clients \ {c} : sock'[d] = sock[d]
  BY <1>2, <1>6 DEF OInv, LineTypes
<1>8. \A p \in Places \ {s} : Held(p)' = Held(p) /\ HeldOnce(p)' = HeldOnce(p)
  <2>1. \A d \in Clients : <<"sock", d>> \in {s} \/ sock'[d] = sock[d]
    BY <1>7
  <2> QED
    BY <1>2, <1>5, <2>1, Elsewhere
<1> HIDE DEF s
<1>9. HeldOnce(s)' /\ Held(s)' = Held(s) \cup {r}
  BY <1>5, <1>6, <1>7
<1>10. \A p \in Places : HeldOnce(p)'
  BY <1>8, <1>9 DEF OInv, OnePlace
<1>11. ASSUME NEW p \in Places, NEW q \in Places, p # q PROVE Held(p)' \cap Held(q)' = {}
  <2>1. Held(p) \cap Held(q) = {}
    BY <1>11 DEF OInv, OnePlace
  <2>2. CASE p = s
    BY <1>4, <1>8, <1>9, <1>11, <2>1, <2>2
  <2>3. CASE q = s
    BY <1>4, <1>8, <1>9, <1>11, <2>1, <2>3
  <2>4. CASE p # s /\ q # s
    BY <1>8, <2>1, <2>4
  <2> QED
    BY <2>2, <2>3, <2>4
<1>12. ASSUME NEW p \in Places, NEW x \in Held(p)' PROVE x[2] <= asked'[x[1]]
  <2>1. CASE x = r
    BY <1>1, <1>3, <2>1
  <2>2. CASE x # r
    <3>1. x \in Held(p)
      BY <1>8, <1>9, <1>12, <2>2
    <3>2. x \in Requests
      BY <3>1, HeldAreRequests DEF OInv
    <3>3. x[1] \in Clients /\ x[2] \in Nat
      BY <3>2 DEF Requests
    <3>4. x[2] <= asked[x[1]]
      BY <3>1 DEF OInv, HeldAreAsked
    <3>5. asked[x[1]] \in Nat /\ asked'[x[1]] \in Nat /\ asked'[x[1]] >= asked[x[1]]
      BY <1>3, <3>3 DEF OInv, LineTypes
    <3> QED
      BY <3>3, <3>4, <3>5
  <2> QED
    BY <2>1, <2>2
<1>13. LineTypes'
  BY <1>2, <1>3, <1>7 DEF OInv, LineTypes
<1>14. \A p \in Places : \A x \in Held(p)' : x \in Held(p) \/ (p = s /\ x = r)
  BY <1>8, <1>9
<1> QED
  BY <1>10, <1>11, <1>12, <1>13, <1>14 DEF OInv, OnePlace, HeldAreAsked, s, r, n

(* Steps that leave every place as it is. *)
LEMMA QuietMoves ==
  ASSUME OInv,
         UNCHANGED <<asked, sock, inBuf, outBuf, answers, queue, working, pending, functors>>
  PROVE  OInv' /\ Onward
<1>1. {} \in SUBSET Places
  OBVIOUS
<1>2. \A p \in Places \ {} : Held(p)' = Held(p) /\ HeldOnce(p)' = HeldOnce(p)
  BY <1>1, Elsewhere
<1>3. OnePlace' /\ HeldAreAsked'
  BY <1>2 DEF OInv, OnePlace, HeldAreAsked
<1>4. Onward
  BY <1>1, <1>2, MovedOnward
<1> QED
  BY <1>3, <1>4 DEF OInv, LineTypes

LEMMA OnePlaceInductive == IInv /\ OInv /\ [Next]_vars => OInv'
<1> SUFFICES ASSUME IInv, OInv, [Next]_vars PROVE OInv'
  OBVIOUS
<1>t. TaskTypes /\ Net
  BY DEF IInv
<1>1. CASE Poll \/ DanglingFunctor \/ DanglingChannel \/ Accept \/ RunTimers
  BY <1>1, QuietMoves
     DEF Poll, DanglingFunctor, DanglingChannel, Accept, RunTimers, kernel, objects, loop, pool
<1>2. ASSUME NEW c \in Clients, HandleError(c) \/ ReadNothing(c) PROVE OInv'
  <2>1. UNCHANGED <<asked, sock, inBuf, outBuf, answers, queue, working, pending, functors>>
    BY <1>2 DEF HandleError, ReadNothing, OnChannel
  <2> QED
    BY <2>1, QuietMoves
<1>3. ASSUME NEW c \in Clients, HandleWrite(c) PROVE OInv'
  BY <1>3, <1>t, HandleWriteMoves
<1>4. ASSUME NEW c \in Clients, RefuseRequest(c) PROVE OInv'
  <2>1. queue' = queue
    BY <1>4 DEF RefuseRequest
  <2>2. \E r \in Requests : ReadRequest(c, r) /\ Output(c, Append(outBuf[c], r))
    BY <1>4, <1>t, RefusalOutputs DEF OInv
  <2> QED
    BY <1>t, <2>1, <2>2, ReadAndOutput
<1>5. ASSUME NEW c \in Clients, LimitRequest(c) PROVE OInv'
  <2>1. PICK r \in Requests : ReadRequest(c, r) /\ Send(c, r, "member") /\ queue' = queue
    BY <1>5 DEF LimitRequest
  <2>2. Created(c)
    BY <2>1, OnChannelFacts DEF ReadRequest
  <2>3. Output(c, Append(outBuf[c], r))
    BY <1>t, <2>1, <2>2, SendOutputs DEF OInv
  <2> QED
    BY <1>t, <2>1, <2>3, ReadAndOutput
<1>6. ASSUME NEW c \in Clients, SubmitRequest(c) \/ OverflowPool(c) PROVE OInv'
  BY <1>6, <1>t, ReadAndSubmit
<1>7. CASE SwapFunctors
  BY <1>7, <1>t, SwapMoves
<1>8. CASE RunSend
  BY <1>8, <1>t, RunSendMoves
<1>9. CASE RunShutdown
  BY <1>9, <1>t, RunShutdownMoves
<1>10. CASE TakeRequest
  BY <1>10, <1>t, TakeMoves
<1>11. ASSUME NEW w \in working, Dispatch(w) \/ ShutdownAfterSend(w) PROVE OInv'
  BY <1>11, <1>t, DispatchMoves
<1>12. ASSUME NEW w \in working, Release(w) PROVE OInv'
  BY <1>12, <1>t, ReleaseMoves
<1>13. ASSUME NEW c \in Clients, Ask(c) PROVE OInv'
  BY <1>13, <1>t, AskMoves
<1>14. CASE Tick \/ \E c \in Clients : Connect(c) \/ Leave(c) \/ GrowIdle(c)
  BY <1>14, QuietMoves DEF Tick, Connect, Leave, GrowIdle, kernel, objects, loop, pool
<1>15. CASE UNCHANGED vars
  BY <1>15, QuietMoves DEF vars, kernel, objects, loop, pool
<1> QED
  BY <1>1, <1>2, <1>3, <1>4, <1>5, <1>6, <1>7, <1>8, <1>9, <1>10, <1>11, <1>12, <1>13,
     <1>14, <1>15
     DEF Next, LoopStep, HandleEvent, WorkerStep, World

LEMMA InitHoldsNothing ==
  ASSUME Init
  PROVE  \A p \in Places : Held(p) = {} /\ HeldOnce(p)
<1>1. ToSet(<<>>) = {} /\ Distinct(<<>>)
  BY DEF ToSet, Distinct
<1>2. Waiting(<<>>) = {} /\ WaitingOnce(<<>>) /\ Sending(<<>>) = {} /\ SendingOnce(<<>>)
  BY DEF Waiting, WaitingOnce, Sending, SendingOnce
<1>3. Dispatching({}) = {} /\ DispatchingOnce({})
  BY DEF Dispatching, DispatchingOnce
<1>4. /\ \A c \in Clients : sock[c] = <<>> /\ inBuf[c] = <<>> /\ outBuf[c] = <<>>
                            /\ answers[c] = <<>>
      /\ queue = <<>> /\ working = {} /\ pending = <<>> /\ functors = <<>>
  BY DEF Init
<1>5. \A c \in Clients : \A p \in {<<"sock", c>>, <<"in", c>>, <<"out", c>>, <<"answers", c>>} :
        Held(p) = {} /\ HeldOnce(p)
  BY <1>1, <1>4, AtPlaces
<1>6. \A p \in {<<"queue", None>>, <<"working", None>>, <<"pending", None>>, <<"functors", None>>} :
        Held(p) = {} /\ HeldOnce(p)
  BY <1>2, <1>3, <1>4, AtPlaces
<1>7. ASSUME NEW p \in Places PROVE Held(p) = {} /\ HeldOnce(p)
  <2>1. \/ \E c \in Clients :
             p \in {<<"sock", c>>, <<"in", c>>, <<"out", c>>, <<"answers", c>>}
        \/ p \in {<<"queue", None>>, <<"working", None>>, <<"pending", None>>,
                  <<"functors", None>>}
    BY DEF Places
  <2> QED
    BY <1>5, <1>6, <2>1
<1> QED
  BY <1>7

LEMMA InitOnePlace == Init => OInv
<1> SUFFICES ASSUME Init PROVE OInv
  OBVIOUS
<1>1. <<>> \in Seq(Requests)
  BY EmptySeq
<1>2. LineTypes
  BY <1>1, ReactorAssumption DEF Init, LineTypes
<1>3. \A p \in Places : Held(p) = {} /\ HeldOnce(p)
  BY InitHoldsNothing
<1> QED
  BY <1>2, <1>3 DEF OInv, OnePlace, HeldAreAsked

LEMMA OnePlaceInvariance == Spec => []OInv
<1>1. Spec => []IInv /\ [][Next]_vars
  BY Invariance, PTL DEF Spec
<1> QED
  BY <1>1, InitOnePlace, OnePlaceInductive, PTL DEF Spec

(* However requests, partial writes, refusals and closes interleave with the
   worker threads: no request is answered twice, counting all clients. *)
THEOREM RepliesAtMostOnce == Spec => []AnsweredAtMostOnce
<1>1. OInv => AnsweredAtMostOnce
  <2> SUFFICES ASSUME OInv, NEW c \in Clients, NEW d \in Clients,
                      NEW i \in DOMAIN answers[c], NEW j \in DOMAIN answers[d],
                      answers[c][i] = answers[d][j]
               PROVE  c = d /\ i = j
    BY DEF AnsweredAtMostOnce
  <2> DEFINE p == <<"answers", c>>
             q == <<"answers", d>>
  <2>1. /\ p \in Places /\ q \in Places /\ (p = q => c = d)
        /\ Held(p) = ToSet(answers[c]) /\ Held(q) = ToSet(answers[d])
        /\ HeldOnce(p) = Distinct(answers[c])
    BY ArePlaces, AtPlaces
  <2>2. answers[c][i] \in Held(p) /\ answers[d][j] \in Held(q)
    BY <2>1 DEF ToSet
  <2> HIDE DEF p, q
  <2>3. c = d
    BY <2>1, <2>2 DEF OInv, OnePlace
  <2> QED
    BY <2>1, <2>3 DEF OInv, OnePlace, Distinct
<1> QED
  BY <1>1, OnePlaceInvariance, PTL

-----------------------------------------------------------------------------
(* Clients that wait for their answers, and are not closed for being idle. *)

Patient == {"hangup", "pipeline", "idle"} \cap Env = {}

RequestsOf(c) == {c} \X (1..MaxRequests)
OwnTasks == {t \in Tasks : t.req[1] = t.conn}

(* Requests stay with the connection they came in on. *)
Ownership ==
    /\ \A c \in Clients :
         /\ sock[c] \in Seq(RequestsOf(c)) /\ inBuf[c] \in Seq(RequestsOf(c))
         /\ outBuf[c] \in Seq(RequestsOf(c)) /\ answers[c] \in Seq(RequestsOf(c))
    /\ queue \in Seq(OwnTasks)
    /\ \A w \in working : w.task \in OwnTasks
    /\ pending \in Seq([call : {"send", "shutdown"}, task : OwnTasks])
    /\ functors \in Seq([call : {"send", "shutdown"}, task : OwnTasks])

(* A client waits for one answer at most, and what is not answered is that. *)
Expected(r) == r[2] = asked[r[1]] /\ Len(answers[r[1]]) + 1 = asked[r[1]]

OneAtATime ==
    /\ \A c \in Clients : Len(answers[c]) = asked[c] \/ Len(answers[c]) + 1 = asked[c]
    /\ \A p \in Places : p[1] # "answers" => \A r \in Held(p) : Expected(r)

GoneAreAnswered == \A c \in Clients : peer[c] = "gone" => Len(answers[c]) = asked[c]

(* The object has its descriptor still. *)
Home(c) == Created(c) /\ fdTable[connFd[c]] = c

HomeWhileAsking ==
    \A p \in Places : p[1] \notin {"out", "answers"} =>
        \A r \in Held(p) : Created(r[1]) => Home(r[1])

EpollKnowsHome ==
    /\ epoll = fdTable
    /\ \A c \in inEpoll : Home(c)

Events == [ch : Clients \cup {"listen", "timer"}, ev : SUBSET {"in", "out", "err"}]

(* What epoll reported of c still holds, but for the write event of an object that
   the read event has just closed, which is the first then. *)
Reported(c, ev, first) ==
    /\ Created(c)
    /\ Home(c) \/ (first /\ ev = {"out"} /\ fdTable[connFd[c]] = None)
    /\ "in" \in ev => sock[c] # <<>> \/ peer[c] = "gone"
    /\ "err" \in ev => peer[c] = "gone"

BatchHome ==
    batch # None =>
        /\ batch \in Seq(Events)
        /\ \A i \in DOMAIN batch :
             batch[i].ch \in Clients => Reported(batch[i].ch, batch[i].ev, i = 1)
        /\ \A i, j \in DOMAIN batch : batch[i].ch = batch[j].ch => i = j

NoIdleClose == ~tick /\ doomed = {}

PInv ==
    /\ Ownership
    /\ OneAtATime
    /\ GoneAreAnswered
    /\ HomeWhileAsking
    /\ EpollKnowsHome
    /\ BatchHome
    /\ NoIdleClose

(* A client gets the response it waits for, or nothing. *)
Grown ==
    \A d \in Clients :
        \/ answers'[d] = answers[d]
        \/ /\ Len(answers[d]) + 1 = asked[d]
           /\ answers'[d] = Append(answers[d], <<d, asked[d]>>)

LEMMA ShortSequence ==
  ASSUME NEW S, NEW s \in Seq(S), NEW x, ToSet(s) \subseteq {x}, Distinct(s)
  PROVE  s = <<>> \/ s = <<x>>
<1>1. Len(s) \in Nat /\ DOMAIN s = 1..Len(s)
  BY LenProperties
<1>2. \A i \in 1..Len(s) : s[i] = x
  BY <1>1 DEF ToSet
<1>3. Len(s) \in {0, 1}
  <2>1. Len(s) >= 2 => 1 \in DOMAIN s /\ 2 \in DOMAIN s
    BY <1>1
  <2>2. ~(Len(s) >= 2)
    BY <1>1, <1>2, <2>1 DEF Distinct
  <2> QED
    BY <1>1, <2>2
<1>4. CASE Len(s) = 0
  BY <1>4, EmptySeq
<1>5. CASE Len(s) = 1
  <2>1. s[1] = x
    BY <1>2, <1>5
  <2> QED
    BY <1>5, <2>1
<1> QED
  BY <1>3, <1>4, <1>5

LEMMA SubSequence ==
  ASSUME NEW S, NEW T, NEW s \in Seq(S), ToSet(s) \subseteq T
  PROVE  s \in Seq(T)
<1>1. Len(s) \in Nat /\ DOMAIN s = 1..Len(s)
  BY LenProperties
<1>2. \A i \in 1..Len(s) : s[i] \in T
  BY <1>1 DEF ToSet
<1> QED
  BY <1>1, <1>2

LEMMA InOwn ==
  ASSUME NEW c, NEW s \in Seq(RequestsOf(c)), NEW x \in ToSet(s)
  PROVE  x \in RequestsOf(c) /\ x[1] = c /\ x = <<c, x[2]>>
<1>1. PICK i \in DOMAIN s : x = s[i]
  BY DEF ToSet
<1>2. x \in RequestsOf(c)
  BY <1>1
<1> QED
  BY <1>2 DEF RequestsOf

LEMMA OutputHome ==
  ASSUME OInv, Ownership, NEW c \in Clients, Home(c) \/ fdTable[connFd[c]] = None,
         NEW out \in Seq(RequestsOf(c)), Distinct(out), Output(c, out),
         \A r \in ToSet(out) : Expected(r)
  PROVE  /\ Grown
         /\ \A d \in Clients : /\ outBuf'[d] \in Seq(RequestsOf(d))
                               /\ answers'[d] \in Seq(RequestsOf(d))
<1>1. PICK k \in Clients, A \in Seq(Requests), B \in Seq(Requests) :
        /\ Parts(A, B, out)
        /\ A = <<>> \/ k = fdTable[connFd[c]]
        /\ answers' = [answers EXCEPT ![k] = @ \o A]
        /\ outBuf' = [outBuf EXCEPT ![c] = B]
  BY DEF Output
<1> DEFINE x == <<c, asked[c]>>
<1>2. \A r \in ToSet(out) : r = x /\ r \in RequestsOf(c)
  BY InOwn DEF Expected
<1>3. ToSet(A) \subseteq ToSet(out) /\ ToSet(B) \subseteq ToSet(out) /\ Distinct(A)
  BY <1>1 DEF Parts
<1>4. A = <<>> \/ A = <<x>>
  <2>1. ToSet(A) \subseteq {x}
    BY <1>2, <1>3
  <2> HIDE DEF x
  <2> QED
    BY <1>3, <2>1, ShortSequence
<1>5. A # <<>> => k = c /\ x \in ToSet(out)
  <2>1. A # <<>> => x \in ToSet(A)
    BY <1>4 DEF ToSet
  <2>2. A # <<>> => k = c
    BY <1>1, ReactorAssumption DEF Home
  <2> QED
    BY <1>3, <2>1, <2>2
<1>6. B \in Seq(RequestsOf(c))
  BY <1>2, <1>3, SubSequence
<1>7. \A d \in Clients : outBuf'[d] \in Seq(RequestsOf(d))
  BY <1>1, <1>6 DEF OInv, LineTypes, Ownership
<1>8. CASE A = <<>>
  <2>1. answers[k] \o <<>> = answers[k]
    BY ConcatEmptySeq DEF OInv, LineTypes
  <2>2. answers' = answers
    BY <1>1, <1>8, <2>1 DEF OInv, LineTypes
  <2> QED
    BY <1>7, <2>2 DEF Grown, Ownership
<1>9. CASE A # <<>>
  <2>1. A = <<x>> /\ k = c /\ x \in RequestsOf(c) /\ Expected(x)
    BY <1>2, <1>4, <1>5, <1>9
  <2>2. Len(answers[c]) + 1 = asked[c]
    BY <2>1 DEF Expected
  <2> HIDE DEF x
  <2>3. answers[c] \o A = Append(answers[c], x) /\ Append(answers[c], x) \in Seq(RequestsOf(c))
    BY <2>1, AppendIsConcat DEF OInv, LineTypes, Ownership
  <2>4. answers'[c] = Append(answers[c], x) /\ \A d \in Clients \ {c} : answers'[d] = answers[d]
    BY <1>1, <2>1, <2>3 DEF OInv, LineTypes
  <2> QED
    BY <1>7, <2>2, <2>3, <2>4 DEF Grown, Ownership, x
<1> QED
  BY <1>8, <1>9

LEMMA NotGrown ==
  ASSUME answers' = answers
  PROVE  Grown
BY DEF Grown

(* What is unanswered stays what its client waits for. *)
LEMMA GrownKeeps ==
  ASSUME OInv, TaskTypes, OInv', OneAtATime, GoneAreAnswered, Onward, Grown,
         asked' = asked, peer' = peer
  PROVE  OneAtATime' /\ GoneAreAnswered'
<1>0. \A c \in Clients : Len(answers[c]) \in Nat /\ asked[c] \in Nat
  BY ReactorAssumption, LenProperties DEF OInv, LineTypes
<1>1. ASSUME NEW c \in Clients
      PROVE  \/ Len(answers'[c]) = Len(answers[c])
             \/ Len(answers[c]) + 1 = asked[c] /\ Len(answers'[c]) = asked[c]
  BY <1>0, AppendProperties DEF Grown, OInv, LineTypes
<1>2. \A c \in Clients : Len(answers'[c]) = asked'[c] \/ Len(answers'[c]) + 1 = asked'[c]
  BY <1>0, <1>1 DEF OneAtATime
<1>3. ASSUME NEW p \in Places, p[1] # "answers", NEW r \in Held(p)' PROVE Expected(r)'
  <2>1. PICK q \in Places : q[1] # "answers" /\ r \in Held(q)
    BY <1>3 DEF Onward
  <2>2. Expected(r) /\ r \in Requests
    BY <2>1, HeldAreRequests DEF OneAtATime, OInv
  <2>3. PICK c \in Clients : c = r[1] /\ r = <<c, asked[c]>>
    BY <2>2 DEF Requests, Expected
  <2>4. answers'[c] = answers[c]
    <3>1. SUFFICES ASSUME answers'[c] = Append(answers[c], r) PROVE FALSE
      BY <2>3 DEF Grown
    <3>2. r \in ToSet(answers'[c])
      BY <2>2, <3>1, AppendDistinct DEF OInv, LineTypes
    <3>3. <<"answers", c>> \in Places /\ <<"answers", c>> # p
      <4>1. <<"answers", c>>[1] = "answers"
        OBVIOUS
      <4> QED
        BY <1>3, <4>1, ArePlaces
    <3>4. r \in Held(<<"answers", c>>)'
      BY <3>2, AtPlacesNext
    <3> QED
      BY <1>3, <3>3, <3>4 DEF OInv, OnePlace
  <2> QED
    BY <2>2, <2>3, <2>4 DEF Expected
<1>4. GoneAreAnswered'
  BY <1>0, <1>1 DEF GoneAreAnswered
<1> QED
  BY <1>2, <1>3, <1>4 DEF OneAtATime

(* What a step of the loop does to the descriptors and their registration. *)
NetQuiet == UNCHANGED <<fdTable, epoll, inEpoll, connFd>>
NetClosed(c) ==
    /\ connFd' = connFd
    /\ inEpoll' = inEpoll \ {c}
    /\ fdTable' = [f \in Fds |-> IF f = connFd[c] THEN None ELSE fdTable[f]]
    /\ epoll' = [f \in Fds |-> IF f = connFd[c] THEN None ELSE epoll[f]]

LEMMA CloseNet ==
  ASSUME NEW c \in Clients, NEW after, Close(c, after), connFd' = connFd
  PROVE  NetClosed(c)
BY DEF Close, CloseEach, NetClosed

LEMMA UpdateNet ==
  ASSUME Net, EpollKnowsHome, NEW c \in Clients, Created(c), NEW ev,
         \/ ev = interest[c] \cup {"out"} /\ Home(c)
         \/ ev = interest[c] \ {"out"},
         UpdateChannel(c, ev), UNCHANGED <<fdTable, connFd>>
  PROVE  NetQuiet
<1> DEFINE f == connFd[c]
<1>1. f \in Fds
  BY DEF Created, Net, NetTypes
<1>2. CASE c \in inEpoll
  <2>1. epoll[f] = c /\ ev # {} /\ c # None
    BY <1>2, ReactorAssumption DEF EpollKnowsHome, Home, Net, RegisteredReads
  <2>2. [epoll EXCEPT ![f] = c] = epoll /\ inEpoll \cup {c} = inEpoll
    BY <1>1, <1>2, <2>1 DEF Net, NetTypes
  <2>3. epoll' = epoll /\ inEpoll' = inEpoll
    BY <1>2, <2>1, <2>2 DEF UpdateChannel
  <2> QED
    BY <2>3 DEF NetQuiet
<1>3. CASE c \notin inEpoll
  <2>1. CASE ev = {}
    BY <1>3, <2>1 DEF UpdateChannel, NetQuiet
  <2>2. CASE ev # {}
    <3>1. fdTable[f] = None \/ epoll[f] # None
      BY DEF EpollKnowsHome
    <3> QED
      BY <1>3, <2>2, <3>1 DEF UpdateChannel, NetQuiet
  <2> QED
    BY <2>1, <2>2
<1> QED
  BY <1>2, <1>3

LEMMA SendNet ==
  ASSUME Net, EpollKnowsHome, NEW c \in Clients, Home(c), NEW r, NEW after,
         Send(c, r, after), connFd' = connFd
  PROVE  NetQuiet \/ NetClosed(c)
<1>1. CASE UNCHANGED <<fdTable, epoll, inEpoll>>
  BY <1>1 DEF NetQuiet
<1>2. CASE UpdateChannel(c, interest[c] \cup {"out"}) /\ UNCHANGED fdTable
  BY <1>2, UpdateNet DEF Home
<1>3. CASE Close(c, after)
  BY <1>3, CloseNet
<1> QED
  BY <1>1, <1>2, <1>3 DEF Send

LEMMA NetStepKeeps ==
  ASSUME Net, EpollKnowsHome, NEW c \in Clients, Home(c) \/ fdTable[connFd[c]] = None,
         NetQuiet \/ NetClosed(c)
  PROVE  /\ EpollKnowsHome'
         /\ \A d \in Clients \ {c} : Home(d) => Home(d)'
         /\ NetQuiet => \A d \in Clients : Home(d) => Home(d)'
         /\ Home(c)' \/ fdTable'[connFd[c]] = None
<1>1. CASE NetQuiet
  BY <1>1 DEF NetQuiet, EpollKnowsHome, Home, Created
<1>2. CASE NetClosed(c)
  <2>1. epoll' = fdTable'
    BY <1>2 DEF NetClosed, EpollKnowsHome
  <2>2. ASSUME NEW d \in Clients \ {c}, Home(d) PROVE Home(d)'
    <3>1. connFd[d] \in Fds /\ connFd[d] # connFd[c]
      BY <2>2, ReactorAssumption DEF Home, Created, Net, NetTypes
    <3> QED
      BY <1>2, <2>2, <3>1 DEF NetClosed, Home, Created
  <2>3. \A d \in inEpoll' : Home(d)'
    BY <1>2, <2>2 DEF NetClosed, EpollKnowsHome, Net, NetTypes
  <2>4. connFd[c] \in Fds => fdTable'[connFd[c]] = None
    BY <1>2 DEF NetClosed
  <2>5. connFd[c] \notin Fds => fdTable' = fdTable
    BY <1>2 DEF NetClosed, Net, NetTypes
  <2>6. connFd[c] \notin Fds => ~Home(c)
    BY ReactorAssumption DEF Home, Created, Net, NetTypes
  <2>7. NetQuiet => \A d \in Clients : Home(d) => Home(d)'
    BY DEF NetQuiet, Home, Created
  <2> QED
    BY <2>1, <2>2, <2>3, <2>4, <2>5, <2>6, <2>7 DEF EpollKnowsHome
<1> QED
  BY <1>1, <1>2

(* Nobody waits for the answer to a request of c. *)
AskedNothing(c) ==
    \A p \in Places : p[1] \notin {"out", "answers"} => \A r \in Held(p)' : r[1] # c

LEMMA StayHome ==
  ASSUME LineTypes, TaskTypes, HomeWhileAsking, Onward, connFd' = connFd,
         \A d \in Clients : (Home(d) => Home(d)') \/ AskedNothing(d)
  PROVE  HomeWhileAsking'
<1> SUFFICES ASSUME NEW p \in Places, p[1] \notin {"out", "answers"}, NEW r \in Held(p)',
                    Created(r[1])'
             PROVE  Home(r[1])'
  BY DEF HomeWhileAsking
<1>1. PICK q \in Places : q[1] \notin {"out", "answers"} /\ r \in Held(q)
  BY DEF Onward
<1>2. r \in Requests
  BY <1>1, HeldAreRequests
<1>3. PICK c \in Clients : c = r[1]
  BY <1>2 DEF Requests
<1>4. Created(c)
  BY <1>3 DEF Created
<1>5. Home(c)
  BY <1>1, <1>3, <1>4 DEF HomeWhileAsking
<1>6. ~AskedNothing(c)
  BY <1>3 DEF AskedNothing
<1>7. Home(c)'
  BY <1>5, <1>6
<1> QED
  BY <1>3, <1>7

(* The object that closes after it output its request. *)
LEMMA OutputAsked ==
  ASSUME LineTypes, TaskTypes, OneAtATime, Onward, NEW c \in Clients,
         NEW out \in Seq(RequestsOf(c)), out # <<>>, \A r \in ToSet(out) : Expected(r),
         \A p \in Places : p[1] \notin {"out", "answers"} => Held(p)' \cap ToSet(out) = {}
  PROVE  AskedNothing(c)
<1>1. PICK x \in ToSet(out) : x = <<c, asked[c]>>
  <2>1. out[1] \in ToSet(out)
    <3>1. 1 \in DOMAIN out
      BY LenProperties, EmptySeq
    <3> QED
      BY <3>1 DEF ToSet
  <2>2. out[1] = <<c, asked[c]>>
    <3>1. /\ out[1] = <<c, out[1][2]>> /\ out[1][1] = c
      BY <2>1, InOwn
    <3>2. out[1][2] = asked[c]
      BY <2>1, <3>1 DEF Expected
    <3> QED
      BY <3>1, <3>2
  <2> QED
    BY <2>1, <2>2
<1>2. ASSUME NEW p \in Places, p[1] \notin {"out", "answers"}, NEW r \in Held(p)', r[1] = c
      PROVE  FALSE
  <2>1. PICK q \in Places : q[1] # "answers" /\ r \in Held(q)
    BY <1>2 DEF Onward
  <2>2. Expected(r) /\ r \in Requests
    BY <2>1, HeldAreRequests DEF OneAtATime
  <2>3. r = <<c, asked[c]>>
    BY <1>2, <2>2 DEF Expected, Requests
  <2> QED
    BY <1>1, <1>2, <2>3
<1> QED
  BY <1>2 DEF AskedNothing

LEMMA GoneAsked ==
  ASSUME LineTypes, OneAtATime, GoneAreAnswered, Onward, NEW c \in Clients, peer[c] = "gone"
  PROVE  AskedNothing(c)
<1>1. Len(answers[c]) \in Nat /\ Len(answers[c]) = asked[c]
  BY LenProperties DEF LineTypes, GoneAreAnswered
<1>2. ASSUME NEW p \in Places, p[1] \notin {"out", "answers"}, NEW r \in Held(p)', r[1] = c
      PROVE  FALSE
  <2>1. PICK q \in Places : q[1] # "answers" /\ r \in Held(q)
    BY <1>2 DEF Onward
  <2>2. Len(answers[c]) + 1 = asked[c]
    BY <1>2, <2>1 DEF OneAtATime, Expected
  <2> QED
    BY <1>1, <2>2
<1> QED
  BY <1>2 DEF AskedNothing

(* What BatchHome says of the event a handler is called for. *)
LEMMA EventFacts ==
  ASSUME BatchHome, NEW c \in Clients, NEW flag, OnChannel(c, flag)
  PROVE  /\ Created(c)
         /\ Home(c) \/ fdTable[connFd[c]] = None
         /\ flag # "out" => Home(c)
         /\ flag = "in" => sock[c] # <<>> \/ peer[c] = "gone"
         /\ flag = "err" => peer[c] = "gone"
<1>1. batch \in Seq(Events) /\ batch # <<>> /\ Event.ch = c /\ flag \in Event.ev
  BY DEF OnChannel, InEvent, BatchHome
<1>2. 1 \in DOMAIN batch /\ Event = batch[1]
  BY <1>1, HeadTailProperties, LenProperties, EmptySeq DEF Event
<1> QED
  BY <1>1, <1>2 DEF BatchHome, Reported, OnChannel, InEvent

LEMMA BatchRest ==
  ASSUME BatchHome, batch # None, batch # <<>>
  PROVE  /\ batch \in Seq(Events) /\ Event = batch[1] /\ Event \in Events
         /\ Tail(batch) \in Seq(Events)
         /\ Len(Tail(batch)) \in Nat /\ DOMAIN Tail(batch) = 1..Len(Tail(batch))
         /\ \A i \in DOMAIN Tail(batch) :
              /\ i \in Nat \ {0} /\ i + 1 \in DOMAIN batch /\ Tail(batch)[i] = batch[i + 1]
              /\ Tail(batch)[i].ch # Event.ch
              /\ Tail(batch)[i].ch \in Clients =>
                   LET c == Tail(batch)[i].ch IN
                   /\ Home(c)
                   /\ "in" \in Tail(batch)[i].ev => sock[c] # <<>> \/ peer[c] = "gone"
                   /\ "err" \in Tail(batch)[i].ev => peer[c] = "gone"
         /\ \A i, j \in DOMAIN Tail(batch) : Tail(batch)[i].ch = Tail(batch)[j].ch => i = j
<1>0. batch \in Seq(Events)
  BY DEF BatchHome
<1> DEFINE t == Tail(batch)
<1>1. /\ Len(batch) \in Nat \ {0} /\ DOMAIN batch = 1..Len(batch) /\ DOMAIN t = 1..Len(t)
      /\ Len(t) = Len(batch) - 1 /\ Event = batch[1] /\ Event \in Events /\ t \in Seq(Events)
      /\ \A i \in 1..Len(t) : t[i] = batch[i + 1]
  BY <1>0, HeadTailProperties, LenProperties, EmptySeq DEF Event
<1> HIDE DEF t
<1>2. \A i \in DOMAIN t :
        i \in Nat \ {0} /\ i + 1 \in DOMAIN batch /\ i + 1 # 1 /\ 1 \in DOMAIN batch /\ t[i] = batch[i + 1]
  BY <1>1
<1>3. \A i, j \in DOMAIN batch : batch[i].ch = batch[j].ch => i = j
  BY DEF BatchHome
<1>4. ASSUME NEW i \in DOMAIN t
      PROVE  /\ t[i].ch # Event.ch
             /\ t[i].ch \in Clients =>
                   /\ Home(t[i].ch)
                   /\ "in" \in t[i].ev => sock[t[i].ch] # <<>> \/ peer[t[i].ch] = "gone"
                   /\ "err" \in t[i].ev => peer[t[i].ch] = "gone"
  <2>1. PICK j \in DOMAIN batch : j = i + 1 /\ j # 1 /\ t[i] = batch[j]
    BY <1>2
  <2>2. t[i].ch # Event.ch
    BY <1>1, <1>2, <1>3, <2>1
  <2> QED
    BY <2>1, <2>2 DEF BatchHome, Reported
<1>5. ASSUME NEW i \in DOMAIN t, NEW j \in DOMAIN t, t[i].ch = t[j].ch PROVE i = j
  <2>1. i + 1 = j + 1
    BY <1>2, <1>3, <1>5
  <2> QED
    BY <1>2, <2>1
<1> QED
  BY <1>0, <1>1, <1>2, <1>4, <1>5 DEF t

LEMMA TailKeepsBatch ==
  ASSUME BatchHome, batch # None, batch # <<>>, batch' = Tail(batch),
         peer' = peer,
         \A d \in Clients : d # Event.ch /\ Created(d) =>
           Created(d)' /\ (Home(d) => Home(d)') /\ (sock[d] # <<>> => sock'[d] # <<>>)
  PROVE  BatchHome'
<1>1. /\ batch' \in Seq(Events)
      /\ \A i, j \in DOMAIN batch' : batch'[i].ch = batch'[j].ch => i = j
  BY BatchRest
<1>2. ASSUME NEW i \in DOMAIN batch', NEW c \in Clients, NEW ev, NEW first,
             c = batch'[i].ch, ev = batch'[i].ev
      PROVE  Reported(c, ev, first)'
  <2>1. /\ Home(c) /\ c # Event.ch
        /\ "in" \in ev => sock[c] # <<>> \/ peer[c] = "gone"
        /\ "err" \in ev => peer[c] = "gone"
    BY <1>2, BatchRest
  <2>2. Created(c)
    BY <2>1 DEF Home
  <2> QED
    BY <2>1, <2>2 DEF Reported
<1> QED
  BY <1>1, <1>2 DEF BatchHome

LEMMA WriteKeepsBatch ==
  ASSUME BatchHome, NEW c \in Clients, batch # None, batch # <<>>, Event.ch = c,
         batch' = <<[ch |-> c, ev |-> {"out"}]>> \o Tail(batch),
         peer' = peer, Created(c)', Home(c)' \/ fdTable'[connFd'[c]] = None,
         \A d \in Clients : d # c /\ Created(d) =>
           Created(d)' /\ (Home(d) => Home(d)') /\ (sock[d] # <<>> => sock'[d] # <<>>)
  PROVE  BatchHome'
<1> DEFINE t == Tail(batch)
           e == [ch |-> c, ev |-> {"out"}]
<1>1. e \in Events /\ e.ch = c /\ e.ev = {"out"}
  BY DEF Events
<1>2. /\ t \in Seq(Events) /\ Len(t) \in Nat /\ DOMAIN t = 1..Len(t)
      /\ \A i \in DOMAIN t : t[i].ch # c
      /\ \A i, j \in DOMAIN t : t[i].ch = t[j].ch => i = j
  BY BatchRest
<1>3. ASSUME NEW i \in DOMAIN t, NEW d \in Clients, d = t[i].ch
      PROVE  /\ Created(d)' /\ Home(d)'
             /\ "in" \in t[i].ev => sock'[d] # <<>> \/ peer'[d] = "gone"
             /\ "err" \in t[i].ev => peer'[d] = "gone"
  <2>1. /\ Home(d) /\ d # c
        /\ "in" \in t[i].ev => sock[d] # <<>> \/ peer[d] = "gone"
        /\ "err" \in t[i].ev => peer[d] = "gone"
    BY <1>3, BatchRest
  <2>2. Created(d)
    BY <2>1 DEF Home
  <2> QED
    BY <2>1, <2>2
<1> HIDE DEF t, e
<1>4. /\ batch' \in Seq(Events) /\ DOMAIN batch' = 1..1 + Len(t)
      /\ batch'[1] = e /\ \A i \in DOMAIN batch' : i # 1 => i - 1 \in DOMAIN t /\ batch'[i] = t[i - 1]
  <2>1. batch' = <<e>> \o t
    BY DEF e, t
  <2>2. <<e>> \in Seq(Events) /\ Len(<<e>>) = 1 /\ <<e>>[1] = e
    BY <1>1
  <2>3. /\ <<e>> \o t \in Seq(Events) /\ Len(<<e>> \o t) = 1 + Len(t)
        /\ \A i \in 1..1 + Len(t) : (<<e>> \o t)[i] = IF i <= 1 THEN <<e>>[i] ELSE t[i - 1]
    BY <1>2, <2>2, ConcatProperties
  <2>4. batch' \in Seq(Events) /\ DOMAIN batch' = 1..1 + Len(t)
    BY <2>1, <2>3, LenProperties
  <2>5. batch'[1] = e
    BY <1>2, <2>1, <2>2, <2>3
  <2>6. \A i \in DOMAIN batch' : i # 1 => i - 1 \in DOMAIN t /\ batch'[i] = t[i - 1]
    BY <1>2, <2>1, <2>3, <2>4
  <2> QED
    BY <2>4, <2>5, <2>6
<1>5. ASSUME NEW i \in DOMAIN batch', NEW j \in DOMAIN batch', batch'[i].ch = batch'[j].ch
      PROVE  i = j
  <2>1. CASE i = 1 \/ j = 1
    BY <1>1, <1>2, <1>4, <1>5, <2>1
  <2>2. CASE i # 1 /\ j # 1
    <3>1. i - 1 = j - 1
      BY <1>2, <1>4, <1>5, <2>2
    <3> QED
      BY <1>2, <1>4, <3>1
  <2> QED
    BY <2>1, <2>2
<1>6. ASSUME NEW i \in DOMAIN batch', NEW d \in Clients, NEW ev, NEW first,
             d = batch'[i].ch, ev = batch'[i].ev, first = (i = 1)
      PROVE  Reported(d, ev, first)'
  <2>1. CASE i = 1
    <3>1. d = c /\ ev = {"out"} /\ first
      BY <1>1, <1>4, <1>6, <2>1
    <3>2. "in" \notin ev /\ "err" \notin ev
      BY <3>1
    <3> QED
      BY <3>1, <3>2 DEF Reported
  <2>2. CASE i # 1
    BY <1>3, <1>4, <1>6, <2>2 DEF Reported
  <2> QED
    BY <2>1, <2>2
<1>7. batch' \in Seq(Events)
  BY <1>4
<1> QED
  BY <1>5, <1>6, <1>7 DEF BatchHome

(* A step of the loop on behalf of c, put together. *)
LEMMA LoopStepKeeps ==
  ASSUME OInv, TaskTypes, Net, PInv, NEW c \in Clients, Home(c) \/ fdTable[connFd[c]] = None,
         OInv', Onward, Grown, UNCHANGED <<peer, asked, connFd>>,
         NetQuiet \/ (NetClosed(c) /\ AskedNothing(c))
  PROVE  OneAtATime' /\ GoneAreAnswered' /\ HomeWhileAsking' /\ EpollKnowsHome'
<1>1. OneAtATime' /\ GoneAreAnswered'
  BY GrownKeeps DEF PInv
<1>2. /\ EpollKnowsHome'
      /\ \A d \in Clients \ {c} : Home(d) => Home(d)'
      /\ NetQuiet => \A d \in Clients : Home(d) => Home(d)'
  BY NetStepKeeps DEF PInv
<1>3. \A d \in Clients : (Home(d) => Home(d)') \/ AskedNothing(d)
  BY <1>2
<1>4. HomeWhileAsking'
  BY <1>3, StayHome DEF OInv, PInv
<1> QED
  BY <1>1, <1>2, <1>4

LEMMA HandlerKeeps ==
  ASSUME OInv, TaskTypes, Net, PInv, NEW c \in Clients, NEW flag, OnChannel(c, flag),
         OInv', Onward, Grown, Ownership',
         NetQuiet \/ (NetClosed(c) /\ AskedNothing(c)),
         \A d \in Clients \ {c} : sock'[d] = sock[d],
         batch' = Tail(batch) \/ batch' = <<[ch |-> c, ev |-> {"out"}]>> \o Tail(batch)
  PROVE  PInv'
<1>1. /\ Created(c) /\ (Home(c) \/ fdTable[connFd[c]] = None)
  BY EventFacts DEF PInv
<1>2. /\ UNCHANGED <<peer, asked, connFd, tick, doomed>>
      /\ batch # None /\ batch # <<>> /\ Event.ch = c
  BY DEF OnChannel, InEvent
<1>3. OneAtATime' /\ GoneAreAnswered' /\ HomeWhileAsking' /\ EpollKnowsHome'
  BY <1>1, <1>2, LoopStepKeeps
<1>4. /\ \A d \in Clients \ {c} : Home(d) => Home(d)'
      /\ Home(c)' \/ fdTable'[connFd[c]] = None
  BY <1>1, NetStepKeeps DEF PInv
<1>5. \A d \in Clients : d # c /\ Created(d) =>
        Created(d)' /\ (Home(d) => Home(d)') /\ (sock[d] # <<>> => sock'[d] # <<>>)
  BY <1>2, <1>4 DEF Created
<1>6. Created(c)'
  BY <1>1, <1>2 DEF Created
<1>7. BatchHome'
  <2>1. CASE batch' = Tail(batch)
    BY <1>2, <1>5, <2>1, TailKeepsBatch DEF PInv
  <2>2. CASE batch' = <<[ch |-> c, ev |-> {"out"}]>> \o Tail(batch)
    BY <1>2, <1>4, <1>5, <1>6, <2>2, WriteKeepsBatch DEF PInv
  <2> QED
    BY <2>1, <2>2
<1>8. NoIdleClose'
  BY <1>2 DEF PInv, NoIdleClose
<1> QED
  BY <1>3, <1>7, <1>8 DEF PInv

(* Reading a request, for a patient client: it is the one the client waits for, and
   comes from the client the object was made for. *)
LEMMA PatientRead ==
  ASSUME OInv, Net, TaskTypes, PInv, NEW c \in Clients, NEW r, ReadRequest(c, r)
  PROVE  /\ Home(c) /\ r \in Requests /\ r \in RequestsOf(c) /\ Expected(r)
         /\ \A d \in Clients : sock'[d] \in Seq(RequestsOf(d)) /\ inBuf'[d] \in Seq(RequestsOf(d))
         /\ \A d \in Clients \ {c} : sock'[d] = sock[d]
         /\ r \notin ToSet(outBuf[c])
         /\ UNCHANGED <<working, pending, functors, connFd>>
<1>1. Home(c)
  BY EventFacts DEF ReadRequest, PInv
<1> DEFINE s == inBuf[c] \o sock[c]
<1>2. /\ sock[c] # <<>> /\ r = Head(s)
      /\ sock' = [sock EXCEPT ![c] = <<>>]
      /\ inBuf' = [inBuf EXCEPT ![c] = Tail(s)]
  BY <1>1 DEF ReadRequest, Home, OInv, LineTypes
<1>3. /\ inBuf[c] \in Seq(RequestsOf(c)) /\ sock[c] \in Seq(RequestsOf(c))
  BY DEF PInv, Ownership
<1>4. s \in Seq(RequestsOf(c)) /\ s # <<>>
  BY <1>2, <1>3, ConcatProperties, ConcatEqualIffEmpty
<1> HIDE DEF s
<1>5. r \in RequestsOf(c) /\ Tail(s) \in Seq(RequestsOf(c))
  BY <1>2, <1>4, HeadTailProperties
<1>6. \A d \in Clients : sock'[d] \in Seq(RequestsOf(d)) /\ inBuf'[d] \in Seq(RequestsOf(d))
  BY <1>2, <1>5, EmptySeq DEF OInv, LineTypes, PInv, Ownership
<1>7. \A d \in Clients \ {c} : sock'[d] = sock[d]
  BY <1>2 DEF OInv, LineTypes
<1>8. PICK k \in Clients : r \in Requests /\ r \in ToSet(inBuf[c]) \cup ToSet(sock[k])
  BY ReadMoves DEF OInv
<1>9. PICK p \in Places : p[1] \in {"in", "sock"} /\ r \in Held(p)
  <2>1. <<"in", c>>[1] = "in" /\ <<"sock", k>>[1] = "sock"
    OBVIOUS
  <2> QED
    BY <1>8, <2>1, AtPlaces, ArePlaces
<1>10. Expected(r)
  BY <1>9 DEF PInv, OneAtATime
<1>11. r \notin ToSet(outBuf[c])
  <2>1. <<"out", c>> \in Places /\ <<"out", c>> # p
    <3>1. <<"out", c>>[1] = "out"
      OBVIOUS
    <3> QED
      BY <1>9, <3>1, ArePlaces
  <2>2. r \notin Held(<<"out", c>>)
    BY <1>9, <2>1 DEF OInv, OnePlace
  <2> QED
    BY <2>2, AtPlaces
<1>12. UNCHANGED <<working, pending, functors, connFd>>
  BY OnChannelFacts DEF ReadRequest
<1> QED
  BY <1>1, <1>5, <1>6, <1>7, <1>8, <1>10, <1>11, <1>12

(* What is in outputBuffer_ is what its client waits for. *)
LEMMA OutputExpected ==
  ASSUME OInv, OneAtATime, Ownership, NEW c \in Clients
  PROVE  /\ outBuf[c] \in Seq(RequestsOf(c)) /\ Distinct(outBuf[c])
         /\ \A x \in ToSet(outBuf[c]) : Expected(x)
         /\ \A r \in RequestsOf(c) : r \in Requests /\ Expected(r) /\ r \notin ToSet(outBuf[c]) =>
              /\ Append(outBuf[c], r) \in Seq(RequestsOf(c)) /\ Append(outBuf[c], r) # <<>>
              /\ Distinct(Append(outBuf[c], r))
              /\ \A x \in ToSet(Append(outBuf[c], r)) : Expected(x)
<1>1. <<"out", c>> \in Places /\ <<"out", c>>[1] = "out"
  BY ArePlaces
<1>2. Held(<<"out", c>>) = ToSet(outBuf[c]) /\ HeldOnce(<<"out", c>>) = Distinct(outBuf[c])
  BY AtPlaces
<1>3. outBuf[c] \in Seq(RequestsOf(c)) /\ outBuf[c] \in Seq(Requests)
  BY DEF Ownership, OInv, LineTypes
<1>4. Distinct(outBuf[c]) /\ \A x \in ToSet(outBuf[c]) : Expected(x)
  BY <1>1, <1>2 DEF OInv, OnePlace, OneAtATime
<1>5. ASSUME NEW r \in RequestsOf(c), r \in Requests, Expected(r), r \notin ToSet(outBuf[c])
      PROVE  /\ Append(outBuf[c], r) \in Seq(RequestsOf(c)) /\ Append(outBuf[c], r) # <<>>
             /\ Distinct(Append(outBuf[c], r))
             /\ \A x \in ToSet(Append(outBuf[c], r)) : Expected(x)
  <2>1. Append(outBuf[c], r) \in Seq(RequestsOf(c)) /\ Append(outBuf[c], r) # <<>>
    BY <1>3, AppendProperties
  <2>2. /\ Distinct(Append(outBuf[c], r))
        /\ ToSet(Append(outBuf[c], r)) = ToSet(outBuf[c]) \cup {r}
    BY <1>3, <1>4, <1>5, AppendDistinct
  <2> QED
    BY <1>4, <1>5, <2>1, <2>2
<1> QED
  BY <1>3, <1>4, <1>5

LEMMA ReadOutputKeeps ==
  ASSUME OInv, Net, TaskTypes, PInv, NEW c \in Clients, NEW r \in Requests, ReadRequest(c, r),
         Output(c, Append(outBuf[c], r)), queue' = queue, NetQuiet \/ NetClosed(c), ThenWrite(c)
  PROVE  PInv'
<1> DEFINE out == Append(outBuf[c], r)
<1>1. /\ Home(c) /\ r \in RequestsOf(c) /\ Expected(r)
      /\ \A d \in Clients : sock'[d] \in Seq(RequestsOf(d)) /\ inBuf'[d] \in Seq(RequestsOf(d))
      /\ \A d \in Clients \ {c} : sock'[d] = sock[d]
      /\ r \notin ToSet(outBuf[c])
      /\ UNCHANGED <<working, pending, functors, connFd>>
  BY PatientRead
<1>2. /\ out \in Seq(RequestsOf(c)) /\ out # <<>> /\ Distinct(out)
      /\ \A x \in ToSet(out) : Expected(x)
  BY <1>1, OutputExpected DEF PInv
<1>3. /\ OInv' /\ Onward
      /\ \A p \in Places : p[1] \notin {"out", "answers"} => Held(p)' \cap ToSet(out) = {}
  BY ReadAndOutput
<1> HIDE DEF out
<1>4. /\ Grown
      /\ \A d \in Clients : outBuf'[d] \in Seq(RequestsOf(d)) /\ answers'[d] \in Seq(RequestsOf(d))
  <2>1. Output(c, out)
    BY DEF out
  <2> QED
    BY <1>1, <1>2, <2>1, OutputHome DEF PInv
<1>5. AskedNothing(c)
  BY <1>2, <1>3, OutputAsked DEF OInv, PInv
<1>6. Ownership'
  BY <1>1, <1>4 DEF PInv, Ownership
<1>7. OnChannel(c, "in")
  BY DEF ReadRequest
<1>8. batch' = Tail(batch) \/ batch' = <<[ch |-> c, ev |-> {"out"}]>> \o Tail(batch)
  BY DEF ThenWrite
<1> QED
  BY <1>1, <1>3, <1>4, <1>5, <1>6, <1>7, <1>8, HandlerKeeps

LEMMA RefusePatient ==
  ASSUME OInv, Net, TaskTypes, PInv, NEW c \in Clients, RefuseRequest(c)
  PROVE  PInv'
<1>1. PICK r \in Requests : ReadRequest(c, r) /\ Output(c, Append(outBuf[c], r))
  BY RefusalOutputs DEF OInv
<1>2. queue' = queue /\ ThenWrite(c)
  BY DEF RefuseRequest
<1>3. connFd' = connFd
  BY <1>1, OnChannelFacts DEF ReadRequest
<1>4. UNCHANGED <<fdTable, epoll, inEpoll>> \/ \E after : Close(c, after)
  BY DEF RefuseRequest
<1>5. NetQuiet \/ NetClosed(c)
  BY <1>3, <1>4, CloseNet DEF NetQuiet
<1> QED
  BY <1>1, <1>2, <1>5, ReadOutputKeeps

LEMMA LimitPatient ==
  ASSUME OInv, Net, TaskTypes, PInv, NEW c \in Clients, LimitRequest(c)
  PROVE  PInv'
<1>1. PICK r \in Requests : ReadRequest(c, r) /\ Send(c, r, "member")
  BY DEF LimitRequest
<1>2. queue' = queue /\ ThenWrite(c)
  BY DEF LimitRequest
<1>3. connFd' = connFd /\ Created(c)
  BY <1>1, OnChannelFacts DEF ReadRequest
<1>4. Home(c)
  BY <1>1, PatientRead
<1>5. Output(c, Append(outBuf[c], r))
  BY <1>1, <1>3, SendOutputs DEF OInv
<1>6. NetQuiet \/ NetClosed(c)
  BY <1>1, <1>3, <1>4, SendNet DEF PInv
<1> QED
  BY <1>1, <1>2, <1>5, <1>6, ReadOutputKeeps

LEMMA SubmitPatient ==
  ASSUME OInv, Net, TaskTypes, PInv, NEW c \in Clients, SubmitRequest(c) \/ OverflowPool(c)
  PROVE  PInv'
<1>1. PICK r \in Requests :
        /\ ReadRequest(c, r)
        /\ queue' = queue \/ queue' = Append(queue, [conn |-> c, req |-> r])
  BY DEF SubmitRequest, OverflowPool
<1>2. /\ Home(c) /\ r \in RequestsOf(c)
      /\ \A d \in Clients : sock'[d] \in Seq(RequestsOf(d)) /\ inBuf'[d] \in Seq(RequestsOf(d))
      /\ \A d \in Clients \ {c} : sock'[d] = sock[d]
      /\ UNCHANGED <<working, pending, functors, connFd>>
  BY <1>1, PatientRead
<1>3. OInv' /\ Onward
  BY ReadAndSubmit
<1>4. UNCHANGED <<answers, outBuf, fdTable, epoll, inEpoll>>
  BY DEF SubmitRequest, OverflowPool
<1>5. queue' \in Seq(OwnTasks)
  <2>1. r[1] = c
    BY <1>2 DEF RequestsOf
  <2>2. [conn |-> c, req |-> r] \in OwnTasks
    BY <2>1 DEF OwnTasks, Tasks
  <2>3. queue \in Seq(OwnTasks)
    BY DEF PInv, Ownership
  <2>4. \A t \in OwnTasks : Append(queue, t) \in Seq(OwnTasks)
    BY <2>3, AppendProperties
  <2> QED
    BY <1>1, <2>2, <2>3, <2>4
<1>6. Ownership'
  BY <1>2, <1>4, <1>5 DEF PInv, Ownership
<1>7. OnChannel(c, "in")
  BY <1>1 DEF ReadRequest
<1>8. batch' = Tail(batch) \/ batch' = <<[ch |-> c, ev |-> {"out"}]>> \o Tail(batch)
  BY DEF SubmitRequest, OverflowPool, ThenWrite, Handled
<1>9. NetQuiet /\ Grown
  BY <1>2, <1>4, NotGrown DEF NetQuiet
<1> QED
  BY <1>2, <1>3, <1>6, <1>7, <1>8, <1>9, HandlerKeeps

LEMMA ClosePatient ==
  ASSUME OInv, Net, TaskTypes, PInv, NEW c \in Clients, HandleError(c) \/ ReadNothing(c)
  PROVE  PInv'
<1>1. PICK flag \in {"err", "in"} : OnChannel(c, flag)
  BY DEF HandleError, ReadNothing
<1>2. UNCHANGED <<asked, sock, inBuf, outBuf, answers, queue, working, pending, functors, connFd>>
  BY <1>1, OnChannelFacts DEF HandleError, ReadNothing, OnChannel
<1>3. peer[c] = "gone"
  <2>1. CASE HandleError(c)
    BY <2>1, EventFacts DEF HandleError, PInv
  <2>2. CASE ReadNothing(c)
    <3>1. Home(c) /\ (sock[c] # <<>> \/ peer[c] = "gone")
      BY <2>2, EventFacts DEF ReadNothing, PInv
    <3>2. c # None
      BY ReactorAssumption
    <3> QED
      BY <2>2, <3>1, <3>2 DEF ReadNothing, Home
  <2> QED
    BY <2>1, <2>2
<1>4. NetClosed(c)
  BY <1>2, CloseNet DEF HandleError, ReadNothing
<1>5. OInv' /\ Onward
  BY <1>2, QuietMoves
<1>6. AskedNothing(c)
  BY <1>3, <1>5, GoneAsked DEF OInv, PInv
<1>7. Ownership' /\ Grown
  BY <1>2, NotGrown DEF PInv, Ownership
<1>8. batch' = Tail(batch) \/ batch' = <<[ch |-> c, ev |-> {"out"}]>> \o Tail(batch)
  BY DEF HandleError, ReadNothing, ThenWrite, Handled
<1> QED
  BY <1>1, <1>2, <1>4, <1>5, <1>6, <1>7, <1>8, HandlerKeeps

LEMMA WritePatient ==
  ASSUME OInv, Net, TaskTypes, PInv, NEW c \in Clients, HandleWrite(c)
  PROVE  PInv'
<1>1. /\ OnChannel(c, "out") /\ Created(c) /\ (Home(c) \/ fdTable[connFd[c]] = None)
  BY EventFacts DEF HandleWrite, PInv
<1>2. UNCHANGED <<sock, inBuf, queue, working, pending, functors, connFd>>
  BY <1>1, OnChannelFacts DEF HandleWrite
<1>3. /\ OInv' /\ Onward
      /\ \A p \in Places : p[1] \notin {"out", "answers"} => Held(p)' \cap ToSet(outBuf[c]) = {}
  BY HandleWriteMoves
<1>4. Output(c, outBuf[c])
  BY WriteOutputs DEF OInv
<1>5. /\ outBuf[c] \in Seq(RequestsOf(c)) /\ Distinct(outBuf[c])
      /\ \A x \in ToSet(outBuf[c]) : Expected(x)
  BY OutputExpected DEF PInv
<1>6. /\ Grown
      /\ \A d \in Clients : outBuf'[d] \in Seq(RequestsOf(d)) /\ answers'[d] \in Seq(RequestsOf(d))
  BY <1>1, <1>4, <1>5, OutputHome DEF PInv
<1>7. NetQuiet \/ (NetClosed(c) /\ AskedNothing(c))
  <2>1. CASE UpdateChannel(c, interest[c] \ {"out"}) /\ UNCHANGED fdTable
    BY <1>1, <1>2, <2>1, UpdateNet DEF PInv
  <2>2. CASE UNCHANGED <<fdTable, epoll, inEpoll>>
    BY <1>2, <2>2 DEF NetQuiet
  <2>3. CASE outBuf[c] # <<>> /\ Close(c, "nothing")
    <3>1. AskedNothing(c)
      BY <1>3, <1>5, <2>3, OutputAsked DEF OInv, PInv
    <3> QED
      BY <1>2, <2>3, <3>1, CloseNet
  <2> QED
    BY <2>1, <2>2, <2>3 DEF HandleWrite, WriteAll
<1>8. Ownership'
  BY <1>2, <1>6 DEF PInv, Ownership
<1>9. batch' = Tail(batch)
  BY DEF HandleWrite, Handled
<1> QED
  BY <1>1, <1>2, <1>3, <1>6, <1>7, <1>8, <1>9, HandlerKeeps

LEMMA SendPatient ==
  ASSUME OInv, Net, TaskTypes, PInv, RunSend
  PROVE  PInv'
<1> DEFINE h == Head(functors)
           Own == [call : {"send", "shutdown"}, task : OwnTasks]
<1>1. /\ functors \in Seq(Own) /\ functors \in Seq(Calls) /\ functors # <<>>
      /\ functors' = Tail(functors) /\ h.call = "send"
      /\ batch = None /\ batch' = batch /\ Alive(Target)
      /\ UNCHANGED <<peer, asked, sock, inBuf, queue, working, pending, connFd, tick, doomed>>
  BY DEF RunSend, InFunctor, TaskTypes, PInv, Ownership, pool
<1>2. h \in Own /\ functors' \in Seq(Own) /\ h.task.req \in Sending(functors)
  BY <1>1, HeadTailProperties, RunOnce
<1>3. h.task \in Tasks /\ h.task.req[1] = h.task.conn
  BY <1>2 DEF OwnTasks
<1>4. PICK c \in Clients, r \in Requests : c = Target /\ r = h.task.req /\ r[1] = c
  BY <1>3 DEF Target, Tasks
<1>5. r \in RequestsOf(c)
  BY <1>4 DEF Requests, RequestsOf
<1>6. Created(c) /\ Send(c, r, "nothing")
  BY <1>1, <1>4 DEF RunSend, Alive
<1> HIDE DEF h, Own
<1>7. PICK p \in Places : p[1] = "functors" /\ r \in Held(p)
  <2>1. <<"functors", None>>[1] = "functors"
    OBVIOUS
  <2> QED
    BY <1>2, <1>4, <2>1, AtPlaces, ArePlaces
<1>8. Expected(r) /\ Home(c)
  BY <1>4, <1>6, <1>7 DEF PInv, OneAtATime, HomeWhileAsking
<1>9. r \notin ToSet(outBuf[c])
  <2>1. <<"out", c>> \in Places /\ <<"out", c>> # p
    <3>1. <<"out", c>>[1] = "out"
      OBVIOUS
    <3> QED
      BY <1>7, <3>1, ArePlaces
  <2>2. r \notin Held(<<"out", c>>)
    BY <1>7, <2>1 DEF OInv, OnePlace
  <2> QED
    BY <2>2, AtPlaces
<1> DEFINE out == Append(outBuf[c], r)
<1>10. /\ out \in Seq(RequestsOf(c)) /\ out # <<>> /\ Distinct(out)
       /\ \A x \in ToSet(out) : Expected(x)
  BY <1>5, <1>8, <1>9, OutputExpected DEF PInv
<1>11. /\ OInv' /\ Onward
       /\ \A q \in Places : q[1] \notin {"out", "answers"} => Held(q)' \cap ToSet(out) = {}
  BY <1>4, RunSendMoves DEF h
<1>12. Output(c, out)
  BY <1>6, SendOutputs DEF OInv
<1> HIDE DEF out
<1>13. /\ Grown
       /\ \A d \in Clients : outBuf'[d] \in Seq(RequestsOf(d)) /\ answers'[d] \in Seq(RequestsOf(d))
  BY <1>8, <1>10, <1>12, OutputHome DEF PInv
<1>14. AskedNothing(c)
  BY <1>10, <1>11, OutputAsked DEF OInv, PInv
<1>15. NetQuiet \/ NetClosed(c)
  BY <1>1, <1>6, <1>8, SendNet DEF PInv
<1>16. OneAtATime' /\ GoneAreAnswered' /\ HomeWhileAsking' /\ EpollKnowsHome'
  BY <1>1, <1>8, <1>11, <1>13, <1>14, <1>15, LoopStepKeeps
<1>17. Ownership'
  BY <1>1, <1>2, <1>13 DEF PInv, Ownership, Own
<1>18. BatchHome' /\ NoIdleClose'
  BY <1>1 DEF PInv, BatchHome, NoIdleClose
<1> QED
  BY <1>16, <1>17, <1>18 DEF PInv

(* Steps that do not touch what PInv is about but the tasks and functors. *)
LEMMA StillPatient ==
  ASSUME OInv, TaskTypes, PInv, OInv', Onward, Ownership',
         UNCHANGED <<peer, asked, sock, answers, connFd, fdTable, epoll, inEpoll, tick, doomed>>,
         batch' = batch \/ batch' = None
  PROVE  PInv'
<1>1. OneAtATime' /\ GoneAreAnswered'
  BY GrownKeeps, NotGrown DEF PInv
<1>2. \A d \in Clients : Home(d) => Home(d)'
  BY DEF Home, Created
<1>3. HomeWhileAsking'
  BY <1>2, StayHome DEF OInv, PInv
<1>4. EpollKnowsHome' /\ NoIdleClose'
  BY DEF PInv, EpollKnowsHome, NoIdleClose, Home, Created
<1>5. BatchHome'
  <2>1. CASE batch' = None
    BY <2>1 DEF BatchHome
  <2>2. CASE batch' = batch
    BY <2>2 DEF PInv, BatchHome, Reported, Home, Created
  <2> QED
    BY <2>1, <2>2
<1> QED
  BY <1>1, <1>3, <1>4, <1>5 DEF PInv

LEMMA FunctorsPatient ==
  ASSUME OInv, TaskTypes, PInv, SwapFunctors \/ RunShutdown
  PROVE  PInv'
<1>1. OInv' /\ Onward
  BY SwapMoves, RunShutdownMoves
<1>2. /\ UNCHANGED <<peer, asked, sock, inBuf, outBuf, answers, connFd, fdTable, epoll, inEpoll,
                    tick, doomed, queue, working>>
      /\ batch' = batch \/ batch' = None
      /\ \/ pending' = <<>> /\ functors' = pending
         \/ pending' = pending /\ functors # <<>> /\ functors' = Tail(functors)
  BY DEF SwapFunctors, RunShutdown, InFunctor, kernel, objects, pool
<1>3. Ownership'
  BY <1>2, HeadTailProperties, EmptySeq DEF PInv, Ownership
<1> QED
  BY <1>1, <1>2, <1>3, StillPatient

LEMMA WorkersPatient ==
  ASSUME OInv, TaskTypes, PInv, WorkerStep
  PROVE  PInv'
<1>1. OInv' /\ Onward
  BY TakeMoves, DispatchMoves, ReleaseMoves DEF WorkerStep
<1>2. UNCHANGED <<peer, asked, sock, inBuf, outBuf, answers, connFd, fdTable, epoll, inEpoll,
                  tick, doomed, batch, functors>>
  BY DEF WorkerStep, TakeRequest, Dispatch, ShutdownAfterSend, Release, kernel, objects, loop
<1>3. Ownership'
  <2>1. CASE TakeRequest
    <3>1. /\ queue \in Seq(OwnTasks) /\ queue # <<>> /\ queue' = Tail(queue)
          /\ working' = working \cup {[task |-> Head(queue), todo |-> "dispatch"]}
          /\ pending' = pending
      BY <2>1 DEF TakeRequest, PInv, Ownership, loop
    <3>2. Head(queue) \in OwnTasks /\ Tail(queue) \in Seq(OwnTasks)
      BY <3>1, HeadTailProperties
    <3>3. \A w \in working' : w.task \in OwnTasks
      BY <3>1, <3>2 DEF PInv, Ownership
    <3> QED
      BY <1>2, <3>1, <3>2, <3>3 DEF PInv, Ownership
  <2>2. ASSUME NEW w \in working, Dispatch(w) \/ ShutdownAfterSend(w) PROVE Ownership'
    <3> DEFINE Own == [call : {"send", "shutdown"}, task : OwnTasks]
    <3>1. w.task \in OwnTasks /\ w \in Workings /\ pending \in Seq(Own)
      BY DEF PInv, Ownership, TaskTypes
    <3>2. PICK todo : working' = (working \ {w}) \cup {[w EXCEPT !.todo = todo]}
      BY <2>2 DEF Dispatch, ShutdownAfterSend, Proceed
    <3>3. [w EXCEPT !.todo = todo].task = w.task
      BY <3>1 DEF Workings
    <3>4. \A v \in working' : v.task \in OwnTasks
      BY <3>1, <3>2, <3>3 DEF PInv, Ownership
    <3>5. pending' = pending \/ \E k \in {"send", "shutdown"} :
            pending' = Append(pending, [call |-> k, task |-> w.task])
      BY <2>2 DEF Dispatch, ShutdownAfterSend
    <3>6. pending' \in Seq(Own)
      <4>1. \A k \in {"send", "shutdown"} : [call |-> k, task |-> w.task] \in Own
        BY <3>1
      <4> HIDE DEF Own
      <4>2. \A x \in Own : Append(pending, x) \in Seq(Own)
        BY <3>1, AppendProperties
      <4> QED
        BY <3>1, <3>5, <4>1, <4>2
    <3>7. queue' = queue
      BY <2>2 DEF Dispatch, ShutdownAfterSend
    <3> QED
      BY <1>2, <3>4, <3>6, <3>7 DEF PInv, Ownership
  <2>3. ASSUME NEW w \in working, Release(w) PROVE Ownership'
    BY <1>2, <2>3 DEF Release, loop, PInv, Ownership
  <2> QED
    BY <2>1, <2>2, <2>3 DEF WorkerStep
<1> QED
  BY <1>1, <1>2, <1>3, StillPatient

(* Each accepted connection gets a descriptor of its own. *)
LEMMA AcceptHome ==
  ASSUME Net, BacklogFresh, Accept
  PROVE  /\ \A f \in Fds : fdTable[f] # None => fdTable'[f] = fdTable[f]
         /\ \A c \in Clients : Created(c) => connFd'[c] = connFd[c]
         /\ \A c \in Clients : ~Created(c) /\ connFd'[c] # None => fdTable'[connFd'[c]] = c
         /\ epoll = fdTable => epoll' = fdTable'
         /\ \A c \in inEpoll' : c \in inEpoll \/ (c \in Clients /\ ~Created(c) /\ connFd'[c] # None)
<1> DEFINE free == {f \in Fds : fdTable[f] = None}
           n == IF Len(backlog) <= Cardinality(free) THEN Len(backlog) ELSE Cardinality(free)
           new == {backlog[i] : i \in 1..n}
<1>n. n \in 0..Len(backlog) /\ n \in Nat
  <2>1. IsFiniteSet(free)
    BY ReactorAssumption, FS_Subset
  <2>2. Cardinality(free) \in Nat
    BY <2>1, FS_CardinalityType
  <2> QED
    BY <2>2 DEF BacklogFresh
<1>1. PICK fd \in [1..n -> free] :
        LET Install(g) == [f \in Fds |-> IF \E i \in 1..n : fd[i] = f
                             THEN backlog[CHOOSE i \in 1..n : fd[i] = f] ELSE g[f]]
        IN
        /\ \A i \in 1..n, f \in free : f < fd[i] <=> \E j \in 1..(i - 1) : fd[j] = f
        /\ fdTable' = Install(fdTable)
        /\ epoll' = Install(epoll)
        /\ connFd' = [c \in Clients |-> IF \E i \in 1..n : backlog[i] = c
                         THEN fd[CHOOSE i \in 1..n : backlog[i] = c] ELSE connFd[c]]
  BY DEF Accept
<1>2. inEpoll' = inEpoll \cup new
  BY DEF Accept
<1> HIDE DEF n
<1>3. \A i \in 1..n : /\ backlog[i] \in Clients /\ connFd[backlog[i]] = None
                      /\ \A j \in 1..n : backlog[i] = backlog[j] => i = j
  BY <1>n DEF BacklogFresh
<1>4. ASSUME NEW i \in 1..n, NEW j \in 1..n, fd[i] = fd[j] PROVE i = j
  <2>1. /\ fd[i] \in Nat /\ fd[i] \in free /\ fd[j] \in free
        /\ ~(fd[j] < fd[i]) /\ ~(fd[i] < fd[j])
    <3>1. fd[i] \in free /\ fd[j] \in free
      OBVIOUS
    <3>2. fd[i] \in Nat
      BY <3>1, ReactorAssumption
    <3> QED
      BY <1>4, <3>1, <3>2
  <2>2. j \notin 1..(i - 1)
    BY <1>1, <2>1
  <2>3. i \notin 1..(j - 1)
    BY <1>1, <2>1
  <2> QED
    BY <1>n, <2>1, <2>2, <2>3
<1>5. \A i \in 1..n : connFd'[backlog[i]] = fd[i] /\ fd[i] \in Fds /\ fd[i] \in free
  BY <1>1, <1>3
<1>6. \A c \in Clients \ new : connFd'[c] = connFd[c]
  BY <1>1
<1>7. ASSUME NEW i \in 1..n PROVE fdTable'[fd[i]] = backlog[i]
  <2> DEFINE k == CHOOSE j \in 1..n : fd[j] = fd[i]
  <2>1. k \in 1..n /\ fd[k] = fd[i]
    OBVIOUS
  <2>2. k = i
    BY <1>4, <2>1
  <2>3. fdTable'[fd[i]] = backlog[k]
    BY <1>1, <1>5
  <2> QED
    BY <2>2, <2>3
<1>8. \A f \in Fds : fdTable[f] # None => fdTable'[f] = fdTable[f]
  BY <1>1
<1>9. \A c \in Clients : Created(c) => connFd'[c] = connFd[c]
  BY <1>3, <1>6 DEF Created
<1>10. ASSUME NEW c \in Clients, ~Created(c), connFd'[c] # None PROVE fdTable'[connFd'[c]] = c
  <2>1. c \in new
    BY <1>6, <1>10 DEF Created
  <2>2. PICK i \in 1..n : c = backlog[i]
    BY <2>1
  <2> QED
    BY <1>5, <1>7, <2>2
<1>11. epoll = fdTable => epoll' = fdTable'
  BY <1>1
<1>12. \A c \in new : c \in Clients /\ ~Created(c) /\ connFd'[c] # None
  BY <1>3, <1>5, ReactorAssumption DEF Created
<1> QED
  BY <1>2, <1>8, <1>9, <1>10, <1>11, <1>12

LEMMA AcceptPatient ==
  ASSUME OInv, TaskTypes, Net, BacklogFresh, PInv, Accept
  PROVE  PInv'
<1>1. /\ \A f \in Fds : fdTable[f] # None => fdTable'[f] = fdTable[f]
      /\ \A c \in Clients : Created(c) => connFd'[c] = connFd[c]
      /\ \A c \in Clients : ~Created(c) /\ connFd'[c] # None => fdTable'[connFd'[c]] = c
      /\ epoll = fdTable => epoll' = fdTable'
      /\ \A c \in inEpoll' : c \in inEpoll \/ (c \in Clients /\ ~Created(c) /\ connFd'[c] # None)
  BY AcceptHome
<1>2. /\ UNCHANGED <<asked, sock, inBuf, outBuf, answers, queue, working, pending, functors,
                     peer, tick, doomed>>
      /\ batch # None /\ batch # <<>> /\ Event.ch = "listen" /\ batch' = Tail(batch)
  BY DEF Accept, InEvent, Handled, pool
<1>3. OInv' /\ Onward
  BY <1>2, QuietMoves
<1>4. OneAtATime' /\ GoneAreAnswered'
  BY <1>2, <1>3, GrownKeeps, NotGrown DEF PInv
<1>5. ASSUME NEW c \in Clients, Created(c) PROVE Created(c)' /\ (Home(c) => Home(c)')
  <2>1. connFd[c] \in Fds /\ connFd'[c] = connFd[c] /\ c # None
    BY <1>1, <1>5, ReactorAssumption DEF Created, Net, NetTypes
  <2> QED
    BY <1>1, <1>5, <2>1 DEF Home, Created
<1>6. \A c \in Clients : ~Created(c) /\ Created(c)' => Home(c)'
  BY <1>1 DEF Created, Home
<1>7. EpollKnowsHome'
  <2>1. inEpoll \subseteq Clients /\ \A c \in inEpoll : Home(c) /\ Created(c)
    BY DEF PInv, EpollKnowsHome, Home, Net, NetTypes
  <2>2. \A c \in inEpoll' : Home(c)'
    BY <1>1, <1>5, <1>6, <2>1 DEF Created
  <2> QED
    BY <1>1, <2>2 DEF PInv, EpollKnowsHome
<1>8. HomeWhileAsking'
  <2> SUFFICES ASSUME NEW p \in Places, p[1] \notin {"out", "answers"}, NEW r \in Held(p)',
                      Created(r[1])'
               PROVE  Home(r[1])'
    BY DEF HomeWhileAsking
  <2>1. PICK q \in Places : q[1] \notin {"out", "answers"} /\ r \in Held(q)
    BY <1>3 DEF Onward
  <2>2. r \in Requests
    BY <2>1, HeldAreRequests DEF OInv
  <2>3. PICK c \in Clients : c = r[1]
    BY <2>2 DEF Requests
  <2>4. Created(c)'
    BY <2>3
  <2>5. Created(c) => Home(c)
    BY <2>1, <2>3 DEF PInv, HomeWhileAsking
  <2>6. Home(c)'
    BY <1>5, <1>6, <2>4, <2>5
  <2> QED
    BY <2>3, <2>6
<1>9. BatchHome'
  BY <1>2, <1>5, TailKeepsBatch DEF PInv
<1>10. Ownership' /\ NoIdleClose'
  BY <1>2 DEF PInv, Ownership, NoIdleClose
<1> QED
  BY <1>4, <1>7, <1>8, <1>9, <1>10 DEF PInv

(* No idle closes are due. *)
LEMMA TimersPatient ==
  ASSUME OInv, TaskTypes, Net, PInv, RunTimers
  PROVE  PInv'
<1>1. /\ UNCHANGED <<asked, sock, inBuf, outBuf, answers, queue, working, pending, functors,
                     peer, connFd>>
      /\ batch # None /\ batch # <<>> /\ batch' = Tail(batch)
      /\ doomed' = {} /\ tick' = FALSE
  BY DEF RunTimers, InEvent, Handled, pool, PInv, NoIdleClose
<1>2. UNCHANGED <<fdTable, epoll, inEpoll>>
  <2>1. CloseEach({})
    BY DEF RunTimers, PInv, NoIdleClose
  <2> QED
    BY <2>1 DEF CloseEach, Net, NetTypes
<1>3. OInv' /\ Onward
  BY <1>1, QuietMoves
<1>4. OneAtATime' /\ GoneAreAnswered'
  BY <1>1, <1>3, GrownKeeps, NotGrown DEF PInv
<1>5. \A d \in Clients : /\ Home(d) => Home(d)'
                         /\ Created(d) => Created(d)'
  BY <1>1, <1>2 DEF Home, Created
<1>6. HomeWhileAsking'
  BY <1>1, <1>3, <1>5, StayHome DEF OInv, PInv
<1>7. EpollKnowsHome'
  BY <1>1, <1>2 DEF PInv, EpollKnowsHome, Home, Created
<1>8. BatchHome'
  BY <1>1, <1>5, TailKeepsBatch DEF PInv
<1>9. Ownership' /\ NoIdleClose'
  BY <1>1 DEF PInv, Ownership, NoIdleClose
<1> QED
  BY <1>4, <1>6, <1>7, <1>8, <1>9 DEF PInv

(* What epoll reports is about the object at home under the number. *)
LEMMA ReportFacts ==
  ASSUME Net, EpollKnowsHome, NEW e \in Ready
  PROVE  /\ e \in Events
         /\ e.ch \in Clients => Reported(e.ch, e.ev, FALSE)
<1>1. CASE e = [ch |-> "listen", ev |-> {"in"}] \/ e = [ch |-> "timer", ev |-> {"in"}]
  <2>1. e.ch \in {"listen", "timer"} /\ e.ev \in SUBSET {"in", "out", "err"}
        /\ e = [ch |-> e.ch, ev |-> e.ev]
    BY <1>1
  <2>2. e.ch \notin Clients
    BY <2>1, ReactorAssumption
  <2> QED
    BY <2>1, <2>2 DEF Events
<1>2. CASE \E f \in Fds : epoll[f] # None /\ e \in Reports(f)
  <2>1. PICK f \in Fds : epoll[f] # None /\ e \in Reports(f)
    BY <1>2
  <2>2. PICK c \in Clients : c = epoll[f] /\ fdTable[f] = c /\ c # None
    BY <2>1 DEF EpollKnowsHome, Net, NetTypes
  <2>3. connFd[c] = f
    BY <2>2 DEF Net, DescriptorsAccounted, MapIsHome
  <2>4. Home(c) /\ Created(c)
    BY <2>2, <2>3, ReactorAssumption DEF Home, Created
  <2>5. /\ e.ch = c /\ e.ev \in SUBSET {"in", "out", "err"} /\ e = [ch |-> e.ch, ev |-> e.ev]
        /\ "in" \in e.ev => sock[c] # <<>> \/ peer[c] = "gone"
        /\ "err" \in e.ev => peer[c] = "gone"
    BY <2>1, <2>2 DEF Reports
  <2> QED
    BY <2>4, <2>5 DEF Events, Reported
<1> QED
  BY <1>1, <1>2 DEF Ready

LEMMA EventsFinite == IsFiniteSet(Events)
<1> DEFINE C == Clients \cup {"listen", "timer"}
           E == SUBSET {"in", "out", "err"}
           f == [p \in C \X E |-> [ch |-> p[1], ev |-> p[2]]]
<1>1. IsFiniteSet(C)
  <2>1. IsFiniteSet({"listen"} \cup {"timer"})
    BY FS_Singleton, FS_Union
  <2>2. {"listen"} \cup {"timer"} = {"listen", "timer"}
    OBVIOUS
  <2>3. IsFiniteSet({"listen", "timer"})
    BY <2>1, <2>2
  <2> QED
    BY <2>3, ReactorAssumption, FS_Union
<1>2. IsFiniteSet(E)
  <2>1. IsFiniteSet({"in"} \cup {"out"} \cup {"err"})
    BY FS_Singleton, FS_Union
  <2>2. {"in"} \cup {"out"} \cup {"err"} = {"in", "out", "err"}
    OBVIOUS
  <2>3. IsFiniteSet({"in", "out", "err"})
    BY <2>1, <2>2
  <2> QED
    BY <2>3, FS_SUBSET
<1>3. Events = [ch : C, ev : E]
  BY DEF Events
<1> HIDE DEF C, E
<1>4. IsFiniteSet(C \X E)
  BY <1>1, <1>2, FS_Product
<1>5. f \in Surjection(C \X E, Events)
  <2>1. f \in [C \X E -> Events]
    BY <1>3
  <2>2. \A e \in Events : <<e.ch, e.ev>> \in C \X E /\ f[<<e.ch, e.ev>>] = e
    BY <1>3
  <2> HIDE DEF f
  <2> QED
    BY <2>1, <2>2 DEF Surjection
<1> QED
  BY <1>4, <1>5, FS_Surjection

LEMMA PollPatient ==
  ASSUME OInv, TaskTypes, Net, PInv, Poll
  PROVE  PInv'
<1>1. UNCHANGED <<asked, sock, inBuf, outBuf, answers, queue, working, pending, functors,
                  peer, connFd, fdTable, epoll, inEpoll, tick, doomed>>
  BY DEF Poll, kernel, objects, pool
<1>2. PICK active \in SUBSET Ready :
        /\ \A e \in Ready : Cardinality({a \in active : a.ch = e.ch}) = 1
        /\ batch' \in SetToSeqs(active)
  BY DEF Poll
<1>3. /\ \A e \in active : e \in Events /\ (e.ch \in Clients => Reported(e.ch, e.ev, FALSE))
      /\ IsFiniteSet(active)
  <2>1. \A e \in active : e \in Events /\ (e.ch \in Clients => Reported(e.ch, e.ev, FALSE))
    BY <1>2, ReportFacts DEF PInv
  <2> QED
    BY <2>1, EventsFinite, FS_Subset
<1>4. \A a, b \in active : a.ch = b.ch => a = b
  <2> SUFFICES ASSUME NEW a \in active, NEW b \in active, a.ch = b.ch PROVE a = b
    OBVIOUS
  <2> DEFINE S == {x \in active : x.ch = a.ch}
  <2>1. IsFiniteSet(S)
    BY <1>3, FS_Subset
  <2>2. Cardinality(S) = 1
    BY <1>2
  <2>3. a \in S /\ b \in S
    OBVIOUS
  <2> HIDE DEF S
  <2>4. PICK x : S = {x}
    BY <2>1, <2>2, FS_Singleton
  <2> QED
    BY <2>3, <2>4
<1>5. PICK k \in Nat :
        batch' \in [1..k -> active] /\ \A i, j \in 1..k : i # j => batch'[i] # batch'[j]
  <2>1. Cardinality(active) \in Nat
    BY <1>3, FS_CardinalityType
  <2> QED
    BY <1>2, <2>1 DEF SetToSeqs, IsInjective
<1>6. batch' \in Seq(Events) /\ DOMAIN batch' = 1..k /\ \A i \in 1..k : batch'[i] \in active
  <2>1. batch' \in [1..k -> Events]
    BY <1>3, <1>5
  <2> QED
    BY <1>5, <2>1
<1>7. BatchHome'
  <2>1. ASSUME NEW i \in DOMAIN batch', NEW c \in Clients, NEW ev, NEW first,
               c = batch'[i].ch, ev = batch'[i].ev
        PROVE  Reported(c, ev, first)'
    <3>1. Reported(c, ev, FALSE)
      BY <1>3, <1>6, <2>1
    <3> QED
      BY <1>1, <3>1 DEF Reported, Home, Created
  <2>2. \A i, j \in DOMAIN batch' : batch'[i].ch = batch'[j].ch => i = j
    BY <1>4, <1>5, <1>6
  <2> QED
    BY <1>6, <2>1, <2>2 DEF BatchHome
<1>8. OInv' /\ Onward
  BY <1>1, QuietMoves
<1>9. OneAtATime' /\ GoneAreAnswered'
  BY <1>1, <1>8, GrownKeeps, NotGrown DEF PInv
<1>10. HomeWhileAsking'
  <2>1. \A d \in Clients : Home(d) => Home(d)'
    BY <1>1 DEF Home, Created
  <2> QED
    BY <1>1, <1>8, <2>1, StayHome DEF OInv, PInv
<1>11. Ownership' /\ EpollKnowsHome' /\ NoIdleClose'
  BY <1>1 DEF PInv, Ownership, EpollKnowsHome, NoIdleClose, Home, Created
<1> QED
  BY <1>7, <1>9, <1>10, <1>11 DEF PInv

(* A patient client asks when it has all its answers. *)
LEMMA AskPatient ==
  ASSUME Patient, OInv, TaskTypes, Net, BacklogFresh, PInv, NEW c \in Clients, Ask(c)
  PROVE  PInv'
<1>0. PICK r : r = <<c, asked[c] + 1>>
  OBVIOUS
<1>1. /\ Len(answers[c]) = asked[c] /\ asked[c] \in Nat /\ asked[c] < MaxRequests
      /\ peer[c] = "here"
      /\ asked' = [asked EXCEPT ![c] = @ + 1]
      /\ sock' = [sock EXCEPT ![c] = Append(@, r)]
      /\ UNCHANGED <<peer, inBuf, outBuf, answers, queue, working, pending, functors, batch,
                     connFd, fdTable, epoll, inEpoll, tick, doomed>>
  BY <1>0, ReactorAssumption DEF Ask, Patient, objects, loop, pool, OInv, LineTypes
<1>2. r \in RequestsOf(c) /\ r[1] = c /\ r[2] = asked[c] + 1
  BY <1>0, <1>1, ReactorAssumption DEF RequestsOf
<1>3. /\ asked'[c] = asked[c] + 1
      /\ \A d \in Clients \ {c} : asked'[d] = asked[d]
  BY <1>1 DEF OInv, LineTypes
<1>4. \A p \in Places : \A x \in Held(p)' : x \in Held(p) \/ (p[1] = "sock" /\ x = r)
  <2>1. <<"sock", c>>[1] = "sock"
    OBVIOUS
  <2> QED
    BY <1>0, <2>1, AskMoves
<1>5. ASSUME NEW p \in Places, p[1] # "answers", NEW x \in Held(p)
      PROVE  x \in Requests /\ x[1] # c /\ Expected(x)'
  <2>1. x \in Requests /\ Expected(x)
    BY <1>5, HeldAreRequests DEF OInv, PInv, OneAtATime
  <2>2. x[1] # c
    BY <1>1, <2>1 DEF Expected
  <2>3. x[1] \in Clients
    BY <2>1 DEF Requests
  <2> QED
    BY <1>1, <1>3, <2>1, <2>2, <2>3 DEF Expected
<1>6. Expected(r)'
  BY <1>1, <1>2, <1>3 DEF Expected
<1>7. OneAtATime'
  <2>1. \A d \in Clients : Len(answers'[d]) = asked'[d] \/ Len(answers'[d]) + 1 = asked'[d]
    BY <1>1, <1>3 DEF PInv, OneAtATime
  <2>2. ASSUME NEW p \in Places, p[1] # "answers", NEW x \in Held(p)' PROVE Expected(x)'
    <3>1. CASE x = r
      BY <1>6, <3>1
    <3>2. CASE x # r
      <4>1. x \in Held(p)
        BY <1>4, <3>2
      <4> QED
        BY <1>5, <2>2, <4>1
    <3> QED
      BY <3>1, <3>2
  <2> QED
    BY <2>1, <2>2 DEF OneAtATime
<1>8. GoneAreAnswered'
  BY <1>1, <1>3 DEF PInv, GoneAreAnswered
<1>9. Created(c) => Home(c)
  <2>1. ASSUME Created(c), c \in ToSet(backlog) PROVE FALSE
    <3>1. PICK i \in 1..Len(backlog) : backlog[i] = c
      BY <2>1, LenProperties DEF ToSet, BacklogFresh
    <3> QED
      BY <2>1, <3>1 DEF BacklogFresh, Created
  <2>2. ASSUME NEW f \in Fds, fdTable[f] = c PROVE Home(c)
    <3>1. c # None /\ connections[f] = c
      BY <2>2, ReactorAssumption DEF Net, DescriptorsAccounted
    <3>2. connFd[c] = f
      BY <3>1 DEF Net, MapIsHome
    <3> QED
      BY <2>2, <3>2, ReactorAssumption DEF Home, Created
  <2> QED
    BY <2>1, <2>2 DEF Ask
<1>10. HomeWhileAsking'
  <2> SUFFICES ASSUME NEW p \in Places, p[1] \notin {"out", "answers"}, NEW x \in Held(p)',
                      Created(x[1])'
               PROVE  Home(x[1])'
    BY DEF HomeWhileAsking
  <2>1. CASE x = r
    BY <1>1, <1>2, <1>9, <2>1 DEF Home, Created
  <2>2. CASE x # r
    <3>1. x \in Held(p)
      BY <1>4, <2>2
    <3>2. x \in Requests
      BY <1>5, <3>1
    <3>3. PICK d \in Clients : d = x[1]
      BY <3>2 DEF Requests
    <3>4. Created(d)
      BY <1>1, <3>3 DEF Created
    <3>5. Home(d)
      BY <3>1, <3>3, <3>4 DEF PInv, HomeWhileAsking
    <3>6. Home(d)'
      BY <1>1, <3>5 DEF Home, Created
    <3> QED
      BY <3>3, <3>6
  <2> QED
    BY <2>1, <2>2
<1>11. Ownership'
  <2>1. sock[c] \in Seq(RequestsOf(c)) /\ sock \in [Clients -> Seq(Requests)]
    BY DEF PInv, Ownership, OInv, LineTypes
  <2>2. Append(sock[c], r) \in Seq(RequestsOf(c))
    BY <1>2, <2>1, AppendProperties
  <2>3. \A d \in Clients : sock'[d] \in Seq(RequestsOf(d))
    BY <1>1, <2>1, <2>2 DEF PInv, Ownership
  <2> QED
    BY <1>1, <2>3 DEF PInv, Ownership
<1>12. EpollKnowsHome' /\ NoIdleClose'
  BY <1>1 DEF PInv, EpollKnowsHome, NoIdleClose, Home, Created
<1>13. BatchHome'
  <2>1. \A d \in Clients : sock[d] # <<>> => sock'[d] # <<>>
    <3>1. sock[c] \in Seq(Requests)
      BY DEF OInv, LineTypes
    <3>2. Append(sock[c], r) # <<>>
      <4>1. Len(sock[c]) \in Nat /\ Len(Append(sock[c], r)) = Len(sock[c]) + 1
        BY <3>1, LenProperties
      <4>2. Len(<<>>) = 0
        BY EmptySeq
      <4> QED
        BY <4>1, <4>2
    <3> QED
      BY <1>1, <3>2 DEF OInv, LineTypes
  <2>2. ASSUME NEW d \in Clients, NEW ev, NEW first, Reported(d, ev, first)
        PROVE  Reported(d, ev, first)'
    BY <1>1, <2>1, <2>2 DEF Reported, Home, Created
  <2>3. BatchHome
    BY DEF PInv
  <2> QED
    BY <1>1, <2>2, <2>3 DEF BatchHome
<1> QED
  BY <1>7, <1>8, <1>10, <1>11, <1>12, <1>13 DEF PInv

(* A patient client leaves when it has all its answers. *)
LEMMA MeetPatient ==
  ASSUME Patient, OInv, TaskTypes, BacklogFresh, PInv, NEW c \in Clients, Connect(c) \/ Leave(c)
  PROVE  PInv'
<1>1. UNCHANGED <<asked, sock, inBuf, outBuf, answers, queue, working, pending, functors, batch,
                  connFd, fdTable, epoll, inEpoll, tick, doomed>>
  BY DEF Connect, Leave, objects, loop, pool
<1>2. \/ peer[c] = "away" /\ peer' = [peer EXCEPT ![c] = "here"]
      \/ peer[c] = "here" /\ peer' = [peer EXCEPT ![c] = "gone"] /\ Len(answers[c]) = asked[c]
  BY DEF Connect, Leave, Patient
<1>3. /\ \A d \in Clients : peer[d] = "gone" => peer'[d] = "gone"
      /\ \A d \in Clients : peer'[d] = "gone" => peer[d] = "gone" \/ Len(answers[d]) = asked[d]
  BY <1>2 DEF BacklogFresh
<1>4. OInv' /\ \A p \in Places : Held(p)' = Held(p)
  <2>1. {} \in SUBSET Places
    OBVIOUS
  <2>2. \A p \in Places \ {} : Held(p)' = Held(p)
    BY <1>1, <2>1, Elsewhere
  <2> QED
    BY <1>1, <2>2, QuietMoves
<1>5. OneAtATime'
  BY <1>1, <1>4 DEF PInv, OneAtATime, Expected
<1>6. GoneAreAnswered'
  BY <1>1, <1>3 DEF PInv, GoneAreAnswered
<1>7. HomeWhileAsking' /\ EpollKnowsHome' /\ NoIdleClose' /\ Ownership'
  BY <1>1, <1>4 DEF PInv, HomeWhileAsking, EpollKnowsHome, NoIdleClose, Ownership, Home, Created
<1>8. BatchHome'
  <2>1. ASSUME NEW d \in Clients, NEW ev, NEW first, Reported(d, ev, first)
        PROVE  Reported(d, ev, first)'
    BY <1>1, <1>3, <2>1 DEF Reported, Home, Created
  <2>2. BatchHome
    BY DEF PInv
  <2> QED
    BY <1>1, <2>1, <2>2 DEF BatchHome
<1> QED
  BY <1>5, <1>6, <1>7, <1>8 DEF PInv

LEMMA DanglingPatient ==
  ASSUME OInv, TaskTypes, PInv, DanglingChannel \/ DanglingFunctor \/ UNCHANGED vars
  PROVE  PInv'
<1>1. UNCHANGED <<peer, asked, sock, inBuf, outBuf, answers, queue, working, pending, functors,
                  batch, connFd, fdTable, epoll, inEpoll, tick, doomed>>
  BY DEF DanglingChannel, DanglingFunctor, vars, kernel, objects, loop, pool
<1>2. OInv' /\ Onward
  BY <1>1, QuietMoves
<1>3. Ownership'
  BY <1>1 DEF PInv, Ownership
<1> QED
  BY <1>1, <1>2, <1>3, StillPatient

LEMMA PatientInductive == Patient /\ IInv /\ OInv /\ PInv /\ [Next]_vars => PInv'
<1> SUFFICES ASSUME Patient, IInv, OInv, PInv, [Next]_vars PROVE PInv'
  OBVIOUS
<1>t. TaskTypes /\ Net /\ BacklogFresh
  BY DEF IInv
<1>1. CASE Poll
  BY <1>1, <1>t, PollPatient
<1>2. CASE Accept
  BY <1>2, <1>t, AcceptPatient
<1>3. CASE RunTimers
  BY <1>3, <1>t, TimersPatient
<1>4. CASE DanglingChannel \/ DanglingFunctor \/ UNCHANGED vars
  BY <1>4, <1>t, DanglingPatient
<1>5. ASSUME NEW c \in Clients, HandleError(c) \/ ReadNothing(c) PROVE PInv'
  BY <1>5, <1>t, ClosePatient
<1>6. ASSUME NEW c \in Clients, HandleWrite(c) PROVE PInv'
  BY <1>6, <1>t, WritePatient
<1>7. ASSUME NEW c \in Clients, RefuseRequest(c) PROVE PInv'
  BY <1>7, <1>t, RefusePatient
<1>8. ASSUME NEW c \in Clients, LimitRequest(c) PROVE PInv'
  BY <1>8, <1>t, LimitPatient
<1>9. ASSUME NEW c \in Clients, SubmitRequest(c) \/ OverflowPool(c) PROVE PInv'
  BY <1>9, <1>t, SubmitPatient
<1>10. CASE SwapFunctors \/ RunShutdown
  BY <1>10, <1>t, FunctorsPatient
<1>11. CASE RunSend
  BY <1>11, <1>t, SendPatient
<1>12. CASE WorkerStep
  BY <1>12, <1>t, WorkersPatient
<1>13. ASSUME NEW c \in Clients, Connect(c) \/ Leave(c) PROVE PInv'
  BY <1>13, <1>t, MeetPatient
<1>14. ASSUME NEW c \in Clients, Ask(c) PROVE PInv'
  BY <1>14, <1>t, AskPatient
<1>15. ~Tick /\ \A c \in Clients : ~GrowIdle(c)
  BY DEF Patient, Tick, GrowIdle
<1> QED
  BY <1>1, <1>2, <1>3, <1>4, <1>5, <1>6, <1>7, <1>8, <1>9, <1>10, <1>11, <1>12, <1>13,
     <1>14, <1>15
     DEF Next, LoopStep, HandleEvent, World

LEMMA InitPatient == Init => PInv
<1> SUFFICES ASSUME Init PROVE PInv
  OBVIOUS
<1>1. \A p \in Places : Held(p) = {}
  BY InitHoldsNothing
<1>2. \A c \in Clients : Len(answers[c]) = 0 /\ asked[c] = 0 /\ peer[c] = "away"
  BY EmptySeq DEF Init
<1>3. OneAtATime /\ GoneAreAnswered /\ HomeWhileAsking
  BY <1>1, <1>2 DEF OneAtATime, GoneAreAnswered, HomeWhileAsking
<1>4. Ownership
  BY EmptySeq DEF Init, Ownership
<1> QED
  BY <1>3, <1>4 DEF Init, PInv, EpollKnowsHome, BatchHome, NoIdleClose

LEMMA PatientInvariance ==
  ASSUME Patient
  PROVE  Spec => [](IInv /\ PInv)
<1>1. Spec => []IInv /\ []OInv /\ Init /\ [][Next]_vars
  BY Invariance, OnePlaceInvariance, PTL DEF Spec
<1>2. IInv /\ OInv /\ PInv /\ [Next]_vars => PInv'
  BY PatientInductive
<1> QED
  BY <1>1, <1>2, InitPatient, PTL

(* Clients that send a request at a time, wait for the answer and are not closed
   for being idle get the answers to their own requests: descriptor numbers are
   reused only after every answer that was on its way has been sent. *)
THEOREM PatientClientsGetTheirs ==
  ASSUME Patient
  PROVE  Spec => []RepliesReachTheirClient
<1>1. PInv => RepliesReachTheirClient
  <2> SUFFICES ASSUME PInv, NEW c \in Clients, NEW i \in DOMAIN answers[c]
               PROVE  answers[c][i][1] = c
    BY DEF RepliesReachTheirClient, Sender
  <2>1. answers[c] \in Seq(RequestsOf(c)) /\ answers[c][i] \in ToSet(answers[c])
    BY DEF PInv, Ownership, ToSet
  <2> QED
    BY <2>1, InOwn
<1> QED
  BY <1>1, PatientInvariance, PTL

(* With connections kept alive as well, every functor sends, and every task is for
   an object that has been made. *)
KeptAlive == Patient /\ "close" \notin Env

TasksOf(C) == {t \in Tasks : t.conn \in C}
SendsOf(C) == [call : {"send"}, task : TasksOf(C)]

WorkFor(C) ==
    /\ queue \in Seq(TasksOf(C))
    /\ \A w \in working : w.task \in TasksOf(C) /\ w.todo # "shutdown"
    /\ pending \in Seq(SendsOf(C))
    /\ functors \in Seq(SendsOf(C))

Made == {c \in Clients : Created(c)}

FInv == WorkFor(Made) /\ FunctorsHaveTargets

LEMMA WorkForMore ==
  ASSUME NEW C, NEW D, C \subseteq D, WorkFor(C)'
  PROVE  WorkFor(D)'
<1>1. TasksOf(C) \subseteq TasksOf(D)
  BY DEF TasksOf
<1>2. SendsOf(C) \subseteq SendsOf(D)
  BY <1>1 DEF SendsOf
<1>3. ASSUME NEW S, NEW T, S \subseteq T, NEW s \in Seq(S) PROVE s \in Seq(T)
  <2>1. ToSet(s) \subseteq T
    BY <1>3 DEF ToSet
  <2> QED
    BY <2>1, SubSequence
<1> QED
  BY <1>1, <1>2, <1>3 DEF WorkFor

(* What a step does to the work, for a set of objects that does not change. *)
LEMMA WorkStays ==
  ASSUME NEW C, WorkFor(C), UNCHANGED <<queue, working, pending, functors>>
  PROVE  WorkFor(C)'
BY DEF WorkFor

LEMMA SubmittedWork ==
  ASSUME NEW C \in SUBSET Clients, WorkFor(C), NEW c \in C, NEW r \in Requests,
         queue' = Append(queue, [conn |-> c, req |-> r]),
         UNCHANGED <<working, pending, functors>>
  PROVE  WorkFor(C)'
<1>1. [conn |-> c, req |-> r] \in TasksOf(C)
  BY DEF TasksOf, Tasks
<1>2. queue' \in Seq(TasksOf(C))
  BY <1>1, AppendProperties DEF WorkFor
<1> QED
  BY <1>2 DEF WorkFor

LEMMA FunctorWork ==
  ASSUME NEW C, WorkFor(C), SwapFunctors \/ RunSend \/ RunShutdown
  PROVE  WorkFor(C)'
<1>1. /\ UNCHANGED <<queue, working>>
      /\ \/ pending' = <<>> /\ functors' = pending
         \/ pending' = pending /\ functors # <<>> /\ functors' = Tail(functors)
  BY DEF SwapFunctors, RunSend, RunShutdown, InFunctor, pool
<1> QED
  BY <1>1, HeadTailProperties, EmptySeq DEF WorkFor

LEMMA PoolWork ==
  ASSUME KeptAlive, TaskTypes, NEW C, WorkFor(C), WorkerStep
  PROVE  WorkFor(C)'
<1>1. functors' = functors
  BY DEF WorkerStep, TakeRequest, Dispatch, ShutdownAfterSend, Release, loop
<1>2. CASE TakeRequest
  <2>1. /\ queue \in Seq(TasksOf(C)) /\ queue # <<>> /\ queue' = Tail(queue)
        /\ working' = working \cup {[task |-> Head(queue), todo |-> "dispatch"]}
        /\ pending' = pending
    BY <1>2 DEF TakeRequest, WorkFor, loop
  <2>2. Head(queue) \in TasksOf(C) /\ Tail(queue) \in Seq(TasksOf(C))
    BY <2>1, HeadTailProperties
  <2>3. \A w \in working' : w.task \in TasksOf(C) /\ w.todo # "shutdown"
    BY <2>1, <2>2 DEF WorkFor
  <2> QED
    BY <1>1, <2>1, <2>2, <2>3 DEF WorkFor
<1>3. ASSUME NEW w \in working, Dispatch(w) PROVE WorkFor(C)'
  <2>1. w.task \in TasksOf(C) /\ w \in Workings /\ pending \in Seq(SendsOf(C))
    BY DEF WorkFor, TaskTypes
  <2>2. working' = (working \ {w}) \cup {[w EXCEPT !.todo = "release"]}
    BY <1>3 DEF Dispatch, Proceed, KeptAlive
  <2>3. [w EXCEPT !.todo = "release"].task = w.task /\ [w EXCEPT !.todo = "release"].todo = "release"
    BY <2>1 DEF Workings
  <2>4. \A v \in working' : v.task \in TasksOf(C) /\ v.todo # "shutdown"
    BY <2>1, <2>2, <2>3 DEF WorkFor
  <2>5. pending' = pending \/ pending' = Append(pending, [call |-> "send", task |-> w.task])
    BY <1>3 DEF Dispatch
  <2>6. pending' \in Seq(SendsOf(C))
    <3>1. [call |-> "send", task |-> w.task] \in SendsOf(C)
      BY <2>1 DEF SendsOf
    <3>2. \A x \in SendsOf(C) : Append(pending, x) \in Seq(SendsOf(C))
      BY <2>1, AppendProperties
    <3> QED
      BY <2>1, <2>5, <3>1, <3>2
  <2>7. queue' = queue
    BY <1>3 DEF Dispatch
  <2> QED
    BY <1>1, <2>4, <2>6, <2>7 DEF WorkFor
<1>4. ASSUME NEW w \in working PROVE ~ShutdownAfterSend(w)
  BY DEF ShutdownAfterSend, WorkFor
<1>5. ASSUME NEW w \in working, Release(w) PROVE WorkFor(C)'
  BY <1>1, <1>5 DEF Release, loop, WorkFor
<1> QED
  BY <1>2, <1>3, <1>4, <1>5 DEF WorkerStep

(* The object of the next functor is at home, so it exists. *)
LEMMA TargetsAlive ==
  ASSUME OInv, Net, PInv, FInv, InFunctor
  PROVE  Alive(Target)
<1>1. /\ functors \in Seq(SendsOf(Made)) /\ functors # <<>>
      /\ functors \in Seq([call : {"send", "shutdown"}, task : OwnTasks])
  BY DEF FInv, WorkFor, InFunctor, PInv, Ownership
<1>2. PICK i \in DOMAIN functors : Head(functors) = functors[i]
  <2>1. 1 \in DOMAIN functors
    BY <1>1, LenProperties, EmptySeq
  <2> QED
    BY <1>1, <2>1, HeadTailProperties
<1>3. functors[i] \in SendsOf(Made) /\ functors[i].task \in OwnTasks
  <2> DEFINE Own == [call : {"send", "shutdown"}, task : OwnTasks]
  <2>1. functors[i] \in SendsOf(Made)
    BY <1>1, <1>2
  <2>2. functors \in Seq(Own)
    BY <1>1
  <2> HIDE DEF Own
  <2>3. functors[i] \in Own
    BY <1>2, <2>2
  <2> QED
    BY <2>1, <2>3 DEF Own
<1>4. PICK c \in Clients, r \in Requests :
        /\ c = Target /\ r = functors[i].task.req /\ r[1] = c
        /\ Created(c) /\ functors[i].call = "send"
  BY <1>2, <1>3 DEF SendsOf, TasksOf, Made, OwnTasks, Target, Tasks
<1>5. r \in Sending(functors)
  BY <1>2, <1>4 DEF Sending
<1>6. PICK p \in Places : p[1] = "functors" /\ r \in Held(p)
  <2>1. <<"functors", None>>[1] = "functors"
    OBVIOUS
  <2> QED
    BY <1>5, <2>1, AtPlaces, ArePlaces
<1>7. Home(c)
  BY <1>4, <1>6 DEF PInv, HomeWhileAsking
<1>8. connFd[c] \in Fds /\ connections[connFd[c]] = c
  BY <1>4, <1>7 DEF Home, Created, Net, NetTypes, DescriptorsAccounted
<1> QED
  BY <1>4, <1>8 DEF Alive

(* Objects stay made, and only a dangling functor is recorded as one. *)
LEMMA HandlersTouch ==
  ASSUME NEW c \in Clients, FunctorsHaveTargets,
         \/ HandleError(c) \/ HandleWrite(c) \/ ReadNothing(c)
         \/ RefuseRequest(c) \/ LimitRequest(c) \/ SubmitRequest(c) \/ OverflowPool(c)
  PROVE  /\ FunctorsHaveTargets' /\ connFd' = connFd /\ Created(c)
         /\ UNCHANGED <<working, pending, functors>>
<1>1. \E flag : OnChannel(c, flag)
  BY DEF HandleError, HandleWrite, ReadNothing, RefuseRequest, LimitRequest,
         SubmitRequest, OverflowPool, ReadRequest
<1>2. /\ connFd' = connFd /\ Created(c)
      /\ UNCHANGED <<working, pending, functors>>
  BY <1>1, OnChannelFacts
<1> SUFFICES FunctorsHaveTargets'
  BY <1>2
<1>3. \A after : after # "functor" /\ Close(c, after) => FunctorsHaveTargets'
  BY DEF Close, FunctorsHaveTargets
<1>4. touched' = touched => FunctorsHaveTargets'
  BY DEF FunctorsHaveTargets
<1>5. \A r : Send(c, r, "member") => FunctorsHaveTargets'
  BY <1>3, <1>4 DEF Send
<1>6. CASE HandleError(c) \/ ReadNothing(c)
  BY <1>3, <1>6 DEF HandleError, ReadNothing
<1>7. CASE HandleWrite(c)
  BY <1>3, <1>4, <1>7 DEF HandleWrite, WriteAll
<1>8. CASE RefuseRequest(c)
  BY <1>3, <1>4, <1>8 DEF RefuseRequest
<1>9. CASE LimitRequest(c)
  BY <1>5, <1>9 DEF LimitRequest
<1>10. CASE SubmitRequest(c) \/ OverflowPool(c)
  BY <1>4, <1>10 DEF SubmitRequest, OverflowPool
<1> QED
  BY <1>6, <1>7, <1>8, <1>9, <1>10

LEMMA KeptAliveInductive == KeptAlive /\ IInv /\ OInv /\ PInv /\ FInv /\ [Next]_vars => FInv'
<1> SUFFICES ASSUME KeptAlive, IInv, OInv, PInv, FInv, [Next]_vars PROVE FInv'
  OBVIOUS
<1>t. TaskTypes /\ Net /\ BacklogFresh
  BY DEF IInv
<1>p. PICK C \in SUBSET Clients : C = Made
  BY DEF Made
<1>w. WorkFor(C) /\ FunctorsHaveTargets
  BY <1>p DEF FInv
<1>m. ASSUME WorkFor(C)', FunctorsHaveTargets', \A c \in Clients : Created(c) => Created(c)'
      PROVE  FInv'
  <2>1. PICK D : D = Made'
    OBVIOUS
  <2>2. C \subseteq D
    BY <1>m, <1>p, <2>1 DEF Made
  <2>3. WorkFor(D)'
    BY <1>m, <2>2, WorkForMore
  <2> QED
    BY <1>m, <2>1, <2>3 DEF FInv, WorkFor
<1>c. connFd' = connFd => \A c \in Clients : Created(c) => Created(c)'
  BY DEF Created
<1>1. CASE Poll \/ RunTimers \/ World \/ UNCHANGED vars
  <2>1. UNCHANGED <<queue, working, pending, functors, connFd, touched>>
    BY <1>1 DEF Poll, RunTimers, World, Tick, Connect, Ask, Leave, GrowIdle, vars, objects,
                loop, pool
  <2>2. FunctorsHaveTargets'
    BY <1>w, <2>1 DEF FunctorsHaveTargets
  <2> QED
    BY <1>c, <1>m, <1>w, <2>1, <2>2, WorkStays
<1>2. CASE Accept
  <2>1. UNCHANGED <<queue, working, pending, functors, touched>>
    BY <1>2 DEF Accept, pool
  <2>2. FunctorsHaveTargets'
    BY <1>w, <2>1 DEF FunctorsHaveTargets
  <2>3. \A c \in Clients : Created(c) => Created(c)'
    <3>1. \A c \in Clients : Created(c) => connFd'[c] = connFd[c]
      BY <1>2, <1>t, AcceptHome
    <3> QED
      BY <3>1 DEF Created
  <2> QED
    BY <1>m, <1>w, <2>1, <2>2, <2>3, WorkStays
<1>3. CASE DanglingChannel
  <2>1. UNCHANGED <<queue, working, pending, functors, connFd>>
    BY <1>3 DEF DanglingChannel, objects, loop, pool
  <2>2. FunctorsHaveTargets'
    BY <1>3, <1>w DEF DanglingChannel, FunctorsHaveTargets
  <2> QED
    BY <1>c, <1>m, <1>w, <2>1, <2>2, WorkStays
<1>4. ASSUME NEW c \in Clients,
             \/ HandleError(c) \/ HandleWrite(c) \/ ReadNothing(c)
             \/ RefuseRequest(c) \/ LimitRequest(c) \/ SubmitRequest(c) \/ OverflowPool(c)
      PROVE  FInv'
  <2>1. /\ FunctorsHaveTargets' /\ connFd' = connFd /\ Created(c)
        /\ UNCHANGED <<working, pending, functors>>
    BY <1>4, <1>w, HandlersTouch
  <2>2. CASE queue' = queue
    BY <1>c, <1>m, <1>w, <2>1, <2>2, WorkStays
  <2>3. CASE SubmitRequest(c)
    <3>1. PICK r \in Requests : queue' = Append(queue, [conn |-> c, req |-> r])
      BY <2>3 DEF SubmitRequest
    <3>2. c \in C
      BY <1>p, <2>1 DEF Made
    <3>3. WorkFor(C)'
      BY <1>w, <2>1, <3>1, <3>2, SubmittedWork
    <3> QED
      BY <1>c, <1>m, <2>1, <3>3
  <2>4. queue' = queue \/ SubmitRequest(c)
    BY <1>4 DEF HandleError, HandleWrite, ReadNothing, RefuseRequest, LimitRequest, OverflowPool
  <2> QED
    BY <2>2, <2>3, <2>4
<1>5. CASE SwapFunctors \/ RunSend \/ RunShutdown
  <2>1. connFd' = connFd
    BY <1>5 DEF SwapFunctors, RunSend, RunShutdown, objects
  <2>2. FunctorsHaveTargets'
    BY <1>5, <1>w DEF SwapFunctors, RunSend, RunShutdown, Send, Close, FunctorsHaveTargets
  <2> QED
    BY <1>5, <1>c, <1>m, <1>w, <2>1, <2>2, FunctorWork
<1>6. ~DanglingFunctor
  BY <1>t, TargetsAlive DEF DanglingFunctor
<1>7. CASE WorkerStep
  <2>1. UNCHANGED <<connFd, touched>>
    BY <1>7 DEF WorkerStep, TakeRequest, Dispatch, ShutdownAfterSend, Release, objects
  <2>2. FunctorsHaveTargets'
    BY <1>w, <2>1 DEF FunctorsHaveTargets
  <2> QED
    BY <1>7, <1>c, <1>m, <1>t, <1>w, <2>1, <2>2, PoolWork
<1> QED
  BY <1>1, <1>2, <1>3, <1>4, <1>5, <1>6, <1>7 DEF Next, LoopStep, HandleEvent

LEMMA InitKeptAlive == Init => FInv
BY EmptySeq DEF Init, FInv, WorkFor, FunctorsHaveTargets

(* If besides no response closes its connection, the raw pointers in the functor
   queue are good: the object of a functor has its descriptor, and connections_
   has the object, until the client has the response. *)
THEOREM KeptAliveFunctorsHaveTargets ==
  ASSUME KeptAlive
  PROVE  Spec => []FunctorsHaveTargets
<1>1. Patient
  BY DEF KeptAlive
<1>2. Spec => [](IInv /\ PInv) /\ []OInv /\ Init /\ [][Next]_vars
  BY <1>1, PatientInvariance, OnePlaceInvariance, PTL DEF Spec
<1>3. IInv /\ OInv /\ PInv /\ FInv /\ [Next]_vars => FInv'
  BY KeptAliveInductive
<1>4. FInv => FunctorsHaveTargets
  BY DEF FInv
<1> QED
  BY <1>2, <1>3, <1>4, InitKeptAlive, PTL

=============================================================================

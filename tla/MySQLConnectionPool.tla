------------------------ MODULE MySQLConnectionPool ------------------------
(***************************************************************************)
(* MySQLConnectionPool: a queue of idle connections and a count of all     *)
(* connections under one mutex, a condition variable for threads that find *)
(* none, connections that come back through the deleter of the shared_ptr  *)
(* getConnection returns, and closeAll at exit.                            *)
(*                                                                         *)
(* Every critical section of mutex_ is one action.  "asleep" is the wait   *)
(* set of cond_; a notified or spuriously woken thread is "ready" again.   *)
(* Whether a connect to the server succeeds is the environment's choice.   *)
(***************************************************************************)
EXTENDS Naturals, Sequences, FiniteSets

CONSTANTS
    Threads,   \* callers of getConnection
    Conns,     \* MySQLClient objects (addresses)
    NoConn,    \* a null pointer
    MinSize,   \* minSize_
    MaxSize,   \* maxSize_
    SizeMod    \* 2^w for the w bits of size_t

(* main.cpp:33 configures 5 and 20; there are always addresses left for new
   objects and size_t holds the count of all objects. *)
ASSUME ConnPoolAssumption ==
    /\ IsFiniteSet(Threads) /\ IsFiniteSet(Conns)
    /\ NoConn \notin Conns
    /\ MinSize \in Nat /\ MaxSize \in Nat /\ SizeMod \in Nat
    /\ MinSize <= MaxSize
    /\ MaxSize < Cardinality(Conns)
    /\ Cardinality(Conns) < SizeMod

VARIABLES
    idle,          \* idleConnections_
    currentSize,   \* currentSize_
    stop,          \* stop_
    caller,        \* where each thread is in getConnection
    holds,         \* the connection each thread's shared_ptr owns
    lost           \* connections whose isConnected() is false

vars == <<idle, currentSize, stop, caller, holds, lost>>

Idle == {idle[i] : i \in 1..Len(idle)}
Held == {holds[t] : t \in Threads} \ {NoConn}
Existing == Idle \cup Held

Ready == {t \in Threads : caller[t] = "ready"}
Asleep == {t \in Threads : caller[t] = "asleep"}
Holding == {t \in Threads : caller[t] = "holding"}

(* init: up to MinSize connections, fewer if the server refuses some. *)
Init ==
    /\ \E n \in 0..MinSize : idle \in [1..n -> Conns]
    /\ \A i, j \in 1..Len(idle) : idle[i] = idle[j] => i = j
    /\ currentSize = Len(idle)
    /\ stop = FALSE
    /\ caller = [t \in Threads |-> "out"]
    /\ holds = [t \in Threads |-> NoConn]
    /\ lost = {}

(* Mutant of NotifyOneAnd. *)
NotifyNoneAnd(t, p) == caller' = [caller EXCEPT ![t] = p]

(* cond_.notify_one: one waiter of cond_ wakes if there is one; the thread
   that notifies moves to place p. *)
NotifyOneAnd(t, p) ==
    IF Asleep = {}
    THEN caller' = [caller EXCEPT ![t] = p]
    ELSE \E s \in Asleep : caller' = [caller EXCEPT ![t] = p, ![s] = "ready"]

(* --currentSize_ on a size_t. *)
Decremented == IF currentSize = 0 THEN SizeMod - 1 ELSE currentSize - 1

-----------------------------------------------------------------------------
(* Mutated forms of the definitions below, for the sensitivity runs. *)

TakeWithoutPop(t) ==
    /\ caller[t] = "ready"
    /\ ~stop
    /\ idle # <<>>
    /\ Head(idle) \notin lost
    /\ holds' = [holds EXCEPT ![t] = Head(idle)]
    /\ caller' = [caller EXCEPT ![t] = "holding"]
    /\ UNCHANGED <<idle, currentSize, stop, lost>>

CloseAllSilently ==
    /\ stop' = TRUE
    /\ idle' = <<>>
    /\ lost' = lost \ Idle
    /\ currentSize' = 0
    /\ UNCHANGED <<caller, holds>>

ReconnectFailsUncounted(t) ==
    /\ caller[t] = "ready"
    /\ ~stop
    /\ idle # <<>>
    /\ Head(idle) \in lost
    /\ idle' = Tail(idle)
    /\ lost' = lost \ {Head(idle)}
    /\ caller' = [caller EXCEPT ![t] = "out"]
    /\ UNCHANGED <<currentSize, stop, holds>>

(* A waiter that closeAll woke looks at the count before it looks at stop_. *)
CreateAlsoStopped(t) ==
    /\ caller[t] = "ready"
    /\ idle = <<>>
    /\ currentSize < MaxSize
    /\ \E c \in Conns \ Existing : holds' = [holds EXCEPT ![t] = c]
    /\ currentSize' = currentSize + 1
    /\ caller' = [caller EXCEPT ![t] = "holding"]
    /\ UNCHANGED <<idle, stop, lost>>

-----------------------------------------------------------------------------
(* getConnection *)

Call(t) ==
    /\ caller[t] = "out"
    /\ caller' = [caller EXCEPT ![t] = "ready"]
    /\ UNCHANGED <<idle, currentSize, stop, holds, lost>>

Block(t) ==
    /\ caller[t] = "ready"
    /\ ~stop
    /\ idle = <<>>
    /\ currentSize >= MaxSize
    /\ caller' = [caller EXCEPT ![t] = "asleep"]
    /\ UNCHANGED <<idle, currentSize, stop, holds, lost>>

SpuriousWakeup(t) ==
    /\ caller[t] = "asleep"
    /\ caller' = [caller EXCEPT ![t] = "ready"]
    /\ UNCHANGED <<idle, currentSize, stop, holds, lost>>

ReturnNullStopped(t) ==
    /\ caller[t] = "ready"
    /\ stop
    /\ caller' = [caller EXCEPT ![t] = "out"]
    /\ UNCHANGED <<idle, currentSize, stop, holds, lost>>

TakeIdle(t) ==
    /\ caller[t] = "ready"
    /\ ~stop
    /\ idle # <<>>
    /\ Head(idle) \notin lost
    /\ idle' = Tail(idle)
    /\ holds' = [holds EXCEPT ![t] = Head(idle)]
    /\ caller' = [caller EXCEPT ![t] = "holding"]
    /\ UNCHANGED <<currentSize, stop, lost>>

TakeReconnected(t) ==
    /\ caller[t] = "ready"
    /\ ~stop
    /\ idle # <<>>
    /\ Head(idle) \in lost
    /\ idle' = Tail(idle)
    /\ lost' = lost \ {Head(idle)}
    /\ holds' = [holds EXCEPT ![t] = Head(idle)]
    /\ caller' = [caller EXCEPT ![t] = "holding"]
    /\ UNCHANGED <<currentSize, stop>>

(* The popped connection is destroyed, the count goes down, nobody is told. *)
ReconnectFails(t) ==
    /\ caller[t] = "ready"
    /\ ~stop
    /\ idle # <<>>
    /\ Head(idle) \in lost
    /\ idle' = Tail(idle)
    /\ lost' = lost \ {Head(idle)}
    /\ currentSize' = Decremented
    /\ caller' = [caller EXCEPT ![t] = "out"]
    /\ UNCHANGED <<stop, holds>>

Create(t) ==
    /\ caller[t] = "ready"
    /\ ~stop
    /\ idle = <<>>
    /\ currentSize < MaxSize
    /\ \E c \in Conns \ Existing : holds' = [holds EXCEPT ![t] = c]
    /\ currentSize' = currentSize + 1
    /\ caller' = [caller EXCEPT ![t] = "holding"]
    /\ UNCHANGED <<idle, stop, lost>>

CreateFails(t) ==
    /\ caller[t] = "ready"
    /\ ~stop
    /\ idle = <<>>
    /\ currentSize < MaxSize
    /\ caller' = [caller EXCEPT ![t] = "out"]
    /\ UNCHANGED <<idle, currentSize, stop, holds, lost>>

(* One passage of a ready thread through the critical section. *)
GetConnection(t) ==
    \/ Block(t) \/ ReturnNullStopped(t)
    \/ TakeIdle(t) \/ TakeReconnected(t) \/ ReconnectFails(t)
    \/ Create(t) \/ CreateFails(t)

(* returnConnection, from the deleter of the thread's last shared_ptr. *)

ReturnToPool(t) ==
    /\ caller[t] = "holding"
    /\ ~stop
    /\ idle' = Append(idle, holds[t])
    /\ holds' = [holds EXCEPT ![t] = NoConn]
    /\ NotifyOneAnd(t, "out")
    /\ UNCHANGED <<currentSize, stop, lost>>

ReturnAfterStop(t) ==
    /\ caller[t] = "holding"
    /\ stop
    /\ holds' = [holds EXCEPT ![t] = NoConn]
    /\ lost' = lost \ {holds[t]}
    /\ currentSize' = Decremented
    /\ caller' = [caller EXCEPT ![t] = "out"]
    /\ UNCHANGED <<idle, stop>>

ReturnConnection(t) == ReturnToPool(t) \/ ReturnAfterStop(t)

(* closeAll, from the destructor of the singleton. *)
CloseAll ==
    /\ stop' = TRUE
    /\ caller' = [t \in Threads |-> IF t \in Asleep THEN "ready" ELSE caller[t]]
    /\ idle' = <<>>
    /\ lost' = lost \ Idle
    /\ currentSize' = 0
    /\ UNCHANGED holds

(* The driver finds a connection closed. *)
ConnectionLost ==
    /\ \E c \in Existing \ lost : lost' = lost \cup {c}
    /\ UNCHANGED <<idle, currentSize, stop, caller, holds>>

Next ==
    \/ \E t \in Threads :
         Call(t) \/ GetConnection(t) \/ SpuriousWakeup(t) \/ ReturnConnection(t)
    \/ CloseAll
    \/ ConnectionLost

(* A thread that can run goes on, and a request gives its connection back:
   the shared_ptr is a local variable of the UserService functions. *)
Fairness ==
    \A t \in Threads : WF_vars(GetConnection(t)) /\ WF_vars(ReturnConnection(t))

Spec == Init /\ [][Next]_vars /\ Fairness

-----------------------------------------------------------------------------
(* Types of the pool's fields. *)
TypeOK ==
    /\ idle \in Seq(Conns)
    /\ currentSize \in 0..(SizeMod - 1)
    /\ stop \in BOOLEAN
    /\ caller \in [Threads -> {"out", "ready", "asleep", "holding"}]
    /\ holds \in [Threads -> Conns \cup {NoConn}]
    /\ lost \in SUBSET Conns

(* A connection, which is not thread safe, is in the queue at most once or owned
   by one thread, never both, whatever was returned, reconnected or created in
   between. *)
Exclusive ==
    /\ \A i, j \in 1..Len(idle) : idle[i] = idle[j] => i = j
    /\ \A s, t \in Threads :
         (holds[s] = holds[t] /\ holds[s] # NoConn) => s = t
    /\ Idle \cap Held = {}

(* Until closeAll, currentSize_ is the number of connections that exist, in
   the queue and in the hands of threads (MySQLConnectionPool.h:40). *)
SizeAccounts ==
    ~stop => currentSize = Len(idle) + Cardinality(Holding)

(* The database never sees more than maxSize_ connections of this pool. *)
WithinMax == Len(idle) + Cardinality(Holding) <= MaxSize

(* An idle connection is never left in the queue while a thread that no awake
   thread makes up for sleeps in cond_.wait: one notify_one per return is
   enough, also when the reconnect of a popped connection fails. *)
NoIdleWhileAsleep ==
    (Asleep # {} /\ ~stop) => Len(idle) <= Cardinality(Ready)

(* From closeAll on connections only go away, although the count says that there
   is room: a thread that it wakes, or that calls later, gets none, and what comes
   back is closed and not queued, whatever the late returns make of the count. *)
CloseIsFinal == [][stop => idle' = <<>> /\ Held' \subseteq Held]_vars

(* closeAll releases every thread blocked in getConnection. *)
CloseReleasesWaiters ==
    \A t \in Threads : (stop /\ caller[t] \in {"ready", "asleep"}) ~> caller[t] = "out"

(* MySQLConnectionPool.cpp:46 "wait until there is an idle connection or a new
   one can be created": a thread stays asleep only while neither is the case, or
   while an awake thread is about to find out. *)
SleepsForAReason ==
    (Asleep # {} /\ ~stop) =>
        Ready # {} \/ (idle = <<>> /\ currentSize >= MaxSize)

(* MySQLConnectionPool.h:40 "total of the connections created": it is never
   more than the pool may create. *)
SizeInRange == currentSize <= MaxSize
=============================================================================

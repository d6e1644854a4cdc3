-------------------------- MODULE ThreadPoolProofs --------------------------
(***************************************************************************)
(* Proofs about ThreadPool for every finite set of threads, every set of   *)
(* tasks and every queue bound.                                            *)
(***************************************************************************)
EXTENDS ThreadPool, SequenceTheorems, FiniteSetTheorems, TLAPS

(* A thread carries a task exactly while it is outside the mutex running it. *)
BusyCarriesTask ==
    \A w \in Workers : worker[w] = "busy" <=> current[w] \in Tasks

(* What a thread that left WorkerLoop, and a destructor that joined them all,
   say about the rest of the pool. *)
ShutdownOrder ==
    /\ cleanup # "none" => stop
    /\ \A w \in Workers : worker[w] = "exited" => stop /\ tasks = <<>>
    /\ cleanup \in {"joined", "done"} => \A w \in Workers : worker[w] = "exited"

(* The inductive invariant. *)
IInv ==
    /\ TypeOK
    /\ BusyCarriesTask
    /\ ShutdownOrder
    /\ NoLostWakeup
    /\ OneHome

-----------------------------------------------------------------------------
(* Facts about the sets of ready and sleeping threads. *)

LEMMA ReadyFinite == IsFiniteSet(Ready) /\ Cardinality(Ready) \in Nat
<1>1. IsFiniteSet(Ready)
  BY PoolAssumption, FS_Subset DEF Ready
<1> QED
  BY <1>1, FS_CardinalityType

(* A thread that becomes ready adds one to the number of ready threads. *)
LEMMA ReadyGrows ==
  ASSUME NEW w \in Workers,
         worker \in [Workers -> WorkerStates],
         worker[w] # "ready",
         worker' = [worker EXCEPT ![w] = "ready"]
  PROVE  Cardinality(Ready') = Cardinality(Ready) + 1
<1>1. Ready' = Ready \cup {w} /\ w \notin Ready
  BY DEF Ready, WorkerStates
<1> QED
  BY <1>1, ReadyFinite, FS_AddElement

(* A thread that stops being ready takes one away. *)
LEMMA ReadyShrinks ==
  ASSUME NEW w \in Workers, NEW s \in WorkerStates \ {"ready"},
         worker \in [Workers -> WorkerStates],
         worker[w] = "ready",
         worker' = [worker EXCEPT ![w] = s]
  PROVE  Cardinality(Ready') = Cardinality(Ready) - 1
<1>1. Ready' = Ready \ {w} /\ w \in Ready
  BY DEF Ready, WorkerStates
<1> QED
  BY <1>1, ReadyFinite, FS_RemoveElement

(* cv_.notify_one leaves every thread in WorkerLoop where it is but for at most
   one sleeper, and when it finds a sleeper one more thread is ready. *)
LEMMA NotifyOneWakes ==
  ASSUME worker \in [Workers -> WorkerStates], NotifyOne
  PROVE  /\ worker' \in [Workers -> WorkerStates]
         /\ \A w \in Workers :
              \/ worker'[w] = worker[w]
              \/ worker[w] = "asleep" /\ worker'[w] = "ready"
         /\ Asleep # {} => Cardinality(Ready') = Cardinality(Ready) + 1
<1>1. CASE Asleep = {}
  BY <1>1 DEF NotifyOne
<1>2. CASE Asleep # {}
  <2>1. PICK w \in Asleep : worker' = [worker EXCEPT ![w] = "ready"]
    BY <1>2 DEF NotifyOne
  <2>2. w \in Workers /\ worker[w] = "asleep"
    BY <2>1 DEF Asleep
  <2>3. Cardinality(Ready') = Cardinality(Ready) + 1
    BY <2>1, <2>2, ReadyGrows
  <2>4. worker' \in [Workers -> WorkerStates]
    BY <2>1, <2>2 DEF WorkerStates
  <2> QED
    BY <2>1, <2>2, <2>3, <2>4
<1> QED
  BY <1>1, <1>2

-----------------------------------------------------------------------------
(* Type correctness of the pool for every instance (TypeOK): no step of a
   client, a thread or the destructor leaves a field outside its type. *)
LEMMA TypeInductive == TypeOK /\ BusyCarriesTask /\ [Next]_vars => TypeOK'
<1> SUFFICES ASSUME TypeOK, BusyCarriesTask, [Next]_vars PROVE TypeOK'
  OBVIOUS
<1> USE DEF TypeOK, WorkerStates, CleanupStates, Verdicts
<1>1. ASSUME NEW t \in Tasks, SubmitToStopped(t) PROVE TypeOK'
  BY <1>1 DEF SubmitToStopped
<1>2. ASSUME NEW t \in Tasks, SubmitToFull(t) PROVE TypeOK'
  BY <1>2 DEF SubmitToFull
<1>3. ASSUME NEW t \in Tasks, SubmitAccepted(t) PROVE TypeOK'
  BY <1>3, NotifyOneWakes DEF SubmitAccepted
<1>4. ASSUME NEW w \in Workers, Sleep(w) PROVE TypeOK'
  BY <1>4 DEF Sleep
<1>5. ASSUME NEW w \in Workers, Exit(w) PROVE TypeOK'
  BY <1>5 DEF Exit
<1>6. ASSUME NEW w \in Workers, Take(w) PROVE TypeOK'
  BY <1>6 DEF Take
<1>7. ASSUME NEW w \in Workers, Execute(w) PROVE TypeOK'
  BY <1>7 DEF Execute, BusyCarriesTask
<1>8. ASSUME NEW w \in Workers, SpuriousWakeup(w) PROVE TypeOK'
  BY <1>8 DEF SpuriousWakeup
<1>9. CASE CleanupStop
  BY <1>9 DEF CleanupStop
<1>10. CASE CleanupNotifyAll
  BY <1>10 DEF CleanupNotifyAll
<1>11. CASE CleanupJoin
  BY <1>11 DEF CleanupJoin
<1>12. CASE CleanupDiscard
  BY <1>12 DEF CleanupDiscard
<1>13. CASE UNCHANGED vars
  BY <1>13 DEF vars
<1> QED
  BY <1>1, <1>2, <1>3, <1>4, <1>5, <1>6, <1>7, <1>8, <1>9, <1>10, <1>11,
     <1>12, <1>13 DEF Next, Submit, WorkerStep, Cleanup

-----------------------------------------------------------------------------
(* The bookkeeping of each thread and of the destructor is preserved. *)
LEMMA BookkeepingInductive ==
  TypeOK /\ BusyCarriesTask /\ ShutdownOrder /\ [Next]_vars
    => BusyCarriesTask' /\ ShutdownOrder'
<1> SUFFICES ASSUME TypeOK, BusyCarriesTask, ShutdownOrder, [Next]_vars
             PROVE  BusyCarriesTask' /\ ShutdownOrder'
  OBVIOUS
<1> USE DEF TypeOK, WorkerStates, BusyCarriesTask, ShutdownOrder
<1>1. ASSUME NEW t \in Tasks, SubmitToStopped(t)
      PROVE  BusyCarriesTask' /\ ShutdownOrder'
  BY <1>1 DEF SubmitToStopped
<1>2. ASSUME NEW t \in Tasks, SubmitToFull(t)
      PROVE  BusyCarriesTask' /\ ShutdownOrder'
  BY <1>2 DEF SubmitToFull
<1>3. ASSUME NEW t \in Tasks, SubmitAccepted(t)
      PROVE  BusyCarriesTask' /\ ShutdownOrder'
  BY <1>3, NotifyOneWakes DEF SubmitAccepted
<1>4. ASSUME NEW w \in Workers, Sleep(w)
      PROVE  BusyCarriesTask' /\ ShutdownOrder'
  BY <1>4 DEF Sleep
<1>5. ASSUME NEW w \in Workers, Exit(w)
      PROVE  BusyCarriesTask' /\ ShutdownOrder'
  BY <1>5 DEF Exit
<1>6. ASSUME NEW w \in Workers, Take(w)
      PROVE  BusyCarriesTask' /\ ShutdownOrder'
  BY <1>6 DEF Take
<1>7. ASSUME NEW w \in Workers, Execute(w)
      PROVE  BusyCarriesTask' /\ ShutdownOrder'
  BY <1>7, PoolAssumption DEF Execute
<1>8. ASSUME NEW w \in Workers, SpuriousWakeup(w)
      PROVE  BusyCarriesTask' /\ ShutdownOrder'
  BY <1>8 DEF SpuriousWakeup
<1>9. CASE CleanupStop
  BY <1>9 DEF CleanupStop
<1>10. CASE CleanupNotifyAll
  BY <1>10 DEF CleanupNotifyAll
<1>11. CASE CleanupJoin
  BY <1>11 DEF CleanupJoin
<1>12. CASE CleanupDiscard
  BY <1>12 DEF CleanupDiscard
<1>13. CASE UNCHANGED vars
  BY <1>13 DEF vars
<1> QED
  BY <1>1, <1>2, <1>3, <1>4, <1>5, <1>6, <1>7, <1>8, <1>9, <1>10, <1>11,
     <1>12, <1>13 DEF Next, Submit, WorkerStep, Cleanup

(* No step loses a wakeup: a client adds a task and a ready thread together, a
   thread takes a task and itself away together, and a thread goes to sleep
   only over an empty queue. *)
LEMMA NoLostWakeupInductive ==
  TypeOK /\ BusyCarriesTask /\ ShutdownOrder /\ NoLostWakeup /\ [Next]_vars
    => NoLostWakeup'
<1> SUFFICES ASSUME TypeOK, BusyCarriesTask, ShutdownOrder, NoLostWakeup,
                    [Next]_vars, Asleep' # {}, ~stop'
             PROVE  Len(tasks') <= Cardinality(Ready')
  BY DEF NoLostWakeup
<1> USE DEF TypeOK
<1>a. Cardinality(Ready) \in Nat /\ Len(tasks) \in Nat
  BY ReadyFinite
<1>1. ASSUME NEW t \in Tasks, SubmitToStopped(t)
      PROVE  Len(tasks') <= Cardinality(Ready')
  BY <1>1 DEF SubmitToStopped
<1>2. ASSUME NEW t \in Tasks, SubmitToFull(t)
      PROVE  Len(tasks') <= Cardinality(Ready')
  BY <1>2 DEF SubmitToFull, NoLostWakeup, Asleep, Ready
<1>3. ASSUME NEW t \in Tasks, SubmitAccepted(t)
      PROVE  Len(tasks') <= Cardinality(Ready')
  <2>1. Asleep # {}
    BY <1>3, NotifyOneWakes DEF SubmitAccepted, Asleep
  <2>2. Cardinality(Ready') = Cardinality(Ready) + 1
    BY <1>3, <2>1, NotifyOneWakes DEF SubmitAccepted
  <2>3. Len(tasks') = Len(tasks) + 1
    BY <1>3 DEF SubmitAccepted
  <2>4. Len(tasks) <= Cardinality(Ready)
    BY <1>3, <2>1 DEF SubmitAccepted, NoLostWakeup
  <2> QED
    BY <1>a, <2>2, <2>3, <2>4
<1>4. ASSUME NEW w \in Workers, Sleep(w)
      PROVE  Len(tasks') <= Cardinality(Ready')
  <2>1. Len(tasks') = 0
    BY <1>4 DEF Sleep
  <2>2. Cardinality(Ready') = Cardinality(Ready) - 1 /\ w \in Ready
    BY <1>4, ReadyShrinks DEF Sleep, Ready, WorkerStates
  <2>3. Cardinality(Ready) # 0
    BY <2>2, ReadyFinite, FS_EmptySet
  <2> QED
    BY <1>a, <2>1, <2>2, <2>3
<1>5. ASSUME NEW w \in Workers, Exit(w)
      PROVE  Len(tasks') <= Cardinality(Ready')
  BY <1>5 DEF Exit
<1>6. ASSUME NEW w \in Workers, Take(w)
      PROVE  Len(tasks') <= Cardinality(Ready')
  <2>1. Asleep # {}
    BY <1>6 DEF Take, Asleep
  <2>2. Cardinality(Ready') = Cardinality(Ready) - 1
    BY <1>6, ReadyShrinks DEF Take, WorkerStates
  <2>3. Len(tasks') = Len(tasks) - 1
    BY <1>6, HeadTailProperties DEF Take
  <2> QED
    BY <1>a, <1>6, <2>1, <2>2, <2>3 DEF Take, NoLostWakeup
<1>7. ASSUME NEW w \in Workers, Execute(w)
      PROVE  Len(tasks') <= Cardinality(Ready')
  <2>1. Asleep # {}
    BY <1>7 DEF Execute, Asleep
  <2>2. Cardinality(Ready') = Cardinality(Ready) + 1
    BY <1>7, ReadyGrows DEF Execute
  <2> QED
    BY <1>a, <1>7, <2>1, <2>2 DEF Execute, NoLostWakeup
<1>8. ASSUME NEW w \in Workers, SpuriousWakeup(w)
      PROVE  Len(tasks') <= Cardinality(Ready')
  <2>1. Asleep # {}
    BY <1>8 DEF SpuriousWakeup, Asleep
  <2>2. Cardinality(Ready') = Cardinality(Ready) + 1
    BY <1>8, ReadyGrows DEF SpuriousWakeup
  <2> QED
    BY <1>a, <1>8, <2>1, <2>2 DEF SpuriousWakeup, NoLostWakeup
<1>9. CASE Cleanup
  BY <1>9 DEF Cleanup, CleanupStop, CleanupNotifyAll, CleanupJoin,
              CleanupDiscard, ShutdownOrder, CleanupStates
<1>13. CASE UNCHANGED vars
  BY <1>13 DEF vars, NoLostWakeup, Asleep, Ready
<1> QED
  BY <1>1, <1>2, <1>3, <1>4, <1>5, <1>6, <1>7, <1>8, <1>9, <1>13
     DEF Next, Submit, WorkerStep

-----------------------------------------------------------------------------
(* Removing the oldest element of a queue without repetition removes exactly
   that task from the set of queued tasks. *)
LEMMA PopQueued ==
  ASSUME TypeOK, OneHome, tasks # <<>>, tasks' = Tail(tasks)
  PROVE  /\ Head(tasks) \in Tasks
         /\ Head(tasks) \in Queued
         /\ Queued' = Queued \ {Head(tasks)}
         /\ \A i, j \in 1..Len(tasks') : tasks'[i] = tasks'[j] => i = j
<1> DEFINE r == Tail(tasks)
<1>1. /\ Len(tasks) \in Nat \ {0}
      /\ Len(r) = Len(tasks) - 1
      /\ \A i \in 1..Len(r) : i + 1 \in 1..Len(tasks) /\ r[i] = tasks[i+1]
      /\ Head(tasks) = tasks[1]
      /\ 1 \in 1..Len(tasks)
  BY HeadTailProperties DEF TypeOK
<1>2. tasks' = r
  OBVIOUS
<1> HIDE DEF r
<1>3. \A i, j \in 1..Len(tasks) : tasks[i] = tasks[j] => i = j
  BY DEF OneHome
<1>4. ASSUME NEW i \in 1..Len(tasks), tasks[i] # tasks[1]
      PROVE  i - 1 \in 1..Len(r) /\ r[i-1] = tasks[i]
  BY <1>1, <1>4
<1>5. Queued' \subseteq Queued \ {Head(tasks)}
  BY <1>1, <1>2, <1>3 DEF Queued
<1>6. Queued \ {Head(tasks)} \subseteq Queued'
  BY <1>1, <1>2, <1>4 DEF Queued
<1>7. \A i, j \in 1..Len(r) : r[i] = r[j] => i = j
  BY <1>1, <1>3
<1>8. Head(tasks) \in Tasks /\ Head(tasks) \in Queued
  BY <1>1, ElementOfSeq DEF TypeOK, Queued
<1> QED
  BY <1>2, <1>5, <1>6, <1>7, <1>8

(* Appending a task that is not queued adds exactly that task. *)
LEMMA PushQueued ==
  ASSUME TypeOK, OneHome, NEW t \in Tasks, t \notin Queued,
         tasks' = Append(tasks, t)
  PROVE  /\ Queued' = Queued \cup {t}
         /\ \A i, j \in 1..Len(tasks') : tasks'[i] = tasks'[j] => i = j
<1> DEFINE r == Append(tasks, t)
<1>1. /\ Len(tasks) \in Nat
      /\ Len(r) = Len(tasks) + 1
      /\ \A i \in 1..Len(tasks) : i \in 1..Len(r) /\ r[i] = tasks[i]
      /\ r[Len(tasks) + 1] = t
  BY AppendProperties DEF TypeOK
<1>2. tasks' = r
  OBVIOUS
<1> HIDE DEF r
<1>3. \A i \in 1..Len(r) : i \in 1..Len(tasks) \/ i = Len(tasks) + 1
  BY <1>1
<1>4. \A i, j \in 1..Len(tasks) : tasks[i] = tasks[j] => i = j
  BY DEF OneHome
<1>5. \A i \in 1..Len(tasks) : tasks[i] # t
  BY DEF Queued
<1>6. Queued' = Queued \cup {t}
  BY <1>1, <1>2, <1>3 DEF Queued
<1>7. \A i, j \in 1..Len(r) : r[i] = r[j] => i = j
  BY <1>1, <1>3, <1>4, <1>5
<1> QED
  BY <1>2, <1>6, <1>7

(* Every step keeps each accepted task in one place. *)
LEMMA OneHomeInductive ==
  TypeOK /\ BusyCarriesTask /\ ShutdownOrder /\ OneHome /\ [Next]_vars
    => OneHome'
<1> SUFFICES ASSUME TypeOK, BusyCarriesTask, ShutdownOrder, OneHome, [Next]_vars
             PROVE  OneHome'
  OBVIOUS
<1>r. ASSUME NEW t \in Tasks, NEW v \in {"rejectedStopped", "rejectedFull"},
             verdict[t] = "new", verdict' = [verdict EXCEPT ![t] = v],
             tasks' = tasks, current' = current
      PROVE  OneHome'
  <2>1. Queued' = Queued
    BY <1>r DEF Queued
  <2>2. \A s \in Tasks : /\ verdict'[s] = "queued" <=> verdict[s] = "queued"
                         /\ verdict'[s] = "running" <=> verdict[s] = "running"
    BY <1>r DEF TypeOK
  <2> QED
    BY <1>r, <2>1, <2>2 DEF OneHome
<1>1. ASSUME NEW t \in Tasks, SubmitToStopped(t) PROVE OneHome'
  BY <1>1, <1>r DEF SubmitToStopped
<1>2. ASSUME NEW t \in Tasks, SubmitToFull(t) PROVE OneHome'
  BY <1>2, <1>r DEF SubmitToFull
<1>3. ASSUME NEW t \in Tasks, SubmitAccepted(t) PROVE OneHome'
  <2>1. t \notin Queued /\ tasks' = Append(tasks, t)
    BY <1>3 DEF SubmitAccepted, OneHome
  <2>2. /\ Queued' = Queued \cup {t}
        /\ \A i, j \in 1..Len(tasks') : tasks'[i] = tasks'[j] => i = j
    BY <2>1, PushQueued
  <2> QED
    BY <1>3, <2>2 DEF SubmitAccepted, OneHome, TypeOK
<1>4. ASSUME NEW w \in Workers, Sleep(w) PROVE OneHome'
  BY <1>4 DEF Sleep, OneHome, Queued
<1>5. ASSUME NEW w \in Workers, Exit(w) PROVE OneHome'
  BY <1>5 DEF Exit, OneHome, Queued
<1>6. ASSUME NEW w \in Workers, Take(w) PROVE OneHome'
  <2> DEFINE t == Head(tasks)
  <2>1. /\ t \in Tasks
        /\ t \in Queued
        /\ Queued' = Queued \ {t}
        /\ \A i, j \in 1..Len(tasks') : tasks'[i] = tasks'[j] => i = j
    BY <1>6, PopQueued DEF Take
  <2>2. current[w] = NoTask /\ verdict[t] = "queued"
    BY <1>6, <2>1 DEF Take, OneHome, BusyCarriesTask, TypeOK
  <2>3. \A v \in Workers : current[v] # t
    BY <2>1, <2>2 DEF OneHome
  <2>4. /\ verdict' = [verdict EXCEPT ![t] = "running"]
        /\ current' = [current EXCEPT ![w] = t]
    BY <1>6 DEF Take
  <2>5. \A s \in Tasks : verdict'[s] = "queued" <=> s \in Queued'
    BY <2>1, <2>4 DEF OneHome, TypeOK
  <2>6. \A s \in Tasks :
          verdict'[s] = "running" <=> \E v \in Workers : current'[v] = s
    BY <2>1, <2>2, <2>3, <2>4, PoolAssumption DEF OneHome, TypeOK
  <2>7. \A u, v \in Workers :
          (current'[u] = current'[v] /\ current'[u] # NoTask) => u = v
    BY <2>3, <2>4 DEF OneHome, TypeOK
  <2> QED
    BY <2>1, <2>5, <2>6, <2>7 DEF OneHome
<1>7. ASSUME NEW w \in Workers, Execute(w) PROVE OneHome'
  <2>1. PICK o \in {"returned", "threw"} :
          verdict' = [verdict EXCEPT ![current[w]] = o]
    BY <1>7 DEF Execute
  <2>2. current[w] \in Tasks /\ verdict[current[w]] = "running"
    BY <1>7 DEF Execute, BusyCarriesTask, OneHome
  <2>3. current' = [current EXCEPT ![w] = NoTask] /\ UNCHANGED tasks
    BY <1>7 DEF Execute
  <2>4. \A s \in Tasks : verdict'[s] = "queued" <=> s \in Queued'
    BY <2>1, <2>2, <2>3 DEF OneHome, TypeOK, Queued
  <2>5. \A s \in Tasks :
          verdict'[s] = "running" <=> \E v \in Workers : current'[v] = s
    BY <2>1, <2>2, <2>3, PoolAssumption DEF OneHome, TypeOK
  <2>6. \A u, v \in Workers :
          (current'[u] = current'[v] /\ current'[u] # NoTask) => u = v
    BY <2>3 DEF OneHome, TypeOK
  <2> QED
    BY <2>3, <2>4, <2>5, <2>6 DEF OneHome
<1>8. ASSUME NEW w \in Workers, SpuriousWakeup(w) PROVE OneHome'
  BY <1>8 DEF SpuriousWakeup, OneHome, Queued
<1>9. CASE CleanupStop \/ CleanupNotifyAll \/ CleanupJoin
  BY <1>9 DEF CleanupStop, CleanupNotifyAll, CleanupJoin, OneHome, Queued
<1>10. CASE CleanupDiscard
  <2>1. tasks = <<>> /\ Queued = {}
    BY <1>10, PoolAssumption DEF CleanupDiscard, ShutdownOrder, Queued
  <2> QED
    BY <1>10, <2>1 DEF CleanupDiscard, OneHome, Queued, TypeOK
<1>11. CASE UNCHANGED vars
  BY <1>11 DEF vars, OneHome, Queued
<1> QED
  BY <1>1, <1>2, <1>3, <1>4, <1>5, <1>6, <1>7, <1>8, <1>9, <1>10, <1>11
     DEF Next, Submit, WorkerStep, Cleanup

-----------------------------------------------------------------------------
(* IInv holds initially. *)
LEMMA InitInvariant == Init => IInv
<1> SUFFICES ASSUME Init PROVE IInv
  OBVIOUS
<1>1. TypeOK
  BY EmptySeq DEF Init, TypeOK, WorkerStates, CleanupStates, Verdicts
<1>2. BusyCarriesTask /\ ShutdownOrder /\ OneHome
  BY PoolAssumption
     DEF Init, BusyCarriesTask, ShutdownOrder, OneHome, Queued
<1>3. NoLostWakeup
  BY DEF Init, NoLostWakeup, Asleep
<1> QED
  BY <1>1, <1>2, <1>3 DEF IInv

(* IInv is inductive, so it holds in every reachable state. *)
LEMMA Invariance == Spec => []IInv
<1>1. IInv /\ [Next]_vars => IInv'
  BY TypeInductive, BookkeepingInductive, NoLostWakeupInductive,
     OneHomeInductive DEF IInv
<1> QED
  BY <1>1, InitInvariant, PTL DEF Spec

(* Type correctness of ThreadPool for any threads, tasks and queue bound. *)
THEOREM TypeCorrect == Spec => []TypeOK
<1>1. IInv => TypeOK
  BY DEF IInv
<1> QED
  BY <1>1, Invariance, PTL

(* No wakeup is ever lost: an idle thread sleeps only while every queued task
   has an awake thread to itself. *)
THEOREM WakeupsSuffice == Spec => []NoLostWakeup
<1>1. IInv => NoLostWakeup
  BY DEF IInv
<1> QED
  BY <1>1, Invariance, PTL

(* Every accepted task is queued once or running in exactly one thread. *)
THEOREM EveryTaskHasOneHome == Spec => []OneHome
<1>1. IInv => OneHome
  BY DEF IInv
<1> QED
  BY <1>1, Invariance, PTL

(* Joined threads have emptied the queue, so Cleanup discards nothing. *)
THEOREM JoinDrains == Spec => []DrainedWhenJoined
<1>1. IInv => DrainedWhenJoined
  BY PoolAssumption DEF IInv, ShutdownOrder, DrainedWhenJoined
<1> QED
  BY <1>1, Invariance, PTL

(* The queue never exceeds max_queue_size. *)
THEOREM QueueStaysBounded == Spec => []QueueBounded
<1>1. Init => QueueBounded
  BY PoolAssumption DEF Init, QueueBounded
<1>2. TypeOK /\ QueueBounded /\ [Next]_vars => QueueBounded'
  <2> SUFFICES ASSUME TypeOK, QueueBounded, [Next]_vars PROVE QueueBounded'
    OBVIOUS
  <2>1. CASE tasks' = tasks
    BY <2>1 DEF QueueBounded
  <2>2. CASE \E t \in Tasks : SubmitAccepted(t)
    BY <2>2, PoolAssumption DEF SubmitAccepted, Full, QueueBounded, TypeOK
  <2>3. CASE \E w \in Workers : Take(w)
    BY <2>3, PoolAssumption DEF Take, QueueBounded, TypeOK
  <2>4. CASE CleanupDiscard
    BY <2>4, PoolAssumption DEF CleanupDiscard, QueueBounded
  <2> QED
    BY <2>1, <2>2, <2>3, <2>4
       DEF Next, vars, Submit, SubmitToStopped, SubmitToFull, WorkerStep, Sleep,
           SpuriousWakeup, Exit, Execute, Cleanup, CleanupStop, CleanupNotifyAll,
           CleanupJoin
<1>3. IInv => TypeOK
  BY DEF IInv
<1> QED
  BY <1>1, <1>2, <1>3, Invariance, PTL DEF Spec

-----------------------------------------------------------------------------
(* The tasks in a thread and those carried out, as TaskService sees them. *)
Underway == {t \in Tasks : verdict[t] = "running"}
Finished == {t \in Tasks : verdict[t] \in {"returned", "threw"}}

(* A step of the pool that leaves alone the queue, the set of running tasks,
   that of finished tasks and stop_ is invisible to its clients. *)
LEMMA Invisible ==
  ASSUME UNCHANGED <<tasks, stop>>, Underway' = Underway, Finished' = Finished
  PROVE  UNCHANGED Service!vars
BY DEF Service!vars, Underway, Finished

(* Every step of the pool is a step of TaskService or invisible to it. *)
LEMMA StepRefines ==
  IInv /\ [Next]_vars => [Service!Next]_(Service!vars)
<1> SUFFICES ASSUME IInv, [Next]_vars
             PROVE  Service!Next \/ UNCHANGED Service!vars
  OBVIOUS
<1> USE DEF Underway, Finished
<1>t. TypeOK /\ OneHome /\ BusyCarriesTask /\ ShutdownOrder
  BY DEF IInv
<1>1. ASSUME NEW t \in Tasks, SubmitToStopped(t) \/ SubmitToFull(t)
      PROVE  UNCHANGED Service!vars
  <2>1. Underway' = Underway /\ Finished' = Finished /\ UNCHANGED <<tasks, stop>>
    BY <1>1, <1>t DEF SubmitToStopped, SubmitToFull, TypeOK
  <2> QED
    BY <2>1, Invisible
<1>2. ASSUME NEW t \in Tasks, SubmitAccepted(t)
      PROVE  Service!Next
  <2>1. Underway' = Underway /\ Finished' = Finished
    BY <1>2, <1>t DEF SubmitAccepted, TypeOK
  <2>2. t \notin Queued \cup Underway \cup Finished
    BY <1>2, <1>t DEF SubmitAccepted, OneHome
  <2>3. MaxQueueSize > 0 => Len(tasks) < MaxQueueSize
    BY <1>2, <1>t, PoolAssumption, LenProperties DEF SubmitAccepted, Full, TypeOK
  <2>4. Service!Accept(t)
    BY <1>2, <2>1, <2>2, <2>3
       DEF SubmitAccepted, Service!Accept, Service!InLine, Queued
  <2> QED
    BY <2>4 DEF Service!Next
<1>3. ASSUME NEW w \in Workers, Sleep(w) \/ Exit(w) \/ SpuriousWakeup(w)
      PROVE  UNCHANGED Service!vars
  BY <1>3, Invisible DEF Sleep, Exit, SpuriousWakeup
<1>4. ASSUME NEW w \in Workers, Take(w)
      PROVE  Service!Next
  <2>1. Head(tasks) \in Tasks /\ Head(tasks) \in Queued
    BY <1>4, <1>t, PopQueued DEF Take
  <2>2. Underway' = Underway \cup {Head(tasks)} /\ Finished' = Finished
    BY <1>4, <1>t, <2>1 DEF Take, TypeOK, OneHome
  <2>3. Service!Begin
    BY <1>4, <2>2 DEF Take, Service!Begin
  <2> QED
    BY <2>3 DEF Service!Next
<1>5. ASSUME NEW w \in Workers, Execute(w)
      PROVE  Service!Next
  <2>1. PICK o \in {"returned", "threw"} :
          verdict' = [verdict EXCEPT ![current[w]] = o]
    BY <1>5 DEF Execute
  <2>2. current[w] \in Tasks /\ verdict[current[w]] = "running"
    BY <1>5, <1>t DEF Execute, BusyCarriesTask, OneHome
  <2>3. /\ Underway' = Underway \ {current[w]}
        /\ Finished' = Finished \cup {current[w]}
    BY <2>1, <2>2, <1>t DEF TypeOK
  <2>4. PICK t \in Tasks : t = current[w]
    BY <2>2
  <2>5. Service!Finish(t)
    BY <1>5, <2>2, <2>3, <2>4 DEF Execute, Service!Finish
  <2> QED
    BY <2>5 DEF Service!Next
<1>6. ASSUME CleanupStop
      PROVE  Service!Next \/ UNCHANGED Service!vars
  <2>1. CASE stop
    BY <1>6, <2>1, Invisible DEF CleanupStop
  <2>2. CASE ~stop
    BY <1>6, <2>2, <1>t DEF CleanupStop, Service!Next, Service!Close, TypeOK
  <2> QED
    BY <2>1, <2>2
<1>7. CASE CleanupNotifyAll \/ CleanupJoin
  BY <1>7, Invisible DEF CleanupNotifyAll, CleanupJoin
<1>8. CASE CleanupDiscard
  <2>1. tasks = <<>> /\ Queued = {}
    BY <1>8, <1>t, PoolAssumption DEF CleanupDiscard, ShutdownOrder, Queued
  <2>2. Underway' = Underway /\ Finished' = Finished /\ UNCHANGED <<tasks, stop>>
    BY <1>8, <1>t, <2>1 DEF CleanupDiscard, TypeOK
  <2> QED
    BY <2>2, Invisible
<1>9. CASE UNCHANGED vars
  BY <1>9, Invisible DEF vars
<1> QED
  BY <1>1, <1>2, <1>3, <1>4, <1>5, <1>6, <1>7, <1>8, <1>9
     DEF Next, Submit, WorkerStep, Cleanup

(* The pool implements the safety part of TaskService: what clients observe of
   it is a bounded first-in first-out service that carries out each accepted
   task at most once.  (Its fairness part is checked by TLC.) *)
THEOREM RefinesTaskService ==
  Spec => Service!Init /\ [][Service!Next]_(Service!vars)
<1>1. Init => Service!Init
  BY DEF Init, Service!Init
<1> QED
  BY <1>1, StepRefines, Invariance, PTL DEF Spec
=============================================================================

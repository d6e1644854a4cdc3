----------------------------- MODULE ThreadPool -----------------------------
(***************************************************************************)
(* thread_pool::ThreadPool: a bounded FIFO of tasks under one mutex, a     *)
(* condition variable, worker threads and the owner that destroys the pool.*)
(*                                                                         *)
(* Every critical section of mutex_ is one action.  A thread blocked in    *)
(* cv_.wait is in the condition variable's wait set ("asleep"); once       *)
(* notified, or woken spuriously, it is "ready": it competes for the mutex *)
(* and evaluates the predicate again.  Submit and Cleanup are called from  *)
(* any thread (main.cpp: the I/O thread submits, the static destructor     *)
(* cleans up).                                                             *)
(***************************************************************************)
EXTENDS Naturals, Sequences, FiniteSets

CONSTANTS
    Tasks,         \* the calls of Submit, each with its own closure
    Workers,       \* the threads of workers_
    MaxQueueSize,  \* config_.max_queue_size, 0 for no limit
    NoTask         \* the empty optional of WorkerLoop

(* The constructor never creates a pool without threads. *)
ASSUME PoolAssumption ==
    /\ IsFiniteSet(Workers)
    /\ Workers # {}
    /\ MaxQueueSize \in Nat
    /\ NoTask \notin Tasks

VARIABLES
    tasks,     \* tasks_
    stop,      \* stop_
    worker,    \* where each thread is in WorkerLoop
    current,   \* the task each thread has moved out of tasks_
    cleanup,   \* how far ~ThreadPool is
    verdict    \* what became of each Submit and of its future

vars == <<tasks, stop, worker, current, cleanup, verdict>>

WorkerStates == {"ready", "asleep", "busy", "exited"}
CleanupStates == {"none", "stopped", "joining", "joined", "done"}
Verdicts == {"new", "queued", "running", "returned", "threw",
             "rejectedStopped", "rejectedFull", "discarded"}

Queued == {tasks[i] : i \in 1..Len(tasks)}
Ready == {w \in Workers : worker[w] = "ready"}
Asleep == {w \in Workers : worker[w] = "asleep"}

(* The constructor: no task, every thread about to lock the mutex. *)
Init ==
    /\ tasks = <<>>
    /\ stop = FALSE
    /\ worker = [w \in Workers |-> "ready"]
    /\ current = [w \in Workers |-> NoTask]
    /\ cleanup = "none"
    /\ verdict = [t \in Tasks |-> "new"]

(* Mutant of NotifyOne. *)
NotifyNobody == worker' = worker

(* cv_.notify_one: one sleeping thread, if there is one, wakes. *)
NotifyOne ==
    IF Asleep = {}
    THEN worker' = worker
    ELSE \E w \in Asleep : worker' = [worker EXCEPT ![w] = "ready"]

Full == MaxQueueSize > 0 /\ Len(tasks) >= MaxQueueSize

-----------------------------------------------------------------------------
(* Mutated forms of the definitions below, for the sensitivity runs. *)

TakeWithoutPop(w) ==
    /\ worker[w] = "ready"
    /\ tasks # <<>>
    /\ worker' = [worker EXCEPT ![w] = "busy"]
    /\ current' = [current EXCEPT ![w] = Head(tasks)]
    /\ verdict' = [verdict EXCEPT ![Head(tasks)] = "running"]
    /\ UNCHANGED <<tasks, stop, cleanup>>

TakeNewest(w) ==
    /\ worker[w] = "ready"
    /\ tasks # <<>>
    /\ worker' = [worker EXCEPT ![w] = "busy"]
    /\ current' = [current EXCEPT ![w] = tasks[Len(tasks)]]
    /\ verdict' = [verdict EXCEPT ![tasks[Len(tasks)]] = "running"]
    /\ tasks' = SubSeq(tasks, 1, Len(tasks) - 1)
    /\ UNCHANGED <<stop, cleanup>>

NotifyAllForgotten ==
    /\ cleanup = "stopped"
    /\ cleanup' = "joining"
    /\ UNCHANGED <<tasks, stop, worker, current, verdict>>

-----------------------------------------------------------------------------
(* ThreadPool::Submit, the three ways out of its critical section. *)

SubmitToStopped(t) ==
    /\ verdict[t] = "new"
    /\ stop
    /\ verdict' = [verdict EXCEPT ![t] = "rejectedStopped"]
    /\ UNCHANGED <<tasks, stop, worker, current, cleanup>>

SubmitToFull(t) ==
    /\ verdict[t] = "new"
    /\ ~stop
    /\ Full
    /\ verdict' = [verdict EXCEPT ![t] = "rejectedFull"]
    /\ UNCHANGED <<tasks, stop, worker, current, cleanup>>

SubmitAccepted(t) ==
    /\ verdict[t] = "new"
    /\ ~stop
    /\ ~Full
    /\ tasks' = Append(tasks, t)
    /\ verdict' = [verdict EXCEPT ![t] = "queued"]
    /\ NotifyOne
    /\ UNCHANGED <<stop, current, cleanup>>

Submit(t) == SubmitToStopped(t) \/ SubmitToFull(t) \/ SubmitAccepted(t)

(* ThreadPool::WorkerLoop.  Holding the mutex, a thread blocks, leaves the
   loop or moves the oldest task out; the task runs outside the mutex. *)

Sleep(w) ==
    /\ worker[w] = "ready"
    /\ ~stop
    /\ tasks = <<>>
    /\ worker' = [worker EXCEPT ![w] = "asleep"]
    /\ UNCHANGED <<tasks, stop, current, cleanup, verdict>>

SpuriousWakeup(w) ==
    /\ worker[w] = "asleep"
    /\ worker' = [worker EXCEPT ![w] = "ready"]
    /\ UNCHANGED <<tasks, stop, current, cleanup, verdict>>

Exit(w) ==
    /\ worker[w] = "ready"
    /\ stop
    /\ tasks = <<>>
    /\ worker' = [worker EXCEPT ![w] = "exited"]
    /\ UNCHANGED <<tasks, stop, current, cleanup, verdict>>

Take(w) ==
    /\ worker[w] = "ready"
    /\ tasks # <<>>
    /\ worker' = [worker EXCEPT ![w] = "busy"]
    /\ current' = [current EXCEPT ![w] = Head(tasks)]
    /\ verdict' = [verdict EXCEPT ![Head(tasks)] = "running"]
    /\ tasks' = Tail(tasks)
    /\ UNCHANGED <<stop, cleanup>>

(* The closure returns or throws; packaged_task keeps either in the future,
   so the thread survives. *)
Execute(w) ==
    /\ worker[w] = "busy"
    /\ \E outcome \in {"returned", "threw"} :
         verdict' = [verdict EXCEPT ![current[w]] = outcome]
    /\ worker' = [worker EXCEPT ![w] = "ready"]
    /\ current' = [current EXCEPT ![w] = NoTask]
    /\ UNCHANGED <<tasks, stop, cleanup>>

WorkerStep(w) == Sleep(w) \/ Exit(w) \/ Take(w) \/ Execute(w)

(* ThreadPool::Cleanup: stop_ under the mutex, notify_all without it, join
   every thread, then drop what is left. *)

CleanupStop ==
    /\ cleanup = "none"
    /\ stop' = TRUE
    /\ cleanup' = "stopped"
    /\ UNCHANGED <<tasks, worker, current, verdict>>

CleanupNotifyAll ==
    /\ cleanup = "stopped"
    /\ worker' = [w \in Workers |-> IF worker[w] = "asleep" THEN "ready" ELSE worker[w]]
    /\ cleanup' = "joining"
    /\ UNCHANGED <<tasks, stop, current, verdict>>

CleanupJoin ==
    /\ cleanup = "joining"
    /\ \A w \in Workers : worker[w] = "exited"
    /\ cleanup' = "joined"
    /\ UNCHANGED <<tasks, stop, worker, current, verdict>>

CleanupDiscard ==
    /\ cleanup = "joined"
    /\ tasks' = <<>>
    /\ verdict' = [t \in Tasks |-> IF t \in Queued THEN "discarded" ELSE verdict[t]]
    /\ cleanup' = "done"
    /\ UNCHANGED <<stop, worker, current>>

Cleanup == CleanupStop \/ CleanupNotifyAll \/ CleanupJoin \/ CleanupDiscard

Next ==
    \/ \E t \in Tasks : Submit(t)
    \/ \E w \in Workers : WorkerStep(w) \/ SpuriousWakeup(w)
    \/ Cleanup

(* Threads that can run do run, tasks terminate, and a destructor that was
   entered goes on.  Nobody has to submit or to destroy the pool. *)
Fairness ==
    /\ \A w \in Workers : WF_vars(WorkerStep(w))
    /\ WF_vars(CleanupNotifyAll)
    /\ WF_vars(CleanupJoin)
    /\ WF_vars(CleanupDiscard)

Spec == Init /\ [][Next]_vars /\ Fairness

-----------------------------------------------------------------------------
(* Types of the fields of ThreadPool and of its clients' futures. *)
TypeOK ==
    /\ tasks \in Seq(Tasks)
    /\ stop \in BOOLEAN
    /\ worker \in [Workers -> WorkerStates]
    /\ current \in [Workers -> Tasks \cup {NoTask}]
    /\ cleanup \in CleanupStates
    /\ verdict \in [Tasks -> Verdicts]

(* No lost wakeup: while the pool is open, either no thread is blocked in
   cv_.wait or every queued task has a thread of its own that is already
   awake and on its way to the queue.  One notify_one per task is enough
   although notified threads, spuriously woken ones and those that come back
   from a task all compete for the same queue. *)
NoLostWakeup ==
    (Asleep # {} /\ ~stop) => Len(tasks) <= Cardinality(Ready)

(* Every accepted task is in one place: a queued one in tasks_ exactly once, a
   running one in exactly one thread.  Hence no task runs twice, or at the same
   time in two threads, and none disappears between the queue and a thread. *)
OneHome ==
    /\ \A i, j \in 1..Len(tasks) : tasks[i] = tasks[j] => i = j
    /\ \A t \in Tasks : verdict[t] = "queued" <=> t \in Queued
    /\ \A t \in Tasks :
         verdict[t] = "running" <=> \E w \in Workers : current[w] = t
    /\ \A v, w \in Workers :
         (current[v] = current[w] /\ current[v] # NoTask) => v = w

(* ThreadPool.cpp:58: once the threads are joined they have consumed the
   queue, so lines 65-74 never find a task to clear. *)
DrainedWhenJoined == cleanup \in {"joined", "done"} => tasks = <<>>

(* The queue respects max_queue_size although the length is tested in one
   thread and reduced in others. *)
QueueBounded == MaxQueueSize > 0 => Len(tasks) <= MaxQueueSize

(* What the pool promises: TaskService, with the future's states as its
   in-progress and finished sets.  Covers FIFO order of starting, execution
   exactly once and, by its fairness, completion of every accepted task also
   across Cleanup. *)
Service == INSTANCE TaskService WITH
    Capacity <- MaxQueueSize,
    line <- tasks,
    underway <- {t \in Tasks : verdict[t] = "running"},
    finished <- {t \in Tasks : verdict[t] \in {"returned", "threw"}},
    open <- ~stop

ImplementsTaskService == Service!Spec

(* ~ThreadPool returns: every join succeeds, whatever the threads were doing
   when stop_ was set. *)
CleanupTerminates == cleanup = "stopped" ~> cleanup = "done"
=============================================================================

----------------------------- MODULE EventLoop -----------------------------
(***************************************************************************)
(* The event loop by itself: functors posted by other threads and the       *)
(* eventfd that announces them, the timer queue and its timerfd, quit(),    *)
(* and the end of main.  Reactor has the connections and runs the same loop *)
(* with one functor queue and no clock.                                     *)
(*                                                                         *)
(* queueInLoop is two steps, the push under mutex_ and the wakeup after it. *)
(* epoll_wait returns the ready descriptors in any order, or none: its time *)
(* limit is 10 ms, and a signal interrupts it.                              *)
(***************************************************************************)
EXTENDS Integers, FiniteSetsExt, SequencesExt

CONSTANTS
    Threads,    \* that are not the loop's
    Loop,       \* the loop's own thread, which is main
    Functors,   \* what is posted, each once
    Timers,
    Interval,   \* of each timer, 0 for one of runAfter
    Delay,      \* of each timer, from its addition to its first expiry
    Adds,       \* the timers each functor and each callback adds when it runs
    Posts,      \* the functor each functor and each callback posts when it runs, or None
    AtStart,    \* the timers added before loop()
    MaxTime,    \* bound: the clock
    None

ASSUME EventLoopAssumption ==
    /\ Loop \notin Threads
    /\ Interval \in [Timers -> Nat] /\ Delay \in [Timers -> Nat]
    /\ Adds \in [Functors \cup Timers -> SUBSET Timers]
    /\ Posts \in [Functors \cup Timers -> Functors \cup {None}]
    /\ AtStart \subseteq Timers
    /\ MaxTime \in Nat /\ None \notin Nat

VARIABLES
    now,
    first,      \* the first expiry of each timer, None until it is added
    next,       \* its expireTime in the heap, or None
    armed,      \* what timerFd_ is set to, or None
    fired,      \* how often its callback ran
    toRun,      \* the callbacks handleRead has yet to run, with their expiry
    pending,    \* pendingFunctors_
    batch,      \* the functors doPendingFunctors has yet to run
    posted,     \* all functors in the order of their push
    ran,        \* all functors in the order of their runs
    eventfd,    \* readable
    waking,     \* the threads between push or quit_ = true and the write to eventfd
    active,     \* activeChannels still to handle
    at,         \* where main is
    quit,       \* quit_
    asked,      \* quit() was called while loop() was running
    late        \* a thread used the loop after its destruction

timing == <<first, next, armed, fired, toRun>>
queueing == <<pending, batch, posted, ran>>
vars == <<now, timing, queueing, eventfd, waking, active, at, quit, asked, late>>

(* The heap's top. *)
Earliest(expiries) ==
    LET times == {expiries[t] : t \in Timers} \ {None}
    IN  IF times = {} THEN None ELSE Min(times)

Init ==
    /\ now = 0
    /\ first = [t \in Timers |-> IF t \in AtStart THEN Delay[t] ELSE None]
    /\ next = first
    /\ armed = Earliest(next)
    /\ fired = [t \in Timers |-> 0]
    /\ toRun = {}
    /\ pending = <<>> /\ batch = <<>> /\ posted = <<>> /\ ran = <<>>
    /\ eventfd = FALSE /\ waking = {}
    /\ active = <<>>
    /\ at = "main"
    /\ quit = FALSE /\ asked = FALSE /\ late = FALSE

-----------------------------------------------------------------------------
(* Other threads. *)

(* Mutant of Post: the newest functor comes first. *)
PostFirst(t, f) ==
    /\ t \notin waking
    /\ f \notin Range(posted)
    /\ pending' = <<f>> \o pending
    /\ posted' = Append(posted, f)
    /\ waking' = waking \cup {t}
    /\ late' = (late \/ at = "destroyed")
    /\ UNCHANGED <<now, timing, batch, ran, eventfd, active, at, quit, asked>>

(* The push of queueInLoop; what a thread posts after ~EventLoop is undefined. *)
Post(t, f) ==
    /\ t \notin waking
    /\ f \notin Range(posted)
    /\ pending' = Append(pending, f)
    /\ posted' = Append(posted, f)
    /\ waking' = waking \cup {t}
    /\ late' = (late \/ at = "destroyed")
    /\ UNCHANGED <<now, timing, batch, ran, eventfd, active, at, quit, asked>>

(* quit, also by the signal handler, on whichever thread the signal arrives; the
   handler does nothing before g_loop is set, nor knows that the loop is gone. *)
Quit(t) ==
    /\ t \notin waking
    /\ ~ quit
    /\ quit' = TRUE
    /\ asked' = (asked \/ at # "main")
    /\ waking' = IF t = Loop THEN waking ELSE waking \cup {t}
    /\ late' = (late \/ at = "destroyed")
    /\ UNCHANGED <<now, timing, queueing, eventfd, active, at>>

Wakeup(t) ==
    /\ t \in waking
    /\ waking' = waking \ {t}
    /\ eventfd' = TRUE
    /\ late' = (late \/ at = "destroyed")
    /\ UNCHANGED <<now, timing, queueing, active, at, quit, asked>>

-----------------------------------------------------------------------------
(* queueInLoop on the loop's thread, which writes to the eventfd only while
   doPendingFunctors runs: otherwise the swap of this round is still to come. *)
QueueInLoop(f) ==
    IF f = None \/ f \in Range(posted)
    THEN UNCHANGED <<pending, posted, eventfd>>
    ELSE /\ pending' = Append(pending, f)
         /\ posted' = Append(posted, f)
         /\ eventfd' = (eventfd \/ at = "functors")

(* The timer queue, on the loop's thread. *)

(* Mutant of AddTimers: timerFd_ is set for the first timer only. *)
AddTimersQuietly(ts) ==
    LET added == {t \in ts : first[t] = None}
    IN  /\ first' = [t \in Timers |-> IF t \in added THEN now + Delay[t] ELSE first[t]]
        /\ next' = [t \in Timers |-> IF t \in added THEN now + Delay[t] ELSE next[t]]
        /\ armed' = IF armed = None THEN Earliest(next') ELSE armed

(* addTimerInLoop for each of ts. *)
AddTimers(ts) ==
    LET added == {t \in ts : first[t] = None}
    IN  /\ first' = [t \in Timers |-> IF t \in added THEN now + Delay[t] ELSE first[t]]
        /\ next' = [t \in Timers |-> IF t \in added THEN now + Delay[t] ELSE next[t]]
        /\ armed' = IF added = {} THEN armed ELSE Earliest(next')

(* Mutant of Rescheduled: one interval from now. *)
RescheduledFromNow(t) == now + Interval[t]

(* The next expiry of a periodic timer that has missed some. *)
Rescheduled(t) ==
    LET missed == (now - next[t]) \div Interval[t]
    IN  next[t] + (missed + 1) * Interval[t]

handleRead ==
    LET due == {t \in Timers : next[t] # None /\ next[t] <= now}
    IN  /\ at = "events" /\ active # <<>> /\ Head(active) = "timer"
        /\ toRun' = {<<t, next[t]>> : t \in due}
        /\ next' = [t \in Timers |-> IF t \notin due THEN next[t]
                                     ELSE IF Interval[t] > 0 THEN Rescheduled(t) ELSE None]
        /\ armed' = Earliest(next')
        /\ active' = Tail(active)
        /\ at' = "callbacks"
        /\ UNCHANGED <<now, first, fired, queueing, eventfd, waking, quit, asked, late>>

RunCallback ==
    /\ at = "callbacks"
    /\ IF toRun = {} THEN at' = "events" /\ UNCHANGED <<timing, pending, posted, eventfd>>
       ELSE \E node \in toRun :
              /\ \A other \in toRun : node[2] <= other[2]
              /\ toRun' = toRun \ {node}
              /\ fired' = [fired EXCEPT ![node[1]] = @ + 1]
              /\ AddTimers(Adds[node[1]])
              /\ QueueInLoop(Posts[node[1]])
              /\ UNCHANGED at
    /\ UNCHANGED <<now, batch, ran, waking, active, quit, asked, late>>

-----------------------------------------------------------------------------
(* The loop. *)

Start ==
    /\ at = "main"
    /\ at' = "check"
    /\ quit' = FALSE
    /\ UNCHANGED <<now, timing, queueing, eventfd, waking, active, asked, late>>

Ready == (IF eventfd THEN {"wakeup"} ELSE {})
            \cup (IF armed # None /\ armed <= now THEN {"timer"} ELSE {})

Check ==
    /\ at = "check"
    /\ at' = IF quit THEN "ended" ELSE "poll"
    /\ UNCHANGED <<now, timing, queueing, eventfd, waking, active, quit, asked, late>>

(* Mutant of Poll: quit_ = false moved into the loop. *)
PollAfresh ==
    /\ at = "poll"
    /\ at' = "events"
    /\ active' \in SetToSeqs(Ready)
    /\ quit' = FALSE
    /\ UNCHANGED <<now, timing, queueing, eventfd, waking, asked, late>>

Poll ==
    /\ at = "poll"
    /\ at' = "events"
    /\ active' \in SetToSeqs(Ready)
    /\ UNCHANGED <<now, timing, queueing, eventfd, waking, quit, asked, late>>

handleWakeup ==
    /\ at = "events" /\ active # <<>> /\ Head(active) = "wakeup"
    /\ eventfd' = FALSE
    /\ active' = Tail(active)
    /\ UNCHANGED <<now, timing, queueing, waking, at, quit, asked, late>>

(* Mutant of SwapFunctors: one functor a round. *)
SwapFirst ==
    /\ at = "events" /\ active = <<>>
    /\ batch' = SubSeq(pending, 1, IF pending = <<>> THEN 0 ELSE 1)
    /\ pending' = SubSeq(pending, 2, Len(pending))
    /\ at' = "functors"
    /\ UNCHANGED <<now, timing, posted, ran, eventfd, waking, active, quit, asked, late>>

(* doPendingFunctors takes the queue and leaves it empty. *)
SwapFunctors ==
    /\ at = "events" /\ active = <<>>
    /\ batch' = pending
    /\ pending' = <<>>
    /\ at' = "functors"
    /\ UNCHANGED <<now, timing, posted, ran, eventfd, waking, active, quit, asked, late>>

RunFunctor ==
    /\ at = "functors"
    /\ IF batch = <<>> THEN at' = "check" /\ UNCHANGED <<timing, queueing, eventfd>>
       ELSE /\ ran' = Append(ran, Head(batch))
            /\ batch' = Tail(batch)
            /\ AddTimers(Adds[Head(batch)])
            /\ QueueInLoop(Posts[Head(batch)])
            /\ UNCHANGED <<at, fired, toRun>>
    /\ UNCHANGED <<now, waking, active, quit, asked, late>>

(* The locals of main die in the reverse order of their construction, the loop
   last; g_threadPool and its threads outlive them. *)
Destroy ==
    /\ at = "ended"
    /\ at' = "destroyed"
    /\ UNCHANGED <<now, timing, queueing, eventfd, waking, active, quit, asked, late>>

Main == Start \/ Check \/ Poll \/ handleRead \/ RunCallback \/ handleWakeup \/ SwapFunctors \/ RunFunctor \/ Destroy

Tick ==
    /\ now < MaxTime
    /\ now' = now + 1
    /\ UNCHANGED <<timing, queueing, eventfd, waking, active, at, quit, asked, late>>

Next ==
    \/ Main
    \/ \E t \in Threads : Wakeup(t) \/ \E f \in Functors : Post(t, f)
    \/ \E t \in Threads \cup {Loop} : Quit(t)
    \/ Tick

(* The threads run; nobody has to post, and time need not pass. *)
Spec == Init /\ [][Next]_vars /\ WF_vars(Main) /\ \A t \in Threads : WF_vars(Wakeup(t))

-----------------------------------------------------------------------------
Over == at \in {"ended", "destroyed"}

(* Functors run once and in the order of their push, so that a thread's shutdown
   follows its send, whatever is posted while a batch runs. *)
FunctorsRunInOrder == ran \o batch \o pending = posted

(* The loop does not sleep in epoll_wait with a functor in the queue, unless the
   thread that pushed one is about to wake it. *)
NeverSleepsOnWork == at = "poll" /\ pending # <<>> => eventfd \/ waking # {}

(* A periodic timer expires at whole intervals from its first expiry only, and
   runs at most once for each of them, however late the loop is; no timer runs
   before its time. *)
PhaseKept ==
    \A t \in Timers : first[t] # None =>
        /\ fired[t] > 0 => first[t] <= now
        /\ IF Interval[t] = 0 THEN fired[t] + (IF next[t] = None THEN 0 ELSE 1) <= 1
           ELSE /\ (next[t] - first[t]) % Interval[t] = 0
                /\ fired[t] <= (next[t] - first[t]) \div Interval[t]

(* While the loop runs every functor that was pushed runs, and every timer that is
   due: timerFd_ is never set too late, whoever added the earliest timer. *)
EverythingRuns ==
    /\ \A f \in Functors : f \in Range(posted) ~> f \in Range(ran) \/ Over
    /\ \A t \in Timers : next[t] # None /\ next[t] <= now
                            ~> next[t] = None \/ next[t] > now \/ Over

(* loop() returns when quit() was called since it began. *)
QuitEnds == asked ~> Over

-----------------------------------------------------------------------------
(* What the code's comments say and the code does not keep. *)

(* "Leaves the event loop" (EventLoop.h:45): loop() resets quit_, a signal that
   came before is lost. *)
QuitAlwaysEnds == quit ~> Over

(* "Other threads may safely hand tasks over" (EventLoop.h:19): the pool's threads
   outlive the loop. *)
LoopOutlivesItsThreads == ~ late
=============================================================================

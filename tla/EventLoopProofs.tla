-------------------------- MODULE EventLoopProofs --------------------------
(***************************************************************************)
(* EventLoop for every set of threads, functors and timers and whatever    *)
(* the bound on the clock is: an invariant of the functor queue and one of  *)
(* the timer queue, which meet where a callback posts a functor or a        *)
(* functor adds a timer.                                                    *)
(***************************************************************************)
EXTENDS EventLoop, SequenceTheorems, TLAPS

(* The functor queue.  A functor that waits is announced by the eventfd, by the
   thread that is about to write to it, or the loop is between handleWakeup and
   the swap and takes it in this round. *)
QueueInv ==
    /\ pending \in Seq(Functors) /\ batch \in Seq(Functors)
    /\ ran \in Seq(Functors)
    /\ ran \o batch \o pending = posted
    /\ batch # <<>> => at = "functors"
    /\ pending # <<>> => eventfd \/ waking # {} \/ at \in {"events", "callbacks"}

(* The timer queue: next[t] is the next multiple of the interval after the
   expiries that were taken off the heap, each of which ran at most once. *)
Taken(t) == \E expiry \in Nat : <<t, expiry>> \in toRun

Runs(t) == fired[t] + (IF Taken(t) THEN 1 ELSE 0)

TimerInv(t) ==
    /\ first[t] = None => next[t] = None /\ Runs(t) = 0
    /\ next[t] # None => first[t] <= next[t]
    /\ Runs(t) > 0 => first[t] <= now
    /\ Interval[t] = 0 => Runs(t) + (IF next[t] = None THEN 0 ELSE 1) <= 1
    /\ Interval[t] > 0 /\ first[t] # None =>
          \E k \in Nat : next[t] = first[t] + k * Interval[t] /\ Runs(t) <= k

TimersTyped ==
    /\ now \in Nat
    /\ first \in [Timers -> Nat \cup {None}] /\ next \in [Timers -> Nat \cup {None}]
    /\ fired \in [Timers -> Nat]
    /\ toRun \subseteq Timers \X Nat
    /\ \A t \in Timers : \A x, y \in Nat : <<t, x>> \in toRun /\ <<t, y>> \in toRun => x = y

TimersInv ==
    /\ TimersTyped
    /\ toRun # {} => at = "callbacks"
    /\ \A t \in Timers : TimerInv(t)

-----------------------------------------------------------------------------
LEMMA QueueInit == Init => QueueInv
<1>. SUFFICES ASSUME Init PROVE QueueInv
    OBVIOUS
<1>1. <<>> \in Seq(Functors)  BY EmptySeq
<1>2. <<>> \o <<>> \o <<>> = <<>>  BY <1>1, ConcatEmptySeq
<1>. QED  BY <1>1, <1>2 DEF Init, QueueInv

(* A push keeps the order, whatever the loop has run of the batch. *)
LEMMA Pushed ==
    ASSUME NEW r \in Seq(Functors), NEW b \in Seq(Functors), NEW p \in Seq(Functors),
           NEW f \in Functors
    PROVE  /\ Append(p, f) \in Seq(Functors)
           /\ r \o b \o Append(p, f) = Append(r \o b \o p, f)
<1>1. Append(p, f) \in Seq(Functors)  BY AppendProperties
<1>2. r \o b \in Seq(Functors)  BY ConcatProperties
<1>. DEFINE front == r \o b
<1>. HIDE DEF front
<1>3. front \in Seq(Functors)  BY <1>2 DEF front
<1>4. front \o p \in Seq(Functors)  BY <1>3, ConcatProperties
<1>5. Append(p, f) = p \o <<f>> /\ Append(front \o p, f) = (front \o p) \o <<f>>
    BY <1>4, AppendIsConcat
<1>6. (front \o p) \o <<f>> = front \o (p \o <<f>>)  BY <1>3, ConcatAssociative
<1>. QED  BY <1>1, <1>5, <1>6 DEF front

(* queueInLoop on the loop's thread: a functor that is left to the next round is
   announced. *)
LEMMA QueuedInLoop ==
    ASSUME NEW r \in Seq(Functors), NEW b \in Seq(Functors), NEW f \in Functors \cup {None},
           pending \in Seq(Functors), posted = r \o b \o pending, QueueInLoop(f)
    PROVE  /\ pending' \in Seq(Functors) /\ r \o b \o pending' = posted'
           /\ eventfd => eventfd'
           /\ pending' # pending /\ at = "functors" => eventfd'
<1>1. CASE f = None \/ f \in Range(posted)
    BY <1>1 DEF QueueInLoop
<1>2. CASE ~ (f = None \/ f \in Range(posted))
    <2>1. /\ pending' = Append(pending, f) /\ posted' = Append(posted, f)
          /\ eventfd' = (eventfd \/ at = "functors") /\ f \in Functors
        BY <1>2 DEF QueueInLoop
    <2>2. Append(pending, f) \in Seq(Functors)
          /\ r \o b \o Append(pending, f) = Append(r \o b \o pending, f)
        BY <2>1, Pushed
    <2>3. pending' \in Seq(Functors) /\ r \o b \o pending' = posted'
        BY <2>1, <2>2
    <2>. QED  BY <2>1, <2>3
<1>. QED  BY <1>1, <1>2

LEMMA QueueStep == QueueInv /\ TimersInv /\ [Next]_vars => QueueInv'
<1>. SUFFICES ASSUME QueueInv, TimersInv, [Next]_vars PROVE QueueInv'
    OBVIOUS
<1>. USE DEF QueueInv
<1>1. ASSUME NEW t \in Threads, NEW f \in Functors, Post(t, f)  PROVE QueueInv'
    <2>1. /\ pending' = Append(pending, f) /\ posted' = Append(posted, f)
          /\ batch' = batch /\ ran' = ran /\ at' = at /\ waking' = waking \cup {t}
        BY <1>1 DEF Post
    <2>2. /\ pending' \in Seq(Functors)
          /\ ran \o batch \o pending' = Append(ran \o batch \o pending, f)
        BY <2>1, Pushed
    <2>7. ran' \o batch' \o pending' = posted'  BY <2>1, <2>2
    <2>8. waking' # {}  BY <2>1
    <2>. QED  BY <2>1, <2>2, <2>7, <2>8
<1>2. ASSUME NEW t \in Threads \cup {Loop}, Quit(t)  PROVE QueueInv'
    BY <1>2 DEF Quit, queueing
<1>3. ASSUME NEW t \in Threads, Wakeup(t)  PROVE QueueInv'
    BY <1>3 DEF Wakeup, queueing
<1>4. CASE handleRead  BY <1>4 DEF handleRead, queueing
<1>5. CASE RunCallback
    <2>1. CASE toRun = {}  BY <1>5, <2>1 DEF RunCallback
    <2>2. CASE toRun # {}
        <3>1. PICK node \in toRun : QueueInLoop(Posts[node[1]])
            BY <1>5, <2>2 DEF RunCallback
        <3>2. /\ batch' = batch /\ ran' = ran /\ waking' = waking
              /\ at' = at /\ at = "callbacks"
            BY <1>5, <2>2 DEF RunCallback
        <3>3. node[1] \in Timers  BY DEF TimersInv, TimersTyped
        <3>4. Posts[node[1]] \in Functors \cup {None}  BY <3>3, EventLoopAssumption
        <3>5. pending' \in Seq(Functors) /\ ran \o batch \o pending' = posted'
            BY <3>1, <3>4, QueuedInLoop
        <3>. QED  BY <3>2, <3>5
    <2>. QED  BY <2>1, <2>2
<1>6. CASE Start  BY <1>6 DEF Start, queueing
<1>7. CASE Check  BY <1>7 DEF Check, queueing
<1>8. CASE Poll  BY <1>8 DEF Poll, queueing
<1>9. CASE handleWakeup  BY <1>9 DEF handleWakeup, queueing
<1>10. CASE SwapFunctors
    <2>1. /\ batch' = pending /\ pending' = <<>> /\ batch = <<>> /\ ran' = ran /\ posted' = posted
          /\ at' = "functors"
        BY <1>10 DEF SwapFunctors
    <2>2. ran \o pending \in Seq(Functors)  BY ConcatProperties
    <2>3. ran \o pending \o <<>> = ran \o <<>> \o pending
        BY <2>2, ConcatEmptySeq
    <2>. QED  BY <2>1, <2>3, EmptySeq
<1>11. CASE RunFunctor
    <2>1. CASE batch = <<>>  BY <1>11, <2>1 DEF RunFunctor, queueing
    <2>2. CASE batch # <<>>
        <3>1. /\ ran' = Append(ran, Head(batch)) /\ batch' = Tail(batch)
              /\ QueueInLoop(Posts[Head(batch)]) /\ waking' = waking
              /\ at' = at
            BY <1>11, <2>2 DEF RunFunctor
        <3>2. Head(batch) \in Functors /\ Tail(batch) \in Seq(Functors)
            BY <2>2, HeadTailProperties
        <3>3. ran' \in Seq(Functors)  BY <3>1, <3>2, AppendProperties
        <3>4. <<Head(batch)>> \in Seq(Functors)  BY <3>2
        <3>5. Append(ran, Head(batch)) \o Tail(batch) = ran \o (<<Head(batch)>> \o Tail(batch))
            <4>1. Append(ran, Head(batch)) = ran \o <<Head(batch)>>
                BY <3>2, AppendIsConcat
            <4>2. (ran \o <<Head(batch)>>) \o Tail(batch) = ran \o (<<Head(batch)>> \o Tail(batch))
                BY <3>2, <3>4, ConcatAssociative
            <4>. QED  BY <4>1, <4>2
        <3>6. <<Head(batch)>> \o Tail(batch) = batch  BY <2>2
        <3>7. ran' \o batch' = ran \o batch  BY <3>1, <3>5, <3>6
        <3>8. at = "functors"  BY <2>2
        <3>9. Posts[Head(batch)] \in Functors \cup {None}  BY <3>2, EventLoopAssumption
        <3>10. /\ pending' \in Seq(Functors) /\ ran \o batch \o pending' = posted'
               /\ eventfd => eventfd'
               /\ pending' # pending => eventfd'
            BY <3>1, <3>8, <3>9, QueuedInLoop
        <3>11. ran' \o batch' \o pending' = posted'  BY <3>7, <3>10
        <3>. QED  BY <3>1, <3>2, <3>3, <3>8, <3>10, <3>11
    <2>. QED  BY <2>1, <2>2
<1>12. CASE Destroy  BY <1>12 DEF Destroy, queueing
<1>13. CASE Tick  BY <1>13 DEF Tick, queueing
<1>14. CASE UNCHANGED vars  BY <1>14 DEF vars, queueing
<1>. QED
    BY <1>1, <1>2, <1>3, <1>4, <1>5, <1>6, <1>7, <1>8, <1>9, <1>10, <1>11, <1>12, <1>13, <1>14
    DEF Next, Main

-----------------------------------------------------------------------------
(* Arithmetic of the periods. *)

LEMMA WholePeriods ==
    ASSUME NEW k \in Nat, NEW interval \in Nat \ {0}
    PROVE  k * interval \in Nat /\ (k * interval) % interval = 0 /\ (k * interval) \div interval = k
OBVIOUS

(* handleRead skips what was missed and stays on the multiples of the interval. *)
LEMMA SkipsWholePeriods ==
    ASSUME NEW interval \in Nat \ {0}, NEW delay \in Nat, NEW k \in Nat, NEW start \in Nat
    PROVE  /\ delay \div interval \in Nat
           /\ (start + k * interval) + ((delay \div interval) + 1) * interval
                = start + (k + (delay \div interval) + 1) * interval
<1>1. delay \div interval \in Nat  OBVIOUS
<1>2. \A missed \in Nat : (start + k * interval) + (missed + 1) * interval
                            = start + (k + missed + 1) * interval
    OBVIOUS
<1>. QED  BY <1>1, <1>2

LEMMA Adding ==
    ASSUME TimersTyped, NEW ts \in SUBSET Timers, AddTimers(ts)
    PROVE  /\ first' \in [Timers -> Nat \cup {None}] /\ next' \in [Timers -> Nat \cup {None}]
           /\ \A t \in Timers : first[t] # None => first'[t] = first[t] /\ next'[t] = next[t]
           /\ \A t \in Timers : first[t] = None =>
                 \/ first'[t] = first[t] /\ next'[t] = next[t]
                 \/ first'[t] \in Nat /\ next'[t] = first'[t]
BY EventLoopAssumption DEF TimersTyped, AddTimers

(* A timer that is added while nothing of it runs. *)
LEMMA AddedInv ==
    ASSUME TimersTyped, NEW ts \in SUBSET Timers, AddTimers(ts), NEW t \in Timers,
           TimerInv(t), first[t] = None, now' \in Nat, Runs(t)' = Runs(t)
    PROVE  TimerInv(t)'
<1>1. next[t] = None /\ Runs(t) = 0  BY DEF TimerInv
<1>2. Interval[t] \in Nat  BY EventLoopAssumption
<1>3. CASE first'[t] = None /\ next'[t] = None
    BY <1>1, <1>2, <1>3 DEF TimerInv
<1>4. CASE first'[t] \in Nat /\ next'[t] = first'[t]
    <2>1. next'[t] = first'[t] + 0 * Interval[t]  BY <1>2, <1>4
    <2>2. \E k \in Nat : next'[t] = first'[t] + k * Interval[t] /\ Runs(t)' <= k
        BY <1>1, <2>1
    <2>3. first'[t] # None  BY <1>4, EventLoopAssumption
    <2>. QED  BY <1>1, <1>2, <1>4, <2>2, <2>3 DEF TimerInv
<1>. QED  BY <1>1, <1>3, <1>4, Adding

(* A timer of which a step changes nothing while time may pass. *)
LEMMA KeptInv ==
    ASSUME TimersTyped, NEW t \in Timers, TimerInv(t), first'[t] = first[t], next'[t] = next[t],
           now' \in Nat, now <= now', Runs(t)' = Runs(t)
    PROVE  TimerInv(t)'
<1>1. first[t] \in Nat \cup {None}  BY DEF TimersTyped
<1>2. Runs(t) > 0 => first[t] \in Nat
    BY <1>1, EventLoopAssumption DEF TimerInv
<1>3. Runs(t)' > 0 => first'[t] <= now'
    BY <1>2 DEF TimerInv, TimersTyped
<1>. QED  BY <1>3 DEF TimerInv

-----------------------------------------------------------------------------
LEMMA TimersInit == Init => TimersInv
<1>. SUFFICES ASSUME Init PROVE TimersInv
    OBVIOUS
<1>1. TimersTyped  BY EventLoopAssumption DEF Init, TimersTyped
<1>2. ASSUME NEW t \in Timers  PROVE TimerInv(t)
    <2>1. Runs(t) = 0 /\ next[t] = first[t] /\ (first[t] = None \/ first[t] \in Nat)
        BY EventLoopAssumption DEF Init, Runs, Taken
    <2>2. Interval[t] \in Nat  BY EventLoopAssumption
    <2>3. first[t] # None => next[t] = first[t] + 0 * Interval[t]  BY <2>1, <2>2
    <2>4. first[t] # None => first[t] <= next[t]  BY <2>1
    <2>. QED  BY <2>1, <2>2, <2>3, <2>4 DEF TimerInv
<1>. QED  BY <1>1, <1>2 DEF Init, TimersInv

LEMMA Unchanged ==
    ASSUME TimersInv, UNCHANGED timing, now' \in Nat, now <= now',
           at' = at \/ toRun = {}
    PROVE  TimersInv'
<1>1. TimersTyped'  BY DEF TimersInv, TimersTyped, timing
<1>2. ASSUME NEW t \in Timers  PROVE TimerInv(t)'
    <2>1. Runs(t)' = Runs(t)  BY DEF Runs, Taken, timing
    <2>. QED  BY <2>1, KeptInv DEF TimersInv, timing
<1>. QED  BY <1>1, <1>2 DEF TimersInv, timing

LEMMA HandleReadStep == TimersInv /\ handleRead => TimersInv'
<1>. SUFFICES ASSUME TimersInv, handleRead PROVE TimersInv'
    OBVIOUS
<1>. DEFINE due == {t \in Timers : next[t] # None /\ next[t] <= now}
<1>1. /\ at = "events" /\ at' = "callbacks"
      /\ toRun' = {<<t, next[t]>> : t \in due}
      /\ next' = [t \in Timers |-> IF t \notin due THEN next[t]
                                   ELSE IF Interval[t] > 0 THEN Rescheduled(t) ELSE None]
      /\ now' = now /\ first' = first /\ fired' = fired
    BY DEF handleRead
<1>2. toRun = {} /\ TimersTyped  BY <1>1 DEF TimersInv
<1>3. \A t \in Timers : Interval[t] \in Nat  BY EventLoopAssumption
<1>4. ASSUME NEW t \in due  PROVE next[t] \in Nat /\ first[t] \in Nat /\ first[t] <= next[t]
    <2>1. TimerInv(t)  BY DEF TimersInv
    <2>. QED  BY <1>2, <2>1 DEF TimerInv, TimersTyped
<1>5. ASSUME NEW t \in due, Interval[t] > 0
      PROVE  /\ Rescheduled(t) \in Nat /\ first[t] <= Rescheduled(t)
             /\ \E k \in Nat : Rescheduled(t) = first[t] + k * Interval[t] /\ Runs(t) + 1 <= k
    <2>1. TimerInv(t)  BY DEF TimersInv
    <2>2. first[t] # None  BY <1>4, EventLoopAssumption
    <2>3. PICK k \in Nat : next[t] = first[t] + k * Interval[t] /\ Runs(t) <= k
        BY <1>5, <2>1, <2>2 DEF TimerInv
    <2>. DEFINE missed == (now - next[t]) \div Interval[t]
                l == k + missed + 1
    <2>4. missed \in Nat
          /\ (first[t] + k * Interval[t]) + (missed + 1) * Interval[t] = first[t] + l * Interval[t]
        <3>1. Interval[t] \in Nat \ {0} /\ now - next[t] \in Nat
            BY <1>2, <1>3, <1>4, <1>5 DEF TimersTyped
        <3>. QED  BY <1>4, <3>1, SkipsWholePeriods
    <2>5. Rescheduled(t) = first[t] + l * Interval[t]  BY <2>3, <2>4 DEF Rescheduled
    <2>6. l \in Nat  BY <2>4
    <2>7. Runs(t) \in Nat  BY <1>2 DEF Runs, TimersTyped
    <2>8. Runs(t) + 1 <= l  BY <2>3, <2>4, <2>7
    <2>. HIDE DEF l
    <2>9. l * Interval[t] \in Nat  BY <1>3, <1>5, <2>6, WholePeriods
    <2>. QED  BY <1>4, <2>5, <2>6, <2>8, <2>9
<1>6. TimersTyped'
    <2>1. toRun' \subseteq Timers \X Nat  BY <1>1, <1>4
    <2>2. next' \in [Timers -> Nat \cup {None}]  BY <1>1, <1>2, <1>5, <1>3 DEF TimersTyped
    <2>3. \A t \in Timers : \A x, y \in Nat : <<t, x>> \in toRun' /\ <<t, y>> \in toRun' => x = y
        BY <1>1
    <2>. QED  BY <1>1, <1>2, <2>1, <2>2, <2>3 DEF TimersTyped
<1>7. ASSUME NEW t \in Timers  PROVE TimerInv(t)'
    <2>1. TimerInv(t)  BY DEF TimersInv
    <2>2. Runs(t) = fired[t] /\ fired[t] \in Nat  BY <1>2 DEF Runs, Taken, TimersTyped
    <2>3. CASE t \notin due
        <3>1. ~ Taken(t)'  BY <1>1, <2>3 DEF Taken
        <3>2. Runs(t)' = Runs(t)  BY <1>1, <2>2, <3>1 DEF Runs
        <3>3. next'[t] = next[t]  BY <1>1, <2>3
        <3>4. now' \in Nat /\ now <= now'  BY <1>1, <1>2 DEF TimersTyped
        <3>. QED  BY <1>1, <1>2, <2>1, <3>2, <3>3, <3>4, KeptInv
    <2>4. CASE t \in due
        <3>1. Runs(t)' = Runs(t) + 1
            <4>1. <<t, next[t]>> \in toRun'  BY <1>1, <2>4
            <4>2. Taken(t)'  BY <1>4, <2>4, <4>1 DEF Taken
            <4>. QED  BY <1>1, <2>2, <4>2 DEF Runs
        <3>2. first'[t] <= now'  BY <1>1, <1>2, <1>4, <2>4 DEF TimersTyped
        <3>3. first'[t] # None /\ first[t] # None  BY <1>1, <1>4, <2>4, EventLoopAssumption
        <3>4. CASE Interval[t] = 0
            <4>1. next'[t] = None  BY <1>1, <2>4, <3>4
            <4>2. Runs(t) = 0  BY <2>1, <2>2, <2>4, <3>4 DEF TimerInv
            <4>. QED  BY <3>1, <3>2, <3>3, <3>4, <4>1, <4>2 DEF TimerInv
        <3>5. CASE Interval[t] > 0
            <4>1. next'[t] = Rescheduled(t)  BY <1>1, <2>4, <3>5
            <4>2. next'[t] \in Nat /\ first'[t] <= next'[t]  BY <1>1, <1>5, <2>4, <3>5, <4>1
            <4>3. \E k \in Nat : next'[t] = first'[t] + k * Interval[t] /\ Runs(t)' <= k
                BY <1>1, <1>5, <2>4, <3>1, <3>5, <4>1
            <4>. QED  BY <1>3, <3>2, <3>3, <3>5, <4>2, <4>3 DEF TimerInv
        <3>. QED  BY <1>3, <3>4, <3>5
    <2>. QED  BY <2>3, <2>4
<1>. QED  BY <1>1, <1>6, <1>7 DEF TimersInv

LEMMA RunCallbackStep == TimersInv /\ RunCallback => TimersInv'
<1>. SUFFICES ASSUME TimersInv, RunCallback PROVE TimersInv'
    OBVIOUS
<1>1. now' = now /\ TimersTyped  BY DEF RunCallback, TimersInv
<1>2. CASE toRun = {}
    BY <1>1, <1>2, Unchanged DEF RunCallback, TimersTyped
<1>3. CASE toRun # {}
    <2>1. PICK node \in toRun :
            /\ toRun' = toRun \ {node}
            /\ fired' = [fired EXCEPT ![node[1]] = @ + 1]
            /\ AddTimers(Adds[node[1]])
            /\ at' = at
        BY <1>3 DEF RunCallback
    <2>2. PICK u \in Timers, expiry \in Nat : node = <<u, expiry>>  BY <1>1 DEF TimersTyped
    <2>3. /\ toRun' = toRun \ {<<u, expiry>>} /\ <<u, expiry>> \in toRun
          /\ fired' = [fired EXCEPT ![u] = @ + 1]
          /\ AddTimers(Adds[u])
        BY <2>1, <2>2
    <2>4. Adds[u] \in SUBSET Timers  BY EventLoopAssumption
    <2>5. ASSUME NEW t \in Timers  PROVE Runs(t)' = Runs(t) /\ Runs(t) \in Nat
        <3>1. CASE t = u
            <4>1. Taken(t)  BY <2>3, <3>1 DEF Taken
            <4>2. ~ Taken(t)'  BY <1>1, <2>3, <3>1 DEF Taken, TimersTyped
            <4>. QED  BY <1>1, <2>3, <3>1, <4>1, <4>2 DEF Runs, TimersTyped
        <3>2. CASE t # u
            <4>1. Taken(t)' <=> Taken(t)  BY <2>3, <3>2 DEF Taken
            <4>. QED  BY <1>1, <2>3, <3>2, <4>1 DEF Runs, TimersTyped
        <3>. QED  BY <3>1, <3>2
    <2>6. TimersTyped'
        <3>1. fired' \in [Timers -> Nat]  BY <1>1, <2>3 DEF TimersTyped
        <3>2. first' \in [Timers -> Nat \cup {None}] /\ next' \in [Timers -> Nat \cup {None}]
            BY <1>1, <2>3, <2>4, Adding
        <3>. QED  BY <1>1, <2>3, <3>1, <3>2 DEF TimersTyped
    <2>7. ASSUME NEW t \in Timers  PROVE TimerInv(t)'
        <3>1. TimerInv(t)  BY DEF TimersInv
        <3>2. now' \in Nat /\ now <= now'  BY <1>1 DEF TimersTyped
        <3>3. CASE first[t] = None
            BY <1>1, <2>3, <2>4, <2>5, <3>1, <3>2, <3>3, AddedInv
        <3>4. CASE first[t] # None
            <4>1. first'[t] = first[t] /\ next'[t] = next[t]
                BY <1>1, <2>3, <2>4, <3>4, Adding
            <4>. QED  BY <1>1, <2>5, <3>1, <3>2, <4>1, KeptInv
        <3>. QED  BY <3>3, <3>4
    <2>8. toRun' # {} => at' = "callbacks"  BY <1>3, <2>1 DEF TimersInv
    <2>. QED  BY <2>6, <2>7, <2>8 DEF TimersInv
<1>. QED  BY <1>2, <1>3

LEMMA RunFunctorStep == TimersInv /\ QueueInv /\ RunFunctor => TimersInv'
<1>. SUFFICES ASSUME TimersInv, QueueInv, RunFunctor PROVE TimersInv'
    OBVIOUS
<1>1. now' = now /\ TimersTyped /\ at = "functors" /\ toRun = {}
    BY DEF RunFunctor, TimersInv
<1>2. CASE batch = <<>>
    BY <1>1, <1>2, Unchanged DEF RunFunctor, TimersTyped
<1>3. CASE batch # <<>>
    <2>1. AddTimers(Adds[Head(batch)]) /\ fired' = fired /\ toRun' = toRun
        BY <1>3 DEF RunFunctor
    <2>2. Head(batch) \in Functors  BY <1>3, HeadTailProperties DEF QueueInv
    <2>3. Adds[Head(batch)] \in SUBSET Timers  BY <2>2, EventLoopAssumption
    <2>4. TimersTyped'  BY <1>1, <2>1, <2>3, Adding DEF TimersTyped
    <2>5. ASSUME NEW t \in Timers  PROVE TimerInv(t)'
        <3>1. TimerInv(t)  BY DEF TimersInv
        <3>2. now' \in Nat /\ now <= now'  BY <1>1 DEF TimersTyped
        <3>3. Runs(t)' = Runs(t)  BY <2>1 DEF Runs, Taken
        <3>4. CASE first[t] = None
            BY <1>1, <2>1, <2>3, <3>1, <3>2, <3>3, <3>4, AddedInv
        <3>5. CASE first[t] # None
            <4>1. first'[t] = first[t] /\ next'[t] = next[t]
                BY <1>1, <2>1, <2>3, <3>5, Adding
            <4>. QED  BY <1>1, <3>1, <3>2, <3>3, <4>1, KeptInv
        <3>. QED  BY <3>4, <3>5
    <2>. QED  BY <1>1, <2>1, <2>4, <2>5 DEF TimersInv
<1>. QED  BY <1>2, <1>3

LEMMA TimersStep == TimersInv /\ QueueInv /\ [Next]_vars => TimersInv'
<1>. SUFFICES ASSUME TimersInv, QueueInv, [Next]_vars PROVE TimersInv'
    OBVIOUS
<1>1. now \in Nat /\ now <= now /\ now <= now + 1 /\ (at # "callbacks" => toRun = {})
    BY DEF TimersInv, TimersTyped
<1>2. CASE handleRead  BY <1>2, HandleReadStep
<1>3. CASE RunCallback  BY <1>3, RunCallbackStep
<1>4. CASE RunFunctor  BY <1>4, RunFunctorStep
<1>5. CASE Tick  BY <1>1, <1>5, Unchanged DEF Tick
<1>6. ASSUME NEW t \in Threads, NEW f \in Functors, Post(t, f)  PROVE TimersInv'
    BY <1>1, <1>6, Unchanged DEF Post
<1>7. ASSUME NEW t \in Threads \cup {Loop}, Quit(t)  PROVE TimersInv'
    BY <1>1, <1>7, Unchanged DEF Quit
<1>8. ASSUME NEW t \in Threads, Wakeup(t)  PROVE TimersInv'
    BY <1>1, <1>8, Unchanged DEF Wakeup
<1>9. CASE Start \/ Check \/ Poll \/ handleWakeup \/ SwapFunctors \/ Destroy
    BY <1>1, <1>9, Unchanged DEF Start, Check, Poll, handleWakeup, SwapFunctors, Destroy
<1>10. CASE UNCHANGED vars  BY <1>1, <1>10, Unchanged DEF vars
<1>. QED
    BY <1>2, <1>3, <1>4, <1>5, <1>6, <1>7, <1>8, <1>9, <1>10 DEF Next, Main

(* Functors run in the order of their push, each once, for any number of threads
   and whatever the functors and callbacks themselves post. *)
THEOREM InOrder == Spec => []FunctorsRunInOrder
<1>1. QueueInv => FunctorsRunInOrder  BY DEF QueueInv, FunctorsRunInOrder
<1>. QED  BY <1>1, QueueInit, QueueStep, TimersInit, TimersStep, PTL DEF Spec

(* No wakeup is lost between the push and epoll_wait. *)
THEOREM NoLostWakeup == Spec => []NeverSleepsOnWork
<1>1. QueueInv => NeverSleepsOnWork  BY DEF QueueInv, NeverSleepsOnWork
<1>. QED  BY <1>1, QueueInit, QueueStep, TimersInit, TimersStep, PTL DEF Spec

(* Periodic timers stay in phase and run at most once for each interval, and no
   timer runs early, for all intervals and delays and however late the loop is. *)
THEOREM InPhase == Spec => []PhaseKept
<1>1. TimersInv => PhaseKept
    <2>. SUFFICES ASSUME TimersInv, NEW t \in Timers, first[t] # None
                  PROVE  /\ fired[t] > 0 => first[t] <= now
                         /\ IF Interval[t] = 0 THEN fired[t] + (IF next[t] = None THEN 0 ELSE 1) <= 1
                            ELSE /\ (next[t] - first[t]) % Interval[t] = 0
                                 /\ fired[t] <= (next[t] - first[t]) \div Interval[t]
        BY DEF PhaseKept
    <2>1. TimerInv(t) /\ TimersTyped  BY DEF TimersInv
    <2>2. fired[t] \in Nat /\ Runs(t) \in Nat /\ fired[t] <= Runs(t)
        BY <2>1 DEF TimersTyped, Runs
    <2>3. Interval[t] \in Nat  BY EventLoopAssumption
    <2>4. CASE Interval[t] = 0  BY <2>1, <2>2, <2>4 DEF TimerInv
    <2>5. CASE Interval[t] # 0
        <3>1. PICK k \in Nat : next[t] = first[t] + k * Interval[t] /\ Runs(t) <= k
            BY <2>1, <2>3, <2>5 DEF TimerInv
        <3>2. k * Interval[t] \in Nat /\ (k * Interval[t]) % Interval[t] = 0
              /\ (k * Interval[t]) \div Interval[t] = k
            BY <2>3, <2>5, WholePeriods
        <3>3. first[t] \in Nat  BY <2>1 DEF TimersTyped
        <3>4. next[t] - first[t] = k * Interval[t]  BY <3>1, <3>2, <3>3
        <3>5. fired[t] <= k  BY <2>2, <3>1
        <3>6. fired[t] > 0 => first[t] <= now  BY <2>1, <2>2 DEF TimerInv
        <3>. QED  BY <2>5, <3>2, <3>4, <3>5, <3>6
    <2>. QED  BY <2>4, <2>5
<1>. QED  BY <1>1, QueueInit, QueueStep, TimersInit, TimersStep, PTL DEF Spec
=============================================================================

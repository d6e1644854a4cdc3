---------------------- MODULE MySQLConnectionPoolProofs ----------------------
(***************************************************************************)
(* Proofs about MySQLConnectionPool for any number of threads, any bounds  *)
(* and any behaviour of the database.                                      *)
(***************************************************************************)
EXTENDS MySQLConnectionPool, SequenceTheorems, FiniteSetTheorems, TLAPS

(* A thread owns a connection exactly between getConnection and the deleter. *)
HoldersHold == \A t \in Threads : caller[t] = "holding" <=> holds[t] \in Conns

(* closeAll leaves nothing in the queue and nothing is queued afterwards. *)
StoppedIsEmpty == stop => idle = <<>>

(* The inductive invariant. *)
IInv ==
    /\ TypeOK
    /\ HoldersHold
    /\ StoppedIsEmpty
    /\ Exclusive
    /\ SizeAccounts
    /\ WithinMax
    /\ NoIdleWhileAsleep

Places == {"out", "ready", "asleep", "holding"}

-----------------------------------------------------------------------------
(* The queue of idle connections, none of which is there twice. *)

Elements(q) == {q[i] : i \in 1..Len(q)}

Distinct(q) == \A i, j \in 1..Len(q) : q[i] = q[j] => i = j

(* Taking a connection removes exactly the oldest one. *)
LEMMA PopIdle ==
  ASSUME NEW q \in Seq(Conns), q # <<>>, Distinct(q)
  PROVE  /\ Head(q) \in Conns
         /\ Head(q) \in Elements(q)
         /\ Elements(Tail(q)) = Elements(q) \ {Head(q)}
         /\ Distinct(Tail(q))
         /\ Tail(q) \in Seq(Conns)
         /\ Len(Tail(q)) = Len(q) - 1
         /\ Len(q) \in Nat \ {0}
<1> DEFINE r == Tail(q)
<1>1. /\ Len(q) \in Nat \ {0}
      /\ r \in Seq(Conns)
      /\ Len(r) = Len(q) - 1
      /\ \A i \in 1..Len(r) : i + 1 \in 1..Len(q) /\ r[i] = q[i+1]
      /\ Head(q) = q[1]
      /\ 1 \in 1..Len(q)
  BY HeadTailProperties
<1> HIDE DEF r
<1>2. \A i, j \in 1..Len(q) : q[i] = q[j] => i = j
  BY DEF Distinct
<1>3. Elements(r) \subseteq Elements(q) \ {Head(q)}
  BY <1>1, <1>2 DEF Elements
<1>4. ASSUME NEW i \in 1..Len(q), q[i] # q[1]
      PROVE  i - 1 \in 1..Len(r) /\ r[i-1] = q[i]
  BY <1>1, <1>4
<1>5. Elements(q) \ {Head(q)} \subseteq Elements(r)
  BY <1>1, <1>4 DEF Elements
<1>6. Distinct(r)
  BY <1>1, <1>2 DEF Distinct
<1>7. Head(q) \in Conns
  BY <1>1, ElementOfSeq
<1>8. Head(q) \in Elements(q)
  BY <1>1 DEF Elements
<1> QED
  BY <1>1, <1>3, <1>5, <1>6, <1>7, <1>8 DEF r

(* Returning a connection adds exactly that one. *)
LEMMA PushIdle ==
  ASSUME NEW q \in Seq(Conns), NEW e \in Conns, Distinct(q), e \notin Elements(q)
  PROVE  /\ Elements(Append(q, e)) = Elements(q) \cup {e}
         /\ Distinct(Append(q, e))
         /\ Append(q, e) \in Seq(Conns)
         /\ Len(Append(q, e)) = Len(q) + 1
<1> DEFINE r == Append(q, e)
<1>1. /\ Len(q) \in Nat
      /\ r \in Seq(Conns)
      /\ Len(r) = Len(q) + 1
      /\ \A i \in 1..Len(q) : i \in 1..Len(r) /\ r[i] = q[i]
      /\ r[Len(q) + 1] = e
  BY AppendProperties
<1> HIDE DEF r
<1>2. \A i \in 1..Len(r) : i \in 1..Len(q) \/ i = Len(q) + 1
  BY <1>1
<1>3. \A i, j \in 1..Len(q) : q[i] = q[j] => i = j
  BY DEF Distinct
<1>4. \A i \in 1..Len(q) : q[i] # e
  BY DEF Elements
<1>5. Elements(r) = Elements(q) \cup {e}
  BY <1>1, <1>2 DEF Elements
<1>6. Distinct(r)
  BY <1>1, <1>2, <1>3, <1>4 DEF Distinct
<1> QED
  BY <1>1, <1>5, <1>6 DEF r

(* The empty queue. *)
LEMMA EmptyIdle ==
  Elements(<<>>) = {} /\ Distinct(<<>>) /\ Len(<<>>) = 0
BY DEF Elements, Distinct

-----------------------------------------------------------------------------
(* Counting threads. *)

LEMMA CountsFinite ==
  /\ IsFiniteSet(Ready) /\ Cardinality(Ready) \in Nat
  /\ IsFiniteSet(Holding) /\ Cardinality(Holding) \in Nat
<1>1. IsFiniteSet(Ready) /\ IsFiniteSet(Holding)
  BY ConnPoolAssumption, FS_Subset DEF Ready, Holding
<1> QED
  BY <1>1, FS_CardinalityType

(* One thread that goes from one place to another changes the two counts only
   by that thread. *)
LEMMA MoveCounts ==
  ASSUME NEW t \in Threads, NEW p \in Places,
         caller \in [Threads -> Places],
         caller' = [caller EXCEPT ![t] = p],
         caller[t] # p
  PROVE  /\ Cardinality(Ready') =
              IF p = "ready" THEN Cardinality(Ready) + 1
              ELSE IF caller[t] = "ready" THEN Cardinality(Ready) - 1
              ELSE Cardinality(Ready)
         /\ Cardinality(Holding') =
              IF p = "holding" THEN Cardinality(Holding) + 1
              ELSE IF caller[t] = "holding" THEN Cardinality(Holding) - 1
              ELSE Cardinality(Holding)
<1>1. Cardinality(Ready') =
        IF p = "ready" THEN Cardinality(Ready) + 1
        ELSE IF caller[t] = "ready" THEN Cardinality(Ready) - 1
        ELSE Cardinality(Ready)
  <2>1. CASE p = "ready"
    <3>1. Ready' = Ready \cup {t} /\ t \notin Ready
      BY <2>1 DEF Ready, Places
    <3> QED
      BY <2>1, <3>1, CountsFinite, FS_AddElement
  <2>2. CASE p # "ready" /\ caller[t] = "ready"
    <3>1. Ready' = Ready \ {t} /\ t \in Ready
      BY <2>2 DEF Ready, Places
    <3> QED
      BY <2>2, <3>1, CountsFinite, FS_RemoveElement
  <2>3. CASE p # "ready" /\ caller[t] # "ready"
    <3>1. Ready' = Ready
      BY <2>3 DEF Ready, Places
    <3> QED
      BY <2>3, <3>1
  <2> QED
    BY <2>1, <2>2, <2>3
<1>2. Cardinality(Holding') =
        IF p = "holding" THEN Cardinality(Holding) + 1
        ELSE IF caller[t] = "holding" THEN Cardinality(Holding) - 1
        ELSE Cardinality(Holding)
  <2>1. CASE p = "holding"
    <3>1. Holding' = Holding \cup {t} /\ t \notin Holding
      BY <2>1 DEF Holding, Places
    <3> QED
      BY <2>1, <3>1, CountsFinite, FS_AddElement
  <2>2. CASE p # "holding" /\ caller[t] = "holding"
    <3>1. Holding' = Holding \ {t} /\ t \in Holding
      BY <2>2 DEF Holding, Places
    <3> QED
      BY <2>2, <3>1, CountsFinite, FS_RemoveElement
  <2>3. CASE p # "holding" /\ caller[t] # "holding"
    <3>1. Holding' = Holding
      BY <2>3 DEF Holding, Places
    <3> QED
      BY <2>3, <3>1
  <2> QED
    BY <2>1, <2>2, <2>3
<1> QED
  BY <1>1, <1>2

(* A thread that notifies and leaves with its connection returned: one holder
   less and, when somebody slept, one ready thread more. *)
LEMMA NotifyCounts ==
  ASSUME NEW t \in Threads,
         caller \in [Threads -> Places],
         caller[t] = "holding",
         NotifyOneAnd(t, "out")
  PROVE  /\ caller' \in [Threads -> Places]
         /\ caller'[t] = "out"
         /\ \A s \in Threads \ {t} :
              \/ caller'[s] = caller[s]
              \/ caller[s] = "asleep" /\ caller'[s] = "ready"
         /\ Cardinality(Holding') = Cardinality(Holding) - 1
         /\ Asleep # {} => Cardinality(Ready') = Cardinality(Ready) + 1
<1>1. CASE Asleep = {}
  <2>1. caller' = [caller EXCEPT ![t] = "out"]
    BY <1>1 DEF NotifyOneAnd
  <2>2. Cardinality(Holding') = Cardinality(Holding) - 1
    BY <2>1, MoveCounts DEF Places
  <2> QED
    BY <1>1, <2>1, <2>2 DEF Places
<1>2. CASE Asleep # {}
  <2>1. PICK s \in Asleep : caller' = [caller EXCEPT ![t] = "out", ![s] = "ready"]
    BY <1>2 DEF NotifyOneAnd
  <2>2. s \in Threads /\ caller[s] = "asleep" /\ s # t
    BY <2>1 DEF Asleep
  <2>3. Holding' = Holding \ {t} /\ t \in Holding
    BY <2>1, <2>2 DEF Holding
  <2>4. Ready' = Ready \cup {s} /\ s \notin Ready
    BY <2>1, <2>2 DEF Ready
  <2>5. Cardinality(Holding') = Cardinality(Holding) - 1
    BY <2>3, CountsFinite, FS_RemoveElement
  <2>6. Cardinality(Ready') = Cardinality(Ready) + 1
    BY <2>4, CountsFinite, FS_AddElement
  <2> QED
    BY <2>1, <2>2, <2>5, <2>6 DEF Places
<1> QED
  BY <1>1, <1>2

-----------------------------------------------------------------------------
(* Types, ownership and the empty queue of a closed pool are preserved. *)
LEMMA BookkeepingInductive ==
  TypeOK /\ HoldersHold /\ StoppedIsEmpty /\ Exclusive /\ WithinMax /\ [Next]_vars
    => TypeOK' /\ HoldersHold' /\ StoppedIsEmpty'
<1> SUFFICES ASSUME TypeOK, HoldersHold, StoppedIsEmpty, Exclusive, WithinMax,
                    [Next]_vars
             PROVE  (TypeOK /\ HoldersHold /\ StoppedIsEmpty)'
  OBVIOUS
<1> DEFINE Books == TypeOK /\ HoldersHold /\ StoppedIsEmpty
<1> USE ConnPoolAssumption DEF TypeOK, HoldersHold, StoppedIsEmpty
<1>s. MaxSize < SizeMod
  <2>1. Cardinality(Conns) \in Nat
    BY FS_CardinalityType
  <2> QED
    BY <2>1
<1>q. idle # <<>> => Head(idle) \in Conns /\ Tail(idle) \in Seq(Conns)
  BY PopIdle, HeadTailProperties DEF Exclusive, Distinct
<1>1. ASSUME NEW t \in Threads,
             Call(t) \/ Block(t) \/ SpuriousWakeup(t) \/ ReturnNullStopped(t)
                \/ CreateFails(t)
      PROVE  Books'
  BY <1>1 DEF Call, Block, SpuriousWakeup, ReturnNullStopped, CreateFails
<1>2. ASSUME NEW t \in Threads, TakeIdle(t)
      PROVE  Books'
  BY <1>2, <1>q DEF TakeIdle
<1>3. ASSUME NEW t \in Threads, TakeReconnected(t)
      PROVE  Books'
  BY <1>3, <1>q DEF TakeReconnected
<1>4. ASSUME NEW t \in Threads, ReconnectFails(t)
      PROVE  Books'
  BY <1>4, <1>q, <1>s DEF ReconnectFails, Decremented
<1>5. ASSUME NEW t \in Threads, Create(t)
      PROVE  Books'
  BY <1>5, <1>s DEF Create
<1>6. ASSUME NEW t \in Threads, ReturnToPool(t)
      PROVE  Books'
  <2>1. /\ caller' \in [Threads -> Places]
        /\ caller'[t] = "out"
        /\ \A s \in Threads \ {t} :
             \/ caller'[s] = caller[s]
             \/ caller[s] = "asleep" /\ caller'[s] = "ready"
    <3>1. caller \in [Threads -> Places] /\ caller[t] = "holding" /\ NotifyOneAnd(t, "out")
      BY <1>6 DEF ReturnToPool, Places
    <3> QED
      BY <3>1, NotifyCounts
  <2>2. holds[t] \in Conns /\ caller' \in [Threads -> {"out", "ready", "asleep", "holding"}]
    BY <1>6, <2>1 DEF ReturnToPool, Places
  <2>3. TypeOK' /\ StoppedIsEmpty'
    BY <1>6, <2>2, AppendProperties DEF ReturnToPool
  <2>4. HoldersHold'
    BY <1>6, <2>1 DEF ReturnToPool
  <2> QED
    BY <2>3, <2>4
<1>7. ASSUME NEW t \in Threads, ReturnAfterStop(t)
      PROVE  Books'
  BY <1>7, <1>s DEF ReturnAfterStop, Decremented
<1>8. CASE CloseAll
  <2>1. Asleep \subseteq Threads /\ \A t \in Asleep : caller[t] = "asleep"
    BY DEF Asleep
  <2> QED
    BY <1>8, <1>s, <2>1, EmptySeq DEF CloseAll
<1>9. CASE ConnectionLost
  <2>1. Existing \subseteq Conns
    BY ElementOfSeq DEF Existing, Idle, Held
  <2> QED
    BY <1>9, <2>1 DEF ConnectionLost
<1>10. CASE UNCHANGED vars
  BY <1>10 DEF vars
<1> QED
  BY <1>1, <1>2, <1>3, <1>4, <1>5, <1>6, <1>7, <1>8, <1>9, <1>10
     DEF Next, GetConnection, ReturnConnection

(* No step lets two threads own one connection, or a thread own one that is in
   the queue. *)
LEMMA ExclusiveInductive ==
  TypeOK /\ HoldersHold /\ Exclusive /\ [Next]_vars => Exclusive'
<1> SUFFICES ASSUME TypeOK, HoldersHold, Exclusive, [Next]_vars
             PROVE  Exclusive'
  OBVIOUS
<1>u. ASSUME idle' = idle, holds' = holds PROVE Exclusive'
  <2>1. Idle' = Idle /\ Held' = Held
    BY <1>u DEF Idle, Held
  <2> QED
    BY <1>u, <2>1 DEF Exclusive
<1> USE ConnPoolAssumption DEF TypeOK, HoldersHold
<1>n. NoConn \notin Idle
  BY ElementOfSeq DEF Idle
<1>d. /\ Distinct(idle)
      /\ Elements(idle) = Idle
      /\ \A t \in Threads : holds[t] \notin Idle
      /\ \A s, t \in Threads : (holds[s] = holds[t] /\ holds[s] # NoConn) => s = t
  BY <1>n DEF Exclusive, Distinct, Elements, Idle, Held
<1>e. ASSUME Distinct(idle)',
             \A t \in Threads : holds'[t] \notin Elements(idle'),
             \A s, t \in Threads : (holds'[s] = holds'[t] /\ holds'[s] # NoConn) => s = t
      PROVE  Exclusive'
  BY <1>e DEF Exclusive, Distinct, Elements, Idle, Held
<1>q. idle # <<>> =>
        /\ Head(idle) \in Idle
        /\ Elements(Tail(idle)) = Idle \ {Head(idle)}
        /\ Distinct(Tail(idle))
        /\ Head(idle) \in Conns
  BY <1>d, PopIdle
<1>1. ASSUME NEW t \in Threads,
             Call(t) \/ Block(t) \/ SpuriousWakeup(t) \/ ReturnNullStopped(t)
                \/ CreateFails(t)
      PROVE  Exclusive'
  BY <1>1, <1>u DEF Call, Block, SpuriousWakeup, ReturnNullStopped, CreateFails
<1>2. ASSUME NEW t \in Threads, TakeIdle(t) \/ TakeReconnected(t)
      PROVE  Exclusive'
  <2>1. /\ idle # <<>>
        /\ idle' = Tail(idle)
        /\ holds' = [holds EXCEPT ![t] = Head(idle)]
    BY <1>2 DEF TakeIdle, TakeReconnected
  <2> QED
    BY <1>d, <1>e, <1>q, <2>1
<1>3. ASSUME NEW t \in Threads, ReconnectFails(t)
      PROVE  Exclusive'
  BY <1>3, <1>d, <1>e, <1>q DEF ReconnectFails
<1>4. ASSUME NEW t \in Threads, Create(t)
      PROVE  Exclusive'
  <2>1. PICK c \in Conns \ Existing : holds' = [holds EXCEPT ![t] = c]
    BY <1>4 DEF Create
  <2>2. c \notin Idle /\ \A s \in Threads : holds[s] # c
    BY <2>1 DEF Existing, Held
  <2> QED
    BY <1>4, <1>d, <1>e, <2>1, <2>2 DEF Create
<1>5. ASSUME NEW t \in Threads, ReturnToPool(t)
      PROVE  Exclusive'
  <2>1. holds[t] \in Conns /\ holds[t] \notin Idle
    BY <1>5, <1>d DEF ReturnToPool
  <2>2. /\ Distinct(idle)'
        /\ Elements(idle') = Idle \cup {holds[t]}
    BY <1>5, <1>d, <2>1, PushIdle DEF ReturnToPool
  <2>3. \A s \in Threads : holds'[s] = IF s = t THEN NoConn ELSE holds[s]
    BY <1>5 DEF ReturnToPool
  <2>4. \A s \in Threads : holds'[s] \notin Elements(idle')
    BY <1>d, <1>n, <2>1, <2>2, <2>3
  <2> QED
    BY <1>d, <1>e, <2>2, <2>3, <2>4
<1>6. ASSUME NEW t \in Threads, ReturnAfterStop(t)
      PROVE  Exclusive'
  BY <1>6, <1>d, <1>e, <1>n DEF ReturnAfterStop
<1>7. CASE CloseAll
  BY <1>7, <1>d, <1>e, EmptyIdle DEF CloseAll
<1>8. CASE ConnectionLost \/ UNCHANGED vars
  BY <1>8, <1>u DEF ConnectionLost, vars
<1> QED
  BY <1>1, <1>2, <1>3, <1>4, <1>5, <1>6, <1>7, <1>8
     DEF Next, GetConnection, ReturnConnection

(* currentSize_ keeps counting the connections that exist until closeAll, and
   they stay within maxSize_. *)
LEMMA CountInductive ==
  TypeOK /\ HoldersHold /\ StoppedIsEmpty /\ Exclusive /\ SizeAccounts /\ WithinMax
    /\ [Next]_vars => SizeAccounts' /\ WithinMax'
<1> SUFFICES ASSUME TypeOK, HoldersHold, StoppedIsEmpty, Exclusive, SizeAccounts,
                    WithinMax, [Next]_vars
             PROVE  (SizeAccounts /\ WithinMax)'
  OBVIOUS
<1> DEFINE Counts == SizeAccounts /\ WithinMax
<1> USE DEF SizeAccounts, WithinMax
<1>n. /\ Len(idle) \in Nat
      /\ Cardinality(Holding) \in Nat
      /\ MaxSize \in Nat
      /\ idle = <<>> => Len(idle) = 0
  BY CountsFinite, ConnPoolAssumption, LenProperties DEF TypeOK
<1>c. caller \in [Threads -> Places]
  BY DEF TypeOK, Places
<1>q. idle # <<>> => Len(Tail(idle)) = Len(idle) - 1 /\ Len(idle) > 0
  BY PopIdle DEF Exclusive, Distinct, TypeOK
<1>1. ASSUME NEW t \in Threads,
             Call(t) \/ Block(t) \/ SpuriousWakeup(t) \/ ReturnNullStopped(t)
                \/ CreateFails(t)
      PROVE  Counts'
  <2>1. PICK p \in Places \ {"holding"} :
          caller' = [caller EXCEPT ![t] = p] /\ caller[t] # p /\ caller[t] # "holding"
    BY <1>1 DEF Call, Block, SpuriousWakeup, ReturnNullStopped, CreateFails, Places
  <2>2. Cardinality(Holding') = Cardinality(Holding)
    BY <1>c, <2>1, MoveCounts
  <2>3. UNCHANGED <<idle, currentSize, stop>>
    BY <1>1 DEF Call, Block, SpuriousWakeup, ReturnNullStopped, CreateFails
  <2> QED
    BY <2>2, <2>3
<1>2. ASSUME NEW t \in Threads, TakeIdle(t) \/ TakeReconnected(t)
      PROVE  Counts'
  <2>1. Cardinality(Holding') = Cardinality(Holding) + 1
    BY <1>2, <1>c, MoveCounts DEF TakeIdle, TakeReconnected, Places
  <2>2. idle # <<>> /\ idle' = Tail(idle) /\ UNCHANGED <<currentSize, stop>>
    BY <1>2 DEF TakeIdle, TakeReconnected
  <2> QED
    BY <1>n, <1>q, <2>1, <2>2
<1>3. ASSUME NEW t \in Threads, ReconnectFails(t)
      PROVE  Counts'
  <2>1. Cardinality(Holding') = Cardinality(Holding)
    BY <1>3, <1>c, MoveCounts DEF ReconnectFails, Places
  <2>2. Len(idle') = Len(idle) - 1 /\ Len(idle) > 0 /\ stop' = stop /\ ~stop
    BY <1>3, <1>q DEF ReconnectFails
  <2>3. currentSize' = currentSize - 1
    BY <1>3, <1>n, <2>2 DEF ReconnectFails, Decremented
  <2> QED
    BY <1>n, <2>1, <2>2, <2>3
<1>4. ASSUME NEW t \in Threads, Create(t)
      PROVE  Counts'
  <2>1. Cardinality(Holding') = Cardinality(Holding) + 1
    BY <1>4, <1>c, MoveCounts DEF Create, Places
  <2>2. /\ idle = <<>> /\ ~stop /\ currentSize < MaxSize
        /\ currentSize' = currentSize + 1
        /\ UNCHANGED <<idle, stop>>
    BY <1>4 DEF Create
  <2> QED
    BY <1>n, <2>1, <2>2
<1>5. ASSUME NEW t \in Threads, ReturnToPool(t)
      PROVE  Counts'
  <2>1. Cardinality(Holding') = Cardinality(Holding) - 1
    BY <1>5, <1>c, NotifyCounts DEF ReturnToPool
  <2>2. holds[t] \in Conns
    BY <1>5 DEF ReturnToPool, HoldersHold
  <2>3. Len(idle') = Len(idle) + 1 /\ UNCHANGED <<currentSize, stop>>
    BY <1>5, <2>2, AppendProperties DEF ReturnToPool, TypeOK
  <2> QED
    BY <1>n, <2>1, <2>3
<1>6. ASSUME NEW t \in Threads, ReturnAfterStop(t)
      PROVE  Counts'
  <2>1. Cardinality(Holding') = Cardinality(Holding) - 1
    BY <1>6, <1>c, MoveCounts DEF ReturnAfterStop, Places
  <2>2. stop /\ UNCHANGED <<idle, stop>>
    BY <1>6 DEF ReturnAfterStop
  <2> QED
    BY <1>n, <2>1, <2>2
<1>7. CASE CloseAll
  <2>1. Holding' = Holding
    BY <1>7, <1>c DEF CloseAll, Holding, Asleep, Places
  <2>2. stop' /\ Len(idle') = 0
    BY <1>7, EmptyIdle DEF CloseAll
  <2> QED
    BY <1>n, <2>1, <2>2
<1>8. CASE ConnectionLost \/ UNCHANGED vars
  BY <1>8 DEF ConnectionLost, vars, Holding
<1> QED
  BY <1>1, <1>2, <1>3, <1>4, <1>5, <1>6, <1>7, <1>8
     DEF Next, GetConnection, ReturnConnection

(* A returned connection wakes a sleeper, and a thread goes to sleep only over
   an empty queue, so idle connections are never left to sleeping threads. *)
LEMMA NoIdleWhileAsleepInductive ==
  TypeOK /\ HoldersHold /\ Exclusive /\ NoIdleWhileAsleep /\ [Next]_vars
    => NoIdleWhileAsleep'
<1> SUFFICES ASSUME TypeOK, HoldersHold, Exclusive, NoIdleWhileAsleep, [Next]_vars,
                    Asleep' # {}, ~stop'
             PROVE  Len(idle') <= Cardinality(Ready')
  BY DEF NoIdleWhileAsleep
<1>n. /\ Len(idle) \in Nat
      /\ Cardinality(Ready) \in Nat
      /\ idle = <<>> => Len(idle) = 0
  BY CountsFinite, LenProperties DEF TypeOK
<1>c. caller \in [Threads -> Places]
  BY DEF TypeOK, Places
<1>q. idle # <<>> => Len(Tail(idle)) = Len(idle) - 1
  BY PopIdle DEF Exclusive, Distinct, TypeOK
<1>r. ASSUME NEW t \in Threads, caller[t] = "ready"
      PROVE  Cardinality(Ready) > 0
  <2>1. Ready # {}
    BY <1>r DEF Ready
  <2> QED
    BY <1>n, <2>1, CountsFinite, FS_EmptySet
<1>a. ASSUME NEW t \in Threads, NEW p \in Places \ {"asleep"},
             caller' = [caller EXCEPT ![t] = p]
      PROVE  Asleep # {}
  BY <1>a, <1>c DEF Asleep
<1>1. ASSUME NEW t \in Threads, Call(t) \/ SpuriousWakeup(t)
      PROVE  Len(idle') <= Cardinality(Ready')
  <2>1. /\ caller' = [caller EXCEPT ![t] = "ready"] /\ caller[t] # "ready"
        /\ UNCHANGED <<idle, stop>>
    BY <1>1 DEF Call, SpuriousWakeup
  <2>2. Cardinality(Ready') = Cardinality(Ready) + 1
    BY <1>c, <2>1, MoveCounts DEF Places
  <2>3. Asleep # {}
    BY <1>a, <2>1 DEF Places
  <2> QED
    BY <1>n, <2>1, <2>2, <2>3 DEF NoIdleWhileAsleep
<1>2. ASSUME NEW t \in Threads, Block(t) \/ CreateFails(t) \/ Create(t)
      PROVE  Len(idle') <= Cardinality(Ready')
  <2>1. PICK p \in Places \ {"ready"} : caller' = [caller EXCEPT ![t] = p]
    BY <1>2 DEF Block, CreateFails, Create, Places
  <2>2. caller[t] = "ready" /\ idle' = <<>>
    BY <1>2 DEF Block, CreateFails, Create
  <2>3. Cardinality(Ready') = Cardinality(Ready) - 1
    BY <1>c, <2>1, <2>2, MoveCounts
  <2> QED
    BY <1>n, <1>r, <2>2, <2>3
<1>3. ASSUME NEW t \in Threads, TakeIdle(t) \/ TakeReconnected(t) \/ ReconnectFails(t)
      PROVE  Len(idle') <= Cardinality(Ready')
  <2>1. PICK p \in Places \ {"ready", "asleep"} : caller' = [caller EXCEPT ![t] = p]
    BY <1>3 DEF TakeIdle, TakeReconnected, ReconnectFails, Places
  <2>2. caller[t] = "ready" /\ idle # <<>> /\ idle' = Tail(idle) /\ ~stop
    BY <1>3 DEF TakeIdle, TakeReconnected, ReconnectFails
  <2>3. Cardinality(Ready') = Cardinality(Ready) - 1
    BY <1>c, <2>1, <2>2, MoveCounts
  <2>4. Asleep # {}
    BY <1>a, <2>1
  <2> QED
    BY <1>n, <1>q, <2>2, <2>3, <2>4 DEF NoIdleWhileAsleep
<1>4. ASSUME NEW t \in Threads, ReturnToPool(t)
      PROVE  Len(idle') <= Cardinality(Ready')
  <2>1. /\ Asleep # {} => Cardinality(Ready') = Cardinality(Ready) + 1
        /\ \A s \in Threads \ {t} :
             \/ caller'[s] = caller[s]
             \/ caller[s] = "asleep" /\ caller'[s] = "ready"
        /\ caller'[t] = "out"
    BY <1>4, <1>c, NotifyCounts DEF ReturnToPool
  <2>2. Asleep # {}
    BY <2>1 DEF Asleep
  <2>3. holds[t] \in Conns
    BY <1>4 DEF ReturnToPool, HoldersHold
  <2>4. Len(idle') = Len(idle) + 1 /\ ~stop
    BY <1>4, <2>3, AppendProperties DEF ReturnToPool, TypeOK
  <2> QED
    BY <1>n, <2>1, <2>2, <2>4 DEF NoIdleWhileAsleep
<1>5. ASSUME NEW t \in Threads, ReturnNullStopped(t) \/ ReturnAfterStop(t)
      PROVE  Len(idle') <= Cardinality(Ready')
  BY <1>5 DEF ReturnNullStopped, ReturnAfterStop
<1>6. CASE CloseAll
  BY <1>6 DEF CloseAll
<1>7. CASE ConnectionLost \/ UNCHANGED vars
  BY <1>7 DEF ConnectionLost, vars, NoIdleWhileAsleep, Asleep, Ready
<1> QED
  BY <1>1, <1>2, <1>3, <1>4, <1>5, <1>6, <1>7
     DEF Next, GetConnection, ReturnConnection

-----------------------------------------------------------------------------
(* IInv holds after init, whichever initial connections could be opened. *)
LEMMA InitInvariant == Init => IInv
<1> SUFFICES ASSUME Init PROVE IInv
  OBVIOUS
<1> USE ConnPoolAssumption
<1>1. PICK n \in 0..MinSize : idle \in [1..n -> Conns]
  BY DEF Init
<1>2. idle \in Seq(Conns) /\ Len(idle) = n
  BY <1>1
<1>3. MaxSize < SizeMod
  <2>1. Cardinality(Conns) \in Nat
    BY FS_CardinalityType
  <2> QED
    BY <2>1
<1>4. Holding = {} /\ Asleep = {} /\ Cardinality(Holding) = 0
  BY FS_EmptySet DEF Init, Holding, Asleep
<1>5. TypeOK
  <2>1. currentSize = n
    BY <1>2 DEF Init
  <2>2. currentSize \in 0..(SizeMod - 1)
    BY <1>1, <1>3, <2>1
  <2> QED
    BY <1>2, <2>2 DEF Init, TypeOK
<1>6. HoldersHold /\ StoppedIsEmpty /\ NoIdleWhileAsleep
  BY <1>4 DEF Init, HoldersHold, StoppedIsEmpty, NoIdleWhileAsleep
<1>7. Exclusive
  BY DEF Init, Exclusive, Held
<1>8. SizeAccounts /\ WithinMax
  BY <1>1, <1>2, <1>4 DEF Init, SizeAccounts, WithinMax
<1> QED
  BY <1>5, <1>6, <1>7, <1>8 DEF IInv

(* IInv is inductive, so it holds in every reachable state. *)
LEMMA Invariance == Spec => []IInv
<1>1. IInv /\ [Next]_vars => IInv'
  BY BookkeepingInductive, ExclusiveInductive, CountInductive,
     NoIdleWhileAsleepInductive DEF IInv
<1> QED
  BY <1>1, InitInvariant, PTL DEF Spec

(* Type correctness; in particular currentSize_ stays within size_t by wrapping
   around. *)
THEOREM TypeCorrect == Spec => []TypeOK
<1>1. IInv => TypeOK
  BY DEF IInv
<1> QED
  BY <1>1, Invariance, PTL

(* No connection is ever used by two threads. *)
THEOREM ConnectionsAreExclusive == Spec => []Exclusive
<1>1. IInv => Exclusive
  BY DEF IInv
<1> QED
  BY <1>1, Invariance, PTL

(* currentSize_ is exact until closeAll. *)
THEOREM SizeIsExact == Spec => []SizeAccounts
<1>1. IInv => SizeAccounts
  BY DEF IInv
<1> QED
  BY <1>1, Invariance, PTL

(* The pool never has more than maxSize_ connections open. *)
THEOREM PoolIsBounded == Spec => []WithinMax
<1>1. IInv => WithinMax
  BY DEF IInv
<1> QED
  BY <1>1, Invariance, PTL

(* Idle connections are never left to sleeping threads. *)
THEOREM ReturnsWake == Spec => []NoIdleWhileAsleep
<1>1. IInv => NoIdleWhileAsleep
  BY DEF IInv
<1> QED
  BY <1>1, Invariance, PTL

(* After closeAll a step leaves the queue empty and gives no thread a connection. *)
LEMMA StoppedSteps ==
  IInv /\ [Next]_vars /\ stop => idle' = <<>> /\ Held' \subseteq Held
<1> SUFFICES ASSUME IInv, [Next]_vars, stop
             PROVE  idle' = <<>> /\ Held' \subseteq Held
  OBVIOUS
<1>i. idle = <<>> /\ holds \in [Threads -> Conns \cup {NoConn}]
  BY DEF IInv, TypeOK, StoppedIsEmpty
<1>k. ASSUME idle' = <<>>, \/ holds' = holds
                           \/ \E t \in Threads : holds' = [holds EXCEPT ![t] = NoConn]
      PROVE  idle' = <<>> /\ Held' \subseteq Held
  BY <1>i, <1>k DEF Held
<1>1. ASSUME NEW t \in Threads, Call(t) \/ SpuriousWakeup(t) \/ ReturnNullStopped(t)
      PROVE  idle' = <<>> /\ holds' = holds
  BY <1>1, <1>i DEF Call, SpuriousWakeup, ReturnNullStopped
<1>2. ASSUME NEW t \in Threads, ReturnAfterStop(t)
      PROVE  idle' = <<>> /\ holds' = [holds EXCEPT ![t] = NoConn]
  BY <1>2, <1>i DEF ReturnAfterStop
<1>3. ASSUME CloseAll \/ ConnectionLost \/ UNCHANGED vars
      PROVE  idle' = <<>> /\ holds' = holds
  BY <1>3, <1>i DEF CloseAll, ConnectionLost, vars
<1>4. ASSUME NEW t \in Threads
      PROVE  /\ ~ Block(t) /\ ~ TakeIdle(t) /\ ~ TakeReconnected(t) /\ ~ ReconnectFails(t)
             /\ ~ Create(t) /\ ~ CreateFails(t) /\ ~ ReturnToPool(t)
  BY DEF Block, TakeIdle, TakeReconnected, ReconnectFails, Create, CreateFails, ReturnToPool
<1> QED
  BY <1>k, <1>1, <1>2, <1>3, <1>4 DEF Next, GetConnection, ReturnConnection

(* Nothing is created, queued or handed out once closeAll has run. *)
THEOREM ClosedForGood == Spec => CloseIsFinal
<1>1. IInv /\ [Next]_vars => [stop => idle' = <<>> /\ Held' \subseteq Held]_vars
  BY StoppedSteps
<1> QED
  BY <1>1, Invariance, PTL DEF CloseIsFinal, Spec
=============================================================================

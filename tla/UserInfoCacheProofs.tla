------------------------- MODULE UserInfoCacheProofs -------------------------
(***************************************************************************)
(* Proofs about UserInfoCache for every number of workers, connections and *)
(* updates, whatever fails and however requests overlap.                   *)
(***************************************************************************)
EXTENDS UserInfoCache, TLAPS

(* A connection outside a transaction has no snapshot and nothing to commit. *)
ClosedIsClean == \A c \in Conns : c \notin open => view[c] = None /\ wrote[c] = None

(* Requests count on committed versions only. *)
Committed ==
    /\ settled <= version
    /\ \A w \in Workers : req[w].since <= version

(* What a reader is about to write is no older than its request, unless it read it
   in an inherited transaction. *)
ReadersFresh ==
    \A w \in Workers : At(w, "setex") => req[w].inherits \/ req[w].read >= req[w].since

(* A copy without an accident is as new as every answered update and as every
   update that has deleted the copy it found. *)
CopyFresh ==
    cache # None /\ ~suspect =>
        /\ cache >= settled
        /\ \A w \in Workers : ~At(w, "del") => cache >= req[w].since

(* The inductive invariant. *)
IInv ==
    /\ TypeOK
    /\ ClosedIsClean
    /\ Committed
    /\ ReadersFresh
    /\ CopyFresh
    /\ StaleOnlyIfKnown
    /\ AnswersFresh

-----------------------------------------------------------------------------
(* What any step may do. *)

RowOK ==
    /\ version \in Contents /\ latest \in 0..MaxUpdates
    /\ open \subseteq Conns
    /\ view \in [Conns -> Contents \cup {None}]
    /\ wrote \in [Conns -> Contents \cup {None}]
    /\ ClosedIsClean

(* No step goes back to an earlier version. *)
RowStep == RowOK' /\ version <= version'

(* The copy goes, stays or is replaced by what a reader found.  When the row
   changes under it, an accident is noted or an update is about to delete it. *)
CopyStep ==
    \/ cache' = None
    \/ /\ cache' = cache
       /\ suspect => suspect'
       /\ \/ suspect'
          \/ version' = version
          \/ \E w \in Workers : req'[w].at = "del" /\ req'[w].since = version'
    \/ version' = version /\ suspect' = (cache' # version)

(* A request's own version counts for it after it has deleted the copy, or an
   accident is noted. *)
RequestStep(w) ==
    /\ \/ req'[w].since \in {0, settled}
       \/ /\ req'[w].since = req[w].since
          /\ req[w].at = "del" => req'[w].at = "del" \/ cache' = None
       \/ req'[w].at = "del" /\ req'[w].since <= version'
    /\ req[w].at = "del" => req'[w] = req[w] \/ cache' = None \/ suspect'
    /\ req'[w].at = "setex" =>
         /\ req'[w].since = req[w].since
         /\ \/ req[w].at = "setex" /\ req'[w] = req[w]
            \/ req'[w].inherits
            \/ req'[w].read = version

SettledStep ==
    settled' = settled \/ \E w \in Workers : req[w].at # "del" /\ settled' = req[w].since

AnswerStep ==
    \/ answer' = answer
    \/ answer'.got = None
    \/ \E w \in Workers :
         /\ answer'.since = req[w].since
         /\ \/ req[w].at = "get" /\ cache # None /\ answer'.got = cache /\ answer'.suspect = suspect
            \/ /\ req[w].at = "setex" /\ answer'.got = req[w].read
               /\ answer'.suspect = req[w].inherits

Step ==
    /\ RowStep /\ CopyStep
    /\ \A w \in Workers : RequestStep(w)
    /\ SettledStep /\ AnswerStep

-----------------------------------------------------------------------------
(* The invariants follow from Step. *)

LEMMA Numbers ==
  ASSUME TypeOK
  PROVE  /\ version \in Nat /\ settled \in Nat /\ latest \in Nat
         /\ cache # None => cache \in Nat
         /\ \A w \in Workers : /\ req[w].since \in Nat
                               /\ req[w].read # None => req[w].read \in Nat
         /\ suspect \in BOOLEAN /\ version # None
BY CacheAssumption DEF TypeOK, Request, Gone, Contents

LEMMA PrimedNumbers ==
  ASSUME TypeOK'
  PROVE  /\ version' \in Nat /\ settled' \in Nat
         /\ cache' # None => cache' \in Nat
         /\ \A w \in Workers : req'[w].since \in Nat
BY CacheAssumption DEF TypeOK, Request, Gone, Contents

LEMMA CommittedKept ==
  ASSUME TypeOK, TypeOK', Committed, Step
  PROVE  Committed'
<1>1. version \in Nat /\ version' \in Nat /\ version <= version'
  BY Numbers, PrimedNumbers DEF Step, RowStep
<1>2. settled' <= version'
  BY <1>1, Numbers DEF Step, SettledStep, Committed
<1>3. ASSUME NEW w \in Workers PROVE req'[w].since <= version'
  <2>1. RequestStep(w)
    BY DEF Step
  <2> QED
    BY <1>1, <2>1, Numbers DEF RequestStep, Committed
<1> QED
  BY <1>2, <1>3 DEF Committed

LEMMA ReadersKept ==
  ASSUME TypeOK, Committed, ReadersFresh, Step
  PROVE  ReadersFresh'
<1> SUFFICES ASSUME NEW w \in Workers, req'[w].at = "setex", ~req'[w].inherits
             PROVE  req'[w].read >= req'[w].since
  BY DEF ReadersFresh, At
<1>1. RequestStep(w)
  BY DEF Step
<1> QED
  BY <1>1, Numbers DEF RequestStep, ReadersFresh, Committed, At

LEMMA CopyKept ==
  ASSUME TypeOK, TypeOK', CopyFresh, Committed', Step
  PROVE  CopyFresh'
<1> SUFFICES ASSUME cache' # None, ~suspect'
             PROVE  /\ cache' >= settled'
                    /\ \A w \in Workers : req'[w].at # "del" => cache' >= req'[w].since
  BY DEF CopyFresh, At
<1>1. cache' \in Nat
  BY PrimedNumbers
<1>2. CASE cache' = cache /\ ~suspect
  <2>1. /\ cache >= settled
        /\ \A w \in Workers : req[w].at # "del" => cache >= req[w].since
    BY <1>2 DEF CopyFresh, At
  <2>2. cache' >= settled'
    BY <1>2, <2>1 DEF Step, SettledStep
  <2>3. ASSUME NEW w \in Workers, req'[w].at # "del"
        PROVE  cache' >= req'[w].since
    <3>1. RequestStep(w)
      BY DEF Step
    <3> QED
      BY <1>1, <1>2, <2>1, <2>3, <3>1 DEF RequestStep
  <2> QED
    BY <2>2, <2>3
<1>3. CASE cache' = version'
  BY <1>3, PrimedNumbers DEF Committed
<1> QED
  BY <1>2, <1>3 DEF Step, CopyStep

LEMMA StaleKept ==
  ASSUME TypeOK, TypeOK', StaleOnlyIfKnown, Step
  PROVE  StaleOnlyIfKnown'
<1> SUFFICES ASSUME cache' # None, cache' # version', ~suspect'
             PROVE  \E w \in Workers : req'[w].at = "del" /\ req'[w].since > cache'
  BY DEF StaleOnlyIfKnown, Stale, At
<1>1. /\ cache' = cache /\ ~suspect
      /\ \/ version' = version
         \/ \E w \in Workers : req'[w].at = "del" /\ req'[w].since = version'
  BY DEF Step, CopyStep
<1>2. CASE cache # version
  <2>1. PICK w \in Workers : req[w].at = "del" /\ req[w].since > cache
    BY <1>1, <1>2 DEF StaleOnlyIfKnown, Stale, At
  <2>2. req'[w] = req[w]
    BY <2>1 DEF Step, RequestStep
  <2> QED
    BY <1>1, <2>1, <2>2
<1>3. CASE cache = version
  <2>1. version' > cache'
    BY <1>1, <1>3, Numbers, PrimedNumbers DEF Step, RowStep
  <2> QED
    BY <1>1, <1>3, <2>1
<1> QED
  BY <1>2, <1>3

LEMMA AnswersKept ==
  ASSUME TypeOK, TypeOK', ReadersFresh, CopyFresh, AnswersFresh, Step
  PROVE  AnswersFresh'
<1>1. CASE answer' = answer
  BY <1>1 DEF AnswersFresh
<1>2. CASE answer'.got = None
  BY <1>2 DEF AnswersFresh
<1>3. ASSUME NEW w \in Workers, answer'.since = req[w].since, req[w].at = "get",
             cache # None, answer'.got = cache, answer'.suspect = suspect
      PROVE  AnswersFresh'
  <2>1. CASE suspect
    BY <1>3, <2>1 DEF AnswersFresh
  <2>2. CASE ~suspect
    <3>1. cache >= req[w].since
      BY <1>3, <2>2 DEF CopyFresh, At
    <3> QED
      BY <1>3, <3>1 DEF AnswersFresh
  <2> QED
    BY <2>1, <2>2
<1>4. ASSUME NEW w \in Workers, answer'.since = req[w].since, req[w].at = "setex",
             answer'.got = req[w].read, answer'.suspect = req[w].inherits
      PROVE  AnswersFresh'
  BY <1>4 DEF AnswersFresh, ReadersFresh, At
<1> QED
  BY <1>1, <1>2, <1>3, <1>4 DEF Step, AnswerStep
-----------------------------------------------------------------------------
(* How requests move and end. *)

(* A request that does not move keeps its promises. *)
LEMMA Unmoved ==
  ASSUME NEW w \in Workers, req'[w] = req[w]
  PROVE  RequestStep(w)
BY DEF RequestStep

LEMMA Ended ==
  ASSUME TypeOK, NEW w \in Workers, NEW code \in Codes, NEW got \in Contents \cup {None},
         NEW from \in BOOLEAN, EndWith(w, code, got, from)
  PROVE  /\ req' \in [Workers -> Request] /\ req'[w] = Idle
         /\ \A v \in Workers : v # w => req'[v] = req[v]
         /\ answer' \in Answer
         /\ answer'.got = got /\ answer'.suspect = from
         /\ got # None => answer'.since = req[w].since
         /\ settled' \in 0..MaxUpdates
         /\ settled' # settled => code \in {"data", "success"} /\ settled' = req[w].since
<1>1. Idle \in Request
  BY CacheAssumption DEF Idle, Request, Steps
<1>2. req[w].since \in 0..MaxUpdates /\ 0 \in 0..MaxUpdates
  BY CacheAssumption DEF TypeOK, Request
<1>3. req' \in [Workers -> Request] /\ req'[w] = Idle
  BY <1>1 DEF TypeOK, EndWith
<1>4. \A v \in Workers : v # w => req'[v] = req[v]
  BY DEF TypeOK, EndWith
<1>5. answer' \in Answer
  BY <1>2 DEF EndWith, Answer
<1>6. answer'.got = got /\ answer'.suspect = from
  BY DEF EndWith
<1>7. got # None => answer'.since = req[w].since
  BY DEF EndWith
<1>8. settled' \in 0..MaxUpdates
  BY <1>2 DEF EndWith, TypeOK
<1>9. settled' # settled => code \in {"data", "success"} /\ settled' = req[w].since
  BY DEF EndWith
<1> QED
  BY <1>3, <1>4, <1>5, <1>6, <1>7, <1>8, <1>9

(* A request ends with an error, or with what it says is known of the row. *)
LEMMA EndedReading ==
  ASSUME TypeOK, NEW w \in Workers, NEW c \in Contents, NEW from \in BOOLEAN,
         EndReading(w, c, from)
  PROVE  /\ req' \in [Workers -> Request] /\ req'[w] = Idle
         /\ \A v \in Workers : v # w => req'[v] = req[v]
         /\ answer' \in Answer
         /\ \/ answer'.got = None
            \/ answer'.got = c /\ answer'.suspect = from /\ answer'.since = req[w].since
         /\ settled' \in 0..MaxUpdates
         /\ settled' = settled \/ settled' = req[w].since
<1>1. CASE c = Gone
  <2>1. PICK code \in Codes : EndWith(w, code, None, FALSE)
    BY <1>1 DEF EndReading, EndWithout, Codes
  <2> QED
    BY <2>1, Ended
<1>2. CASE c # Gone
  <2>1. EndWith(w, "data", c, from)
    BY <1>2 DEF EndReading
  <2>2. c # None
    BY CacheAssumption
  <2> QED
    BY <2>1, <2>2, Ended DEF Codes
<1> QED
  BY <1>1, <1>2

(* Only the type of req has a conjunct about its steps. *)
LEMMA MovedOne ==
  ASSUME TypeOK, NEW w \in Workers, NEW r \in Request, req' = [req EXCEPT ![w] = r]
  PROVE  /\ req' \in [Workers -> Request] /\ req'[w] = r
         /\ \A v \in Workers : v # w => req'[v] = req[v]
BY DEF TypeOK

Base == TypeOK /\ ClosedIsClean
Sound == TypeOK' /\ ClosedIsClean' /\ Step

LEMMA TypesTogether ==
  ASSUME TypeOK, RowOK', req' \in [Workers -> Request],
         cache' \in Contents \cup {None}, ttl' \in BOOLEAN, suspect' \in BOOLEAN,
         answer' \in Answer, settled' \in 0..MaxUpdates,
         \A w \in Workers : req'[w].at = "setex" => req'[w].read # None
  PROVE  TypeOK' /\ ClosedIsClean'
BY DEF TypeOK, RowOK, At

(* A request that goes on, when the Redis part of the step is known. *)
LEMMA MoveSound ==
  ASSUME Base, NEW w \in Workers, NEW r \in Request, req' = [req EXCEPT ![w] = r],
         r.at = "setex" => r.read # None,
         RowStep, cache' \in {cache, None}, ttl' \in BOOLEAN, suspect' \in BOOLEAN,
         answer' = answer, settled' = settled,
         req'[w] = r => CopyStep /\ RequestStep(w)
  PROVE  Sound
<1> USE DEF Base
<1>1. /\ req' \in [Workers -> Request] /\ req'[w] = r
      /\ \A v \in Workers : v # w => req'[v] = req[v]
  BY MovedOne
<1>2. \A v \in Workers : req'[v].at = "setex" => req'[v].read # None
  BY <1>1 DEF TypeOK, At
<1>3. cache' \in Contents \cup {None} /\ answer' \in Answer /\ settled' \in 0..MaxUpdates
  BY DEF TypeOK
<1>4. TypeOK' /\ ClosedIsClean'
  BY <1>1, <1>2, <1>3, TypesTogether DEF RowStep
<1>5. \A v \in Workers : RequestStep(v)
  BY <1>1, Unmoved
<1> QED
  BY <1>1, <1>4, <1>5 DEF Sound, Step, SettledStep, AnswerStep

(* A request that ends: unless it was about to delete the copy, it keeps every
   promise. *)
LEMMA EndSound ==
  ASSUME Base, NEW w \in Workers,
         req' \in [Workers -> Request], req'[w] = Idle,
         \A v \in Workers : v # w => req'[v] = req[v],
         req[w].at = "del" => cache' = None \/ suspect',
         RowStep, CopyStep, AnswerStep, SettledStep,
         cache' \in Contents \cup {None}, ttl' \in BOOLEAN, suspect' \in BOOLEAN,
         answer' \in Answer, settled' \in 0..MaxUpdates
  PROVE  Sound
<1> USE DEF Base
<1>1. \A v \in Workers : req'[v].at = "setex" => req'[v].read # None
  BY DEF TypeOK, At, Idle
<1>2. TypeOK' /\ ClosedIsClean'
  BY <1>1, TypesTogether DEF RowStep
<1>3. RequestStep(w)
  BY DEF RequestStep, Idle
<1>4. \A v \in Workers : RequestStep(v)
  BY <1>3, Unmoved
<1> QED
  BY <1>2, <1>4 DEF Sound, Step

-----------------------------------------------------------------------------
(* What a step does to the row. *)

LEMMA NewerGrows ==
  ASSUME TypeOK, NEW v \in Contents \cup {None}
  PROVE  Newer(version, v) \in Contents /\ version <= Newer(version, v)
BY Numbers, CacheAssumption DEF TypeOK, Newer, Contents, Gone

LEMMA RowNow ==
  ASSUME Base
  PROVE  RowOK /\ version <= version
BY Numbers DEF Base, TypeOK, RowOK

LEMMA RowStays ==
  ASSUME Base, UNCHANGED row
  PROVE  RowStep /\ version' = version
BY RowNow DEF RowStep, RowOK, ClosedIsClean, row

LEMMA RowRead ==
  ASSUME Base, NEW c \in Conns, Read(c)
  PROVE  RowStep /\ version' = version
<1>1. view' \in [Conns -> Contents \cup {None}]
  BY RowNow DEF Read, RowOK
<1>2. ClosedIsClean'
  BY RowNow DEF Read, ClosedIsClean, RowOK
<1> QED
  BY <1>1, <1>2, RowNow DEF RowStep, RowOK, Read

LEMMA SeenTyped ==
  ASSUME Base, NEW c \in Conns
  PROVE  /\ Seen(c) \in Contents /\ Seen(c) # None
         /\ c \notin open => Seen(c) = version
BY RowNow, CacheAssumption DEF RowOK, ClosedIsClean, Seen, Newer

LEMMA RowWritten ==
  ASSUME Base, NEW c \in Conns, WriteRow(c)
  PROVE  /\ RowStep /\ latest' \in 0..MaxUpdates
         /\ c \in open => version' = version
         /\ c \notin open => latest' <= version' /\ version' \in {version, latest'}
<1> USE DEF Base
<1>1. latest' = latest + 1 /\ latest + 1 \in 0..MaxUpdates
  BY CacheAssumption, RowNow DEF WriteRow, Write, RowOK
<1>2. latest + 1 \in Contents
  BY <1>1, CacheAssumption DEF Contents, Gone
<1>3. CASE c \in open
  <2>1. /\ wrote' = [wrote EXCEPT ![c] = latest + 1] /\ version' = version
        /\ UNCHANGED <<open, view>>
    BY <1>3 DEF WriteRow, Write
  <2>2. wrote' \in [Conns -> Contents \cup {None}] /\ ClosedIsClean'
    BY <1>2, <1>3, <2>1, RowNow DEF RowOK, ClosedIsClean
  <2> QED
    BY <1>1, <1>3, <2>1, <2>2, RowNow DEF RowStep, RowOK
<1>4. CASE c \notin open
  <2>1. version' = Newer(version, latest + 1) /\ UNCHANGED <<open, view, wrote>>
    BY <1>4 DEF WriteRow, Write
  <2>2. version' \in Contents /\ version <= version'
    BY <1>2, <2>1, NewerGrows
  <2>3. latest' <= version' /\ version' \in {version, latest'}
    BY <1>1, <1>2, <2>1, Numbers, CacheAssumption DEF Newer
  <2>4. ClosedIsClean'
    BY <2>1 DEF ClosedIsClean
  <2> QED
    BY <1>1, <1>4, <2>1, <2>2, <2>3, <2>4, RowNow DEF RowStep, RowOK
<1> QED
  BY <1>3, <1>4

LEMMA RowElsewhere ==
  ASSUME Base, Elsewhere
  PROVE  RowStep
<1> USE DEF Base
<1>1. PICK c \in Conns : LeaveOpen(c) \/ Read(c) \/ Settle(c) \/ Lose(c)
  BY DEF Elsewhere, LookElsewhere
<1>2. CASE Read(c)
  BY <1>2, RowRead
<1>3. CASE LeaveOpen(c)
  BY <1>3, RowNow DEF LeaveOpen, RowStep, RowOK, ClosedIsClean
<1>4. CASE Settle(c) \/ Lose(c)
  <2>1. CloseTransaction(c) /\ version' \in {version, Newer(version, wrote[c])}
    BY <1>4 DEF Settle, Lose
  <2>2. version' \in Contents /\ version <= version'
    BY <2>1, RowNow, NewerGrows DEF RowOK
  <2>3. ClosedIsClean'
    BY <2>1, RowNow DEF ClosedIsClean, CloseTransaction, RowOK
  <2> QED
    BY <2>1, <2>2, <2>3, RowNow DEF RowStep, RowOK, CloseTransaction
<1> QED
  BY <1>1, <1>2, <1>3, <1>4

-----------------------------------------------------------------------------
(* Every action is such a step. *)

LEMMA NobodyMoves ==
  ASSUME Base, RowStep, CopyStep, UNCHANGED <<req, answer, settled>>,
         cache' \in {cache, None}, ttl' \in BOOLEAN, suspect' \in BOOLEAN
  PROVE  Sound
<1> USE DEF Base
<1>1. TypeOK' /\ ClosedIsClean'
  BY TypesTogether DEF TypeOK, At, RowStep
<1>2. \A w \in Workers : RequestStep(w)
  BY Unmoved
<1> QED
  BY <1>1, <1>2 DEF Sound, Step, SettledStep, AnswerStep

LEMMA ExpireSound ==
  ASSUME Base, Expire
  PROVE  Sound
<1>1. RowStep /\ UNCHANGED <<req, answer, settled>>
  BY RowStays DEF Expire
<1>2. CopyStep /\ cache' = None /\ ttl' = FALSE /\ suspect' = FALSE
  BY DEF Expire, Del, CopyStep
<1> QED
  BY <1>1, <1>2, NobodyMoves

LEMMA UnawaresSound ==
  ASSUME Base, RowStep, ChangedUnawares, UNCHANGED <<redis, req, answer, settled>>
  PROVE  Sound
<1>1. cache' = cache /\ ttl' \in BOOLEAN /\ suspect' \in BOOLEAN
  BY DEF redis, Base, TypeOK, ChangedUnawares
<1>2. CopyStep
  BY <1>1 DEF ChangedUnawares, CopyStep
<1> QED
  BY <1>1, <1>2, NobodyMoves

LEMMA RemoveSound ==
  ASSUME Base, Remove
  PROVE  Sound
<1>1. version' = Gone /\ UNCHANGED <<latest, open, view, wrote>>
  BY DEF Remove
<1>2. RowStep
  BY <1>1, RowNow, CacheAssumption DEF RowStep, RowOK, ClosedIsClean, Contents, Gone
<1> QED
  BY <1>2, UnawaresSound DEF Remove

LEMMA ElsewhereSound ==
  ASSUME Base, Elsewhere
  PROVE  Sound
BY RowElsewhere, UnawaresSound DEF Elsewhere

LEMMA StutterSound ==
  ASSUME Base, UNCHANGED vars
  PROVE  Sound
<1>1. RowStep /\ CopyStep /\ UNCHANGED <<req, answer, settled>>
  BY RowStays DEF vars, redis, CopyStep
<1>2. cache' = cache /\ ttl' \in BOOLEAN /\ suspect' \in BOOLEAN
  BY DEF vars, redis, Base, TypeOK
<1> QED
  BY <1>1, <1>2, NobodyMoves

LEMMA StartSound ==
  ASSUME Base, NEW w \in Workers, StartGet(w) \/ StartUpdate(w)
  PROVE  Sound
<1>1. PICK r \in {[Idle EXCEPT !.at = "get", !.since = settled],
                  [Idle EXCEPT !.at = "update", !.updates = TRUE, !.since = settled]} :
         req' = [req EXCEPT ![w] = r]
  BY DEF StartGet, StartUpdate
<1>2. r \in Request /\ r.since = settled /\ r.at \in {"get", "update"}
  BY <1>1, CacheAssumption DEF Idle, Request, Steps, Base, TypeOK
<1>3. UNCHANGED <<row, redis, answer, settled, suspect>> /\ req[w].at = "idle"
  BY DEF StartGet, StartUpdate, MayStart, At
<1>4. ASSUME req'[w] = r PROVE CopyStep /\ RequestStep(w)
  BY <1>2, <1>3, <1>4, RowStays DEF CopyStep, RequestStep, redis
<1>5. cache' = cache /\ ttl' \in BOOLEAN /\ suspect' \in BOOLEAN
  BY <1>3 DEF redis, Base, TypeOK
<1> HIDE DEF Base
<1> QED
  BY <1>1, <1>2, <1>3, <1>4, <1>5, RowStays, MoveSound

LEMMA MissSound ==
  ASSUME Base, NEW w \in Workers, Miss(w)
  PROVE  Sound
<1> DEFINE r == [req[w] EXCEPT !.at = "select"]
<1>1. r \in Request /\ r.since = req[w].since /\ r.at = "select"
  BY DEF Request, Steps, Base, TypeOK
<1>2. req' = [req EXCEPT ![w] = r]
  BY DEF Miss, Proceed, Base, TypeOK
<1> HIDE DEF r
<1>3. UNCHANGED <<row, redis, answer, settled, suspect>> /\ req[w].at = "get"
  BY DEF Miss, At
<1>4. ASSUME req'[w] = r PROVE CopyStep /\ RequestStep(w)
  BY <1>1, <1>3, <1>4, RowStays DEF CopyStep, RequestStep, redis
<1>5. cache' = cache /\ ttl' \in BOOLEAN /\ suspect' \in BOOLEAN
  BY <1>3 DEF redis, Base, TypeOK
<1> QED
  BY <1>1, <1>2, <1>3, <1>4, <1>5, RowStays, MoveSound

LEMMA SelectSound ==
  ASSUME Base, NEW w \in Workers, Select(w)
  PROVE  Sound
<1>1. PICK c \in Conns :
        /\ Read(c)
        /\ req' = [req EXCEPT ![w].at = "setex", ![w].read = Seen(c), ![w].inherits = c \in open]
  BY DEF Select
<1> DEFINE r == [req[w] EXCEPT !.at = "setex", !.read = Seen(c), !.inherits = c \in open]
<1>8. Seen(c) \in Contents /\ Seen(c) # None /\ (c \in open) \in BOOLEAN
  BY SeenTyped
<1>9. r \in Request /\ r.since = req[w].since /\ r.at = "setex" /\ r.read = Seen(c)
  BY <1>8 DEF Request, Steps, Base, TypeOK
<1>10. r.inherits = (c \in open)
  BY DEF Request, Base, TypeOK
<1>2. /\ r \in Request /\ r.since = req[w].since /\ r.at = "setex" /\ r.read # None
      /\ r.inherits \/ r.read = version
  BY <1>8, <1>9, <1>10, SeenTyped
<1>3. req' = [req EXCEPT ![w] = r]
  BY <1>1 DEF Base, TypeOK
<1> HIDE DEF r
<1>4. UNCHANGED <<redis, answer, settled, suspect>> /\ req[w].at = "select"
  BY DEF Select, At
<1>5. RowStep /\ version' = version
  BY <1>1, RowRead
<1>6. ASSUME req'[w] = r PROVE CopyStep /\ RequestStep(w)
  BY <1>2, <1>4, <1>5, <1>6 DEF CopyStep, RequestStep, redis
<1>7. cache' = cache /\ ttl' \in BOOLEAN /\ suspect' \in BOOLEAN
  BY <1>4 DEF redis, Base, TypeOK
<1> QED
  BY <1>2, <1>3, <1>4, <1>5, <1>6, <1>7, MoveSound

LEMMA HitSound ==
  ASSUME Base, NEW w \in Workers, Hit(w)
  PROVE  Sound
<1>1. /\ UNCHANGED <<row, redis, suspect>> /\ req[w].at = "get" /\ cache # None
      /\ EndReading(w, cache, suspect)
  BY DEF Hit, At
<1>2. cache \in Contents /\ suspect \in BOOLEAN
  BY <1>1 DEF Base, TypeOK
<1>3. /\ req' \in [Workers -> Request] /\ req'[w] = Idle
      /\ \A v \in Workers : v # w => req'[v] = req[v]
      /\ answer' \in Answer
      /\ \/ answer'.got = None
         \/ answer'.got = cache /\ answer'.suspect = suspect /\ answer'.since = req[w].since
      /\ settled' \in 0..MaxUpdates
      /\ settled' = settled \/ settled' = req[w].since
  BY <1>1, <1>2, EndedReading DEF Base
<1>4. RowStep /\ CopyStep /\ SettledStep /\ AnswerStep
  BY <1>1, <1>3, RowStays DEF CopyStep, SettledStep, AnswerStep, redis
<1>5. cache' \in Contents \cup {None} /\ ttl' \in BOOLEAN /\ suspect' \in BOOLEAN
  BY <1>1 DEF redis, Base, TypeOK
<1> QED
  BY <1>1, <1>3, <1>4, <1>5, EndSound

(* The failures that end a request away from the copy. *)
LEMMA FailureSound ==
  ASSUME Base, NEW w \in Workers, req[w].at \in {"select", "update"}, NEW code \in Codes,
         EndWith(w, code, None, FALSE), UNCHANGED redis, RowStep, ChangedUnawares
  PROVE  Sound
<1>1. /\ req' \in [Workers -> Request] /\ req'[w] = Idle
      /\ \A v \in Workers : v # w => req'[v] = req[v]
      /\ answer' \in Answer /\ answer'.got = None
      /\ settled' \in 0..MaxUpdates
      /\ settled' = settled \/ settled' = req[w].since
  BY Ended DEF Base
<1>2. cache' = cache /\ cache' \in Contents \cup {None} /\ ttl' \in BOOLEAN /\ suspect' \in BOOLEAN
  BY DEF redis, ChangedUnawares, Base, TypeOK
<1>3. CopyStep /\ SettledStep /\ AnswerStep
  BY <1>1, <1>2 DEF ChangedUnawares, CopyStep, SettledStep, AnswerStep
<1> QED
  BY <1>1, <1>2, <1>3, EndSound

LEMMA SelectFailsSound ==
  ASSUME Base, NEW w \in Workers, SelectFails(w)
  PROVE  Sound
<1>1. UNCHANGED <<row, redis, suspect>> /\ req[w].at = "select"
  BY DEF SelectFails, At
<1>2. PICK code \in Codes : EndWith(w, code, None, FALSE)
  BY DEF SelectFails, EndWithout, Codes
<1>3. RowStep /\ ChangedUnawares
  BY <1>1, RowStays DEF ChangedUnawares, Base, TypeOK
<1> QED
  BY <1>1, <1>2, <1>3, FailureSound

LEMMA UpdateFailsSound ==
  ASSUME Base, NEW w \in Workers, UpdateFails(w)
  PROVE  Sound
<1>1. UNCHANGED <<row, redis, suspect>> /\ req[w].at = "update"
  BY DEF UpdateFails, At
<1>2. PICK code \in Codes : EndWith(w, code, None, FALSE)
  BY DEF UpdateFails, Codes
<1>3. RowStep /\ ChangedUnawares
  BY <1>1, RowStays DEF ChangedUnawares, Base, TypeOK
<1> QED
  BY <1>1, <1>2, <1>3, FailureSound

LEMMA UpdateUnconfirmedSound ==
  ASSUME Base, NEW w \in Workers, UpdateUnconfirmed(w)
  PROVE  Sound
<1>1. RowStep
  BY RowWritten DEF UpdateUnconfirmed
<1>2. req[w].at = "update" /\ EndWith(w, "databaseError", None, FALSE)
      /\ ChangedUnawares /\ UNCHANGED redis
  BY DEF UpdateUnconfirmed, At
<1> QED
  BY <1>1, <1>2, FailureSound DEF Codes

(* A reader writes what it found, whether or not that is still the row. *)
LEMMA FillSound ==
  ASSUME Base, NEW w \in Workers, Fill(w)
  PROVE  Sound
<1>1. UNCHANGED row /\ req[w].at = "setex" /\ EndReading(w, req[w].read, req[w].inherits)
  BY DEF Fill, At
<1>2. req[w].read \in Contents /\ req[w].inherits \in BOOLEAN
  BY <1>1 DEF Base, TypeOK, Request, At
<1>3. /\ req' \in [Workers -> Request] /\ req'[w] = Idle
      /\ \A v \in Workers : v # w => req'[v] = req[v]
      /\ answer' \in Answer
      /\ \/ answer'.got = None
         \/ /\ answer'.got = req[w].read /\ answer'.suspect = req[w].inherits
            /\ answer'.since = req[w].since
      /\ settled' \in 0..MaxUpdates
      /\ settled' = settled \/ settled' = req[w].since
  BY <1>1, <1>2, EndedReading DEF Base
<1>4. \/ cache' = req[w].read /\ ttl' = TRUE /\ suspect' = (cache' # version)
      \/ cache' = cache /\ ttl' = ttl /\ suspect' = suspect
  BY DEF Fill, Setex, redis
<1>5. RowStep /\ version' = version
  BY <1>1, RowStays
<1>6. CopyStep
  BY <1>4, <1>5 DEF CopyStep
<1>7. SettledStep /\ AnswerStep
  BY <1>1, <1>3 DEF SettledStep, AnswerStep
<1>8. cache' \in Contents \cup {None} /\ ttl' \in BOOLEAN /\ suspect' \in BOOLEAN
  BY <1>2, <1>4 DEF Base, TypeOK
<1> QED
  BY <1>1, <1>3, <1>5, <1>6, <1>7, <1>8, EndSound

(* An UPDATE that commits is about to delete the copy; in an inherited transaction
   it commits nothing. *)
LEMMA UpdateRowSound ==
  ASSUME Base, NEW w \in Workers, UpdateRow(w)
  PROVE  Sound
<1>1. PICK c \in Conns :
        /\ WriteRow(c)
        /\ req' = [req EXCEPT ![w].at = "del", ![w].conn = c,
                              ![w].since = IF c \in open THEN @ ELSE latest']
  BY DEF UpdateRow
<1> DEFINE r == [req[w] EXCEPT !.at = "del", !.conn = c,
                               !.since = IF c \in open THEN @ ELSE latest']
<1>2. /\ RowStep /\ latest' \in 0..MaxUpdates
      /\ c \in open => version' = version
      /\ c \notin open => latest' <= version' /\ version' \in {version, latest'}
  BY <1>1, RowWritten
<1>3. /\ r \in Request /\ r.at = "del"
      /\ c \in open => r.since = req[w].since
      /\ c \notin open => r.since = latest'
  BY <1>2 DEF Request, Steps, Base, TypeOK
<1>4. req' = [req EXCEPT ![w] = r]
  BY <1>1 DEF Base, TypeOK
<1> HIDE DEF r
<1>5. UNCHANGED <<redis, answer, settled, suspect>> /\ req[w].at = "update"
  BY DEF UpdateRow, At
<1>6. ASSUME req'[w] = r PROVE CopyStep /\ RequestStep(w)
  <2>1. CopyStep
    BY <1>2, <1>3, <1>5, <1>6 DEF CopyStep, redis
  <2>2. RequestStep(w)
    BY <1>2, <1>3, <1>5, <1>6 DEF RequestStep
  <2> QED
    BY <2>1, <2>2
<1>7. cache' = cache /\ ttl' \in BOOLEAN /\ suspect' \in BOOLEAN
  BY <1>5 DEF redis, Base, TypeOK
<1> QED
  BY <1>2, <1>3, <1>4, <1>5, <1>6, <1>7, MoveSound

LEMMA InvalidateSound ==
  ASSUME Base, NEW w \in Workers, Invalidate(w)
  PROVE  Sound
<1> DEFINE r == [req[w] EXCEPT !.at = "get", !.conn = None]
<1>1. r \in Request /\ r.since = req[w].since /\ r.at = "get"
  BY DEF Request, Steps, Base, TypeOK
<1>2. req' = [req EXCEPT ![w] = r]
  BY DEF Invalidate, Base, TypeOK
<1> HIDE DEF r
<1>3. /\ UNCHANGED <<row, answer, settled>>
      /\ cache' = None /\ ttl' = FALSE /\ suspect' = FALSE
  BY DEF Invalidate, Del
<1>4. ASSUME req'[w] = r PROVE CopyStep /\ RequestStep(w)
  BY <1>1, <1>3, <1>4 DEF CopyStep, RequestStep
<1> QED
  BY <1>1, <1>2, <1>3, <1>4, RowStays, MoveSound

(* A DEL that throws has deleted the copy or leaves an accident behind. *)
LEMMA InvalidateFailsSound ==
  ASSUME Base, NEW w \in Workers, InvalidateFails(w)
  PROVE  Sound
<1>1. UNCHANGED row /\ EndWith(w, "silence", None, FALSE)
  BY DEF InvalidateFails
<1>2. \/ cache' = None /\ ttl' = FALSE /\ suspect' = FALSE
      \/ cache' = cache /\ ttl' = ttl /\ suspect' = (suspect \/ cache # None)
  BY DEF InvalidateFails, Del, redis, Accident
<1>3. /\ req' \in [Workers -> Request] /\ req'[w] = Idle
      /\ \A v \in Workers : v # w => req'[v] = req[v]
      /\ answer' \in Answer /\ answer'.got = None
      /\ settled' \in 0..MaxUpdates
      /\ settled' = settled
  BY <1>1, Ended DEF Codes, Base
<1>4. RowStep /\ version' = version
  BY <1>1, RowStays
<1>5. CopyStep /\ SettledStep /\ AnswerStep
  BY <1>2, <1>3, <1>4 DEF CopyStep, SettledStep, AnswerStep
<1>6. cache' \in Contents \cup {None} /\ ttl' \in BOOLEAN /\ suspect' \in BOOLEAN
  BY <1>2 DEF Base, TypeOK
<1> QED
  BY <1>2, <1>3, <1>4, <1>5, <1>6, EndSound

-----------------------------------------------------------------------------
LEMMA EveryStep ==
  ASSUME Base, [Next]_vars
  PROVE  Sound
<1>1. ASSUME NEW w \in Workers, Get(w) PROVE Sound
  BY <1>1, StartSound, HitSound, MissSound, SelectSound, SelectFailsSound, FillSound DEF Get
<1>2. ASSUME NEW w \in Workers, Update(w) PROVE Sound
  BY <1>2, StartSound, UpdateRowSound, UpdateFailsSound, UpdateUnconfirmedSound,
     InvalidateSound, InvalidateFailsSound DEF Update
<1> QED
  BY <1>1, <1>2, ExpireSound, RemoveSound, ElsewhereSound, StutterSound DEF Next

LEMMA Initially == Init => IInv
<1> SUFFICES ASSUME Init PROVE IInv
  OBVIOUS
<1> USE DEF Init, RowInit
<1>1. Idle \in Request /\ NoAnswer \in Answer
  BY CacheAssumption DEF Idle, Request, Steps, NoAnswer, Answer, Codes
<1>2. \A w \in Workers : req[w].at = "idle" /\ req[w].since = 0
  BY DEF Idle
<1>3. TypeOK
  <2>1. req \in [Workers -> Request] /\ answer \in Answer
    BY <1>1
  <2>2. 0 \in Contents /\ 0 \in 0..MaxUpdates
    BY CacheAssumption DEF Contents, Gone
  <2>3. {view, wrote} \subseteq [Conns -> Contents \cup {None}]
    OBVIOUS
  <2>4. \A w \in Workers : At(w, "setex") => req[w].read # None
    BY <1>2 DEF At
  <2> QED
    BY <2>1, <2>2, <2>3, <2>4 DEF TypeOK
<1>4. ClosedIsClean /\ Committed /\ ReadersFresh
  BY <1>2 DEF ClosedIsClean, Committed, ReadersFresh, At
<1>5. CopyFresh /\ StaleOnlyIfKnown /\ AnswersFresh
  BY DEF CopyFresh, StaleOnlyIfKnown, Stale, NoAnswer, AnswersFresh
<1> QED
  BY <1>3, <1>4, <1>5 DEF IInv

LEMMA Inductive ==
  ASSUME IInv, [Next]_vars
  PROVE  IInv'
<1> USE DEF IInv
<1>1. TypeOK' /\ ClosedIsClean' /\ Step
  BY EveryStep DEF Base, Sound
<1>2. Committed'
  BY <1>1, CommittedKept
<1>3. ReadersFresh'
  BY <1>1, ReadersKept
<1>4. CopyFresh'
  BY <1>1, <1>2, CopyKept
<1>5. StaleOnlyIfKnown'
  BY <1>1, StaleKept
<1>6. AnswersFresh'
  BY <1>1, AnswersKept
<1> QED
  BY <1>1, <1>2, <1>3, <1>4, <1>5, <1>6

LEMMA Invariance == Spec => []IInv
BY Initially, Inductive, PTL DEF Spec

(* The types; a reader that is about to fill the cache has something to write. *)
THEOREM TypeCorrect == Spec => []TypeOK
<1>1. IInv => TypeOK
  BY DEF IInv
<1> QED
  BY <1>1, Invariance, PTL

(* A copy of the profile differs from the row only while the update that made the
   difference is about to delete it, or after one of the accidents named at
   StaleOnlyIfKnown, those of inherited transactions among them. *)
THEOREM StaleCopiesAreKnown == Spec => []StaleOnlyIfKnown
<1>1. IInv => StaleOnlyIfKnown
  BY DEF IInv
<1> QED
  BY <1>1, Invariance, PTL

(* Clients are sent what is as new as every update answered before they asked, and
   updates their own effect, unless the copy they were sent had an accident or the
   request ran in a transaction that a registration had left open. *)
THEOREM AnswersAreFresh == Spec => []AnswersFresh
<1>1. IInv => AnswersFresh
  BY DEF IInv
<1> QED
  BY <1>1, Invariance, PTL
=============================================================================

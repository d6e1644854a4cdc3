--------------------------- MODULE SessionsProofs ----------------------------
(***************************************************************************)
(* Proofs about Sessions for every number of workers, tokens, passwords    *)
(* and password changes, whatever fails and however requests overlap.      *)
(***************************************************************************)
EXTENDS Sessions, FiniteSetTheorems, TLAPS

LoginSteps == {"check", "setex", "sadd", "expire"}
Stored == {"setex", "sadd", "expire"}
LogoutSteps == {"get", "srem", "del"}
Pending == {"verify", "select", "update"}

(* A change that has not come to its UPDATE takes one of the versions left. *)
Changing == {w \in Workers : req[w].at \in Pending}
VersionsSuffice == latest + Cardinality(Changing) <= MaxChanges

(* What a request holds in each of its steps; a login's token is its own. *)
Holding(w) ==
    /\ req[w].at \in LoginSteps => req[w].token \in Tokens \ delivered
    /\ At(w, "check") => origin[req[w].token] = None
    /\ req[w].at \in Stored => origin[req[w].token] # None
    /\ At(w, "setex") => req[w].token \notin keys
    /\ req[w].at \in {"setex", "sadd"} => req[w].token \notin tokenSet
    /\ req[w].at \in LogoutSteps => req[w].token \in delivered
    /\ req[w].at \in Pending => req[w].new \in Passwords
    /\ At(w, "update") => req[w].conn \in Conns

(* A connection outside a transaction has no snapshot and nothing to commit. *)
ClosedIsClean == \A c \in Conns : c \notin open => view[c] = None /\ wrote[c] = None

LoginsDiffer ==
    \A v, w \in Workers :
        req[v].at \in LoginSteps /\ req[w].at \in LoginSteps /\ req[v].token = req[w].token
            => v = w

(* Tokens that exist anywhere were drawn by a login that passed its check. *)
Drawn ==
    /\ \A t \in Tokens : origin[t] = None => t \notin keys \cup tokenSet \cup delivered
    /\ closed \subseteq delivered

(* A client's token that the set has expires before the set. *)
SetOutlives ==
    \A t \in delivered \cap keys \cap tokenSet :
        t \in raced \/ <<TokenSet, t>> \notin deadlines

Keys == Tokens \cup {TokenSet}

(* Every key has its TTL, and the order mentions keys with one only. *)
KeysTimed ==
    /\ \A t \in keys : <<t, t>> \in deadlines
    /\ \A k, l \in Keys :
         <<k, l>> \in deadlines => <<k, k>> \in deadlines /\ <<l, l>> \in deadlines

(* A login about to renew the set's TTL finds its token in the set. *)
AddedUnlessRaced ==
    \A w \in Workers : At(w, "expire") /\ req[w].token \in keys
        => req[w].token \in tokenSet \cup raced

(* A client has the token or its login only has to renew the set's TTL. *)
Granted == delivered \cup {t \in Tokens : \E w \in Workers : At(w, "expire") /\ req[w].token = t}

(* What removeAllTokensForUser has not deleted yet is on its list. *)
ListComplete ==
    \A w \in Workers : At(w, "delEach")
        => Granted \cap tokenSet \cap keys \subseteq req[w].todo \cup raced

TrackingInv ==
    /\ TypeOK
    /\ VersionsSuffice
    /\ ClosedIsClean
    /\ \A w \in Workers : Holding(w)
    /\ LoginsDiffer
    /\ Drawn
    /\ KeysTimed
    /\ SetOutlives
    /\ AddedUnlessRaced
    /\ ListComplete
    /\ TrackedUnlessRaced

-----------------------------------------------------------------------------
(* Sessions of earlier passwords. *)

Deleting == {"smembers", "delEach"}

Versions ==
    /\ cleared <= version
    /\ \A w \in Workers : req[w].made <= version

Excused == overtaken \cup inheriting

(* A login that stores a token of a password that a change has replaced was
   overtaken by that change, or read the row in an inherited transaction. *)
LateLogins ==
    \A v \in Workers : req[v].at \in Stored =>
        /\ origin[req[v].token] >= cleared \/ req[v].token \in Excused
        /\ \A w \in Workers : req[w].at \in Deleting =>
             origin[req[v].token] >= req[w].made \/ req[v].token \in Excused

(* While Redis answers, the list of a change has every session it has to end. *)
ListEndsOlder ==
    failed \/
    \A w \in Workers : At(w, "delEach") =>
        \A t \in keys \cap delivered :
            \/ origin[t] >= req[w].made
            \/ t \in req[w].todo \cup raced \cup Excused
            \/ LoggingOut(t)

IInv ==
    /\ TrackingInv
    /\ Versions
    /\ LateLogins
    /\ ListEndsOlder
    /\ LogoutEnds
    /\ OnlyOverlapsSurvive

-----------------------------------------------------------------------------
(* What any step may do to the requests and to what was stored and recorded.
   The invariants follow from these facts without another look at the actions. *)

Monotone ==
    /\ delivered \subseteq delivered' /\ closed \subseteq closed'
    /\ raced \subseteq raced' /\ overtaken \subseteq overtaken'
    /\ inheriting \subseteq inheriting'
    /\ version <= version'
    /\ failed => failed'

OneMoves == \A u, v \in Workers : u = v \/ req'[u] = req[u] \/ req'[v] = req[v]

(* A login begins with a new token and keeps it through its steps. *)
LoginMove(v) ==
    req'[v].at \in LoginSteps =>
        \/ req[v].at = "idle" /\ req'[v].at = "check" /\ req'[v].token \in Fresh
        \/ /\ req'[v].token = req[v].token
           /\ \/ req'[v].at = req[v].at
              \/ /\ req[v].at = "check" /\ req'[v].at = "setex"
                 /\ origin'[req[v].token] # None
                 /\ origin'[req[v].token] = version \/ req[v].token \in inheriting'
              \/ req[v].at = "setex" /\ req'[v].at = "sadd"
              \/ req[v].at = "sadd" /\ req'[v].at = "expire" /\ req[v].token \in tokenSet'

LogoutMove(v) ==
    /\ req'[v].at \in LogoutSteps =>
         \/ req'[v].token \in delivered
         \/ req[v].at \in LogoutSteps /\ req'[v].token = req[v].token
    /\ req[v].at = "del" =>
         \/ req'[v] = req[v]
         \/ req[v].token \in closed' /\ (req[v].token \notin keys' \/ failed')

ChangeMove(v) ==
    /\ req'[v].at \in Pending =>
         \/ req'[v].new \in Passwords
         \/ req[v].at \in Pending /\ req'[v].new = req[v].new
    /\ req'[v].at = "update" =>
         \/ req'[v].conn \in Conns
         \/ req[v].at = "update" /\ req'[v].conn = req[v].conn
    /\ req'[v].made \in {0, req[v].made, version'}
    /\ req'[v].at \in Deleting =>
         \/ req[v].at \in Deleting /\ req'[v].made = req[v].made
         \/ /\ req[v].at = "update"
            /\ \/ req'[v].made = 0
               \/ /\ req'[v].made = version'
                  /\ \A u \in Workers : req[u].at \in Stored => req[u].token \in overtaken'
    /\ req'[v].at = "delEach" =>
         \/ /\ req[v].at = "smembers" /\ req'[v].todo = tokenSet
            /\ UNCHANGED <<keys, tokenSet, delivered>>
         \/ /\ req[v].at = "delEach"
            /\ \A t \in req[v].todo \ req'[v].todo : t \notin keys'

Moves == \A v \in Workers : LoginMove(v) /\ LogoutMove(v) /\ ChangeMove(v)

OriginsSet ==
    \A t \in Tokens : origin'[t] # origin[t] =>
        /\ origin'[t] # None
        /\ \E w \in Workers : req[w].at = "check" /\ req[w].token = t /\ req'[w].at = "setex"

KeysGrow ==
    \A t \in keys' \ keys : \E w \in Workers :
        req[w].at = "setex" /\ req[w].token = t /\ req'[w].at # "setex"

SetGrows ==
    \A t \in tokenSet' \ tokenSet : \E w \in Workers :
        /\ req[w].at = "sadd" /\ req[w].token = t /\ req'[w].at # "sadd"
        /\ req'[w].at = "expire" => t \in raced' \/ ~Removing

(* The set expires, a member is logged out, or the set is deleted. *)
SetShrinks ==
    \A t \in tokenSet \ tokenSet' :
        \/ /\ \A k \in Timed : <<TokenSet, k>> \in deadlines
           /\ \A w \in Workers : req[w].at = "expire" /\ req[w].token = t => t \in raced'
        \/ \E w \in Workers : /\ req[w].at = "srem" /\ req[w].token = t
                               /\ \/ req'[w].at = "del" /\ req'[w].token = t
                                  \/ t \in closed'
        \/ \E w \in Workers : req[w].at = "delEach" /\ req[w].todo = {}

Deliveries ==
    \A t \in delivered' \ delivered :
        /\ \E w \in Workers : req[w].at = "expire" /\ req[w].token = t /\ req'[w].at = "idle"
        /\ tokenSet' = {} \/ <<TokenSet, t>> \notin deadlines'

Closings ==
    \A t \in closed' \ closed :
        /\ t \in keys' => failed'
        /\ \E w \in Workers : req[w].at \in LogoutSteps /\ req[w].token = t

Clearings ==
    \/ cleared' = cleared
    \/ \E w \in Workers :
         /\ req[w].at \in Deleting /\ cleared' = req[w].made
         /\ failed' \/ (req[w].at = "delEach" /\ req[w].todo = {})

(* Only a new key expires after a set that has a TTL already. *)
Renewals ==
    \A t \in Tokens : <<TokenSet, t>> \in deadlines' =>
        \/ <<TokenSet, t>> \in deadlines
        \/ \E w \in Workers : req[w].at = "setex" /\ req[w].token = t

Step ==
    /\ Monotone /\ OneMoves /\ Moves
    /\ OriginsSet /\ KeysGrow /\ SetGrows /\ SetShrinks
    /\ Deliveries /\ Closings /\ Clearings /\ Renewals

-----------------------------------------------------------------------------
(* The invariants follow from Step. *)

Numbers == 0..MaxChanges

(* A token that two login steps are about belongs to one worker, and no logout
   or change knows it. *)
LEMMA OneLogin ==
  ASSUME LoginsDiffer, NEW v \in Workers, NEW w \in Workers,
         req[v].at \in LoginSteps, req[w].at \in LoginSteps, req[v].token = req[w].token
  PROVE  v = w
BY DEF LoginsDiffer

LEMMA LoginsDifferKept ==
  ASSUME LoginsDiffer, Step
  PROVE  LoginsDiffer'
<1> SUFFICES ASSUME NEW v \in Workers, NEW w \in Workers, v # w,
                    req'[v].at \in LoginSteps, req'[w].at \in LoginSteps,
                    req'[v].token = req'[w].token
             PROVE  FALSE
  BY DEF LoginsDiffer
<1>1. LoginMove(v) /\ LoginMove(w)
  BY DEF Step, Moves
<1>2. req'[v] = req[v] \/ req'[w] = req[w]
  BY DEF Step, OneMoves
<1>3. \A u \in Workers : req[u].token \notin Fresh
  BY DEF Fresh
<1>4. CASE req'[v].token = req[v].token /\ req[v].at \in LoginSteps
  BY <1>1, <1>2, <1>3, <1>4, OneLogin DEF LoginMove, LoginSteps
<1>5. CASE req'[v].token \in Fresh
  BY <1>1, <1>2, <1>3, <1>5 DEF LoginMove, LoginSteps
<1> QED
  BY <1>1, <1>4, <1>5 DEF LoginMove, LoginSteps

(* Tokens appear nowhere before their login passed its check. *)
LEMMA DrawnKept ==
  ASSUME TypeOK, \A w \in Workers : Holding(w), Drawn, Step
  PROVE  Drawn'
<1>1. \A w \in Workers : req[w].at \in Stored => origin[req[w].token] # None
  BY DEF Holding
<1>2. version # None
  BY SessionsAssumption DEF TypeOK
<1>3. ASSUME NEW t \in Tokens, origin'[t] = None
      PROVE  t \notin keys' \cup tokenSet' \cup delivered'
  <2>1. origin[t] = None
    BY <1>2, <1>3 DEF Step, OriginsSet
  <2>2. t \notin keys \cup tokenSet \cup delivered
    BY <2>1 DEF Drawn
  <2>3. t \notin keys'
    BY <1>1, <2>1, <2>2 DEF Step, KeysGrow, Stored
  <2>4. t \notin tokenSet'
    BY <1>1, <2>1, <2>2 DEF Step, SetGrows, Stored
  <2>5. t \notin delivered'
    BY <1>1, <2>1, <2>2 DEF Step, Deliveries, Stored
  <2> QED
    BY <2>3, <2>4, <2>5
<1>4. closed' \subseteq delivered'
  BY DEF Step, Closings, Monotone, Drawn, Holding
<1> QED
  BY <1>3, <1>4 DEF Drawn

LEMMA HoldingKept ==
  ASSUME TypeOK, \A w \in Workers : Holding(w), LoginsDiffer, Drawn, Step, TypeOK',
         NEW v \in Workers
  PROVE  Holding(v)'
<1>1. LoginMove(v) /\ LogoutMove(v) /\ ChangeMove(v) /\ Holding(v)
  BY DEF Step, Moves
<1>2. delivered \subseteq delivered'
  BY DEF Step, Monotone
<1>3. version # None
  BY SessionsAssumption DEF TypeOK
<1>4. ASSUME req'[v].at \in LoginSteps, req'[v].token \in Fresh
      PROVE  Holding(v)'
  <2> SUFFICES ASSUME NEW t, t = req'[v].token
               PROVE  Holding(v)'
    OBVIOUS
  <2>1. t \in Tokens /\ origin[t] = None /\ \A w \in Workers : req[w].token # t
    BY <1>4 DEF Fresh
  <2>2. t \notin delivered' /\ origin'[t] = None /\ t \notin keys' /\ t \notin tokenSet'
    <3>1. t \notin keys \cup tokenSet \cup delivered
      BY <2>1 DEF Drawn
    <3>2. t \notin delivered'
      BY <2>1, <3>1 DEF Step, Deliveries
    <3>4. origin'[t] = None
      BY <2>1 DEF Step, OriginsSet
    <3>3. t \notin keys' /\ t \notin tokenSet'
      BY <2>1, <3>1 DEF Step, KeysGrow, SetGrows
    <3> QED
      BY <3>2, <3>3, <3>4
  <2>3. req'[v].at = "check"
    BY <1>1, <1>4, <2>1 DEF LoginMove
  <2> QED
    BY <2>1, <2>2, <2>3 DEF Holding, Stored, LogoutSteps, Pending, LoginSteps, At
<1>5. ASSUME req'[v].at \in LoginSteps, req'[v].token = req[v].token, req[v].at \in LoginSteps
      PROVE  Holding(v)'
  <2> DEFINE t == req[v].token
  <2>1. \A w \in Workers : req[w].at \in LoginSteps /\ req[w].token = t => w = v
    BY <1>5, OneLogin
  <2>2. t \in Tokens \ delivered
    BY <1>1, <1>5 DEF Holding
  <2>3. t \notin delivered'
    BY <1>5, <2>1, <2>2 DEF Step, Deliveries, LoginSteps
  <2>4. req'[v].at = "check" => origin'[t] = None
    BY <1>1, <1>5, <2>1, <2>2, <1>3 DEF Step, OriginsSet, LoginMove, Holding, LoginSteps, At, Stored
  <2>5. req'[v].at \in Stored => origin'[t] # None
    BY <1>1, <1>5, <2>1, <2>2, <1>3 DEF Step, OriginsSet, LoginMove, Holding, LoginSteps, At, Stored
  <2>6. req'[v].at = "setex" => t \notin keys'
    BY <1>1, <1>5, <2>1, <2>2 DEF Step, KeysGrow, LoginMove, Holding, LoginSteps, At, Drawn
  <2>7. req'[v].at \in {"setex", "sadd"} => t \notin tokenSet'
    <3>1. req'[v].at \in {"setex", "sadd"} => t \notin tokenSet
      BY <1>1, <1>5, <2>1, <2>2 DEF LoginMove, Holding, LoginSteps, At, Drawn
    <3> QED
      BY <1>1, <1>5, <2>1, <2>2, <3>1 DEF Step, SetGrows, LoginMove, LoginSteps
  <2> QED
    BY <1>5, <2>2, <2>3, <2>4, <2>5, <2>6, <2>7 DEF Holding, LogoutSteps, Pending, LoginSteps, At
<1>6. ASSUME req'[v].at \notin LoginSteps
      PROVE  Holding(v)'
  BY <1>1, <1>2, <1>6 DEF Holding, LogoutMove, ChangeMove, Stored, LoginSteps, At
<1> QED
  BY <1>1, <1>4, <1>5, <1>6 DEF LoginMove, LoginSteps

(* A new key or member belongs to a login that is not finished. *)
LEMMA NewKeys ==
  ASSUME \A w \in Workers : Holding(w), LoginsDiffer, Drawn, Step, NEW t \in keys' \ keys
  PROVE  t \notin delivered' /\ t \notin closed /\ t \notin Granted'
<1>1. PICK w \in Workers : req[w].at = "setex" /\ req[w].token = t /\ req'[w].at # "setex"
  BY DEF Step, KeysGrow
<1>2. t \in Tokens \ delivered /\ t \notin tokenSet
  BY <1>1 DEF Holding, LoginSteps
<1>3. \A u \in Workers : req[u].at \in LoginSteps /\ req[u].token = t => u = w
  BY <1>1, OneLogin DEF LoginSteps
<1>4. t \notin delivered'
  BY <1>1, <1>2, <1>3 DEF Step, Deliveries, LoginSteps
<1>5. ASSUME NEW u \in Workers, req'[u].at = "expire", req'[u].token = t
      PROVE  FALSE
  <2>1. LoginMove(u)
    BY DEF Step, Moves
  <2> QED
    BY <1>1, <1>3, <1>5, <2>1 DEF LoginMove, LoginSteps
<1> QED
  BY <1>2, <1>4, <1>5 DEF Drawn, Granted, At

LEMMA NewMembers ==
  ASSUME \A w \in Workers : Holding(w), LoginsDiffer, Step, NEW t \in tokenSet' \ tokenSet
  PROVE  t \notin delivered' /\ (t \in Granted' => t \in raced' \/ ~Removing)
<1>1. PICK w \in Workers : /\ req[w].at = "sadd" /\ req[w].token = t
                           /\ req'[w].at = "expire" => t \in raced' \/ ~Removing
  BY DEF Step, SetGrows
<1>2. t \in Tokens \ delivered
  BY <1>1 DEF Holding, LoginSteps
<1>3. \A u \in Workers : req[u].at \in LoginSteps /\ req[u].token = t => u = w
  BY <1>1, OneLogin DEF LoginSteps
<1>4. t \notin delivered'
  BY <1>1, <1>2, <1>3 DEF Step, Deliveries, LoginSteps
<1>5. ASSUME NEW u \in Workers, req'[u].at = "expire", req'[u].token = t
      PROVE  u = w
  <2>1. LoginMove(u)
    BY DEF Step, Moves
  <2> QED
    BY <1>1, <1>3, <1>5, <2>1 DEF LoginMove, LoginSteps
<1> QED
  BY <1>1, <1>4, <1>5 DEF Granted, At

(* A granted token whose key exists leaves the set by a logout, or it is raced. *)
LEMMA LostMembers ==
  ASSUME TypeOK, KeysTimed, SetOutlives, ListComplete, Step, \A w \in Workers : Holding(w),
         NEW t \in Granted \cap keys \cap tokenSet, t \notin tokenSet'
  PROVE  t \in raced' \/ (t \in delivered /\ (t \in closed' \/ LoggingOut(t)'))
<1>1. raced \subseteq raced'
  BY DEF Step, Monotone
<1>2. t \in Tokens
  BY DEF TypeOK
<1>3. CASE /\ \A k \in Timed : <<TokenSet, k>> \in deadlines
           /\ \A w \in Workers : req[w].at = "expire" /\ req[w].token = t => t \in raced'
  <2>1. <<TokenSet, t>> \in deadlines
    BY <1>2, <1>3 DEF KeysTimed, Timed
  <2>2. t \in delivered => t \in raced'
    BY <1>1, <2>1 DEF SetOutlives
  <2> QED
    BY <1>3, <2>2 DEF Granted, At
<1>4. ASSUME NEW w \in Workers, req[w].at = "srem", req[w].token = t,
             \/ req'[w].at = "del" /\ req'[w].token = t
             \/ t \in closed'
      PROVE  t \in delivered /\ (t \in closed' \/ LoggingOut(t)')
  BY <1>4 DEF Holding, LogoutSteps, LoggingOut, At
<1>5. ASSUME NEW w \in Workers, req[w].at = "delEach", req[w].todo = {}
      PROVE  t \in raced'
  BY <1>1, <1>5 DEF ListComplete, At
<1> QED
  BY <1>3, <1>4, <1>5 DEF Step, SetShrinks

LEMMA SetOutlivesKept ==
  ASSUME \A w \in Workers : Holding(w), LoginsDiffer, Drawn, SetOutlives, TypeOK, Step
  PROVE  SetOutlives'
<1> SUFFICES ASSUME NEW t \in delivered' \cap keys' \cap tokenSet', t \notin raced'
             PROVE  <<TokenSet, t>> \notin deadlines'
  BY DEF SetOutlives
<1>1. t \in keys /\ t \in tokenSet
  BY NewKeys, NewMembers
<1>2. t \in Tokens
  BY <1>1 DEF TypeOK
<1>3. CASE t \in delivered
  <2>1. <<TokenSet, t>> \notin deadlines
    BY <1>1, <1>3 DEF SetOutlives, Step, Monotone
  <2>2. \A w \in Workers : req[w].at = "setex" => req[w].token # t
    BY <1>3 DEF Holding, LoginSteps
  <2> QED
    BY <1>2, <2>1, <2>2 DEF Step, Renewals
<1>4. CASE t \notin delivered
  BY <1>4 DEF Step, Deliveries
<1> QED
  BY <1>3, <1>4

LEMMA AddedKept ==
  ASSUME TrackingInv, Step
  PROVE  AddedUnlessRaced'
<1> SUFFICES ASSUME NEW w \in Workers, req'[w].at = "expire", req'[w].token \in keys',
                    NEW t, t = req'[w].token
             PROVE  t \in tokenSet' \cup raced'
  BY DEF AddedUnlessRaced, At
<1> USE DEF TrackingInv
<1>1. LoginMove(w)
  BY DEF Step, Moves
<1>2. CASE req[w].at = "expire" /\ req[w].token = t
  <2>1. t \in Tokens \ delivered
    BY <1>2 DEF Holding, LoginSteps
  <2>2. t \in Granted /\ t \in Granted'
    BY <1>2, <2>1 DEF Granted, At
  <2>3. t \in keys
    BY <2>2, NewKeys
  <2>4. t \in tokenSet \cup raced
    BY <1>2, <2>3 DEF AddedUnlessRaced, At
  <2> QED
    BY <2>1, <2>2, <2>3, <2>4, LostMembers DEF Step, Monotone
<1> QED
  BY <1>1, <1>2 DEF LoginMove, LoginSteps

LEMMA ListKept ==
  ASSUME TrackingInv, TypeOK', Step
  PROVE  ListComplete'
<1> SUFFICES ASSUME NEW v \in Workers, req'[v].at = "delEach",
                    NEW t \in Granted' \cap tokenSet' \cap keys', t \notin raced'
             PROVE  t \in req'[v].todo
  BY DEF ListComplete, At
<1> USE DEF TrackingInv
<1>1. ChangeMove(v)
  BY DEF Step, Moves
<1>2. CASE req[v].at = "smembers" /\ req'[v].todo = tokenSet /\ tokenSet' = tokenSet
  BY <1>2
<1>3. CASE /\ req[v].at = "delEach"
           /\ \A u \in req[v].todo \ req'[v].todo : u \notin keys'
  <2>1. Removing
    BY <1>3 DEF Removing, At
  <2>2. t \in keys /\ t \in tokenSet
    BY <2>1, NewKeys, NewMembers
  <2>3. t \in Granted
    <3>1. t \in Tokens
      BY DEF TypeOK
    <3>2. t \in delivered' => t \in Granted
      BY <3>1 DEF Granted, Step, Deliveries, At
    <3>3. ASSUME NEW w \in Workers, req'[w].at = "expire", req'[w].token = t
          PROVE  t \in Granted
      <4>1. LoginMove(w) /\ Holding(w)
        BY DEF Step, Moves
      <4> QED
        BY <2>2, <3>1, <3>3, <4>1 DEF LoginMove, LoginSteps, Holding, Granted, At
    <3> QED
      BY <3>2, <3>3 DEF Granted, At
  <2>4. t \in req[v].todo
    BY <1>3, <2>2, <2>3 DEF ListComplete, At, Step, Monotone
  <2> QED
    BY <1>3, <2>4
<1> QED
  BY <1>1, <1>2, <1>3 DEF ChangeMove

LEMMA LogoutsStay ==
  ASSUME NEW t, LoggingOut(t), Step
  PROVE  LoggingOut(t)' \/ (t \in closed' /\ (t \notin keys' \/ failed'))
BY DEF LoggingOut, At, Step, Moves, LogoutMove

LEMMA TrackedKept ==
  ASSUME TrackingInv, Step
  PROVE  TrackedUnlessRaced'
<1> SUFFICES ASSUME NEW t \in keys' \cap delivered'
             PROVE  t \in tokenSet' \cup raced' \cup closed' \/ LoggingOut(t)'
  BY DEF TrackedUnlessRaced
<1> USE DEF TrackingInv
<1>1. t \in keys
  BY NewKeys
<1>2. t \in Tokens
  BY <1>1 DEF TypeOK
<1>3. t \in tokenSet \cup raced \cup closed \/ LoggingOut(t)
  <2>1. CASE t \in delivered
    BY <1>1, <2>1 DEF TrackedUnlessRaced
  <2>2. CASE t \notin delivered
    <3>1. PICK w \in Workers : req[w].at = "expire" /\ req[w].token = t
      BY <2>2 DEF Step, Deliveries
    <3> QED
      BY <1>1, <3>1 DEF AddedUnlessRaced, At
  <2> QED
    BY <2>1, <2>2
<1>4. t \in Granted
  BY <1>2 DEF Granted, Step, Deliveries, At
<1> QED
  BY <1>1, <1>3, <1>4, LostMembers, LogoutsStay DEF Step, Monotone

-----------------------------------------------------------------------------
(* The same for sessions of earlier passwords. *)

LEMMA OriginTypes ==
  ASSUME TypeOK, \A w \in Workers : Holding(w), Drawn
  PROVE  /\ version \in Nat /\ cleared \in Nat
         /\ \A w \in Workers : req[w].made \in Nat
         /\ \A t \in Tokens : origin[t] # None => origin[t] \in Nat
         /\ \A t \in delivered : t \in Tokens /\ origin[t] # None
         /\ \A w \in Workers : req[w].at \in Stored =>
               req[w].token \in Tokens /\ origin[req[w].token] # None
         /\ version # None
<1>1. version \in Nat /\ cleared \in Nat /\ version # None
  BY SessionsAssumption DEF TypeOK
<1>2. \A w \in Workers : req[w].made \in Nat
  BY SessionsAssumption DEF TypeOK, Request
<1>3. \A t \in Tokens : origin[t] # None => origin[t] \in Nat
  BY SessionsAssumption DEF TypeOK
<1>4. \A t \in delivered : t \in Tokens /\ origin[t] # None
  BY DEF TypeOK, Drawn
<1>5. \A w \in Workers : req[w].at \in Stored =>
               req[w].token \in Tokens /\ origin[req[w].token] # None
  BY DEF Holding, Stored, LoginSteps
<1> QED
  BY <1>1, <1>2, <1>3, <1>4, <1>5

(* The version a token was drawn for stays. *)
LEMMA OriginStays ==
  ASSUME TypeOK, \A w \in Workers : Holding(w), LoginsDiffer, Step, NEW t \in Tokens, origin[t] # None
  PROVE  origin'[t] = origin[t]
BY DEF Step, OriginsSet, Holding, At

LEMMA VersionsKept ==
  ASSUME TrackingInv, TypeOK', Versions, Step
  PROVE  Versions'
<1> USE DEF TrackingInv
<1>1. version \in Nat /\ version' \in Nat /\ version <= version'
  BY SessionsAssumption DEF TypeOK, Step, Monotone
<1>2. cleared' <= version'
  BY <1>1, OriginTypes DEF Step, Clearings, Versions
<1>3. ASSUME NEW w \in Workers PROVE req'[w].made <= version'
  <2>1. ChangeMove(w)
    BY DEF Step, Moves
  <2> QED
    BY <1>1, <2>1, OriginTypes DEF ChangeMove, Versions
<1> QED
  BY <1>2, <1>3 DEF Versions

LEMMA LateLoginsKept ==
  ASSUME TrackingInv, TypeOK', Versions, LateLogins, Step
  PROVE  LateLogins'
<1> USE DEF TrackingInv
<1> SUFFICES ASSUME NEW v \in Workers, req'[v].at \in Stored,
                    NEW t, t = req'[v].token, t \notin Excused'
             PROVE  /\ origin'[t] >= cleared'
                    /\ \A w \in Workers : req'[w].at \in Deleting => origin'[t] >= req'[w].made
  BY DEF LateLogins
<1>1. LoginMove(v) /\ Excused \subseteq Excused'
  BY DEF Step, Moves, Monotone, Excused
<1>2. CASE req[v].at \in Stored /\ req[v].token = t
  <2>1. t \in Tokens /\ origin[t] # None /\ origin'[t] = origin[t] /\ origin[t] >= 0
    BY <1>2, OriginTypes, OriginStays
  <2>2. /\ origin[t] >= cleared
        /\ \A w \in Workers : req[w].at \in Deleting => origin[t] >= req[w].made
    BY <1>1, <1>2 DEF LateLogins
  <2>3. origin'[t] >= cleared'
    BY <2>1, <2>2 DEF Step, Clearings
  <2>4. ASSUME NEW w \in Workers, req'[w].at \in Deleting
        PROVE  origin'[t] >= req'[w].made
    <3>1. ChangeMove(w)
      BY DEF Step, Moves
    <3> QED
      BY <1>2, <2>1, <2>2, <2>4, <3>1 DEF ChangeMove, Excused
  <2> QED
    BY <2>3, <2>4
<1>3. CASE req[v].at = "check" /\ req[v].token = t /\ origin'[t] = version /\ req'[v] # req[v]
  <2>1. version >= cleared'
    BY OriginTypes DEF Step, Clearings, Versions
  <2>2. ASSUME NEW w \in Workers, req'[w].at \in Deleting
        PROVE  version >= req'[w].made
    <3>1. w # v /\ req'[w] = req[w]
      BY <1>3, <2>2 DEF Stored, Deleting, Step, OneMoves
    <3> QED
      BY <3>1, OriginTypes DEF Versions
  <2> QED
    BY <1>3, <2>1, <2>2
<1> QED
  BY <1>1, <1>2, <1>3 DEF LoginMove, LoginSteps, Stored, Excused

LEMMA LogoutsKept ==
  ASSUME TrackingInv, LogoutEnds, Step
  PROVE  LogoutEnds'
BY NewKeys DEF TrackingInv, LogoutEnds, Step, Closings, Monotone

(* A token a client gets now was excused unless it is new enough. *)
LEMMA NewSessions ==
  ASSUME TrackingInv, LateLogins, Step, NEW t \in delivered' \ delivered
  PROVE  /\ origin[t] >= cleared \/ t \in Excused
         /\ \A w \in Workers : req[w].at \in Deleting => origin[t] >= req[w].made \/ t \in Excused
         /\ t \in Tokens /\ origin[t] # None /\ origin'[t] = origin[t]
<1> USE DEF TrackingInv
<1>1. PICK v \in Workers : req[v].at = "expire" /\ req[v].token = t
  BY DEF Step, Deliveries
<1>2. t \in Tokens /\ origin[t] # None
  BY <1>1, OriginTypes DEF Stored
<1> QED
  BY <1>1, <1>2, OriginStays DEF LateLogins, Stored

LEMMA ListEndsKept ==
  ASSUME TrackingInv, Versions, LateLogins, ListEndsOlder, LogoutEnds, Step
  PROVE  ListEndsOlder'
<1> USE DEF TrackingInv
<1> SUFFICES ASSUME ~failed', NEW v \in Workers, req'[v].at = "delEach",
                    NEW t \in keys' \cap delivered', t \notin raced' \cup Excused', ~LoggingOut(t)'
             PROVE  origin'[t] >= req'[v].made \/ t \in req'[v].todo
  BY DEF ListEndsOlder, At
<1>1. ~failed /\ raced \subseteq raced' /\ Excused \subseteq Excused'
  BY DEF Step, Monotone, Excused
<1>2. t \in keys
  BY NewKeys
<1>3. ~LoggingOut(t)
  BY LogoutsStay
<1>4. ChangeMove(v)
  BY DEF Step, Moves
<1>5. CASE req[v].at = "smembers" /\ req'[v].todo = tokenSet /\ delivered' = delivered
  BY <1>1, <1>2, <1>3, <1>5 DEF TrackedUnlessRaced, LogoutEnds
<1>6. CASE /\ req[v].at = "delEach" /\ req'[v].made = req[v].made
           /\ \A u \in req[v].todo \ req'[v].todo : u \notin keys'
  <2>1. CASE t \in delivered
    <3>1. origin'[t] = origin[t]
      BY <2>1, OriginTypes, OriginStays
    <3> QED
      BY <1>1, <1>2, <1>3, <1>6, <2>1, <3>1 DEF ListEndsOlder, At
  <2>2. CASE t \notin delivered
    BY <1>1, <1>6, <2>2, NewSessions DEF Deleting
  <2> QED
    BY <2>1, <2>2
<1> QED
  BY <1>4, <1>5, <1>6 DEF ChangeMove, Deleting

LEMMA SurvivorsKept ==
  ASSUME TrackingInv, LateLogins, ListEndsOlder, OnlyOverlapsSurvive, Step
  PROVE  OnlyOverlapsSurvive'
<1> USE DEF TrackingInv
<1> SUFFICES ASSUME ~failed', NEW t \in keys' \cap delivered',
                    t \notin raced' \cup Excused', ~LoggingOut(t)'
             PROVE  origin'[t] >= cleared'
  BY DEF OnlyOverlapsSurvive, Excused
<1>1. ~failed /\ raced \subseteq raced' /\ Excused \subseteq Excused'
  BY DEF Step, Monotone, Excused
<1>2. t \in keys
  BY NewKeys
<1>3. ~LoggingOut(t)
  BY LogoutsStay
<1>4. origin'[t] = origin[t]
  BY NewSessions, OriginTypes, OriginStays
<1>5. CASE cleared' = cleared
  BY <1>1, <1>2, <1>3, <1>4, <1>5, NewSessions DEF OnlyOverlapsSurvive, Excused
<1>6. ASSUME NEW w \in Workers, req[w].at = "delEach", req[w].todo = {}, cleared' = req[w].made
      PROVE  origin'[t] >= cleared'
  <2>1. t \in delivered => origin[t] >= req[w].made
    BY <1>1, <1>2, <1>3, <1>6 DEF ListEndsOlder, At
  <2>2. t \notin delivered => origin[t] >= req[w].made
    BY <1>1, <1>6, NewSessions DEF Deleting
  <2> QED
    BY <1>4, <1>6, <2>1, <2>2
<1> QED
  BY <1>5, <1>6 DEF Step, Clearings

-----------------------------------------------------------------------------
(* Every action is a Step. *)

StoreTypes ==
    /\ keys \subseteq Tokens /\ tokenSet \subseteq Tokens
    /\ deadlines \subseteq Keys \X Keys

(* The six commands and the expiry keep the order of the deadlines in order. *)
LEMMA Commands ==
  ASSUME StoreTypes, KeysTimed,
         \/ \E t \in Tokens : Setex(t) \/ Sadd(t) \/ Srem(t) \/ DelKey(t)
         \/ ExpireSet \/ DelSet \/ UNCHANGED stored
  PROVE  StoreTypes' /\ KeysTimed'
<1> USE SessionsAssumption DEF StoreTypes, KeysTimed
<1>a. ASSUME NEW k \in Keys, NEW a \in Keys, NEW b \in Keys
      PROVE  /\ <<a, b>> \in Without(k) <=> <<a, b>> \in deadlines /\ k # a /\ k # b
             /\ <<a, b>> \in Renewed(k) <=>
                  \/ <<a, b>> \in deadlines /\ k # a /\ k # b
                  \/ b = k /\ (a = k \/ <<a, a>> \in deadlines)
  BY DEF Without, Renewed, Timed, Keys
<1>1. ASSUME NEW k \in Keys
      PROVE  Without(k) \subseteq Keys \X Keys /\ Renewed(k) \subseteq Keys \X Keys
  <2>1. Without(k) \subseteq Keys \X Keys
    BY DEF Without
  <2>2. \A l \in Timed \cup {k} : <<l, k>> \in Keys \X Keys
    BY DEF Timed, Keys
  <2> QED
    BY <2>1, <2>2 DEF Renewed
<1>2. ASSUME NEW k \in Keys
      PROVE  /\ \A a, b \in Keys : <<a, b>> \in Without(k) =>
                   <<a, a>> \in Without(k) /\ <<b, b>> \in Without(k)
             /\ \A a, b \in Keys : <<a, b>> \in Renewed(k) =>
                   <<a, a>> \in Renewed(k) /\ <<b, b>> \in Renewed(k)
             /\ <<k, k>> \in Renewed(k)
             /\ \A t \in keys : t # k => <<t, t>> \in Without(k) /\ <<t, t>> \in Renewed(k)
  <2>1. \A a, b \in Keys : <<a, b>> \in Without(k) =>
                   <<a, a>> \in Without(k) /\ <<b, b>> \in Without(k)
    BY <1>a
  <2>2. ASSUME NEW a \in Keys, NEW b \in Keys, <<a, b>> \in Renewed(k)
        PROVE  <<a, a>> \in Renewed(k) /\ <<b, b>> \in Renewed(k)
    BY <1>a, <2>2
  <2>3. \A t \in keys : t \in Keys
    BY DEF Keys
  <2> QED
    BY <1>a, <2>1, <2>2, <2>3
<1>3. ASSUME NEW t \in Tokens, Setex(t) PROVE StoreTypes' /\ KeysTimed'
  <2>1. keys' = keys \cup {t} /\ tokenSet' = tokenSet /\ deadlines' = Renewed(t) /\ t \in Keys
    BY <1>3 DEF Setex, Keys
  <2> QED
    BY <1>1, <1>2, <2>1
<1>4. ASSUME NEW t \in Tokens, Sadd(t) PROVE StoreTypes' /\ KeysTimed'
  BY <1>4 DEF Sadd
<1>5. ASSUME NEW t \in Tokens, Srem(t) PROVE StoreTypes' /\ KeysTimed'
  <2>1. /\ keys' = keys /\ tokenSet' \subseteq tokenSet
        /\ deadlines' = deadlines \/ deadlines' = Without(TokenSet)
        /\ TokenSet \in Keys /\ \A u \in keys : u # TokenSet
    BY <1>5 DEF Srem, Keys
  <2> QED
    BY <1>1, <1>2, <2>1
<1>6. ASSUME NEW t \in Tokens, DelKey(t) PROVE StoreTypes' /\ KeysTimed'
  <2>1. keys' = keys \ {t} /\ tokenSet' = tokenSet /\ deadlines' = Without(t) /\ t \in Keys
    BY <1>6 DEF DelKey, Keys
  <2> QED
    BY <1>1, <1>2, <2>1
<1>7. ASSUME ExpireSet PROVE StoreTypes' /\ KeysTimed'
  <2>1. /\ keys' = keys /\ tokenSet' = tokenSet
        /\ deadlines' = deadlines \/ deadlines' = Renewed(TokenSet)
        /\ TokenSet \in Keys /\ \A u \in keys : u # TokenSet
    BY <1>7 DEF ExpireSet, Keys
  <2> QED
    BY <1>1, <1>2, <2>1
<1>8. ASSUME DelSet PROVE StoreTypes' /\ KeysTimed'
  <2>1. /\ keys' = keys /\ tokenSet' = {} /\ deadlines' = Without(TokenSet)
        /\ TokenSet \in Keys /\ \A u \in keys : u # TokenSet
    BY <1>8 DEF DelSet, Keys
  <2> QED
    BY <1>1, <1>2, <2>1
<1>9. ASSUME UNCHANGED stored PROVE StoreTypes' /\ KeysTimed'
  BY <1>9 DEF stored
<1> QED
  BY <1>3, <1>4, <1>5, <1>6, <1>7, <1>8, <1>9

(* What the commands do to the order of a token and the set. *)
LEMMA Orders ==
  ASSUME StoreTypes, KeysTimed, NEW t \in Tokens
  PROVE  /\ \A u \in Tokens : <<TokenSet, u>> \in Renewed(t) => <<TokenSet, u>> \in deadlines \/ u = t
         /\ \A k \in Keys, u \in Tokens : <<TokenSet, u>> \in Without(k) => <<TokenSet, u>> \in deadlines
         /\ \A u \in Tokens : <<TokenSet, u>> \notin Renewed(TokenSet)
BY SessionsAssumption DEF Without, Renewed

(* Only worker w moves. *)
Others(w) == \A v \in Workers : v # w => req'[v] = req[v]

RequestsTyped == req' \in [Workers -> Request]

LEMMA IdleTyped == Idle \in Request
BY SessionsAssumption DEF Idle, Request, Steps

LEMMA Finished ==
  ASSUME TypeOK, NEW w \in Workers, Finish(w)
  PROVE  /\ RequestsTyped /\ Others(w) /\ req'[w] = Idle
         /\ req'[w].at = "idle" /\ req'[w].made = 0
BY IdleTyped DEF TypeOK, Finish, RequestsTyped, Others, Idle

LEMMA Proceeded ==
  ASSUME TypeOK, NEW w \in Workers, NEW step \in Steps, Proceed(w, step)
  PROVE  /\ RequestsTyped /\ Others(w)
         /\ req'[w].at = step /\ req'[w].token = req[w].token /\ req'[w].given = req[w].given
         /\ req'[w].new = req[w].new /\ req'[w].made = req[w].made /\ req'[w].todo = req[w].todo
<1>1. req[w] \in Request
  BY DEF TypeOK
<1>2. req' = [req EXCEPT ![w] = [req[w] EXCEPT !.at = step]]
  BY DEF Proceed, TypeOK
<1>3. [req[w] EXCEPT !.at = step] \in Request
  BY <1>1 DEF Request
<1> QED
  BY <1>1, <1>2, <1>3 DEF TypeOK, RequestsTyped, Others, Request

LEMMA Began ==
  ASSUME TypeOK, NEW w \in Workers, NEW r \in Request, req' = [req EXCEPT ![w] = r]
  PROVE  RequestsTyped /\ Others(w) /\ req'[w] = r
BY DEF TypeOK, RequestsTyped, Others

(* Workers that do not move allow any step. *)
LEMMA WorkerMoves ==
  ASSUME NEW w \in Workers, Others(w), LoginMove(w), LogoutMove(w), ChangeMove(w)
  PROVE  OneMoves /\ Moves
<1>1. OneMoves
  BY DEF Others, OneMoves
<1>2. ASSUME NEW v \in Workers, v # w
      PROVE  LoginMove(v) /\ LogoutMove(v) /\ ChangeMove(v)
  <2>1. req'[v] = req[v]
    BY <1>2 DEF Others
  <2> QED
    BY <2>1 DEF LoginMove, LogoutMove, ChangeMove
<1> QED
  BY <1>1, <1>2 DEF Moves

RowTyped ==
    /\ version \in 0..MaxChanges /\ latest \in 0..MaxChanges
    /\ open \subseteq Conns
    /\ view \in [Conns -> (0..MaxChanges) \cup {None}]
    /\ wrote \in [Conns -> (0..MaxChanges) \cup {None}]
    /\ passwords \in [0..MaxChanges -> Passwords \cup {None}]

HistoryTypes ==
    /\ cleared' \in 0..MaxChanges
    /\ delivered' \subseteq Tokens /\ closed' \subseteq Tokens
    /\ raced' \subseteq Tokens /\ overtaken' \subseteq Tokens /\ inheriting' \subseteq Tokens
    /\ origin' \in [Tokens -> (0..MaxChanges) \cup {None}]
    /\ hollow' \in BOOLEAN /\ failed' \in BOOLEAN

LEMMA TypesFlat ==
  ASSUME TypeOK
  PROVE  /\ RowTyped /\ version \in 0..MaxChanges /\ latest \in 0..MaxChanges
         /\ cleared \in 0..MaxChanges
         /\ StoreTypes
         /\ delivered \subseteq Tokens /\ closed \subseteq Tokens
         /\ raced \subseteq Tokens /\ overtaken \subseteq Tokens /\ inheriting \subseteq Tokens
         /\ req \in [Workers -> Request]
         /\ origin \in [Tokens -> (0..MaxChanges) \cup {None}]
         /\ hollow \in BOOLEAN /\ failed \in BOOLEAN
BY DEF TypeOK, StoreTypes, Keys, RowTyped

LEMMA TypesTogether ==
  ASSUME HistoryTypes, StoreTypes', RequestsTyped, RowTyped'
  PROVE  TypeOK'
BY DEF HistoryTypes, StoreTypes, Keys, RequestsTyped, RowTyped, TypeOK

Command ==
    \/ \E t \in Tokens : Setex(t) \/ Sadd(t) \/ Srem(t) \/ DelKey(t)
    \/ ExpireSet \/ DelSet \/ UNCHANGED stored

(* What every action establishes. *)
Sound == Step /\ TypeOK' /\ KeysTimed' /\ VersionsSuffice' /\ ClosedIsClean'

LEMMA ChangingFinite ==
  IsFiniteSet(Changing) /\ Cardinality(Changing) \in Nat
BY SessionsAssumption, FS_Subset, FS_CardinalityType DEF Changing

LEMMA NoNewVersion ==
  ASSUME TypeOK, VersionsSuffice, NEW w \in Workers, Others(w), latest' = latest,
         req'[w].at \in Pending => req[w].at \in Pending
  PROVE  VersionsSuffice'
<1>1. Changing' \subseteq Changing
  BY DEF Changing, Others
<1>2. Cardinality(Changing') <= Cardinality(Changing) /\ Cardinality(Changing') \in Nat
  BY <1>1, ChangingFinite, FS_Subset, FS_CardinalityType
<1> QED
  BY <1>2, ChangingFinite, SessionsAssumption DEF VersionsSuffice, TypeOK

(* What an action may do to the row. *)
RowStep == RowTyped' /\ ClosedIsClean' /\ version <= version'

LEMMA RowStays ==
  ASSUME TypeOK, ClosedIsClean, UNCHANGED mysql
  PROVE  RowStep /\ latest' = latest
BY TypesFlat, SessionsAssumption DEF RowStep, RowTyped, ClosedIsClean, mysql, row

LEMMA RowRead ==
  ASSUME TypeOK, ClosedIsClean, NEW c \in Conns, Read(c), UNCHANGED passwords
  PROVE  RowStep /\ latest' = latest
<1>1. view' \in [Conns -> (0..MaxChanges) \cup {None}]
  BY TypesFlat DEF Read, RowTyped
<1>2. ClosedIsClean'
  BY TypesFlat DEF Read, ClosedIsClean, RowTyped
<1> QED
  BY <1>1, <1>2, TypesFlat, SessionsAssumption DEF RowStep, RowTyped, Read

(* A connection outside a transaction shows what is committed. *)
LEMMA SeenTyped ==
  ASSUME TypeOK, ClosedIsClean, NEW c \in Conns
  PROVE  Seen(c) \in 0..MaxChanges /\ (c \notin open => Seen(c) = version)
BY TypesFlat DEF RowTyped, ClosedIsClean, Seen, Newer

(* An action is sound if its request moves as it may and its effects on the row,
   on Redis and on the records are those of a Step. *)
LEMMA AssembledAny ==
  ASSUME TypeOK, KeysTimed, NEW w \in Workers, Others(w), RequestsTyped,
         LoginMove(w), LogoutMove(w), ChangeMove(w), RowStep, VersionsSuffice',
         Command, HistoryTypes, Monotone, OriginsSet, KeysGrow, SetGrows, SetShrinks,
         Deliveries, Closings, Clearings, Renewals
  PROVE  Sound
<1>1. Step
  BY WorkerMoves DEF Step
<1>2. StoreTypes' /\ KeysTimed'
  BY Commands, TypesFlat DEF Command
<1>4. TypeOK'
  BY <1>2, TypesTogether DEF RowStep
<1> QED
  BY <1>1, <1>2, <1>4 DEF Sound, RowStep

LEMMA Assembled ==
  ASSUME TypeOK, KeysTimed, VersionsSuffice, ClosedIsClean, NEW w \in Workers, Others(w),
         RequestsTyped, LoginMove(w), LogoutMove(w), ChangeMove(w), UNCHANGED mysql,
         req'[w].at \in Pending => req[w].at \in Pending,
         Command, HistoryTypes, Monotone, OriginsSet, KeysGrow, SetGrows, SetShrinks,
         Deliveries, Closings, Clearings, Renewals
  PROVE  Sound
BY RowStays, NoNewVersion, AssembledAny

(* The same when nothing is stored and nothing recorded. *)
LEMMA QuietAny ==
  ASSUME TypeOK, KeysTimed, NEW w \in Workers, Others(w), RequestsTyped,
         LoginMove(w), LogoutMove(w), ChangeMove(w), RowStep, VersionsSuffice', UNCHANGED stored,
         UNCHANGED <<delivered, origin, closed, cleared, raced, overtaken, inheriting>>,
         failed' \in BOOLEAN, failed => failed', hollow' \in BOOLEAN
  PROVE  Sound
<1> USE DEF stored
<1>1. HistoryTypes
  BY TypesFlat DEF HistoryTypes
<1>2. Monotone
  BY TypesFlat, SessionsAssumption DEF Monotone, RowStep
<1>3. OriginsSet /\ Clearings /\ Closings /\ Deliveries
  BY DEF OriginsSet, Clearings, Closings, Deliveries
<1>4. KeysGrow /\ SetGrows /\ SetShrinks /\ Renewals
  BY DEF KeysGrow, SetGrows, SetShrinks, Renewals
<1> QED
  BY <1>1, <1>2, <1>3, <1>4, AssembledAny DEF Command

LEMMA Quiet ==
  ASSUME TypeOK, KeysTimed, VersionsSuffice, ClosedIsClean, NEW w \in Workers, Others(w),
         RequestsTyped, LoginMove(w), LogoutMove(w), ChangeMove(w), UNCHANGED <<mysql, stored>>,
         req'[w].at \in Pending => req[w].at \in Pending,
         UNCHANGED <<delivered, origin, closed, cleared, raced, overtaken, inheriting>>,
         failed' \in BOOLEAN, failed => failed', hollow' \in BOOLEAN
  PROVE  Sound
BY RowStays, NoNewVersion, QuietAny

Base == TypeOK /\ KeysTimed /\ VersionsSuffice /\ ClosedIsClean /\ \A w \in Workers : Holding(w)

LEMMA StartLoginSound ==
  ASSUME Base, NEW w \in Workers, NEW p \in Passwords, StartLogin(w, p)
  PROVE  Sound
<1> USE DEF Base
<1>1. PICK t \in Fresh : req' = [req EXCEPT ![w] = [Idle EXCEPT !.at = "check", !.given = p, !.token = t]]
  BY DEF StartLogin
<1> DEFINE r == [Idle EXCEPT !.at = "check", !.given = p, !.token = t]
<1>2. r \in Request /\ r.at = "check" /\ r.token = t /\ r.made = 0
  BY SessionsAssumption, IdleTyped DEF Idle, Request, Fresh, Steps
<1> HIDE DEF r
<1>3. RequestsTyped /\ Others(w) /\ req'[w] = r
  BY <1>1, <1>2, Began DEF r
<1>4. LoginMove(w) /\ LogoutMove(w) /\ ChangeMove(w)
  BY <1>2, <1>3 DEF StartLogin, MayStart, At, LoginMove, LogoutMove, ChangeMove,
                    LoginSteps, LogoutSteps, Pending, Deleting
<1>5. /\ UNCHANGED <<mysql, stored, failed, hollow>>
      /\ UNCHANGED <<delivered, origin, closed, cleared, raced, overtaken, inheriting>>
  BY DEF StartLogin, redis, history
<1> QED
  BY <1>2, <1>3, <1>4, <1>5, Quiet, TypesFlat DEF Pending

LEMMA StartLogoutSound ==
  ASSUME Base, NEW w \in Workers, NEW t \in delivered, StartLogout(w, t)
  PROVE  Sound
<1> USE DEF Base
<1> DEFINE r == [Idle EXCEPT !.at = "get", !.token = t]
<1>1. t \in Tokens
  BY TypesFlat
<1>2. r \in Request /\ r.at = "get" /\ r.token = t /\ r.made = 0
  BY <1>1, SessionsAssumption, IdleTyped DEF Idle, Request, Steps
<1> HIDE DEF r
<1>3. RequestsTyped /\ Others(w) /\ req'[w] = r
  BY <1>2, Began DEF r, StartLogout
<1>4. LoginMove(w) /\ LogoutMove(w) /\ ChangeMove(w)
  BY <1>2, <1>3 DEF StartLogout, MayStart, At, LoginMove, LogoutMove, ChangeMove,
                    LoginSteps, LogoutSteps, Pending, Deleting
<1>5. /\ UNCHANGED <<mysql, stored, failed, hollow>>
      /\ UNCHANGED <<delivered, origin, closed, cleared, raced, overtaken, inheriting>>
  BY DEF StartLogout, redis, history
<1> QED
  BY <1>2, <1>3, <1>4, <1>5, Quiet, TypesFlat DEF Pending

LEMMA LoginCheckSound ==
  ASSUME Base, NEW w \in Workers, LoginCheck(w)
  PROVE  Sound
<1> USE DEF Base
<1>1. /\ req[w].at = "check" /\ UNCHANGED <<stored, failed, hollow, passwords>>
      /\ UNCHANGED <<delivered, closed, cleared, raced, overtaken>>
  BY DEF LoginCheck, At, redis, stored
<1>2. CASE Finish(w) /\ UNCHANGED <<origin, inheriting>> /\ (UNCHANGED row \/ \E c \in Conns : Read(c))
  <2>1. RequestsTyped /\ Others(w) /\ req'[w].at = "idle" /\ req'[w].made = 0
    BY <1>2, Finished
  <2>2. LoginMove(w) /\ LogoutMove(w) /\ ChangeMove(w)
    BY <1>1, <2>1 DEF LoginMove, LogoutMove, ChangeMove, LoginSteps, LogoutSteps, Pending, Deleting
  <2>3. RowStep /\ latest' = latest
    BY <1>1, <1>2, RowStays, RowRead DEF mysql
  <2>4. VersionsSuffice'
    BY <2>1, <2>3, NoNewVersion DEF Pending
  <2> QED
    BY <1>1, <1>2, <2>1, <2>2, <2>3, <2>4, QuietAny, TypesFlat
<1>3. ASSUME NEW c \in Conns, Read(c),
             req' = [req EXCEPT ![w] = [Idle EXCEPT !.at = "setex", !.conn = c,
                                                    !.token = req[w].token]],
             origin' = [origin EXCEPT ![req[w].token] = Seen(c)],
             inheriting' = IF c \in open THEN inheriting \cup {req[w].token} ELSE inheriting
      PROVE  Sound
  <2> DEFINE t == req[w].token
             r == [Idle EXCEPT !.at = "setex", !.conn = c, !.token = t]
  <2>1. t \in Tokens
    BY <1>1 DEF Holding, LoginSteps
  <2>2. r \in Request /\ r.at = "setex" /\ r.token = t /\ r.made = 0
    BY <2>1, SessionsAssumption, IdleTyped DEF Idle, Request, Steps
  <2>3. RequestsTyped /\ Others(w) /\ req'[w] = r
    <3> HIDE DEF r
    <3> QED  BY <1>3, <2>2, Began DEF r
  <2> HIDE DEF r
  <2>4. Seen(c) \in 0..MaxChanges /\ (c \notin open => Seen(c) = version)
    BY SeenTyped
  <2>5. /\ origin' \in [Tokens -> (0..MaxChanges) \cup {None}]
        /\ origin'[t] = Seen(c) /\ \A u \in Tokens : u # t => origin'[u] = origin[u]
    BY <1>3, <2>1, <2>4, TypesFlat
  <2>6. /\ inheriting \subseteq inheriting' /\ inheriting' \subseteq Tokens
        /\ origin'[t] # None
        /\ origin'[t] = version \/ t \in inheriting'
    BY <1>3, <2>1, <2>4, <2>5, TypesFlat, SessionsAssumption
  <2>7. LoginMove(w) /\ LogoutMove(w) /\ ChangeMove(w)
    BY <1>1, <2>2, <2>3, <2>6 DEF LoginMove, LogoutMove, ChangeMove, LoginSteps, LogoutSteps,
                            Pending, Deleting
  <2>8. HistoryTypes
    BY <1>1, <2>5, <2>6, TypesFlat DEF HistoryTypes
  <2>9. RowStep /\ latest' = latest
    BY <1>1, <1>3, RowRead
  <2>10. VersionsSuffice'
    BY <2>2, <2>3, <2>9, NoNewVersion DEF Pending
  <2>11. Monotone
    BY <1>1, <2>6, <2>9, TypesFlat DEF Monotone, RowStep
  <2>12. OriginsSet
    BY <1>1, <2>2, <2>3, <2>4, <2>5, SessionsAssumption DEF OriginsSet
  <2>13. KeysGrow /\ SetGrows /\ SetShrinks /\ Renewals /\ Clearings /\ Closings /\ Deliveries
    BY <1>1 DEF KeysGrow, SetGrows, SetShrinks, Renewals, stored, Clearings, Closings, Deliveries
  <2> QED
    BY <1>1, <2>3, <2>7, <2>8, <2>9, <2>10, <2>11, <2>12, <2>13, AssembledAny DEF Command
<1> QED
  BY <1>2, <1>3 DEF LoginCheck

LEMMA LoginSetexSound ==
  ASSUME Base, NEW w \in Workers, LoginSetex(w)
  PROVE  Sound
<1> USE DEF Base
<1> SUFFICES ASSUME NEW t, t = req[w].token PROVE Sound
  OBVIOUS
<1>1. /\ req[w].at = "setex" /\ UNCHANGED <<mysql, delivered, origin, closed, cleared, raced, overtaken, inheriting>>
      /\ Setex(t) \/ UNCHANGED stored
      /\ failed' \in BOOLEAN /\ (failed => failed') /\ hollow' \in BOOLEAN
      /\ Proceed(w, "sadd") \/ Finish(w)
  <2>1. CASE Answers(Setex(t)) /\ Proceed(w, "sadd") /\ UNCHANGED <<mysql, history>>
    <3>1. failed' = failed /\ Setex(t)
      BY <2>1 DEF Answers
    <3> QED
      BY <2>1, <3>1, TypesFlat DEF LoginSetex, At, history
  <2>2. CASE Fails(Setex(t)) /\ LoginWithoutToken(w)
    <3>1. failed' = TRUE /\ (Setex(t) \/ UNCHANGED stored)
      BY <2>2 DEF Fails
    <3> QED
      BY <2>2, <3>1 DEF LoginSetex, At, LoginWithoutToken
  <2> QED
    BY <2>1, <2>2 DEF LoginSetex
<1>2. t \in Tokens
  BY <1>1 DEF Holding, LoginSteps
<1>3. /\ RequestsTyped /\ Others(w)
      /\ req'[w].at = "idle" \/ (req'[w].at = "sadd" /\ req'[w].token = t)
      /\ req'[w].made \in {0, req[w].made}
  BY <1>1, Finished, Proceeded DEF Steps
<1>4. LoginMove(w) /\ LogoutMove(w) /\ ChangeMove(w)
  BY <1>1, <1>3 DEF LoginMove, LogoutMove, ChangeMove, LoginSteps, LogoutSteps, Pending, Deleting
<1>5. HistoryTypes
  BY <1>1, TypesFlat DEF HistoryTypes, mysql
<1>6. Monotone
  BY <1>1, TypesFlat, SessionsAssumption DEF Monotone, mysql, row
<1>7. OriginsSet /\ Clearings /\ Closings /\ Deliveries
  BY <1>1 DEF OriginsSet, Clearings, Closings, Deliveries
<1>8. KeysGrow /\ SetGrows /\ SetShrinks
  BY <1>1, <1>3 DEF KeysGrow, SetGrows, SetShrinks, Setex, stored
<1>9. Renewals
  BY <1>1, <1>2, Orders, TypesFlat DEF Renewals, Setex, stored
<1> QED
  BY <1>1, <1>2, <1>3, <1>4, <1>5, <1>6, <1>7, <1>8, <1>9, Assembled DEF Command, Pending, mysql

LEMMA LoginSaddSound ==
  ASSUME Base, NEW w \in Workers, LoginSadd(w)
  PROVE  Sound
<1> USE DEF Base
<1> SUFFICES ASSUME NEW t, t = req[w].token PROVE Sound
  OBVIOUS
<1>1. /\ req[w].at = "sadd" /\ UNCHANGED <<mysql, delivered, origin, closed, cleared, overtaken, inheriting>>
      /\ Sadd(t) \/ UNCHANGED stored
      /\ failed' \in BOOLEAN /\ (failed => failed') /\ hollow' \in BOOLEAN
      /\ \/ /\ Proceed(w, "expire") /\ Sadd(t)
            /\ raced' = IF Removing THEN raced \cup {t} ELSE raced
         \/ Finish(w) /\ raced' = raced
  <2>1. CASE /\ Answers(Sadd(t)) /\ Proceed(w, "expire")
             /\ raced' = IF Removing THEN raced \cup {t} ELSE raced
             /\ UNCHANGED <<mysql, delivered, origin, closed, cleared, hollow, overtaken, inheriting>>
    <3>1. failed' = failed /\ Sadd(t)
      BY <2>1 DEF Answers
    <3> QED
      BY <2>1, <3>1, TypesFlat DEF LoginSadd, At
  <2>2. CASE Fails(Sadd(t)) /\ LoginWithoutToken(w)
    <3>1. failed' = TRUE /\ (Sadd(t) \/ UNCHANGED stored)
      BY <2>2 DEF Fails
    <3> QED
      BY <2>2, <3>1 DEF LoginSadd, At, LoginWithoutToken
  <2> QED
    BY <2>1, <2>2 DEF LoginSadd
<1>2. t \in Tokens
  BY <1>1 DEF Holding, LoginSteps
<1>3. /\ RequestsTyped /\ Others(w)
      /\ req'[w].at = "idle" \/ (req'[w].at = "expire" /\ req'[w].token = t)
      /\ req'[w].made \in {0, req[w].made}
  BY <1>1, Finished, Proceeded DEF Steps
<1>4. /\ raced \subseteq raced' /\ raced' \subseteq Tokens
      /\ req'[w].at = "expire" => t \in tokenSet' /\ (t \in raced' \/ ~Removing)
  <2>1. CASE Finish(w) /\ raced' = raced
    BY <2>1, Finished, TypesFlat
  <2>2. CASE Sadd(t) /\ raced' = IF Removing THEN raced \cup {t} ELSE raced
    BY <1>2, <2>2, TypesFlat DEF Sadd
  <2> QED
    BY <1>1, <2>1, <2>2
<1>5. LoginMove(w) /\ LogoutMove(w) /\ ChangeMove(w)
  BY <1>1, <1>3, <1>4 DEF LoginMove, LogoutMove, ChangeMove, LoginSteps, LogoutSteps, Pending, Deleting
<1>6. HistoryTypes
  BY <1>1, <1>4, TypesFlat DEF HistoryTypes, mysql
<1>7. Monotone
  BY <1>1, <1>4, TypesFlat, SessionsAssumption DEF Monotone, mysql, row
<1>8. OriginsSet /\ Clearings /\ Closings /\ Deliveries
  BY <1>1 DEF OriginsSet, Clearings, Closings, Deliveries
<1>9. keys' = keys /\ deadlines' = deadlines /\ tokenSet \subseteq tokenSet' /\ tokenSet' \subseteq tokenSet \cup {t}
  BY <1>1 DEF Sadd, stored
<1>10. KeysGrow /\ SetGrows /\ SetShrinks /\ Renewals
  BY <1>1, <1>3, <1>4, <1>9 DEF KeysGrow, SetGrows, SetShrinks, Renewals
<1> QED
  BY <1>1, <1>2, <1>3, <1>5, <1>6, <1>7, <1>8, <1>10, Assembled DEF Command, Pending, mysql

LEMMA LoginExpireSound ==
  ASSUME Base, NEW w \in Workers, LoginExpire(w)
  PROVE  Sound
<1> USE DEF Base
<1> SUFFICES ASSUME NEW t, t = req[w].token PROVE Sound
  OBVIOUS
<1>1. /\ req[w].at = "expire" /\ UNCHANGED <<mysql, origin, closed, cleared, raced, overtaken, inheriting>>
      /\ ExpireSet \/ UNCHANGED stored
      /\ failed' \in BOOLEAN /\ (failed => failed') /\ hollow' \in BOOLEAN
      /\ Finish(w)
      /\ delivered' = delivered \/ (ExpireSet /\ delivered' = delivered \cup {t})
  <2>1. CASE /\ Answers(ExpireSet) /\ Finish(w) /\ delivered' = delivered \cup {t}
             /\ UNCHANGED <<mysql, origin, closed, cleared, hollow, raced, overtaken, inheriting>>
    <3>1. failed' = failed /\ ExpireSet
      BY <2>1 DEF Answers
    <3> QED
      BY <2>1, <3>1, TypesFlat DEF LoginExpire, At
  <2>2. CASE Fails(ExpireSet) /\ LoginWithoutToken(w)
    <3>1. failed' = TRUE /\ (ExpireSet \/ UNCHANGED stored)
      BY <2>2 DEF Fails
    <3> QED
      BY <2>2, <3>1 DEF LoginExpire, At, LoginWithoutToken
  <2> QED
    BY <2>1, <2>2 DEF LoginExpire
<1>2. t \in Tokens
  BY <1>1 DEF Holding, LoginSteps
<1>3. RequestsTyped /\ Others(w) /\ req'[w].at = "idle" /\ req'[w].made = 0
  BY <1>1, Finished
<1>4. LoginMove(w) /\ LogoutMove(w) /\ ChangeMove(w)
  BY <1>1, <1>3 DEF LoginMove, LogoutMove, ChangeMove, LoginSteps, LogoutSteps, Pending, Deleting
<1>5. HistoryTypes
  BY <1>1, <1>2, TypesFlat DEF HistoryTypes, mysql
<1>6. Monotone
  BY <1>1, TypesFlat, SessionsAssumption DEF Monotone, mysql, row
<1>7. OriginsSet /\ Clearings /\ Closings
  BY <1>1 DEF OriginsSet, Clearings, Closings
<1>8. keys' = keys /\ tokenSet' = tokenSet
  BY <1>1 DEF ExpireSet, stored
<1>9. Deliveries
  <2>1. ExpireSet => tokenSet' = {} \/ <<TokenSet, t>> \notin deadlines'
    BY <1>2, Orders, TypesFlat DEF ExpireSet
  <2> QED
    BY <1>1, <1>3, <2>1 DEF Deliveries
<1>10. KeysGrow /\ SetGrows /\ SetShrinks
  BY <1>8 DEF KeysGrow, SetGrows, SetShrinks
<1>11. Renewals
  BY <1>1, <1>2, Orders, TypesFlat DEF Renewals, ExpireSet, stored
<1> QED
  BY <1>1, <1>3, <1>4, <1>5, <1>6, <1>7, <1>9, <1>10, <1>11, Assembled DEF Command, Pending, mysql

LEMMA LogoutGetSound ==
  ASSUME Base, NEW w \in Workers, LogoutGet(w)
  PROVE  Sound
<1> USE DEF Base
<1> SUFFICES ASSUME NEW t, t = req[w].token PROVE Sound
  OBVIOUS
<1>1. /\ req[w].at = "get"
      /\ UNCHANGED <<mysql, stored, delivered, origin, cleared, hollow, raced, overtaken, inheriting>>
      /\ failed' \in BOOLEAN /\ (failed => failed')
      /\ \/ Proceed(w, "srem") /\ closed' = closed
         \/ Finish(w) /\ closed' = closed \cup {t} /\ (t \notin keys' \/ failed')
  <2>1. CASE Proceed(w, "srem") /\ UNCHANGED <<mysql, redis, history>>
    BY <2>1, TypesFlat DEF LogoutGet, At, redis, history
  <2>2. CASE t \notin keys /\ UNCHANGED redis /\ LoggedOut(w)
    BY <2>2, TypesFlat DEF LogoutGet, At, redis, stored, LoggedOut
  <2>3. CASE Fails(FALSE) /\ LoggedOut(w)
    BY <2>3 DEF LogoutGet, At, Fails, LoggedOut
  <2> QED
    BY <2>1, <2>2, <2>3 DEF LogoutGet
<1>2. t \in delivered /\ t \in Tokens
  BY <1>1, TypesFlat DEF Holding, LogoutSteps
<1>3. /\ RequestsTyped /\ Others(w)
      /\ req'[w].at = "idle" \/ (req'[w].at = "srem" /\ req'[w].token = t)
      /\ req'[w].made \in {0, req[w].made}
  BY <1>1, Finished, Proceeded DEF Steps
<1>4. LoginMove(w) /\ LogoutMove(w) /\ ChangeMove(w)
  BY <1>1, <1>2, <1>3 DEF LoginMove, LogoutMove, ChangeMove, LoginSteps, LogoutSteps, Pending, Deleting
<1>5. HistoryTypes
  BY <1>1, <1>2, TypesFlat DEF HistoryTypes, mysql
<1>6. Monotone
  BY <1>1, TypesFlat, SessionsAssumption DEF Monotone, mysql, row
<1>7. OriginsSet /\ Clearings /\ Deliveries
  BY <1>1 DEF OriginsSet, Clearings, Deliveries
<1>8. Closings
  BY <1>1 DEF Closings, LogoutSteps
<1>9. KeysGrow /\ SetGrows /\ SetShrinks /\ Renewals
  BY <1>1 DEF KeysGrow, SetGrows, SetShrinks, Renewals, stored
<1> QED
  BY <1>1, <1>3, <1>4, <1>5, <1>6, <1>7, <1>8, <1>9, Assembled DEF Command, Pending, mysql

LEMMA LogoutSremSound ==
  ASSUME Base, NEW w \in Workers, LogoutSrem(w)
  PROVE  Sound
<1> USE DEF Base
<1> SUFFICES ASSUME NEW t, t = req[w].token PROVE Sound
  OBVIOUS
<1>1. /\ req[w].at = "srem"
      /\ UNCHANGED <<mysql, delivered, origin, cleared, hollow, raced, overtaken, inheriting>>
      /\ Srem(t) \/ UNCHANGED stored
      /\ failed' \in BOOLEAN /\ (failed => failed')
      /\ \/ Proceed(w, "del") /\ closed' = closed
         \/ Finish(w) /\ closed' = closed \cup {t} /\ failed'
  <2>1. CASE Answers(Srem(t)) /\ Proceed(w, "del") /\ UNCHANGED <<mysql, history>>
    <3>1. failed' = failed /\ Srem(t)
      BY <2>1 DEF Answers
    <3> QED
      BY <2>1, <3>1, TypesFlat DEF LogoutSrem, At, history
  <2>2. CASE Fails(Srem(t)) /\ LoggedOut(w)
    <3>1. failed' = TRUE /\ (Srem(t) \/ UNCHANGED stored)
      BY <2>2 DEF Fails
    <3> QED
      BY <2>2, <3>1 DEF LogoutSrem, At, LoggedOut
  <2> QED
    BY <2>1, <2>2 DEF LogoutSrem
<1>2. t \in delivered /\ t \in Tokens
  BY <1>1, TypesFlat DEF Holding, LogoutSteps
<1>3. /\ RequestsTyped /\ Others(w)
      /\ \/ req'[w].at = "idle" /\ t \in closed'
         \/ req'[w].at = "del" /\ req'[w].token = t
      /\ req'[w].made \in {0, req[w].made}
  BY <1>1, Finished, Proceeded DEF Steps
<1>4. LoginMove(w) /\ LogoutMove(w) /\ ChangeMove(w)
  BY <1>1, <1>2, <1>3 DEF LoginMove, LogoutMove, ChangeMove, LoginSteps, LogoutSteps, Pending, Deleting
<1>5. HistoryTypes
  BY <1>1, <1>2, TypesFlat DEF HistoryTypes, mysql
<1>6. Monotone
  BY <1>1, TypesFlat, SessionsAssumption DEF Monotone, mysql, row
<1>7. OriginsSet /\ Clearings /\ Deliveries
  BY <1>1 DEF OriginsSet, Clearings, Deliveries
<1>8. Closings
  BY <1>1 DEF Closings, LogoutSteps
<1>9. keys' = keys /\ tokenSet' \subseteq tokenSet /\ tokenSet \ tokenSet' \subseteq {t}
  BY <1>1 DEF Srem, stored
<1>10. KeysGrow /\ SetGrows
  BY <1>9 DEF KeysGrow, SetGrows
<1>11. SetShrinks
  BY <1>1, <1>3, <1>9 DEF SetShrinks
<1>12. Renewals
  <2>1. TokenSet \in Keys
    BY DEF Keys
  <2> QED
    BY <1>1, <1>2, <2>1, Orders, TypesFlat DEF Renewals, Srem, stored
<1> QED
  BY <1>1, <1>2, <1>3, <1>4, <1>5, <1>6, <1>7, <1>8, <1>10, <1>11, <1>12, Assembled
     DEF Command, Pending, mysql

LEMMA LogoutDelSound ==
  ASSUME Base, NEW w \in Workers, LogoutDel(w)
  PROVE  Sound
<1> USE DEF Base
<1> SUFFICES ASSUME NEW t, t = req[w].token PROVE Sound
  OBVIOUS
<1>1. /\ req[w].at = "del"
      /\ UNCHANGED <<mysql, delivered, origin, cleared, hollow, raced, overtaken, inheriting>>
      /\ DelKey(t) \/ UNCHANGED stored
      /\ failed' \in BOOLEAN /\ (failed => failed')
      /\ Finish(w) /\ closed' = closed \cup {t} /\ (t \notin keys' \/ failed')
  <2>1. CASE Answers(DelKey(t))
    <3>1. failed' = failed /\ DelKey(t) /\ t \notin keys'
      BY <2>1 DEF Answers, DelKey
    <3> QED
      BY <3>1, TypesFlat DEF LogoutDel, At, LoggedOut
  <2>2. CASE Fails(DelKey(t))
    <3>1. failed' = TRUE /\ (DelKey(t) \/ UNCHANGED stored)
      BY <2>2 DEF Fails
    <3> QED
      BY <3>1 DEF LogoutDel, At, LoggedOut
  <2> QED
    BY <2>1, <2>2 DEF LogoutDel
<1>2. t \in delivered /\ t \in Tokens
  BY <1>1, TypesFlat DEF Holding, LogoutSteps
<1>3. RequestsTyped /\ Others(w) /\ req'[w].at = "idle" /\ req'[w].made = 0
  BY <1>1, Finished
<1>4. LoginMove(w) /\ LogoutMove(w) /\ ChangeMove(w)
  BY <1>1, <1>2, <1>3 DEF LoginMove, LogoutMove, ChangeMove, LoginSteps, LogoutSteps, Pending, Deleting
<1>5. HistoryTypes
  BY <1>1, <1>2, TypesFlat DEF HistoryTypes, mysql
<1>6. Monotone
  BY <1>1, TypesFlat, SessionsAssumption DEF Monotone, mysql, row
<1>7. OriginsSet /\ Clearings /\ Deliveries
  BY <1>1 DEF OriginsSet, Clearings, Deliveries
<1>8. Closings
  BY <1>1 DEF Closings, LogoutSteps
<1>9. KeysGrow /\ SetGrows /\ SetShrinks
  BY <1>1 DEF KeysGrow, SetGrows, SetShrinks, DelKey, stored
<1>10. Renewals
  BY <1>1, <1>2, Orders, TypesFlat DEF Renewals, DelKey, stored, Keys
<1> QED
  BY <1>1, <1>2, <1>3, <1>4, <1>5, <1>6, <1>7, <1>8, <1>9, <1>10, Assembled
     DEF Command, Pending, mysql

LEMMA StartChangeSound ==
  ASSUME Base, NEW w \in Workers, NEW t \in delivered, NEW old \in Passwords, NEW new \in Passwords,
         StartChange(w, t, old, new)
  PROVE  Sound
<1> USE DEF Base
<1> DEFINE r == [Idle EXCEPT !.at = "verify", !.token = t, !.given = old, !.new = new]
<1>1. t \in Tokens
  BY TypesFlat
<1>2. /\ r \in Request /\ r.at = "verify" /\ r.token = t /\ r.new = new /\ r.made = 0
  BY <1>1, SessionsAssumption, IdleTyped DEF Idle, Request, Steps
<1> HIDE DEF r
<1>3. RequestsTyped /\ Others(w) /\ req'[w] = r
  BY <1>2, Began DEF r, StartChange
<1>4. LoginMove(w) /\ LogoutMove(w) /\ ChangeMove(w)
  BY <1>2, <1>3 DEF StartChange, MayStart, At, LoginMove, LogoutMove, ChangeMove,
                    LoginSteps, LogoutSteps, Pending, Deleting
<1>5. UNCHANGED <<mysql, redis, history>>
  BY DEF StartChange
<1>6. Step
  <2>1. OneMoves /\ Moves
    BY <1>3, <1>4, WorkerMoves
  <2>2. Monotone
    BY <1>5, TypesFlat, SessionsAssumption DEF Monotone, mysql, row, redis, history
  <2>3. OriginsSet /\ Clearings /\ Closings /\ Deliveries
    BY <1>5 DEF OriginsSet, Clearings, Closings, Deliveries, history
  <2>4. KeysGrow /\ SetGrows /\ SetShrinks /\ Renewals
    BY <1>5 DEF KeysGrow, SetGrows, SetShrinks, Renewals, redis, stored
  <2> QED
    BY <2>1, <2>2, <2>3, <2>4 DEF Step
<1>7. StoreTypes' /\ KeysTimed'
  BY <1>5, TypesFlat DEF StoreTypes, KeysTimed, redis, stored
<1>8. TypeOK' /\ ClosedIsClean'
  <2>1. HistoryTypes
    BY <1>5, TypesFlat DEF HistoryTypes, redis, history
  <2>2. RowStep
    BY <1>5, RowStays
  <2> QED
    BY <1>3, <1>7, <2>1, <2>2, TypesTogether DEF RowStep
<1>9. VersionsSuffice'
  <2> DEFINE C == {v \in Workers : req[v].new # None}
  <2>1. IsFiniteSet(C) /\ Cardinality(C) \in Nat
    BY SessionsAssumption, FS_Subset, FS_CardinalityType
  <2>2. Changing \subseteq C
    BY SessionsAssumption DEF Changing, Holding
  <2>3. Changing' \subseteq Changing \cup {w}
    BY <1>3 DEF Changing, Others
  <2>4. Cardinality(Changing) <= Cardinality(C)
    BY <2>1, <2>2, FS_Subset
  <2>5. /\ IsFiniteSet(Changing \cup {w})
        /\ Cardinality(Changing \cup {w}) \in Nat
        /\ Cardinality(Changing \cup {w}) <= Cardinality(Changing) + 1
    <3>1. IsFiniteSet(Changing \cup {w})
      BY ChangingFinite, FS_AddElement
    <3>2. CASE w \in Changing
      <4>1. Changing \cup {w} = Changing
        BY <3>2
      <4>2. Cardinality(Changing \cup {w}) = Cardinality(Changing)
        BY <4>1
      <4> HIDE DEF C
      <4> QED
        BY <3>1, <4>2, ChangingFinite
    <3>3. CASE w \notin Changing
      BY <3>1, <3>3, ChangingFinite, FS_AddElement
    <3> QED
      BY <3>2, <3>3
  <2>6. Cardinality(Changing') <= Cardinality(Changing \cup {w}) /\ Cardinality(Changing') \in Nat
    BY <2>3, <2>5, FS_Subset, FS_CardinalityType
  <2>7. latest + Cardinality(C) < MaxChanges /\ latest' = latest
    BY <1>5 DEF StartChange, mysql, row
  <2> HIDE DEF C
  <2>8. latest \in Nat /\ MaxChanges \in Nat
    BY SessionsAssumption, TypesFlat
  <2> QED
    BY <2>1, <2>4, <2>5, <2>6, <2>7, <2>8, ChangingFinite DEF VersionsSuffice
<1> QED
  BY <1>6, <1>7, <1>8, <1>9 DEF Sound

LEMMA ChangeVerifySound ==
  ASSUME Base, NEW w \in Workers, ChangeVerify(w)
  PROVE  Sound
<1> USE DEF Base
<1>1. /\ req[w].at = "verify"
      /\ UNCHANGED <<mysql, stored, delivered, origin, closed, cleared, hollow, raced, overtaken, inheriting>>
      /\ failed' \in BOOLEAN /\ (failed => failed')
      /\ Proceed(w, "select") \/ Finish(w)
  <2>1. CASE UNCHANGED redis
    BY <2>1, TypesFlat DEF ChangeVerify, At, redis, history, Fails
  <2>2. CASE Fails(FALSE)
    <3>1. failed' = TRUE /\ UNCHANGED stored
      BY <2>2 DEF Fails
    <3> QED
      BY <2>2, <3>1 DEF ChangeVerify, At, history
  <2> QED
    BY <2>1, <2>2 DEF ChangeVerify
<1>2. /\ RequestsTyped /\ Others(w)
      /\ \/ req'[w].at = "idle"
         \/ req'[w].at = "select" /\ req'[w].new = req[w].new
      /\ req'[w].made \in {0, req[w].made}
  BY <1>1, Finished, Proceeded DEF Steps
<1>3. LoginMove(w) /\ LogoutMove(w) /\ ChangeMove(w)
  BY <1>1, <1>2 DEF LoginMove, LogoutMove, ChangeMove, LoginSteps, LogoutSteps, Pending, Deleting
<1> QED
  BY <1>1, <1>2, <1>3, Quiet, TypesFlat DEF Pending

LEMMA ChangeSelectSound ==
  ASSUME Base, NEW w \in Workers, ChangeSelect(w)
  PROVE  Sound
<1> USE DEF Base
<1>1. /\ req[w].at = "select"
      /\ UNCHANGED <<passwords, stored, failed, delivered, origin, closed, cleared>>
      /\ UNCHANGED <<hollow, raced, overtaken, inheriting>>
  BY DEF ChangeSelect, At, redis, history
<1>2. RowStep /\ latest' = latest
  BY <1>1, RowStays, RowRead DEF ChangeSelect, mysql
<1>3. CASE Finish(w)
  <2>1. RequestsTyped /\ Others(w) /\ req'[w].at = "idle" /\ req'[w].made = 0
    BY <1>3, Finished
  <2>2. LoginMove(w) /\ LogoutMove(w) /\ ChangeMove(w)
    BY <1>1, <2>1 DEF LoginMove, LogoutMove, ChangeMove, LoginSteps, LogoutSteps, Pending, Deleting
  <2>3. VersionsSuffice'
    BY <1>2, <2>1, NoNewVersion DEF Pending
  <2> QED
    BY <1>1, <1>2, <2>1, <2>2, <2>3, QuietAny, TypesFlat
<1>4. ASSUME NEW c \in Conns,
             req' = [req EXCEPT ![w].at = "update", ![w].conn = c, ![w].token = None]
      PROVE  Sound
  <2> DEFINE r == [req[w] EXCEPT !.at = "update", !.conn = c, !.token = None]
  <2>1. /\ r \in Request /\ r.at = "update" /\ r.conn = c
        /\ r.new = req[w].new /\ r.made = req[w].made
    BY TypesFlat DEF Request, Steps
  <2>2. req' = [req EXCEPT ![w] = r]
    BY <1>4, TypesFlat
  <2> HIDE DEF r
  <2>3. RequestsTyped /\ Others(w) /\ req'[w] = r
    BY <2>1, <2>2, Began
  <2>4. LoginMove(w) /\ LogoutMove(w) /\ ChangeMove(w)
    BY <1>1, <2>1, <2>3 DEF LoginMove, LogoutMove, ChangeMove, LoginSteps, LogoutSteps,
                            Pending, Deleting
  <2>5. VersionsSuffice'
    BY <1>1, <1>2, <2>1, <2>3, NoNewVersion DEF Pending
  <2> QED
    BY <1>1, <1>2, <2>3, <2>4, <2>5, QuietAny, TypesFlat
<1> QED
  BY <1>3, <1>4 DEF ChangeSelect

(* The UPDATE takes one of the versions left. *)
LEMMA UpdateWrites ==
  ASSUME Base, NEW w \in Workers, req[w].at = "update", WritePassword(w), Others(w),
         req'[w].at \notin Pending
  PROVE  /\ RowStep /\ VersionsSuffice'
<1> USE DEF Base
<1>1. w \in Changing
  BY DEF Changing, Pending
<1>2. Cardinality(Changing) > 0
  BY <1>1, ChangingFinite, FS_EmptySet
<1>3. latest \in Nat /\ MaxChanges \in Nat /\ latest + 1 \in 0..MaxChanges /\ latest' = latest + 1
  BY <1>2, ChangingFinite, SessionsAssumption, TypesFlat DEF VersionsSuffice, WritePassword, Write
<1>8. VersionsSuffice'
  <2>1. Changing' = Changing \ {w}
    BY DEF Changing, Others
  <2>2. Cardinality(Changing') = Cardinality(Changing) - 1
    BY <1>1, <2>1, ChangingFinite, FS_RemoveElement
  <2> QED
    BY <1>3, <2>2, ChangingFinite DEF VersionsSuffice
<1> SUFFICES ASSUME NEW c \in Conns, c = req[w].conn
             PROVE  RowStep /\ VersionsSuffice'
  BY DEF Holding, At
<1>4. req[w].new \in Passwords
  BY DEF Holding, Pending
<1>5. passwords' \in [0..MaxChanges -> Passwords \cup {None}]
  BY <1>3, <1>4, TypesFlat DEF WritePassword, RowTyped
<1>6. CASE c \in open
  <2>1. /\ wrote' = [wrote EXCEPT ![c] = latest + 1] /\ version' = version
        /\ UNCHANGED <<open, view>>
    BY <1>6 DEF WritePassword, Write
  <2>2. wrote' \in [Conns -> (0..MaxChanges) \cup {None}]
    BY <1>3, <2>1, TypesFlat DEF RowTyped
  <2>3. ClosedIsClean'
    BY <1>6, <2>1, TypesFlat DEF ClosedIsClean, RowTyped
  <2> QED
    BY <1>3, <1>5, <2>1, <2>2, <2>3, <1>8, TypesFlat DEF RowStep, RowTyped
<1>7. CASE c \notin open
  <2>1. version' = Newer(version, latest + 1) /\ UNCHANGED <<open, view, wrote>>
    BY <1>7 DEF WritePassword, Write
  <2>2. version' \in 0..MaxChanges /\ version <= version'
    BY <1>3, <2>1, TypesFlat DEF Newer
  <2>3. ClosedIsClean'
    BY <2>1 DEF ClosedIsClean
  <2> QED
    BY <1>3, <1>5, <2>1, <2>2, <2>3, <1>8, TypesFlat DEF RowStep, RowTyped
<1> QED
  BY <1>6, <1>7

LEMMA ChangeUpdateSound ==
  ASSUME Base, NEW w \in Workers, ChangeUpdate(w)
  PROVE  Sound
<1> USE DEF Base
<1>1. /\ req[w].at = "update"
      /\ UNCHANGED <<stored, failed, delivered, origin, closed, cleared, hollow, raced, inheriting>>
  BY DEF ChangeUpdate, At, redis
<1>2. CASE Finish(w) /\ UNCHANGED overtaken /\ (UNCHANGED mysql \/ WritePassword(w))
  <2>1. RequestsTyped /\ Others(w) /\ req'[w].at = "idle" /\ req'[w].made = 0
    BY <1>2, Finished
  <2>2. LoginMove(w) /\ LogoutMove(w) /\ ChangeMove(w)
    BY <1>1, <2>1 DEF LoginMove, LogoutMove, ChangeMove, LoginSteps, LogoutSteps, Pending, Deleting
  <2>3. RowStep /\ VersionsSuffice'
    BY <1>1, <1>2, <2>1, RowStays, NoNewVersion, UpdateWrites DEF Pending
  <2> QED
    BY <1>1, <1>2, <2>1, <2>2, <2>3, QuietAny, TypesFlat
<1>3. CASE /\ WritePassword(w)
           /\ LET committed == req[w].conn \notin open
              IN  /\ req' = [req EXCEPT ![w] = [Idle EXCEPT !.at = "smembers", !.conn = req[w].conn,
                                                  !.made = IF committed THEN version' ELSE 0]]
                  /\ overtaken' = IF committed THEN overtaken \cup StoringTokens ELSE overtaken
  <2> DEFINE m == IF req[w].conn \notin open THEN version' ELSE 0
             r == [Idle EXCEPT !.at = "smembers", !.conn = req[w].conn, !.made = m]
  <2>1. m \in 0..MaxChanges
    <3>1. latest \in Nat /\ MaxChanges \in Nat /\ latest + 1 \in 0..MaxChanges
      <4>1. w \in Changing
        BY <1>1 DEF Changing, Pending
      <4>2. Cardinality(Changing) > 0
        BY <4>1, ChangingFinite, FS_EmptySet
      <4> QED
        BY <4>2, ChangingFinite, SessionsAssumption, TypesFlat DEF VersionsSuffice
    <3>2. version' \in {version, latest + 1}
      BY <1>3 DEF WritePassword, Write, Newer
    <3> QED
      BY <3>1, <3>2, TypesFlat
  <2>2. r \in Request /\ r.at = "smembers" /\ r.made = m
    <3>1. req[w].conn \in Conns
      BY <1>1 DEF Holding, At
    <3> HIDE DEF m
    <3> QED
      BY <2>1, <3>1, SessionsAssumption, IdleTyped DEF Idle, Request, Steps
  <2>3. req' = [req EXCEPT ![w] = r]
    BY <1>3
  <2> HIDE DEF r
  <2>4. RequestsTyped /\ Others(w) /\ req'[w] = r
    BY <2>2, <2>3, Began
  <2>5. req[w].conn \notin open => \A u \in Workers : req[u].at \in Stored => req[u].token \in overtaken'
    BY <1>3 DEF Stored, StoringTokens
  <2>6. m = 0 \/ (m = version' /\ req[w].conn \notin open)
    OBVIOUS
  <2> HIDE DEF m
  <2>7. LoginMove(w) /\ LogoutMove(w) /\ ChangeMove(w)
    BY <1>1, <2>2, <2>4, <2>5, <2>6 DEF LoginMove, LogoutMove, ChangeMove, LoginSteps, LogoutSteps,
                                  Pending, Deleting
  <2>8. overtaken \subseteq overtaken' /\ overtaken' \subseteq Tokens
    BY <1>3, TypesFlat DEF Holding, LoginSteps, StoringTokens
  <2>9. RowStep /\ VersionsSuffice'
    BY <1>1, <1>3, <2>2, <2>4, UpdateWrites DEF Pending
  <2>10. HistoryTypes
    BY <1>1, <2>8, TypesFlat DEF HistoryTypes
  <2>11. Monotone
    BY <1>1, <2>8, <2>9, TypesFlat DEF Monotone, RowStep
  <2>12. OriginsSet /\ Clearings /\ Closings /\ Deliveries
    BY <1>1 DEF OriginsSet, Clearings, Closings, Deliveries
  <2>13. KeysGrow /\ SetGrows /\ SetShrinks /\ Renewals
    BY <1>1 DEF KeysGrow, SetGrows, SetShrinks, Renewals, stored
  <2> QED
    BY <1>1, <2>4, <2>7, <2>9, <2>10, <2>11, <2>12, <2>13, AssembledAny DEF Command
<1> QED
  BY <1>2, <1>3 DEF ChangeUpdate

(* The answer of a password change. *)
LEMMA ChangedSound ==
  ASSUME Base, NEW w \in Workers, req[w].at \in Deleting, Changed(w),
         \/ failed'
         \/ req[w].at = "delEach" /\ req[w].todo = {},
         failed' \in BOOLEAN, failed => failed',
         \/ UNCHANGED stored
         \/ \E t \in Tokens : DelKey(t)
         \/ DelSet /\ req[w].at = "delEach" /\ req[w].todo = {}
  PROVE  Sound
<1> USE DEF Base
<1>1. UNCHANGED <<mysql, delivered, origin, closed, hollow, raced, overtaken, inheriting>>
  BY DEF Changed
<1>2. RequestsTyped /\ Others(w) /\ req'[w].at = "idle" /\ req'[w].made = 0
  BY Finished DEF Changed
<1>3. LoginMove(w) /\ LogoutMove(w) /\ ChangeMove(w)
  BY <1>2 DEF LoginMove, LogoutMove, ChangeMove, LoginSteps, LogoutSteps, Pending, Deleting
<1>4. req[w].made \in 0..MaxChanges
  BY TypesFlat DEF Request
<1>5. HistoryTypes
  BY <1>1, <1>4, TypesFlat DEF HistoryTypes, mysql, Changed
<1>6. Monotone
  BY <1>1, TypesFlat, SessionsAssumption DEF Monotone, mysql, row
<1>7. OriginsSet /\ Closings /\ Deliveries
  BY <1>1 DEF OriginsSet, Closings, Deliveries
<1>8. Clearings
  BY DEF Clearings, Changed
<1>9. keys' \subseteq keys /\ tokenSet' \subseteq tokenSet
  BY DEF DelKey, DelSet, stored
<1>10. KeysGrow /\ SetGrows
  BY <1>9 DEF KeysGrow, SetGrows
<1>11. SetShrinks
  BY DEF SetShrinks, DelKey, DelSet, stored
<1>12. Renewals
  BY Orders, TypesFlat DEF Renewals, DelKey, DelSet, stored, Keys
<1> QED
  BY <1>1, <1>2, <1>3, <1>5, <1>6, <1>7, <1>8, <1>10, <1>11, <1>12, Assembled
     DEF Command, Pending, mysql

LEMMA ChangeSmembersSound ==
  ASSUME Base, NEW w \in Workers, ChangeSmembers(w)
  PROVE  Sound
<1> USE DEF Base
<1>1. req[w].at = "smembers"
  BY DEF ChangeSmembers, At
<1>2. CASE Fails(FALSE) /\ Changed(w)
  <2>1. failed' = TRUE /\ UNCHANGED stored
    BY <1>2 DEF Fails
  <2> QED
    BY <1>1, <1>2, <2>1, ChangedSound DEF Deleting
<1>3. CASE /\ req' = [req EXCEPT ![w].at = "delEach", ![w].todo = tokenSet]
           /\ UNCHANGED <<mysql, redis, history>>
  <2> DEFINE r == [req[w] EXCEPT !.at = "delEach", !.todo = tokenSet]
  <2>1. /\ r \in Request /\ r.at = "delEach" /\ r.made = req[w].made /\ r.todo = tokenSet
    BY TypesFlat DEF Request, Steps, StoreTypes
  <2>2. req' = [req EXCEPT ![w] = r]
    BY <1>3, TypesFlat
  <2> HIDE DEF r
  <2>3. RequestsTyped /\ Others(w) /\ req'[w] = r
    BY <2>1, <2>2, Began
  <2>4. /\ UNCHANGED <<mysql, stored, failed, hollow>>
        /\ UNCHANGED <<delivered, origin, closed, cleared, raced, overtaken, inheriting>>
    BY <1>3 DEF redis, history
  <2>5. LoginMove(w) /\ LogoutMove(w) /\ ChangeMove(w)
    BY <1>1, <2>1, <2>3, <2>4 DEF LoginMove, LogoutMove, ChangeMove, LoginSteps, LogoutSteps,
                                  Pending, Deleting, stored
  <2> QED
    BY <2>1, <2>3, <2>4, <2>5, Quiet, TypesFlat DEF Pending
<1> QED
  BY <1>2, <1>3 DEF ChangeSmembers

LEMMA ChangeDelKeySound ==
  ASSUME Base, NEW w \in Workers, ChangeDelKey(w)
  PROVE  Sound
<1> USE DEF Base
<1>1. req[w].at = "delEach" /\ req[w].todo \subseteq Tokens
  BY TypesFlat DEF ChangeDelKey, At, Request
<1>2. PICK t \in req[w].todo :
         \/ /\ Answers(DelKey(t))
            /\ req' = [req EXCEPT ![w].todo = @ \ {t}]
            /\ UNCHANGED <<mysql, history>>
         \/ Fails(DelKey(t)) /\ Changed(w)
  BY DEF ChangeDelKey
<1>3. CASE Fails(DelKey(t)) /\ Changed(w)
  <2>1. failed' = TRUE /\ (DelKey(t) \/ UNCHANGED stored)
    BY <1>3 DEF Fails
  <2> QED
    BY <1>1, <1>3, <2>1, ChangedSound DEF Deleting
<1>4. CASE /\ Answers(DelKey(t))
           /\ req' = [req EXCEPT ![w].todo = @ \ {t}]
           /\ UNCHANGED <<mysql, history>>
  <2> DEFINE r == [req[w] EXCEPT !.todo = @ \ {t}]
  <2>1. /\ r \in Request /\ r.at = "delEach" /\ r.made = req[w].made
        /\ r.todo = req[w].todo \ {t}
    BY <1>1, TypesFlat DEF Request, Steps
  <2>2. req' = [req EXCEPT ![w] = r]
    BY <1>4, TypesFlat
  <2> HIDE DEF r
  <2>3. RequestsTyped /\ Others(w) /\ req'[w] = r
    BY <2>1, <2>2, Began
  <2>4. /\ UNCHANGED <<mysql, failed, hollow>>
        /\ UNCHANGED <<delivered, origin, closed, cleared, raced, overtaken, inheriting>>
        /\ DelKey(t) /\ keys' = keys \ {t} /\ tokenSet' = tokenSet
    BY <1>4 DEF Answers, DelKey, history
  <2>5. LoginMove(w) /\ LogoutMove(w) /\ ChangeMove(w)
    BY <1>1, <2>1, <2>3, <2>4 DEF LoginMove, LogoutMove, ChangeMove, LoginSteps, LogoutSteps,
                                  Pending, Deleting
  <2>6. HistoryTypes
    BY <2>4, TypesFlat DEF HistoryTypes, mysql
  <2>7. Monotone
    BY <2>4, TypesFlat, SessionsAssumption DEF Monotone, mysql, row
  <2>8. OriginsSet /\ Clearings /\ Closings /\ Deliveries
    BY <2>4 DEF OriginsSet, Clearings, Closings, Deliveries
  <2>9. KeysGrow /\ SetGrows /\ SetShrinks
    BY <2>4 DEF KeysGrow, SetGrows, SetShrinks
  <2>10. Renewals
    BY <1>1, <2>4, Orders, TypesFlat DEF Renewals, DelKey, Keys
  <2> QED
    BY <1>1, <2>1, <2>3, <2>4, <2>5, <2>6, <2>7, <2>8, <2>9, <2>10, Assembled
       DEF Command, Pending, mysql
<1> QED
  BY <1>2, <1>3, <1>4

LEMMA ChangeDelSetSound ==
  ASSUME Base, NEW w \in Workers, ChangeDelSet(w)
  PROVE  Sound
<1>1. req[w].at = "delEach" /\ req[w].todo = {} /\ Changed(w)
  BY DEF ChangeDelSet, At
<1>2. CASE Answers(DelSet)
  BY <1>1, <1>2, ChangedSound, TypesFlat DEF Answers, Deleting, Base
<1>3. CASE Fails(DelSet)
  BY <1>1, <1>3, ChangedSound, TypesFlat DEF Fails, Deleting, Base
<1> QED
  BY <1>2, <1>3 DEF ChangeDelSet

(* Time passes, other requests use the connections, or nothing happens. *)
LEMMA NobodyMoves ==
  ASSUME Base, req' = req, RowStep, latest' = latest, StoreTypes', KeysTimed', HistoryTypes,
         Monotone, OriginsSet, KeysGrow, SetGrows, SetShrinks,
         Deliveries, Closings, Clearings, Renewals
  PROVE  Sound
<1> USE DEF Base
<1>1. OneMoves
  BY DEF OneMoves
<1>2. Moves
  BY DEF Moves, LoginMove, LogoutMove, ChangeMove
<1>3. VersionsSuffice'
  BY DEF VersionsSuffice, Changing
<1>4. TypeOK'
  BY TypesFlat, TypesTogether DEF RequestsTyped, RowStep
<1> QED
  BY <1>1, <1>2, <1>3, <1>4 DEF Sound, Step, RowStep

LEMMA NothingStored ==
  ASSUME Base, RowStep, latest' = latest, UNCHANGED <<redis, req, history>>
  PROVE  Sound
<1> USE DEF redis, stored, history
<1>1. HistoryTypes /\ StoreTypes' /\ KeysTimed' /\ Monotone
  BY TypesFlat, SessionsAssumption DEF HistoryTypes, StoreTypes, KeysTimed, Monotone, Base, RowStep
<1>2. /\ OriginsSet /\ KeysGrow /\ SetGrows /\ SetShrinks
      /\ Deliveries /\ Closings /\ Clearings /\ Renewals
  BY DEF OriginsSet, KeysGrow, SetGrows, SetShrinks, Deliveries, Closings, Clearings, Renewals
<1> QED
  BY <1>1, <1>2, NobodyMoves

LEMMA StutterSound ==
  ASSUME Base, UNCHANGED vars
  PROVE  Sound
BY RowStays, NothingStored DEF vars, Base

LEMMA ElsewhereSound ==
  ASSUME Base, Elsewhere
  PROVE  Sound
<1> USE DEF Base
<1>1. PICK c \in Conns : LeaveOpen(c) \/ Read(c) \/ Settle(c) \/ Lose(c)
  BY DEF Elsewhere, LookElsewhere
<1>2. UNCHANGED <<passwords, redis, req, history>>
  BY DEF Elsewhere
<1>3. CASE Read(c)
  BY <1>2, <1>3, RowRead, NothingStored
<1>4. CASE LeaveOpen(c)
  <2>1. RowStep /\ latest' = latest
    BY <1>2, <1>4, TypesFlat, SessionsAssumption DEF LeaveOpen, RowStep, RowTyped, ClosedIsClean
  <2> QED
    BY <1>2, <2>1, NothingStored
<1>5. CASE Settle(c) \/ Lose(c)
  <2>1. CloseTransaction(c) /\ version' \in {version, Newer(version, wrote[c])}
    BY <1>5 DEF Settle, Lose
  <2>2. version' \in 0..MaxChanges /\ version <= version'
    BY <2>1, TypesFlat, SessionsAssumption DEF Newer, RowTyped
  <2>3. RowTyped' /\ latest' = latest
    BY <1>2, <2>1, <2>2, TypesFlat DEF RowTyped, CloseTransaction
  <2>4. ClosedIsClean'
    BY <2>1, TypesFlat DEF ClosedIsClean, CloseTransaction, RowTyped
  <2> QED
    BY <1>2, <2>2, <2>3, <2>4, NothingStored DEF RowStep
<1> QED
  BY <1>1, <1>3, <1>4, <1>5

LEMMA ExpireSound ==
  ASSUME Base, Expire
  PROVE  Sound
<1> USE DEF Base
<1>1. UNCHANGED <<mysql, failed, req, delivered, origin, closed, cleared, hollow, overtaken, inheriting>>
  BY DEF Expire
<1>2. PICK k \in Timed :
         /\ \A l \in Timed : <<k, l>> \in deadlines
         /\ deadlines' = Without(k)
         /\ IF k = TokenSet
            THEN /\ tokenSet' = {}
                 /\ raced' = raced \cup {t \in tokenSet :
                                 \E w \in Workers : At(w, "expire") /\ req[w].token = t}
                 /\ UNCHANGED keys
            ELSE keys' = keys \ {k} /\ UNCHANGED <<tokenSet, raced>>
  BY DEF Expire
<1>3. k \in Keys
  BY DEF Timed, Keys
<1>4. /\ keys' \subseteq keys /\ k \notin keys' /\ tokenSet' \subseteq tokenSet
      /\ raced \subseteq raced' /\ raced' \subseteq Tokens
  BY <1>2, SessionsAssumption, TypesFlat DEF StoreTypes
<1>5. StoreTypes'
  BY <1>2, <1>4, TypesFlat DEF StoreTypes, Without
<1>6. KeysTimed'
  <2>1. \A a, b : <<a, b>> \in Without(k) <=> <<a, b>> \in deadlines /\ k # a /\ k # b
    BY DEF Without
  <2> QED
    BY <1>2, <1>4, <2>1 DEF KeysTimed
<1>7. HistoryTypes
  BY <1>1, <1>4, TypesFlat DEF HistoryTypes
<1>13. RowStep /\ latest' = latest
  BY <1>1, RowStays
<1>8. Monotone
  BY <1>1, <1>4, <1>13, TypesFlat DEF Monotone, RowStep
<1>9. OriginsSet /\ Clearings /\ Closings /\ Deliveries
  BY <1>1 DEF OriginsSet, Clearings, Closings, Deliveries
<1>10. KeysGrow /\ SetGrows
  BY <1>4 DEF KeysGrow, SetGrows
<1>11. SetShrinks
  BY <1>2 DEF SetShrinks, At
<1>12. Renewals
  BY <1>2, <1>3, Orders, TypesFlat, SessionsAssumption DEF Renewals
<1> QED
  BY <1>1, <1>5, <1>6, <1>7, <1>8, <1>9, <1>10, <1>11, <1>12, <1>13, NobodyMoves

-----------------------------------------------------------------------------
LEMMA EveryStep ==
  ASSUME Base, [Next]_vars
  PROVE  Sound
<1>1. ASSUME NEW w \in Workers, Start(w) PROVE Sound
  BY <1>1, StartLoginSound, StartLogoutSound, StartChangeSound DEF Start
<1>2. ASSUME NEW w \in Workers, Login(w) PROVE Sound
  BY <1>2, LoginCheckSound, LoginSetexSound, LoginSaddSound, LoginExpireSound DEF Login
<1>3. ASSUME NEW w \in Workers, Logout(w) PROVE Sound
  BY <1>3, LogoutGetSound, LogoutSremSound, LogoutDelSound DEF Logout
<1>4. ASSUME NEW w \in Workers, Change(w) PROVE Sound
  BY <1>4, ChangeVerifySound, ChangeSelectSound, ChangeUpdateSound, ChangeSmembersSound, ChangeDelKeySound,
     ChangeDelSetSound DEF Change
<1> QED
  BY <1>1, <1>2, <1>3, <1>4, ExpireSound, ElsewhereSound, StutterSound DEF Next, WorkerStep

LEMMA Initially == Init => IInv
<1> SUFFICES ASSUME Init PROVE IInv
  OBVIOUS
<1> USE SessionsAssumption DEF Init, RowInit
<1>1. req = [w \in Workers |-> Idle] /\ \A w \in Workers : req[w].at = "idle" /\ req[w].made = 0
  BY DEF Idle
<1>2. TypeOK
  <2>1. req \in [Workers -> Request] /\ origin \in [Tokens -> (0..MaxChanges) \cup {None}]
    BY IdleTyped
  <2>2. {version, latest, cleared} \subseteq 0..MaxChanges
    OBVIOUS
  <2>6. /\ open \subseteq Conns
        /\ {view, wrote} \subseteq [Conns -> (0..MaxChanges) \cup {None}]
        /\ passwords \in [0..MaxChanges -> Passwords \cup {None}]
    OBVIOUS
  <2>3. \A S \in {keys, tokenSet, delivered, closed, raced, overtaken, inheriting} : S \subseteq Tokens
    OBVIOUS
  <2>4. deadlines \subseteq (Tokens \cup {TokenSet}) \X (Tokens \cup {TokenSet})
    OBVIOUS
  <2>5. {hollow, failed} \subseteq BOOLEAN
    OBVIOUS
  <2> QED
    BY <2>1, <2>2, <2>3, <2>4, <2>5, <2>6 DEF TypeOK
<1>9. ClosedIsClean
  BY DEF ClosedIsClean
<1>3. VersionsSuffice
  <2>1. Changing = {}
    BY <1>1 DEF Changing, Pending
  <2> QED
    BY <2>1, FS_EmptySet DEF VersionsSuffice
<1>4. \A w \in Workers : Holding(w)
  BY <1>1 DEF Holding, LoginSteps, Stored, LogoutSteps, Pending, At
<1>5. LoginsDiffer /\ Drawn /\ KeysTimed /\ SetOutlives
  BY <1>1 DEF LoginsDiffer, LoginSteps, Drawn, KeysTimed, SetOutlives
<1>6. AddedUnlessRaced /\ ListComplete /\ TrackedUnlessRaced
  BY <1>1 DEF AddedUnlessRaced, ListComplete, TrackedUnlessRaced, At
<1>7. Versions /\ LateLogins
  BY <1>1 DEF Versions, LateLogins, Stored
<1>8. ListEndsOlder /\ LogoutEnds /\ OnlyOverlapsSurvive
  BY DEF ListEndsOlder, LogoutEnds, OnlyOverlapsSurvive, At
<1> QED
  BY <1>2, <1>3, <1>4, <1>5, <1>6, <1>7, <1>8, <1>9 DEF IInv, TrackingInv

LEMMA Inductive == IInv /\ [Next]_vars => IInv'
<1> SUFFICES ASSUME IInv, [Next]_vars PROVE IInv'
  OBVIOUS
<1> USE DEF IInv
<1>1. Step /\ TypeOK' /\ KeysTimed' /\ VersionsSuffice' /\ ClosedIsClean'
  BY EveryStep DEF TrackingInv, Base, Sound
<1>2. (\A w \in Workers : Holding(w))' /\ LoginsDiffer' /\ Drawn'
  BY <1>1, HoldingKept, LoginsDifferKept, DrawnKept DEF TrackingInv
<1>3. SetOutlives' /\ AddedUnlessRaced' /\ ListComplete' /\ TrackedUnlessRaced'
  BY <1>1, SetOutlivesKept, AddedKept, ListKept, TrackedKept DEF TrackingInv
<1>4. Versions' /\ LateLogins' /\ ListEndsOlder'
  BY <1>1, VersionsKept, LateLoginsKept, ListEndsKept
<1>5. LogoutEnds' /\ OnlyOverlapsSurvive'
  BY <1>1, LogoutsKept, SurvivorsKept
<1> QED
  BY <1>1, <1>2, <1>3, <1>4, <1>5 DEF TrackingInv

LEMMA Invariance == Spec => []IInv
BY Initially, Inductive, PTL DEF Spec

(* The rows, keys and requests keep their types; versions stay within their bound. *)
THEOREM TypeCorrect == Spec => []TypeOK
<1>1. IInv => TypeOK
  BY DEF IInv, TrackingInv
<1> QED
  BY <1>1, Invariance, PTL

(* removeAllTokensForUser finds every valid session, whatever failed, expired or
   overlapped before, except the tokens of two named windows. *)
THEOREM SessionsAreTracked == Spec => []TrackedUnlessRaced
<1>1. IInv => TrackedUnlessRaced
  BY DEF IInv, TrackingInv
<1> QED
  BY <1>1, Invariance, PTL

(* While Redis answers, a token is invalid from the answer to its logout on. *)
THEOREM LogoutsAreFinal == Spec => []LogoutEnds
<1>1. IInv => LogoutEnds
  BY DEF IInv
<1> QED
  BY <1>1, Invariance, PTL

(* While Redis answers, a password change whose UPDATE committed ends, once answered,
   every session of an earlier version, except those of logins that overlapped it
   and of logins that found a transaction open on their connection. *)
THEOREM ChangesEndSessions == Spec => []OnlyOverlapsSurvive
<1>1. IInv => OnlyOverlapsSurvive
  BY DEF IInv
<1> QED
  BY <1>1, Invariance, PTL
=============================================================================

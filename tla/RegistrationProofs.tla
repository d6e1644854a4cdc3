------------------------- MODULE RegistrationProofs -------------------------
(***************************************************************************)
(* Registration for every set of requests and connections and whatever      *)
(* breaks: transactions end with their registration, both rows are stored   *)
(* or none, and logins find the registered users.                           *)
(*                                                                         *)
(* The invariant speaks of one request or one connection at a time.  A step *)
(* of a request touches that request and the connection it holds, so the    *)
(* lemma Frame proves once that all the others keep theirs.                 *)
(***************************************************************************)
EXTENDS Registration, TLAPS

(* The statements between START TRANSACTION and COMMIT. *)
Inside == {"check", "insert", "id", "profile", "orphan", "commit"}

Stored(r, rows) == {table \in Tables : <<table, r>> \in rows}

(* What r has inserted when it is about to execute its next statement. *)
Inserted(r) ==
    IF at[r] \in {"id", "profile"} THEN {"users"}
    ELSE IF at[r] = "commit" THEN {"users", "user_profiles"} ELSE {}

(* The rows of a registration are where its transaction is, as long as there is
   one, and committed when it was answered with Success. *)
InPlace(r) ==
    /\ Stored(r, committed) = IF at[r] = "success" THEN {"users", "user_profiles"} ELSE {}
    /\ \A c \in Conns : Stored(r, wrote[c]) = IF conn[r] = c /\ alive[c] THEN Inserted(r) ELSE {}

OfItsKind(r) ==
    /\ at[r] \in Inside \cup {"begin"} => Kind[r] = "register"
    /\ at[r] = "update" => Kind[r] = "update"
    /\ at[r] = "select" => Kind[r] = "login"

RequestInv(r) ==
    /\ conn[r] # None <=> at[r] \in Statements
    /\ OfItsKind(r)
    /\ at[r] = "orphan" => mishap[r]
    /\ at[r] \in Inside /\ ~ mishap[r] /\ alive[conn[r]] => by[conn[r]] = r
    /\ at[r] = "select" /\ ~ inherited[r] => by[conn[r]] = None
    /\ Kind[r] = "register" /\ ~ mishap[r] => InPlace(r)

ConnInv(c) ==
    /\ by[c] = None => wrote[c] = {} /\ view[c] = None
    /\ ~ alive[c] => by[c] = None
    /\ by[c] # None => Kind[by[c]] = "register" /\ (conn[by[c]] = c \/ mishap[by[c]])

Exclusive == \A r, s \in Requests : conn[r] = conn[s] /\ conn[r] # None => r = s

IInv ==
    /\ TypeOK
    /\ Exclusive
    /\ \A r \in Requests : RequestInv(r)
    /\ \A c \in Conns : ConnInv(c)

-----------------------------------------------------------------------------
(* What a step of r leaves alone. *)

RequestStep(r) ==
    /\ \A s \in Requests \ {r} :
          at'[s] = at[s] /\ conn'[s] = conn[s] /\ mishap'[s] = mishap[s]
    /\ mishap[r] => mishap'[r]
    /\ conn'[r] \in {conn[r], None}
    /\ alive' = alive /\ inherited' = inherited

ConnStep(c, r) ==
    /\ \A d \in Conns \ {c} : by'[d] = by[d] /\ view'[d] = view[d] /\ wrote'[d] = wrote[d]
    /\ committed \subseteq committed'
    /\ committed' \subseteq committed \cup wrote[c] \cup (Tables \X {r})
    /\ wrote'[c] \subseteq wrote[c] \cup (Tables \X {r})

LEMMA Frame ==
    ASSUME IInv, NEW r \in Requests, NEW held \in Conns, conn[r] = held, TypeOK',
           RequestStep(r), ConnStep(held, r), RequestInv(r)', ConnInv(held)'
    PROVE  IInv'
<1>1. Exclusive'  BY DEF IInv, Exclusive, RequestStep
<1>2. ASSUME NEW s \in Requests \ {r}  PROVE RequestInv(s)'
    <2>1. at'[s] = at[s] /\ conn'[s] = conn[s] /\ mishap'[s] = mishap[s]
          /\ inherited'[s] = inherited[s] /\ alive' = alive
        BY DEF RequestStep
    <2>2. RequestInv(s)  BY DEF IInv
    <2>3. conn[s] # held
        BY RegistrationAssumption DEF IInv, Exclusive
    <2>4. at[s] \in Statements => conn[s] \in Conns
        BY <2>2 DEF IInv, TypeOK, RequestInv
    <2>5. at[s] \in Statements => by'[conn[s]] = by[conn[s]]
        BY <2>3, <2>4 DEF ConnStep
    <2>6. ASSUME Kind[s] = "register", ~ mishap[s]  PROVE InPlace(s)'
        <3>1. InPlace(s)  BY <2>2, <2>6 DEF RequestInv
        <3>2. Stored(s, wrote[held]) = {}  BY <2>3, <3>1 DEF InPlace
        <3>3. \A table \in Tables : <<table, s>> \notin Tables \X {r}  OBVIOUS
        <3>4. Stored(s, committed)' = Stored(s, committed)
            BY <3>2, <3>3 DEF ConnStep, Stored
        <3>5. ASSUME NEW c \in Conns  PROVE Stored(s, wrote[c])' = Stored(s, wrote[c])
            <4>1. CASE c = held
                BY <3>2, <3>3, <4>1 DEF ConnStep, Stored
            <4>2. CASE c # held
                BY <4>2 DEF ConnStep, Stored
            <4>. QED  BY <4>1, <4>2
        <3>6. Inserted(s)' = Inserted(s)  BY <2>1 DEF Inserted
        <3>. QED  BY <2>1, <3>1, <3>4, <3>5, <3>6 DEF InPlace
    <2>7. OfItsKind(s)'  BY <2>1, <2>2 DEF RequestInv, OfItsKind
    <2>8. at[s] \in Inside \cup {"select"} => at[s] \in Statements
        BY DEF Inside, Statements
    <2>. QED  BY <2>1, <2>2, <2>5, <2>6, <2>7, <2>8 DEF RequestInv
<1>3. ASSUME NEW c \in Conns \ {held}  PROVE ConnInv(c)'
    <2>1. ConnInv(c)  BY DEF IInv
    <2>2. by'[c] = by[c] /\ view'[c] = view[c] /\ wrote'[c] = wrote[c] /\ alive' = alive
        BY DEF ConnStep, RequestStep
    <2>3. by[c] # None => by[c] \in Requests  BY DEF IInv, TypeOK
    <2>4. by[c] # None => conn'[by[c]] = c \/ mishap'[by[c]]
        <3>1. CASE by[c] = r
            BY <2>1, <2>3, <3>1 DEF RequestStep, ConnInv
        <3>2. CASE by[c] # r
            BY <2>1, <2>3, <3>2 DEF RequestStep, ConnInv
        <3>. QED  BY <3>1, <3>2
    <2>. QED  BY <2>1, <2>2, <2>4 DEF ConnInv
<1>4. \A s \in Requests : RequestInv(s)'  BY <1>2
<1>5. \A c \in Conns : ConnInv(c)'  BY <1>3
<1>. QED  BY <1>1, <1>4, <1>5 DEF IInv

-----------------------------------------------------------------------------
(* The parts of the actions, field by field. *)

LEMMA ProceedFields ==
    ASSUME TypeOK, NEW r \in Requests, NEW statement \in Statements, Proceed(r, statement)
    PROVE  /\ at'[r] = statement /\ conn'[r] = conn[r] /\ mishap'[r] = mishap[r]
           /\ RequestStep(r)
           /\ at' \in [Requests -> {"start"} \cup Statements \cup Answers]
           /\ conn' \in [Requests -> Conns \cup {None}]
           /\ mishap' \in [Requests -> BOOLEAN]
           /\ inherited' \in [Requests -> BOOLEAN] /\ alive' \in [Conns -> BOOLEAN]
BY DEF TypeOK, Proceed, RequestStep

LEMMA UnawareFields ==
    ASSUME TypeOK, NEW r \in Requests, NEW statement \in Statements,
           ProceedUnaware(r, statement)
    PROVE  /\ at'[r] = statement /\ conn'[r] = conn[r] /\ mishap'[r] = TRUE
           /\ RequestStep(r) /\ UNCHANGED database
           /\ at' \in [Requests -> {"start"} \cup Statements \cup Answers]
           /\ conn' \in [Requests -> Conns \cup {None}]
           /\ mishap' \in [Requests -> BOOLEAN]
           /\ inherited' \in [Requests -> BOOLEAN] /\ alive' \in [Conns -> BOOLEAN]
BY DEF TypeOK, ProceedUnaware, RequestStep

LEMMA EndFields ==
    ASSUME TypeOK, NEW r \in Requests, NEW answer \in Answers, NEW harm \in BOOLEAN,
           End(r, answer, harm)
    PROVE  /\ at'[r] = answer /\ conn'[r] = None /\ mishap'[r] = (mishap[r] \/ harm)
           /\ RequestStep(r)
           /\ at' \in [Requests -> {"start"} \cup Statements \cup Answers]
           /\ conn' \in [Requests -> Conns \cup {None}]
           /\ mishap' \in [Requests -> BOOLEAN]
           /\ inherited' \in [Requests -> BOOLEAN] /\ alive' \in [Conns -> BOOLEAN]
BY DEF TypeOK, End, RequestStep

DataOK ==
    /\ committed \subseteq Rows
    /\ by \in [Conns -> Requests \cup {None}]
    /\ view \in [Conns -> (SUBSET Rows) \cup {None}]
    /\ wrote \in [Conns -> SUBSET Rows]

LEMMA NothingFields ==
    ASSUME TypeOK, NEW r \in Requests, NEW c \in Conns, UNCHANGED database
    PROVE  DataOK' /\ ConnStep(c, r)
BY DEF TypeOK, DataOK, database, ConnStep

LEMMA DiscardFields ==
    ASSUME TypeOK, NEW r \in Requests, NEW c \in Conns, Discard(c)
    PROVE  /\ by'[c] = None /\ view'[c] = None /\ wrote'[c] = {} /\ committed' = committed
           /\ DataOK' /\ ConnStep(c, r)
<1>1. /\ by'[c] = None /\ view'[c] = None /\ wrote'[c] = {} /\ committed' = committed
      /\ \A d \in Conns \ {c} : by'[d] = by[d] /\ view'[d] = view[d] /\ wrote'[d] = wrote[d]
    BY DEF TypeOK, Discard
<1>2. by' \in [Conns -> Requests \cup {None}]  BY DEF TypeOK, Discard
<1>3. view' \in [Conns -> (SUBSET Rows) \cup {None}]  BY DEF TypeOK, Discard
<1>4. wrote' \in [Conns -> SUBSET Rows]  BY DEF TypeOK, Discard
<1>5. committed' \subseteq Rows  BY <1>1 DEF TypeOK
<1>6. DataOK'  BY <1>2, <1>3, <1>4, <1>5 DEF DataOK
<1>7. ConnStep(c, r)  BY <1>1 DEF ConnStep
<1>. QED  BY <1>1, <1>6, <1>7

LEMMA FlushFields ==
    ASSUME TypeOK, NEW r \in Requests, NEW c \in Conns, NEW next \in Requests \cup {None},
           Flush(c, next)
    PROVE  /\ by'[c] = next /\ view'[c] = None /\ wrote'[c] = {}
           /\ committed' = committed \cup wrote[c]
           /\ DataOK' /\ ConnStep(c, r)
<1>1. /\ by'[c] = next /\ view'[c] = None /\ wrote'[c] = {}
      /\ committed' = committed \cup wrote[c]
      /\ \A d \in Conns \ {c} : by'[d] = by[d] /\ view'[d] = view[d] /\ wrote'[d] = wrote[d]
    BY DEF TypeOK, Flush
<1>2. by' \in [Conns -> Requests \cup {None}]  BY DEF TypeOK, Flush
<1>3. view' \in [Conns -> (SUBSET Rows) \cup {None}]  BY DEF TypeOK, Flush
<1>4. wrote' \in [Conns -> SUBSET Rows]  BY DEF TypeOK, Flush
<1>5. wrote[c] \subseteq Rows  BY DEF TypeOK
<1>6. committed' \subseteq Rows  BY <1>1, <1>5 DEF TypeOK
<1>7. DataOK'  BY <1>2, <1>3, <1>4, <1>6 DEF DataOK
<1>8. ConnStep(c, r)  BY <1>1 DEF ConnStep
<1>. QED  BY <1>1, <1>7, <1>8

LEMMA ReadFields ==
    ASSUME TypeOK, NEW r \in Requests, NEW c \in Conns, Read(c)
    PROVE  /\ by' = by /\ wrote' = wrote /\ committed' = committed
           /\ by[c] = None => view'[c] = view[c]
           /\ DataOK' /\ ConnStep(c, r)
BY DEF TypeOK, DataOK, Read, ConnStep

LEMMA PutFields ==
    ASSUME TypeOK, NEW r \in Requests, NEW c \in Conns, NEW table \in Tables,
           Put(c, <<table, r>>)
    PROVE  /\ by' = by /\ view' = view
           /\ by[c] = None => /\ wrote' = wrote /\ committed' = committed \cup {<<table, r>>}
           /\ by[c] # None => /\ committed' = committed
                              /\ wrote'[c] = wrote[c] \cup {<<table, r>>}
           /\ DataOK' /\ ConnStep(c, r)
<1>1. <<table, r>> \in Rows  BY DEF Rows
<1>2. <<table, r>> \in Tables \X {r}  OBVIOUS
<1>3. CASE by[c] = None
    BY <1>1, <1>2, <1>3 DEF TypeOK, DataOK, Put, ConnStep
<1>4. CASE by[c] # None
    BY <1>1, <1>2, <1>4 DEF TypeOK, DataOK, Put, ConnStep
<1>. QED  BY <1>3, <1>4

LEMMA Typed ==
    ASSUME DataOK',
           at' \in [Requests -> {"start"} \cup Statements \cup Answers],
           conn' \in [Requests -> Conns \cup {None}],
           mishap' \in [Requests -> BOOLEAN],
           inherited' \in [Requests -> BOOLEAN], alive' \in [Conns -> BOOLEAN]
    PROVE  TypeOK'
BY DEF TypeOK, DataOK

(* What the invariant says of a request that holds a connection. *)
LEMMA Holding ==
    ASSUME IInv, NEW r \in Requests, NEW c \in Conns, conn[r] = c
    PROVE  /\ TypeOK /\ RequestInv(r) /\ ConnInv(c)
           /\ at[r] \in Statements /\ c # None
           /\ Kind[r] = "register" /\ ~ mishap[r] =>
                 /\ Stored(r, committed) = {}
                 /\ Stored(r, wrote[c]) = IF alive[c] THEN Inserted(r) ELSE {}
                 /\ \A d \in Conns \ {c} : Stored(r, wrote[d]) = {}
           /\ by[c] = r => Kind[r] = "register"
<1>1. TypeOK /\ RequestInv(r) /\ ConnInv(c)  BY DEF IInv
<1>2. c # None /\ r # None  BY RegistrationAssumption
<1>3. at[r] \in Statements  BY <1>1, <1>2 DEF RequestInv
<1>4. at[r] # "success"  BY <1>3 DEF Statements
<1>5. ASSUME Kind[r] = "register", ~ mishap[r]
      PROVE  /\ Stored(r, committed) = {}
             /\ Stored(r, wrote[c]) = IF alive[c] THEN Inserted(r) ELSE {}
             /\ \A d \in Conns \ {c} : Stored(r, wrote[d]) = {}
    BY <1>1, <1>4, <1>5 DEF RequestInv, InPlace
<1>. QED  BY <1>1, <1>2, <1>3, <1>5 DEF ConnInv

(* The ways a request ends. *)

LEMMA Ended ==
    ASSUME IInv, NEW r \in Requests, NEW c \in Conns, conn[r] = c,
           NEW answer \in Answers, NEW harm \in BOOLEAN, End(r, answer, harm),
           DataOK', ConnStep(c, r), ConnInv(c)',
           Kind[r] = "register" /\ ~ mishap'[r] =>
              /\ Stored(r, committed)' = IF answer = "success" THEN {"users", "user_profiles"} ELSE {}
              /\ Stored(r, wrote[c])' = {}
    PROVE  IInv'
<1>1. /\ at'[r] = answer /\ conn'[r] = None /\ mishap'[r] = (mishap[r] \/ harm)
      /\ RequestStep(r)
      /\ TypeOK'
    BY Holding, EndFields, Typed
<1>2. answer \notin Statements /\ answer \notin Inside \cup {"begin", "update", "select", "orphan"}
    BY DEF Statements, Answers, Inside
<1>3. ASSUME Kind[r] = "register", ~ mishap'[r]  PROVE InPlace(r)'
    <2>1. ~ mishap[r]  BY <1>1, <1>3 DEF RequestStep
    <2>2. ASSUME NEW d \in Conns  PROVE Stored(r, wrote[d])' = {}
        <3>1. CASE d = c  BY <1>3, <3>1
        <3>2. CASE d # c
            <4>1. wrote'[d] = wrote[d]  BY <3>2 DEF ConnStep
            <4>2. Stored(r, wrote[d]) = {}  BY <1>3, <2>1, <3>2, Holding
            <4>. QED  BY <4>1, <4>2 DEF Stored
        <3>. QED  BY <3>1, <3>2
    <2>3. \A d \in Conns : conn'[r] # d  BY <1>1, RegistrationAssumption
    <2>. QED  BY <1>1, <1>3, <2>2, <2>3 DEF InPlace
<1>4. RequestInv(r)'  BY <1>1, <1>2, <1>3 DEF RequestInv, OfItsKind
<1>. QED  BY <1>1, <1>4, Frame

LEMMA EndsUnchanged ==
    ASSUME IInv, NEW r \in Requests, NEW c \in Conns, conn[r] = c,
           NEW answer \in Answers, NEW harm \in BOOLEAN, End(r, answer, harm),
           UNCHANGED database,
           \/ harm \/ mishap[r] \/ Kind[r] # "register"
           \/ ~ alive[c] /\ answer # "success"
    PROVE  IInv'
<1>1. /\ mishap'[r] = (mishap[r] \/ harm) /\ alive' = alive
      /\ \A s \in Requests \ {r} : conn'[s] = conn[s] /\ mishap'[s] = mishap[s]
    BY Holding, EndFields DEF RequestStep
<1>2. DataOK' /\ ConnStep(c, r)  BY Holding, NothingFields
<1>3. ConnInv(c)'
    <2>1. by' = by /\ wrote' = wrote /\ view' = view  BY DEF database
    <2>2. by[c] = r => mishap'[r]
        <3>1. ~ alive[c] => by[c] = None  BY Holding DEF ConnInv
        <3>2. by[c] = r => Kind[r] = "register"  BY Holding
        <3>. QED  BY <1>1, <3>1, <3>2, RegistrationAssumption
    <2>3. by[c] # None => by[c] \in Requests  BY DEF IInv, TypeOK
    <2>. QED  BY <1>1, <2>1, <2>2, <2>3, Holding DEF ConnInv
<1>4. ASSUME Kind[r] = "register", ~ mishap'[r]
      PROVE  /\ Stored(r, committed)' = IF answer = "success" THEN {"users", "user_profiles"} ELSE {}
             /\ Stored(r, wrote[c])' = {}
    <2>1. ~ mishap[r] /\ ~ alive[c] /\ answer # "success"  BY <1>1, <1>4
    <2>2. Stored(r, committed) = {} /\ Stored(r, wrote[c]) = {}  BY <1>4, <2>1, Holding
    <2>. QED  BY <2>1, <2>2 DEF Stored, database
<1>. QED  BY <1>2, <1>3, <1>4, Ended

LEMMA EndsDiscarding ==
    ASSUME IInv, NEW r \in Requests, NEW c \in Conns, conn[r] = c,
           NEW answer \in Answers \ {"success"}, End(r, answer, FALSE), Discard(c)
    PROVE  IInv'
<1>1. by'[c] = None /\ view'[c] = None /\ wrote'[c] = {} /\ committed' = committed
      /\ DataOK' /\ ConnStep(c, r)
    BY Holding, DiscardFields
<1>2. ConnInv(c)'  BY <1>1 DEF ConnInv
<1>3. mishap'[r] = mishap[r]  BY Holding, EndFields DEF IInv, TypeOK
<1>4. ASSUME Kind[r] = "register", ~ mishap'[r]
      PROVE  /\ Stored(r, committed)' = IF answer = "success" THEN {"users", "user_profiles"} ELSE {}
             /\ Stored(r, wrote[c])' = {}
    <2>1. Stored(r, committed) = {}  BY <1>3, <1>4, Holding
    <2>. QED  BY <1>1, <2>1 DEF Stored
<1>. QED  BY <1>1, <1>2, <1>4, Ended

LEMMA RollsBack ==
    ASSUME IInv, NEW r \in Requests, conn[r] \in Conns,
           NEW answer \in Answers \ {"success"}, RollBack(r, answer)
    PROVE  IInv'
<1>. DEFINE c == conn[r]
<1>1. CASE Discard(c) /\ End(r, answer, FALSE)  BY <1>1, EndsDiscarding
<1>2. CASE UNCHANGED database /\ End(r, answer, alive[c])
    <2>1. alive[c] \in BOOLEAN  BY DEF IInv, TypeOK
    <2>2. alive[c] \/ (~ alive[c] /\ answer # "success")  BY <2>1
    <2>. QED  BY <1>2, <2>1, <2>2, EndsUnchanged
<1>. QED  BY <1>1, <1>2 DEF RollBack

LEMMA Throws ==
    ASSUME IInv, NEW r \in Requests, conn[r] \in Conns, Throw(r)
    PROVE  IInv'
<1>1. "silence" \in Answers  BY DEF Answers
<1>2. UNCHANGED database /\ End(r, "silence", TRUE)  BY DEF Throw
<1>. QED  BY <1>1, <1>2, EndsUnchanged

-----------------------------------------------------------------------------
(* The ways a request goes on. *)

LEMMA Proceeded ==
    ASSUME IInv, NEW r \in Requests, NEW c \in Conns, conn[r] = c,
           at[r] \in Inside \cup {"begin"}, NEW statement \in Inside \ {"orphan"},
           Proceed(r, statement), DataOK', ConnStep(c, r), ConnInv(c)',
           alive[c] /\ ~ mishap[r] => by'[c] = r,
           ~ mishap[r] => /\ Stored(r, committed)' = {}
                          /\ Stored(r, wrote[c])' = IF alive[c] THEN Inserted(r)' ELSE {}
    PROVE  IInv'
<1>1. statement \in Statements /\ statement # "success"  BY DEF Statements, Inside
<1>2. /\ at'[r] = statement /\ conn'[r] = c /\ mishap'[r] = mishap[r] /\ alive' = alive
      /\ RequestStep(r)
      /\ TypeOK'
    BY <1>1, Holding, ProceedFields, Typed DEF RequestStep
<1>3. Kind[r] = "register"  BY Holding DEF RequestInv, OfItsKind
<1>4. OfItsKind(r)'  BY <1>2, <1>3 DEF OfItsKind, Inside
<1>5. ASSUME ~ mishap[r]  PROVE InPlace(r)'
    <2>1. ASSUME NEW d \in Conns \ {c}  PROVE Stored(r, wrote[d])' = {}
        <3>1. wrote'[d] = wrote[d]  BY DEF ConnStep
        <3>2. Stored(r, wrote[d]) = {}  BY <1>3, <1>5, Holding
        <3>. QED  BY <3>1, <3>2 DEF Stored
    <2>. QED  BY <1>1, <1>2, <1>5, <2>1 DEF InPlace
<1>6. statement # "select" /\ statement # "orphan" /\ c # None  BY Holding DEF Inside
<1>7. RequestInv(r)'
    BY <1>1, <1>2, <1>4, <1>5, <1>6 DEF RequestInv
<1>. QED  BY <1>2, <1>7, Frame

LEMMA ProceededUnaware ==
    ASSUME IInv, NEW r \in Requests, NEW c \in Conns, conn[r] = c,
           at[r] \in Inside \cup {"begin"}, NEW statement \in Inside,
           ProceedUnaware(r, statement)
    PROVE  IInv'
<1>1. statement \in Statements  BY DEF Statements, Inside
<1>2. /\ at'[r] = statement /\ conn'[r] = c /\ mishap'[r] = TRUE /\ alive' = alive
      /\ RequestStep(r) /\ UNCHANGED database
      /\ TypeOK' /\ ConnStep(c, r)
    BY <1>1, Holding, UnawareFields, NothingFields, Typed DEF RequestStep
<1>3. Kind[r] = "register"  BY Holding DEF RequestInv, OfItsKind
<1>4. RequestInv(r)'
    BY <1>1, <1>2, <1>3, Holding DEF RequestInv, OfItsKind, Inside
<1>5. ConnInv(c)'
    <2>1. by[c] # None => by[c] \in Requests  BY DEF IInv, TypeOK
    <2>. QED  BY <1>2, <2>1, Holding DEF ConnInv, database, RequestStep
<1>. QED  BY <1>2, <1>4, <1>5, Frame

-----------------------------------------------------------------------------
(* One lemma per action. *)

LEMMA BeginStep ==
    ASSUME IInv, NEW r \in Requests, at[r] = "begin", conn[r] \in Conns, Begin(r)
    PROVE  IInv'
<1>. DEFINE c == conn[r]
<1>1. CASE alive[c] /\ Flush(c, r) /\ Proceed(r, "check")
    <2>1. by'[c] = r /\ view'[c] = None /\ wrote'[c] = {} /\ committed' = committed \cup wrote[c]
          /\ DataOK' /\ ConnStep(c, r)
        BY <1>1, Holding, FlushFields
    <2>2. conn'[r] = conn[r] /\ alive' = alive /\ at'[r] = "check"
        BY <1>1, Holding, ProceedFields DEF RequestStep, Statements
    <2>3. Kind[r] = "register"  BY Holding DEF RequestInv, OfItsKind
    <2>4. ASSUME NEW d \in Conns, d = c  PROVE ConnInv(d)'
        BY <1>1, <2>1, <2>2, <2>3, <2>4, RegistrationAssumption DEF ConnInv
    <2>5. ASSUME ~ mishap[r]
          PROVE  Stored(r, committed)' = {} /\ wrote'[c] = {} /\ Inserted(r)' = {}
        <3>1. Stored(r, committed) = {} /\ Stored(r, wrote[c]) = {}
            BY <1>1, <2>3, <2>5, Holding DEF Inserted
        <3>2. Stored(r, committed)' = {}  BY <2>1, <3>1 DEF Stored
        <3>3. Inserted(r)' = {}  BY <2>2 DEF Inserted
        <3>. QED  BY <2>1, <3>2, <3>3
    <2>6. ASSUME NEW d \in Conns, d = c, ~ mishap[r]
          PROVE  Stored(r, wrote[d])' = IF alive[d] THEN Inserted(r)' ELSE {}
        BY <2>5, <2>6 DEF Stored
    <2>7. "check" \in Inside \ {"orphan"}  BY DEF Inside
    <2>. QED  BY <1>1, <2>1, <2>4, <2>5, <2>6, <2>7, Proceeded
<1>2. CASE ProceedUnaware(r, "check")
    <2>1. "check" \in Inside  BY DEF Inside
    <2>. QED  BY <1>2, <2>1, ProceededUnaware
<1>. QED  BY <1>1, <1>2 DEF Begin

LEMMA CheckStep ==
    ASSUME IInv, NEW r \in Requests, NEW c \in Conns, conn[r] = c, CheckFindsNone(r)
    PROVE  IInv'
<1>1. at[r] = "check" /\ alive[c] /\ Read(c) /\ Proceed(r, "insert")  BY DEF CheckFindsNone
<1>2. by' = by /\ wrote' = wrote /\ committed' = committed
      /\ (by[c] = None => view'[c] = view[c])
      /\ DataOK' /\ ConnStep(c, r)
    BY <1>1, Holding, ReadFields
<1>3. conn'[r] = c /\ alive' = alive /\ at'[r] = "insert" /\ mishap'[r] = mishap[r]
      /\ RequestStep(r)
    BY <1>1, Holding, ProceedFields DEF RequestStep, Statements
<1>4. Kind[r] = "register" /\ at[r] \in Inside
    BY <1>1, Holding DEF RequestInv, OfItsKind, Inside
<1>5. ConnInv(c)'
    <2>1. by[c] # None => by[c] \in Requests  BY DEF IInv, TypeOK
    <2>. QED  BY <1>2, <1>3, <2>1, Holding DEF ConnInv, RequestStep
<1>6. ~ mishap[r] => by[c] = r  BY <1>1, <1>4, Holding DEF RequestInv
<1>7. ASSUME ~ mishap[r]
      PROVE  Stored(r, committed)' = {} /\ Stored(r, wrote[c])' = {} /\ Inserted(r)' = {}
    <2>1. Stored(r, committed) = {} /\ Stored(r, wrote[c]) = {}
        BY <1>1, <1>4, <1>7, Holding DEF Inserted
    <2>. QED  BY <1>2, <1>3, <2>1 DEF Stored, Inserted
<1>8. "insert" \in Inside \ {"orphan"}  BY DEF Inside
<1>. QED  BY <1>1, <1>2, <1>4, <1>5, <1>6, <1>7, <1>8, Proceeded

(* An INSERT that succeeds; the statement before it says which row comes next. *)
LEMMA InsertStep ==
    ASSUME IInv, NEW r \in Requests, NEW c \in Conns, conn[r] = c,
           NEW table \in Tables, NEW next \in Inside \ {"orphan"},
           at[r] \in Inside, alive[c],
           ~ mishap[r] => (IF next = "commit" THEN {"users", "user_profiles"}
                           ELSE IF next \in {"id", "profile"} THEN {"users"} ELSE {})
                          = Inserted(r) \cup {table},
           Put(c, <<table, r>>), Proceed(r, next)
    PROVE  IInv'
<1>1. by' = by /\ view' = view
      /\ (by[c] = None => wrote' = wrote)
      /\ (by[c] # None => committed' = committed /\ wrote'[c] = wrote[c] \cup {<<table, r>>})
      /\ DataOK' /\ ConnStep(c, r)
    BY Holding, PutFields
<1>2. conn'[r] = c /\ alive' = alive /\ at'[r] = next /\ mishap'[r] = mishap[r]
      /\ RequestStep(r)
    BY Holding, ProceedFields DEF RequestStep, Statements, Inside
<1>3. Kind[r] = "register"  BY Holding DEF RequestInv, OfItsKind
<1>4. ConnInv(c)'
    <2>1. by[c] # None => by[c] \in Requests  BY DEF IInv, TypeOK
    <2>. QED  BY <1>1, <1>2, <2>1, Holding DEF ConnInv, RequestStep
<1>5. ~ mishap[r] => by[c] = r  BY Holding DEF RequestInv
<1>6. ASSUME ~ mishap[r]
      PROVE  Stored(r, committed)' = {} /\ Stored(r, wrote[c])' = Inserted(r)'
    <2>1. Stored(r, committed) = {} /\ Stored(r, wrote[c]) = Inserted(r)
        BY <1>3, <1>6, Holding
    <2>2. by[c] # None  BY <1>5, <1>6, RegistrationAssumption
    <2>3. Stored(r, committed)' = {}  BY <1>1, <2>1, <2>2 DEF Stored
    <2>4. Stored(r, wrote[c] \cup {<<table, r>>}) = Stored(r, wrote[c]) \cup {table}
        BY DEF Stored
    <2>5. Inserted(r)' = Inserted(r) \cup {table}
        BY <1>2, <1>6 DEF Inserted
    <2>6. ASSUME NEW d \in Conns, d = c  PROVE Stored(r, wrote[d])' = Inserted(r)'
        BY <1>1, <2>1, <2>2, <2>4, <2>5, <2>6 DEF Stored
    <2>. QED  BY <2>3, <2>6
<1>. QED  BY <1>1, <1>2, <1>4, <1>5, <1>6, Proceeded

LEMMA InsertOutcomes ==
    ASSUME IInv, NEW r \in Requests, NEW c \in Conns, conn[r] = c,
           NEW table \in Tables, NEW next \in Inside \ {"orphan"},
           at[r] \in Inside,
           ~ mishap[r] => (IF next = "commit" THEN {"users", "user_profiles"}
                           ELSE IF next \in {"id", "profile"} THEN {"users"} ELSE {})
                          = Inserted(r) \cup {table},
           Insert(r, <<table, r>>, next)
    PROVE  IInv'
<1>1. CASE Throw(r)  BY <1>1, Throws
<1>2. CASE alive[c] /\ Put(c, <<table, r>>) /\ Proceed(r, next)  BY <1>2, InsertStep
<1>. QED  BY <1>1, <1>2 DEF Insert

LEMMA InsertUserStep ==
    ASSUME IInv, NEW r \in Requests, NEW c \in Conns, conn[r] = c, InsertUser(r)
    PROVE  IInv'
<1>1. at[r] = "insert" /\ Insert(r, <<"users", r>>, "id")  BY DEF InsertUser
<1>2. at[r] \in Inside /\ "id" \in Inside \ {"orphan"} /\ "users" \in Tables
    BY <1>1 DEF Inside, Tables
<1>3. Inserted(r) = {}  BY <1>1 DEF Inserted
<1>. QED  BY <1>1, <1>2, <1>3, InsertOutcomes

LEMMA InsertProfileStep ==
    ASSUME IInv, NEW r \in Requests, NEW c \in Conns, conn[r] = c, InsertProfile(r)
    PROVE  IInv'
<1>1. "commit" \in Inside \ {"orphan"} /\ "user_profiles" \in Tables /\ "orphans" \in Tables
    BY DEF Inside, Tables
<1>2. CASE at[r] = "profile" /\ Insert(r, <<"user_profiles", r>>, "commit")
    <2>1. at[r] \in Inside  BY <1>2 DEF Inside
    <2>2. Inserted(r) = {"users"}  BY <1>2 DEF Inserted
    <2>3. {"users", "user_profiles"} = Inserted(r) \cup {"user_profiles"}  BY <2>2
    <2>. QED  BY <1>1, <1>2, <2>1, <2>3, InsertOutcomes
<1>3. CASE at[r] = "orphan" /\ Insert(r, <<"orphans", r>>, "commit")
    <2>1. at[r] \in Inside  BY <1>3 DEF Inside
    <2>2. mishap[r]  BY <1>3, Holding DEF RequestInv
    <2>. QED  BY <1>1, <1>3, <2>1, <2>2, InsertOutcomes
<1>. QED  BY <1>2, <1>3 DEF InsertProfile

LEMMA LastInsertIdStep ==
    ASSUME IInv, NEW r \in Requests, NEW c \in Conns, conn[r] = c, LastInsertId(r)
    PROVE  IInv'
<1>1. at[r] = "id" /\ at[r] \in Inside /\ "profile" \in Inside \ {"orphan"} /\ "orphan" \in Inside
    BY DEF LastInsertId, Inside
<1>2. CASE alive[c] /\ UNCHANGED database /\ Proceed(r, "profile")
    <2>1. DataOK' /\ ConnStep(c, r) /\ by' = by /\ wrote' = wrote /\ view' = view
          /\ committed' = committed
        BY <1>2, Holding, NothingFields DEF database
    <2>2. conn'[r] = c /\ alive' = alive /\ at'[r] = "profile" /\ mishap'[r] = mishap[r]
          /\ RequestStep(r)
        BY <1>2, Holding, ProceedFields DEF RequestStep, Statements
    <2>3. ConnInv(c)'
        <3>1. by[c] # None => by[c] \in Requests  BY DEF IInv, TypeOK
        <3>. QED  BY <2>1, <2>2, <3>1, Holding DEF ConnInv, RequestStep
    <2>4. Kind[r] = "register"  BY <1>1, Holding DEF RequestInv, OfItsKind
    <2>5. ~ mishap[r] => by[c] = r  BY <1>1, <1>2, Holding DEF RequestInv
    <2>6. ASSUME ~ mishap[r]
          PROVE  Stored(r, committed)' = {} /\ Stored(r, wrote[c])' = Inserted(r)'
        <3>1. Stored(r, committed) = {} /\ Stored(r, wrote[c]) = {"users"}
            BY <1>1, <1>2, <2>4, <2>6, Holding DEF Inserted
        <3>. QED  BY <2>1, <2>2, <3>1 DEF Stored, Inserted
    <2>. QED  BY <1>1, <1>2, <2>1, <2>2, <2>3, <2>5, <2>6, Proceeded
<1>3. CASE ProceedUnaware(r, "orphan")  BY <1>1, <1>3, ProceededUnaware
<1>. QED  BY <1>2, <1>3 DEF LastInsertId

LEMMA CommitStep ==
    ASSUME IInv, NEW r \in Requests, NEW c \in Conns, conn[r] = c, Commit(r)
    PROVE  IInv'
<1>1. at[r] = "commit" /\ "success" \in Answers  BY DEF Commit, Answers
<1>2. CASE alive[c] /\ Flush(c, None) /\ End(r, "success", FALSE)
    <2>1. by'[c] = None /\ view'[c] = None /\ wrote'[c] = {} /\ committed' = committed \cup wrote[c]
          /\ DataOK' /\ ConnStep(c, r)
        BY <1>2, Holding, FlushFields
    <2>2. ConnInv(c)'  BY <2>1 DEF ConnInv
    <2>3. mishap'[r] = mishap[r]
        <3>1. mishap'[r] = (mishap[r] \/ FALSE)  BY <1>1, <1>2, Holding, EndFields
        <3>2. mishap[r] \in BOOLEAN  BY DEF IInv, TypeOK
        <3>. QED  BY <3>1, <3>2
    <2>4. ASSUME Kind[r] = "register", ~ mishap'[r]
          PROVE  /\ Stored(r, committed)' = {"users", "user_profiles"}
                 /\ Stored(r, wrote[c])' = {}
        <3>1. Stored(r, committed) = {} /\ Stored(r, wrote[c]) = {"users", "user_profiles"}
            BY <1>1, <1>2, <2>3, <2>4, Holding DEF Inserted
        <3>. QED  BY <2>1, <3>1 DEF Stored
    <2>. QED  BY <1>1, <1>2, <2>1, <2>2, <2>4, Ended
<1>3. CASE UNCHANGED database /\ End(r, "success", TRUE)
    BY <1>1, <1>3, EndsUnchanged
<1>. QED  BY <1>2, <1>3 DEF Commit

LEMMA UpdateStep ==
    ASSUME IInv, NEW r \in Requests, NEW c \in Conns, conn[r] = c, Update(r)
    PROVE  IInv'
<1>1. at[r] = "update" /\ "success" \in Answers /\ "databaseError" \in Answers /\ "updates" \in Tables
    BY DEF Update, Answers, Tables
<1>2. Kind[r] = "update"  BY <1>1, Holding DEF RequestInv, OfItsKind
<1>3. CASE Put(c, <<"updates", r>>) /\ End(r, "success", FALSE)
    <2>1. by' = by /\ view' = view /\ (by[c] = None => wrote' = wrote)
          /\ DataOK' /\ ConnStep(c, r)
        BY <1>1, <1>3, Holding, PutFields
    <2>2. alive' = alive /\ RequestStep(r)
        BY <1>1, <1>3, Holding, EndFields DEF RequestStep
    <2>3. ConnInv(c)'
        <3>1. by[c] # None => by[c] \in Requests \ {r}  BY <1>2, Holding DEF IInv, TypeOK
        <3>. QED  BY <2>1, <2>2, <3>1, Holding DEF ConnInv, RequestStep
    <2>. QED  BY <1>1, <1>2, <1>3, <2>1, <2>3, Ended
<1>4. CASE UNCHANGED database /\ End(r, "databaseError", FALSE)
    BY <1>1, <1>2, <1>4, EndsUnchanged
<1>. QED  BY <1>3, <1>4 DEF Update

LEMMA SelectStep ==
    ASSUME IInv, NEW r \in Requests, NEW c \in Conns, conn[r] = c, Select(r)
    PROVE  IInv'
<1>1. at[r] = "select" /\ {"success", "invalid", "databaseError"} \subseteq Answers
    BY DEF Select, Answers
<1>2. Kind[r] = "login"  BY <1>1, Holding DEF RequestInv, OfItsKind
<1>3. ASSUME NEW answer \in {"success", "invalid"}, Read(c), End(r, answer, FALSE)
      PROVE  IInv'
    <2>1. by' = by /\ wrote' = wrote /\ (by[c] = None => view'[c] = view[c])
          /\ DataOK' /\ ConnStep(c, r)
        BY <1>3, Holding, ReadFields
    <2>2. alive' = alive /\ RequestStep(r)
        BY <1>1, <1>3, Holding, EndFields DEF RequestStep
    <2>3. ConnInv(c)'
        <3>1. by[c] # None => by[c] \in Requests \ {r}  BY <1>2, Holding DEF IInv, TypeOK
        <3>. QED  BY <2>1, <2>2, <3>1, Holding DEF ConnInv, RequestStep
    <2>. QED  BY <1>1, <1>2, <1>3, <2>1, <2>3, Ended
<1>4. CASE UNCHANGED database /\ End(r, "databaseError", FALSE)
    BY <1>1, <1>2, <1>4, EndsUnchanged
<1>5. CASE Throw(r)  BY <1>5, Throws
<1>. QED  BY <1>3, <1>4, <1>5 DEF Select

LEMMA RegisterStep ==
    ASSUME IInv, NEW r \in Requests, NEW c \in Conns, conn[r] = c, Register(r)
    PROVE  IInv'
<1>1. {"exists", "databaseError"} \subseteq Answers \ {"success"}  BY DEF Answers
<1>2. CASE Begin(r)
    <2>1. at[r] = "begin"  BY <1>2 DEF Begin
    <2>. QED  BY <1>2, <2>1, BeginStep
<1>3. CASE CheckFinds(r)  BY <1>1, <1>3, RollsBack DEF CheckFinds
<1>4. CASE CheckFindsNone(r)  BY <1>4, CheckStep
<1>5. CASE InsertUser(r)  BY <1>5, InsertUserStep
<1>6. CASE LastInsertId(r)  BY <1>6, LastInsertIdStep
<1>7. CASE InsertProfile(r)  BY <1>7, InsertProfileStep
<1>8. CASE Commit(r)  BY <1>8, CommitStep
<1>9. CASE PrepareFails(r)  BY <1>1, <1>9, RollsBack DEF PrepareFails
<1>10. CASE ExecuteThrows(r)  BY <1>10, Throws DEF ExecuteThrows
<1>. QED
    BY <1>2, <1>3, <1>4, <1>5, <1>6, <1>7, <1>8, <1>9, <1>10 DEF Register

(* The steps of a request that holds no connection. *)

LEMMA Idle ==
    ASSUME IInv, NEW r \in Requests, at[r] = "start"
    PROVE  /\ conn[r] = None
           /\ \A c \in Conns : by[c] = r => mishap[r]
           /\ Kind[r] = "register" /\ ~ mishap[r] =>
                 Stored(r, committed) = {} /\ \A c \in Conns : Stored(r, wrote[c]) = {}
<1>1. RequestInv(r)  BY DEF IInv
<1>2. conn[r] = None  BY <1>1 DEF RequestInv, Statements
<1>3. \A c \in Conns : conn[r] # c  BY <1>2, RegistrationAssumption
<1>4. ASSUME NEW c \in Conns, by[c] = r  PROVE mishap[r]
    <2>1. ConnInv(c)  BY DEF IInv
    <2>. QED  BY <1>3, <1>4, <2>1, RegistrationAssumption DEF ConnInv
<1>5. ASSUME Kind[r] = "register", ~ mishap[r]
      PROVE  Stored(r, committed) = {} /\ \A c \in Conns : Stored(r, wrote[c]) = {}
    BY <1>1, <1>3, <1>5 DEF RequestInv, InPlace
<1>. QED  BY <1>2, <1>4, <1>5

LEMMA KeepsRequest ==
    ASSUME IInv, NEW s \in Requests, UNCHANGED database,
           at'[s] = at[s], conn'[s] = conn[s], mishap'[s] = mishap[s],
           inherited'[s] = inherited[s],
           conn[s] \in Conns => alive'[conn[s]] = alive[conn[s]]
    PROVE  RequestInv(s)'
<1>1. by' = by /\ wrote' = wrote /\ committed' = committed  BY DEF database
<1>2. RequestInv(s)  BY DEF IInv
<1>3. at[s] \in Statements => conn[s] \in Conns
    BY <1>2 DEF IInv, TypeOK, RequestInv
<1>4. at[s] \in Inside => at[s] \in Statements  BY DEF Inside, Statements
<1>5. OfItsKind(s)'  BY <1>2 DEF RequestInv, OfItsKind
<1>6. ASSUME Kind[s] = "register", ~ mishap[s]  PROVE InPlace(s)'
    <2>1. InPlace(s)  BY <1>2, <1>6 DEF RequestInv
    <2>2. Inserted(s)' = Inserted(s)  BY DEF Inserted
    <2>3. ASSUME NEW c \in Conns
          PROVE  Stored(s, wrote[c])' = IF conn'[s] = c /\ alive'[c] THEN Inserted(s)' ELSE {}
        <3>1. Stored(s, wrote[c])' = Stored(s, wrote[c])  BY <1>1 DEF Stored
        <3>2. conn[s] = c => alive'[c] = alive[c]  OBVIOUS
        <3>. QED  BY <2>1, <2>2, <3>1, <3>2 DEF InPlace
    <2>4. Stored(s, committed)' = Stored(s, committed)  BY <1>1 DEF Stored
    <2>. QED  BY <2>1, <2>3, <2>4 DEF InPlace
<1>. QED  BY <1>1, <1>2, <1>3, <1>4, <1>5, <1>6 DEF RequestInv

LEMMA GetConnectionStep ==
    ASSUME IInv, NEW r \in Requests, GetConnection(r)
    PROVE  IInv'
<1>1. PICK c \in Conns :
        /\ Free(c)
        /\ alive' = [alive EXCEPT ![c] = TRUE]
        /\ conn' = [conn EXCEPT ![r] = c]
        /\ inherited' = [inherited EXCEPT ![r] = by[c] # None]
    BY DEF GetConnection
<1>2. at[r] = "start" /\ UNCHANGED <<database, mishap>>  BY DEF GetConnection
<1>3. TypeOK  BY DEF IInv
<1>4. /\ at'[r] \in {"begin", "update", "select"}
      /\ at'[r] = "begin" => Kind[r] = "register"
      /\ at'[r] = "update" => Kind[r] = "update"
      /\ at'[r] = "select" => Kind[r] = "login"
      /\ \A s \in Requests \ {r} : at'[s] = at[s]
      /\ at' \in [Requests -> {"start"} \cup Statements \cup Answers]
    BY <1>3, RegistrationAssumption DEF GetConnection, TypeOK, Statements
<1>5. TypeOK'
    <2>1. alive' \in [Conns -> BOOLEAN] /\ conn' \in [Requests -> Conns \cup {None}]
          /\ inherited' \in [Requests -> BOOLEAN]
        BY <1>1, <1>3 DEF TypeOK
    <2>. QED  BY <1>2, <1>3, <1>4, <2>1 DEF TypeOK, database
<1>6. Exclusive'  BY <1>1, <1>3 DEF IInv, Exclusive, Free, TypeOK
<1>7. ASSUME NEW s \in Requests \ {r}  PROVE RequestInv(s)'
    <2>1. conn'[s] = conn[s] /\ inherited'[s] = inherited[s] /\ mishap'[s] = mishap[s]
          /\ at'[s] = at[s]
        BY <1>1, <1>2, <1>3, <1>4 DEF TypeOK
    <2>2. conn[s] # c  BY <1>1 DEF Free
    <2>3. conn[s] \in Conns => alive'[conn[s]] = alive[conn[s]]
        BY <1>1, <1>3, <2>2 DEF TypeOK
    <2>. QED  BY <1>2, <2>1, <2>3, KeepsRequest
<1>8. RequestInv(r)'
    <2>1. conn'[r] = c /\ inherited'[r] = (by[c] # None) /\ by' = by /\ mishap' = mishap
          /\ wrote' = wrote /\ committed' = committed
        BY <1>1, <1>2, <1>3 DEF TypeOK, database
    <2>2. at'[r] \in Statements /\ at'[r] \notin Inside /\ at'[r] # "orphan"
          /\ at'[r] # "success"
        BY <1>4 DEF Statements, Inside
    <2>3. OfItsKind(r)'  BY <1>4, <2>2 DEF OfItsKind
    <2>4. ASSUME Kind[r] = "register", ~ mishap[r]  PROVE InPlace(r)'
        <3>1. Inserted(r)' = {}  BY <1>4 DEF Inserted
        <3>2. Stored(r, committed) = {} /\ \A d \in Conns : Stored(r, wrote[d]) = {}
            BY <1>2, <2>4, Idle
        <3>3. Stored(r, committed)' = {}  BY <2>1, <3>2 DEF Stored
        <3>4. \A d \in Conns : Stored(r, wrote[d])' = {}  BY <2>1, <3>2 DEF Stored
        <3>. QED  BY <2>2, <3>1, <3>3, <3>4 DEF InPlace
    <2>5. c # None  BY RegistrationAssumption
    <2>. QED  BY <2>1, <2>2, <2>3, <2>4, <2>5 DEF RequestInv
<1>9. ASSUME NEW d \in Conns  PROVE ConnInv(d)'
    <2>1. ConnInv(d)  BY DEF IInv
    <2>2. by' = by /\ wrote' = wrote /\ view' = view /\ mishap' = mishap
        BY <1>2 DEF database
    <2>3. ~ alive'[d] => ~ alive[d]  BY <1>1, <1>3 DEF TypeOK
    <2>4. by[d] # None => by[d] \in Requests  BY <1>3 DEF TypeOK
    <2>5. \A s \in Requests \ {r} : conn'[s] = conn[s]  BY <1>1, <1>3 DEF TypeOK
    <2>6. by[d] = r => mishap[r]  BY <1>2, Idle
    <2>. QED  BY <2>1, <2>2, <2>3, <2>4, <2>5, <2>6 DEF ConnInv
<1>10. \A s \in Requests : RequestInv(s)'  BY <1>7, <1>8
<1>. QED  BY <1>5, <1>6, <1>9, <1>10 DEF IInv

LEMMA NoConnectionStep ==
    ASSUME IInv, NEW r \in Requests, NoConnection(r)
    PROVE  IInv'
<1>1. at[r] = "start" /\ UNCHANGED database /\ End(r, "databaseError", FALSE)
      /\ "databaseError" \in Answers
    BY DEF NoConnection, Answers
<1>2. TypeOK  BY DEF IInv
<1>3. /\ at'[r] = "databaseError" /\ conn'[r] = None /\ RequestStep(r)
      /\ at' \in [Requests -> {"start"} \cup Statements \cup Answers]
      /\ conn' \in [Requests -> Conns \cup {None}]
      /\ mishap' \in [Requests -> BOOLEAN]
      /\ inherited' \in [Requests -> BOOLEAN] /\ alive' \in [Conns -> BOOLEAN]
    BY <1>1, <1>2, EndFields
<1>4. DataOK'  BY <1>1, <1>2 DEF DataOK, TypeOK, database
<1>5. TypeOK'  BY <1>3, <1>4, Typed
<1>6. Exclusive'  BY <1>3 DEF IInv, Exclusive, RequestStep
<1>7. \A s \in Requests \ {r} : RequestInv(s)'
    BY <1>1, <1>3, KeepsRequest DEF RequestStep
<1>8. RequestInv(r)'
    <2>1. "databaseError" \notin Statements \cup Inside \cup {"begin", "success"}
        BY DEF Statements, Inside
    <2>2. ASSUME Kind[r] = "register", ~ mishap'[r]  PROVE InPlace(r)'
        <3>1. ~ mishap[r]  BY <1>3, <2>2 DEF RequestStep
        <3>2. Stored(r, committed) = {} /\ \A d \in Conns : Stored(r, wrote[d]) = {}
            BY <1>1, <2>2, <3>1, Idle
        <3>3. Stored(r, committed)' = {}  BY <1>1, <3>2 DEF Stored, database
        <3>4. \A d \in Conns : Stored(r, wrote[d])' = {}
            BY <1>1, <3>2 DEF Stored, database
        <3>5. Inserted(r)' = {}  BY <1>3 DEF Inserted
        <3>. QED  BY <1>3, <3>3, <3>4, <3>5 DEF InPlace
    <2>. QED  BY <1>3, <2>1, <2>2 DEF RequestInv, OfItsKind
<1>9. ASSUME NEW d \in Conns  PROVE ConnInv(d)'
    <2>1. ConnInv(d)  BY DEF IInv
    <2>2. by' = by /\ wrote' = wrote /\ view' = view  BY <1>1 DEF database
    <2>3. by[d] # None => by[d] \in Requests  BY <1>2 DEF TypeOK
    <2>4. by[d] = r => mishap'[r]  BY <1>1, <1>3, Idle DEF RequestStep
    <2>. QED  BY <1>3, <2>1, <2>2, <2>3, <2>4 DEF ConnInv, RequestStep
<1>10. \A s \in Requests : RequestInv(s)'  BY <1>7, <1>8
<1>. QED  BY <1>5, <1>6, <1>9, <1>10 DEF IInv

LEMMA LoseStep ==
    ASSUME IInv, NEW c \in Conns, Lose(c)
    PROVE  IInv'
<1>1. alive' = [alive EXCEPT ![c] = FALSE] /\ Discard(c)
      /\ UNCHANGED <<at, conn, mishap, inherited>>
    BY DEF Lose
<1>2. TypeOK  BY DEF IInv
<1>3. /\ by'[c] = None /\ view'[c] = None /\ wrote'[c] = {} /\ committed' = committed
      /\ alive'[c] = FALSE
      /\ \A d \in Conns \ {c} : /\ by'[d] = by[d] /\ view'[d] = view[d]
                                /\ wrote'[d] = wrote[d] /\ alive'[d] = alive[d]
    BY <1>1, <1>2 DEF Discard, TypeOK
<1>4. TypeOK'
    <2>1. by' \in [Conns -> Requests \cup {None}]  BY <1>1, <1>2 DEF TypeOK, Discard
    <2>2. view' \in [Conns -> (SUBSET Rows) \cup {None}]  BY <1>1, <1>2 DEF TypeOK, Discard
    <2>3. wrote' \in [Conns -> SUBSET Rows]  BY <1>1, <1>2 DEF TypeOK, Discard
    <2>4. alive' \in [Conns -> BOOLEAN]  BY <1>1, <1>2 DEF TypeOK
    <2>. QED  BY <1>1, <1>2, <1>3, <2>1, <2>2, <2>3, <2>4 DEF TypeOK
<1>5. Exclusive'  BY <1>1 DEF IInv, Exclusive
<1>6. ASSUME NEW s \in Requests  PROVE RequestInv(s)'
    <2>1. RequestInv(s)  BY DEF IInv
    <2>2. at[s] \in Statements => conn[s] \in Conns
        BY <1>2, <2>1 DEF TypeOK, RequestInv
    <2>3. Inserted(s)' = Inserted(s)  BY <1>1 DEF Inserted
    <2>4. ASSUME Kind[s] = "register", ~ mishap[s]  PROVE InPlace(s)'
        <3>1. InPlace(s)  BY <2>1, <2>4 DEF RequestInv
        <3>2. Stored(s, committed)' = Stored(s, committed)  BY <1>3 DEF Stored
        <3>3. ASSUME NEW d \in Conns
              PROVE  Stored(s, wrote[d])' = IF conn'[s] = d /\ alive'[d] THEN Inserted(s)' ELSE {}
            <4>1. CASE d = c  BY <1>3, <4>1 DEF Stored
            <4>2. CASE d # c
                <5>1. Stored(s, wrote[d])' = Stored(s, wrote[d])  BY <1>3, <4>2 DEF Stored
                <5>. QED  BY <1>1, <1>3, <2>3, <3>1, <4>2, <5>1 DEF InPlace
            <4>. QED  BY <4>1, <4>2
        <3>. QED  BY <1>1, <3>1, <3>2, <3>3 DEF InPlace
    <2>5. OfItsKind(s)'  BY <1>1, <2>1 DEF RequestInv, OfItsKind
    <2>6. at[s] \in Inside \cup {"select"} => at[s] \in Statements
        BY DEF Inside, Statements
    <2>7. ASSUME NEW d \in Conns
          PROVE  /\ alive'[d] => d # c
                 /\ d # c => alive'[d] = alive[d] /\ by'[d] = by[d]
                 /\ by[d] = None => by'[d] = None
        BY <1>3
    <2>8. at'[s] = at[s] /\ conn'[s] = conn[s] /\ mishap'[s] = mishap[s]
          /\ inherited'[s] = inherited[s]
        BY <1>1
    <2>9. ASSUME at[s] \in Inside, ~ mishap[s], alive'[conn[s]]  PROVE by'[conn[s]] = s
        <3>1. conn[s] \in Conns  BY <2>2, <2>6, <2>9
        <3>2. conn[s] # c  BY <2>7, <2>9, <3>1
        <3>3. alive'[conn[s]] = alive[conn[s]] /\ by'[conn[s]] = by[conn[s]]
            BY <2>7, <3>1, <3>2
        <3>4. alive[conn[s]]  BY <2>9, <3>3
        <3>. QED  BY <2>1, <2>9, <3>3, <3>4 DEF RequestInv
    <2>10. ASSUME at[s] = "select", ~ inherited[s]  PROVE by'[conn[s]] = None
        <3>1. conn[s] \in Conns  BY <2>2, <2>6, <2>10
        <3>2. by[conn[s]] = None  BY <2>1, <2>10 DEF RequestInv
        <3>. QED  BY <2>7, <3>1, <3>2
    <2>. QED  BY <2>1, <2>4, <2>5, <2>8, <2>9, <2>10 DEF RequestInv
<1>7. ASSUME NEW d \in Conns  PROVE ConnInv(d)'
    <2>1. CASE d = c  BY <1>3, <2>1 DEF ConnInv
    <2>2. CASE d # c
        <3>1. ConnInv(d)  BY DEF IInv
        <3>. QED  BY <1>1, <1>3, <2>2, <3>1 DEF ConnInv
    <2>. QED  BY <2>1, <2>2
<1>. QED  BY <1>4, <1>5, <1>6, <1>7 DEF IInv

-----------------------------------------------------------------------------
LEMMA IInvInit == Init => IInv
<1>. SUFFICES ASSUME Init PROVE IInv
    OBVIOUS
<1>1. TypeOK  BY DEF Init, TypeOK
<1>2. Exclusive  BY DEF Init, Exclusive
<1>3. ASSUME NEW r \in Requests  PROVE RequestInv(r)
    <2>1. at[r] = "start" /\ conn[r] = None /\ mishap[r] = FALSE  BY DEF Init
    <2>2. "start" \notin Statements \cup Inside  BY DEF Statements, Inside
    <2>3. InPlace(r)
        <3>1. Inserted(r) = {}  BY <2>1 DEF Inserted
        <3>. QED  BY <2>1, <3>1 DEF Init, InPlace, Stored
    <2>. QED  BY <2>1, <2>2, <2>3 DEF RequestInv, OfItsKind
<1>4. ASSUME NEW c \in Conns  PROVE ConnInv(c)  BY DEF Init, ConnInv
<1>. QED  BY <1>1, <1>2, <1>3, <1>4 DEF IInv

LEMMA IInvStep == IInv /\ [Next]_vars => IInv'
<1>. SUFFICES ASSUME IInv, [Next]_vars PROVE IInv'
    OBVIOUS
<1>1. ASSUME NEW r \in Requests, GetConnection(r)  PROVE IInv'
    BY <1>1, GetConnectionStep
<1>2. ASSUME NEW r \in Requests, NoConnection(r)  PROVE IInv'
    BY <1>2, NoConnectionStep
<1>3. ASSUME NEW r \in Requests, Register(r) \/ Update(r) \/ Select(r)  PROVE IInv'
    <2>1. at[r] \in Statements
        BY <1>3 DEF Register, Begin, CheckFinds, CheckFindsNone, InsertUser, LastInsertId,
                    InsertProfile, Commit, PrepareFails, ExecuteThrows, Update, Select, Statements
    <2>2. conn[r] \in Conns  BY <2>1 DEF IInv, TypeOK, RequestInv
    <2>. QED  BY <1>3, <2>2, RegisterStep, UpdateStep, SelectStep
<1>4. ASSUME NEW c \in Conns, Lose(c)  PROVE IInv'  BY <1>4, LoseStep
<1>5. CASE UNCHANGED vars
    BY <1>5 DEF vars, IInv, TypeOK, Exclusive, RequestInv, OfItsKind, InPlace, Stored,
                Inserted, ConnInv
<1>. QED  BY <1>1, <1>2, <1>3, <1>4, <1>5 DEF Next

THEOREM Invariant == Spec => []IInv
BY IInvInit, IInvStep, PTL DEF Spec

(* Type correctness of every reachable state, whatever breaks. *)
THEOREM TypeCorrect == Spec => []TypeOK
<1>1. IInv => TypeOK  BY DEF IInv
<1>. QED  BY <1>1, Invariant, PTL

(* Whoever opened the transaction of a connection still holds the connection, or met
   with an accident: a statement that threw (the INSERT does), or a START TRANSACTION,
   ROLLBACK or COMMIT whose failure was ignored.  No other return of registerUser forgets its ROLLBACK. *)
THEOREM TransactionsEnd == Spec => []NoLeftovers
<1>1. IInv => NoLeftovers
    <2>. SUFFICES ASSUME IInv, NEW c \in Conns, by[c] # None
                  PROVE  conn[by[c]] = c \/ mishap[by[c]]
        BY DEF NoLeftovers
    <2>1. ConnInv(c)  BY DEF IInv
    <2>. QED  BY <2>1 DEF ConnInv
<1>. QED  BY <1>1, Invariant, PTL

(* registerUser stores both rows exactly when it answers Success, for every
   interleaving with other requests on the same connections. *)
THEOREM BothRowsOrNone == Spec => []AllOrNothing
<1>1. IInv => AllOrNothing
    <2>. SUFFICES ASSUME IInv, NEW r \in Requests, Kind[r] = "register", ~ mishap[r]
                  PROVE  Stored(r, committed) =
                            IF at[r] = "success" THEN {"users", "user_profiles"} ELSE {}
        BY DEF AllOrNothing, Stored
    <2>1. RequestInv(r)  BY DEF IInv
    <2>. QED  BY <2>1 DEF RequestInv, InPlace
<1>. QED  BY <1>1, Invariant, PTL

(* The answer of a login does not miss a user who was registered before, unless an
   accident befell that registration or the login found a transaction open on its
   connection, whose snapshot may be older. *)
THEOREM LoginsFind == Spec => LoginsFindTheRegistered
<1>. DEFINE Finds == \A l \in Requests : at[l] = "select" /\ at'[l] = "invalid" =>
                 \/ inherited[l]
                 \/ \A r \in Requests :
                       Kind[r] = "register" /\ Name[r] = Name[l] /\ at[r] = "success" => mishap[r]
<1>1. IInv /\ [Next]_vars => [Finds]_vars
    <2>. SUFFICES ASSUME IInv, [Next]_vars, NEW l \in Requests,
                         at[l] = "select", at'[l] = "invalid", ~ inherited[l],
                         NEW r \in Requests, Kind[r] = "register", Name[r] = Name[l],
                         at[r] = "success"
                  PROVE  mishap[r]
        OBVIOUS
    <2>1. Select(l)
        <3>1. at \in [Requests -> {"start"} \cup Statements \cup Answers]
            BY DEF IInv, TypeOK
        <3>2. ASSUME NEW s \in Requests,
                     GetConnection(s) \/ NoConnection(s) \/ Register(s) \/ Update(s)
              PROVE  FALSE
            <4>1. at[s] # "select"
                BY <3>2 DEF GetConnection, NoConnection, Register, Begin, CheckFinds,
                    CheckFindsNone, InsertUser, LastInsertId, InsertProfile, Commit,
                    PrepareFails, ExecuteThrows, Update
            <4>2. \A q \in Requests \ {s} : at'[q] = at[q]
                BY <3>1, <3>2 DEF GetConnection, NoConnection, Register, Begin, CheckFinds,
                    CheckFindsNone, InsertUser, LastInsertId, InsertProfile, Commit,
                    PrepareFails, ExecuteThrows, Update, Insert, RollBack, Throw, Proceed,
                    ProceedUnaware, End
            <4>. QED  BY <4>1, <4>2
        <3>3. ASSUME NEW s \in Requests \ {l}, Select(s)  PROVE FALSE
            BY <3>1, <3>3 DEF Select, Throw, End
        <3>4. ASSUME NEW c \in Conns, Lose(c)  PROVE FALSE  BY <3>4 DEF Lose
        <3>5. CASE UNCHANGED vars  BY <3>5 DEF vars
        <3>. QED  BY <3>2, <3>3, <3>4, <3>5 DEF Next
    <2>2. ~ \E row \in Seen(conn[l]) : row[1] = "users" /\ Name[row[2]] = Name[l]
        BY <2>1 DEF Select, Throw, End, IInv, TypeOK
    <2>3. RequestInv(l) /\ RequestInv(r) /\ conn[l] \in Conns
        BY DEF IInv, TypeOK, RequestInv, Statements
    <2>4. by[conn[l]] = None  BY <2>3 DEF RequestInv
    <2>5. view[conn[l]] = None /\ wrote[conn[l]] = {}  BY <2>3, <2>4 DEF IInv, ConnInv
    <2>6. Seen(conn[l]) = committed  BY <2>5 DEF Seen
    <2>7. ASSUME ~ mishap[r]  PROVE FALSE
        <3>1. Stored(r, committed) = {"users", "user_profiles"}
            BY <2>3, <2>7 DEF RequestInv, InPlace
        <3>2. <<"users", r>> \in committed  BY <3>1 DEF Stored
        <3>. QED  BY <2>2, <2>6, <3>2
    <2>. QED  BY <2>7
<1>2. LoginsFindTheRegistered <=> [][Finds]_vars  BY DEF LoginsFindTheRegistered
<1>. QED  BY <1>1, Invariant, PTL DEF Spec, LoginsFindTheRegistered

=============================================================================

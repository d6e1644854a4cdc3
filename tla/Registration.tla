---------------------------- MODULE Registration ----------------------------
(***************************************************************************)
(* registerUser and its handler: a transaction of several statements on a   *)
(* connection of the pool, next to other requests that use the same         *)
(* connections (updateProfile, loginUser).  Every statement is one action.  *)
(*                                                                         *)
(* executeUpdate swallows exceptions and returns -1, which the code ignores *)
(* for START TRANSACTION, ROLLBACK and COMMIT; prepareStatement swallows    *)
(* them and returns nullptr; a prepared statement throws.  No scope rolls   *)
(* back: a connection that goes back to the pool takes its transaction with *)
(* it.                                                                      *)
(*                                                                         *)
(* MySQL, by the schema of README.md: InnoDB at REPEATABLE READ, unique     *)
(* usernames and emails, no foreign key.  A row stands for all it holds: a  *)
(* user or a profile is named by the registration that inserts it, an       *)
(* update of a profile by its request.                                      *)
(***************************************************************************)
EXTENDS Naturals, FiniteSets

CONSTANTS
    Requests,
    Kind,       \* of each request
    Name,       \* the user name each one is about
    Email,      \* of each registration; the same "" for all that give none
    Conns,      \* connections of the pool
    None,       \* no connection, no transaction, no snapshot
    Env         \* "lost": connections may break; "errors": statements may fail

ASSUME RegistrationAssumption ==
    /\ Kind \in [Requests -> {"register", "update", "login"}]
    /\ None \notin Requests /\ None \notin Conns
    /\ Env \subseteq {"lost", "errors"}

Tables == {"users", "user_profiles", "orphans", "updates"}
Rows == Tables \X Requests

VARIABLES
    committed,  \* rows every new snapshot shows
    alive,      \* per connection: isConnected
    by,         \* per connection: whose START TRANSACTION is open, or None
    view,       \* per connection: the snapshot of that transaction, or None
    wrote,      \* per connection: the rows it has not committed
    at,         \* per request: the next statement, or how it was answered
    conn,       \* per request: the connection it holds
    mishap,     \* per request: an exception left it, or an ignored -1 did harm
    inherited   \* per request: it found a transaction left open by another

database == <<committed, by, view, wrote>>
vars == <<committed, alive, by, view, wrote, at, conn, mishap, inherited>>

Statements == {"begin", "check", "insert", "id", "profile", "orphan", "commit",
               "update", "select"}
(* "silence": the exception ends the task before conn->send. *)
Answers == {"success", "exists", "invalid", "databaseError", "silence"}

Init ==
    /\ committed = {}
    /\ alive = [c \in Conns |-> TRUE]
    /\ by = [c \in Conns |-> None]
    /\ view = [c \in Conns |-> None]
    /\ wrote = [c \in Conns |-> {}]
    /\ at = [r \in Requests |-> "start"]
    /\ conn = [r \in Requests |-> None]
    /\ mishap = [r \in Requests |-> FALSE]
    /\ inherited = [r \in Requests |-> FALSE]

-----------------------------------------------------------------------------
(* MySQL. *)

Clash(row, other) ==
    /\ row[1] = other[1]
    /\ CASE row[1] = "users" -> \/ Name[row[2]] = Name[other[2]]
                                \/ Email[row[2]] = Email[other[2]]
         [] row[1] = "orphans" -> TRUE       \* all are the profile of user 0
         [] row[1] = "updates" -> Name[row[2]] = Name[other[2]]
         [] OTHER -> row[2] = other[2]

Taken(row, rows) == \E other \in rows : Clash(row, other)

Seen(c) == wrote[c] \cup (IF view[c] = None THEN committed ELSE view[c])

(* A consistent read takes the snapshot of the transaction, if it is the first. *)
Read(c) ==
    /\ view' = [view EXCEPT ![c] = IF by[c] # None /\ @ = None THEN committed ELSE @]
    /\ UNCHANGED <<committed, by, wrote>>

(* Without a transaction a statement commits by itself. *)
Put(c, row) ==
    /\ IF by[c] = None
       THEN committed' = committed \cup {row} /\ UNCHANGED wrote
       ELSE wrote' = [wrote EXCEPT ![c] = @ \cup {row}] /\ UNCHANGED committed
    /\ UNCHANGED <<by, view>>

(* COMMIT and, for the transaction it finds open, START TRANSACTION. *)
Flush(c, next) ==
    /\ committed' = committed \cup wrote[c]
    /\ wrote' = [wrote EXCEPT ![c] = {}]
    /\ view' = [view EXCEPT ![c] = None]
    /\ by' = [by EXCEPT ![c] = next]

Discard(c) ==
    /\ wrote' = [wrote EXCEPT ![c] = {}]
    /\ view' = [view EXCEPT ![c] = None]
    /\ by' = [by EXCEPT ![c] = None]
    /\ UNCHANGED committed

(* An insertion or an update waits for rows that others have not committed. *)
Blocked(c, row) == \E d \in Conns \ {c} : Taken(row, wrote[d])

(* The server forgets the session of a connection that breaks. *)
Lose(c) ==
    /\ "lost" \in Env
    /\ alive[c]
    /\ alive' = [alive EXCEPT ![c] = FALSE]
    /\ Discard(c)
    /\ UNCHANGED <<at, conn, mishap, inherited>>

-----------------------------------------------------------------------------
(* The ways a request goes on. *)

CanFail(c) == ~alive[c] \/ "errors" \in Env

Proceed(r, statement) ==
    /\ at' = [at EXCEPT ![r] = statement]
    /\ UNCHANGED <<alive, conn, mishap, inherited>>

(* The result is ignored: whatever failed, the request goes on as if it had not. *)
ProceedUnaware(r, statement) ==
    /\ at' = [at EXCEPT ![r] = statement]
    /\ mishap' = [mishap EXCEPT ![r] = TRUE]
    /\ UNCHANGED <<alive, conn, inherited, database>>

(* The shared_ptr leaves its scope: the connection is free again. *)
End(r, answer, harm) ==
    /\ at' = [at EXCEPT ![r] = answer]
    /\ conn' = [conn EXCEPT ![r] = None]
    /\ mishap' = [mishap EXCEPT ![r] = @ \/ harm]
    /\ UNCHANGED <<alive, inherited>>

(* Mutant of RollBack: the early return forgets the ROLLBACK. *)
ReturnAtOnce(r, answer) == UNCHANGED database /\ End(r, answer, FALSE)

RollBack(r, answer) ==
    LET c == conn[r] IN
    \/ alive[c] /\ Discard(c) /\ End(r, answer, FALSE)
    \/ CanFail(c) /\ UNCHANGED database /\ End(r, answer, alive[c])

(* The exception passes registerUser, and handleRegister, which catches
   json::parse_error only. *)
Throw(r) == UNCHANGED database /\ End(r, "silence", TRUE)

-----------------------------------------------------------------------------
Free(c) == \A r \in Requests : conn[r] # c

(* The pool reconnects a connection that was lost; updateProfile and loginUser
   open no transaction of their own. *)
GetConnection(r) ==
    /\ at[r] = "start"
    /\ \E c \in Conns :
          /\ Free(c)
          /\ alive' = [alive EXCEPT ![c] = TRUE]
          /\ conn' = [conn EXCEPT ![r] = c]
          /\ inherited' = [inherited EXCEPT ![r] = by[c] # None]
    /\ at' = [at EXCEPT ![r] = CASE Kind[r] = "register" -> "begin"
                                 [] Kind[r] = "update" -> "update"
                                 [] Kind[r] = "login" -> "select"]
    /\ UNCHANGED <<database, mishap>>

NoConnection(r) ==
    /\ at[r] = "start"
    /\ "lost" \in Env
    /\ UNCHANGED database
    /\ End(r, "databaseError", FALSE)

(* Mutant of Begin: the statements commit one by one. *)
BeginNothing(r) ==
    /\ at[r] = "begin"
    /\ UNCHANGED database
    /\ Proceed(r, "check")

Begin(r) ==
    /\ at[r] = "begin"
    /\ \/ alive[conn[r]] /\ Flush(conn[r], r) /\ Proceed(r, "check")
       \/ CanFail(conn[r]) /\ ProceedUnaware(r, "check")

(* prepareStatement returns nullptr, in front of each of the three statements. *)
PrepareFails(r) ==
    /\ at[r] \in {"check", "insert", "profile", "orphan"}
    /\ CanFail(conn[r])
    /\ RollBack(r, "databaseError")

ExecuteThrows(r) ==
    /\ at[r] \in {"check", "insert", "profile", "orphan"}
    /\ CanFail(conn[r])
    /\ Throw(r)

CheckFinds(r) ==
    /\ at[r] = "check"
    /\ alive[conn[r]]
    /\ Taken(<<"users", r>>, Seen(conn[r]))
    /\ RollBack(r, "exists")

CheckFindsNone(r) ==
    /\ at[r] = "check"
    /\ alive[conn[r]]
    /\ ~ Taken(<<"users", r>>, Seen(conn[r]))
    /\ Read(conn[r])
    /\ Proceed(r, "insert")

(* The three outcomes of an INSERT that reaches the server: an unaffected row is
   an exception, so the tests for affected <= 0 never hold. *)
Insert(r, row, next) ==
    LET c == conn[r] IN
    /\ alive[c]
    /\ \/ Blocked(c, row) /\ Throw(r)                     \* lock wait timeout
       \/ /\ ~ Blocked(c, row)
          /\ IF Taken(row, committed \cup wrote[c])
             THEN Throw(r)                                \* duplicate key
             ELSE Put(c, row) /\ Proceed(r, next)

InsertUser(r) == at[r] = "insert" /\ Insert(r, <<"users", r>>, "id")

(* getLastInsertId returns 0 when it fails. *)
LastInsertId(r) ==
    /\ at[r] = "id"
    /\ \/ alive[conn[r]] /\ UNCHANGED database /\ Proceed(r, "profile")
       \/ CanFail(conn[r]) /\ ProceedUnaware(r, "orphan")

InsertProfile(r) ==
    \/ at[r] = "profile" /\ Insert(r, <<"user_profiles", r>>, "commit")
    \/ at[r] = "orphan" /\ Insert(r, <<"orphans", r>>, "commit")

(* Mutant of Commit: the connection goes back before the COMMIT. *)
CommitNothing(r) ==
    /\ at[r] = "commit"
    /\ UNCHANGED database
    /\ End(r, "success", FALSE)

Commit(r) ==
    /\ at[r] = "commit"
    /\ \/ alive[conn[r]] /\ Flush(conn[r], None) /\ End(r, "success", FALSE)
       \/ CanFail(conn[r]) /\ UNCHANGED database /\ End(r, "success", TRUE)

Register(r) ==
    \/ Begin(r) \/ CheckFinds(r) \/ CheckFindsNone(r) \/ InsertUser(r)
    \/ LastInsertId(r) \/ InsertProfile(r) \/ Commit(r)
    \/ PrepareFails(r) \/ ExecuteThrows(r)

-----------------------------------------------------------------------------
(* updateProfile catches what its statement throws, a lock wait timeout too. *)
Update(r) ==
    /\ at[r] = "update"
    /\ LET c == conn[r]
           row == <<"updates", r>>
       IN  \/ alive[c] /\ ~ Blocked(c, row) /\ Put(c, row) /\ End(r, "success", FALSE)
           \/ /\ CanFail(c) \/ Blocked(c, row)
              /\ UNCHANGED database
              /\ End(r, "databaseError", FALSE)

(* The SELECT of loginUser; what follows is in Sessions. *)
Select(r) ==
    /\ at[r] = "select"
    /\ \/ /\ alive[conn[r]]
          /\ Read(conn[r])
          /\ End(r, IF \E row \in Seen(conn[r]) : row[1] = "users" /\ Name[row[2]] = Name[r]
                    THEN "success" ELSE "invalid", FALSE)
       \/ CanFail(conn[r]) /\ UNCHANGED database /\ End(r, "databaseError", FALSE)
       \/ CanFail(conn[r]) /\ Throw(r)

Next ==
    \/ \E r \in Requests : GetConnection(r) \/ NoConnection(r) \/ Register(r) \/ Update(r) \/ Select(r)
    \/ \E c \in Conns : Lose(c)

Spec == Init /\ [][Next]_vars

-----------------------------------------------------------------------------
TypeOK ==
    /\ committed \subseteq Rows
    /\ alive \in [Conns -> BOOLEAN]
    /\ by \in [Conns -> Requests \cup {None}]
    /\ view \in [Conns -> (SUBSET Rows) \cup {None}]
    /\ wrote \in [Conns -> SUBSET Rows]
    /\ at \in [Requests -> {"start"} \cup Statements \cup Answers]
    /\ conn \in [Requests -> Conns \cup {None}]
    /\ mishap \in [Requests -> BOOLEAN]
    /\ inherited \in [Requests -> BOOLEAN]

(* A transaction is open on a connection while the registration that began it
   still holds the connection, or because an accident befell that registration:
   every regular way out of registerUser closes what it opened. *)
NoLeftovers ==
    \A c \in Conns : by[c] # None => conn[by[c]] = c \/ mishap[by[c]]

(* registerUser answers Success exactly when both rows are committed, and leaves
   neither otherwise, unless an accident befell the registration itself; what
   other requests do to the connections it used and to its transaction, and
   whose transactions it found there, does not matter. *)
AllOrNothing ==
    \A r \in Requests : Kind[r] = "register" /\ ~ mishap[r] =>
        LET done == {table \in Tables : <<table, r>> \in committed}
        IN  done = IF at[r] = "success" THEN {"users", "user_profiles"} ELSE {}

(* A login finds every user whose registration was answered with Success, except
   for those accidents and the old snapshot of a transaction it inherited. *)
LoginsFindTheRegistered ==
    [][\A l \in Requests : at[l] = "select" /\ at'[l] = "invalid" =>
          \/ inherited[l]
          \/ \A r \in Requests : Kind[r] = "register" /\ Name[r] = Name[l] /\ at[r] = "success"
                                    => mishap[r]]_vars

-----------------------------------------------------------------------------
(* What the code and its README say and the code does not keep. *)

(* README.md:31, one error code format for every response: every request gets one. *)
EveryRequestAnswered == \A r \in Requests : at[r] # "silence"

(* "Profile updated" (UserService.cpp:332): an acknowledged update is committed. *)
UpdatesAreStored ==
    \A r \in Requests : Kind[r] = "update" /\ at[r] = "success" => <<"updates", r>> \in committed

(* "Username already exists" (UserHandler.cpp:55): some user has the name. *)
RefusedForTheName ==
    [][\A r \in Requests : at[r] = "check" /\ at'[r] = "exists" =>
          \E row \in Seen(conn[r]) : row[1] = "users" /\ Name[row[2]] = Name[r]]_vars

(* "User registered successfully" (UserHandler.cpp:50): the user is stored. *)
SuccessIsStored ==
    \A r \in Requests : Kind[r] = "register" /\ at[r] = "success" => <<"users", r>> \in committed
=============================================================================

--------------------------- MODULE UserInfoCache ---------------------------
(***************************************************************************)
(* The profile of one user, a MySQL row with a copy in Redis: reads fill   *)
(* the copy when they miss it, updates delete it (getUserInfoJson,         *)
(* updateProfile and their handlers).  Every statement and every Redis     *)
(* command of a request is one action.                                     *)
(*                                                                         *)
(* A state of the row is its version in PooledRow: an update is one        *)
(* statement, so the versions follow each other whichever fields they set. *)
(* A request holds a connection for its SELECT, or from its UPDATE to its  *)
(* DEL, and may find on it a transaction that a registration left open.    *)
(* No code deletes users; an administrator may.  The token check of each   *)
(* request touches other keys, and a request it refuses ends there.        *)
(***************************************************************************)
EXTENDS PooledRow, FiniteSets

CONSTANTS
    Workers,      \* threads of the pool
    MaxUpdates,   \* bound: versions of the row
    Env           \* "overlap": requests overlap; "redis": a command may fail;
                  \* "mysql": a statement may fail; "removed": the user may be
                  \* deleted; "left": registrations leave transactions open

(* The version a reader finds when the user does not exist, cached as "null".  It
   is newer than every other, since nobody brings the user back. *)
Gone == MaxUpdates + 1
Contents == 0..Gone

ASSUME CacheAssumption ==
    /\ MaxUpdates \in Nat
    /\ None \notin Contents \cup Conns
    /\ Env \subseteq {"overlap", "redis", "mysql", "removed", "left"}

VARIABLES
    cache,      \* the value of user:info:<id>
    ttl,        \* the key has a TTL
    req,        \* the requests in progress
    answer,     \* what the request that ended last was answered
    settled,    \* newest version whose update was answered with success
    suspect     \* an accident has befallen the present copy (see StaleOnlyIfKnown)

redis == <<cache, ttl>>
vars == <<row, redis, req, answer, settled, suspect>>

Steps == {"get", "select", "setex", "update", "del"}

Request == [at : Steps \cup {"idle"},
            updates : BOOLEAN,            \* handleUpdateProfile
            since : 0..MaxUpdates,        \* settled when it began, then the version
                                          \* its UPDATE committed
            read : Contents \cup {None},  \* the result of the SELECT
            inherits : BOOLEAN,           \* which it got in an open transaction
            conn : Conns \cup {None}]     \* the connection it holds between actions

Idle == [at |-> "idle", updates |-> FALSE, since |-> 0, read |-> None,
         inherits |-> FALSE, conn |-> None]

(* "silence": an exception ends the task before conn->send. *)
Codes == {"data", "notFound", "success", "databaseError", "silence"}
Answer == [code : Codes, got : Contents \cup {None}, since : 0..MaxUpdates,
           suspect : BOOLEAN]  \* got was a suspect copy or read in an open transaction
NoAnswer == [code |-> "success", got |-> None, since |-> 0, suspect |-> FALSE]

Init ==
    /\ RowInit
    /\ cache = None /\ ttl = FALSE
    /\ req = [w \in Workers |-> Idle]
    /\ answer = NoAnswer
    /\ settled = 0
    /\ suspect = FALSE

At(w, step) == req[w].at = step
Proceed(w, step) == req' = [req EXCEPT ![w].at = step]

Free(c) == \A w \in Workers : req[w].conn # c

(* Something goes wrong: a copy that is there now may not be deleted. *)
Accident == suspect' = (suspect \/ cache # None)

(* The same, if the row changes now. *)
ChangedUnawares == suspect' = (suspect \/ (cache # None /\ version' # version))

-----------------------------------------------------------------------------
(* The Redis commands, with the present copy's history. *)

(* A copy that is already outdated when it is written is suspect. *)
Setex(c) ==
    /\ cache' = c /\ ttl' = TRUE
    /\ suspect' = (c # version)

Del == cache' = None /\ ttl' = FALSE /\ suspect' = FALSE

RedisFails == "redis" \in Env
MySQLFails == "mysql" \in Env

Expire ==
    /\ ttl
    /\ Del
    /\ UNCHANGED <<row, req, answer, settled>>

Remove ==
    /\ "removed" \in Env
    /\ version # Gone
    /\ version' = Gone
    /\ ChangedUnawares
    /\ UNCHANGED <<latest, open, view, wrote, redis, req, answer, settled>>

(* Registrations and requests of other users on the connections of the pool. *)
Elsewhere ==
    /\ \E c \in Conns :
         \/ /\ Free(c)
            /\ ("left" \in Env /\ LeaveOpen(c)) \/ LookElsewhere(c) \/ Settle(c)
         \/ Lose(c)
    /\ ChangedUnawares
    /\ UNCHANGED <<redis, req, answer, settled>>

-----------------------------------------------------------------------------
(* The end of a request. *)

EndWith(w, code, got, from) ==
    /\ req' = [req EXCEPT ![w] = Idle]
    /\ answer' = [code |-> code, got |-> got, suspect |-> from,
                  since |-> IF got = None THEN 0 ELSE req[w].since]
    /\ settled' = IF req[w].updates /\ code \in {"data", "success"} /\ req[w].since > settled
                  THEN req[w].since ELSE settled

(* Without content an update is answered with success and no data. *)
EndWithout(w, code) ==
    EndWith(w, IF req[w].updates THEN "success" ELSE code, None, FALSE)

(* The content goes to the client; UserNotFound is an error of a read only. *)
EndReading(w, c, from) ==
    IF c = Gone THEN EndWithout(w, "notFound") ELSE EndWith(w, "data", c, from)

MayStart(w) ==
    /\ At(w, "idle")
    /\ "overlap" \in Env \/ \A v \in Workers : At(v, "idle")

-----------------------------------------------------------------------------
(* handleGetUserInfo and getUserInfoJson. *)

StartGet(w) ==
    /\ MayStart(w)
    /\ req' = [req EXCEPT ![w] = [Idle EXCEPT !.at = "get", !.since = settled]]
    /\ UNCHANGED <<row, redis, answer, settled, suspect>>

Hit(w) ==
    /\ At(w, "get")
    /\ cache # None
    /\ EndReading(w, cache, suspect)
    /\ UNCHANGED <<row, redis, suspect>>

(* A GET that throws counts as a miss. *)
Miss(w) ==
    /\ At(w, "get")
    /\ cache = None \/ RedisFails
    /\ Proceed(w, "select")
    /\ UNCHANGED <<row, redis, answer, settled, suspect>>

Select(w) ==
    /\ At(w, "select")
    /\ \E c \in Conns :
         /\ Free(c)
         /\ Read(c)
         /\ req' = [req EXCEPT ![w].at = "setex", ![w].read = Seen(c),
                               ![w].inherits = c \in open]
    /\ UNCHANGED <<redis, answer, settled, suspect>>

(* No connection or no statement is an error code, an SQLException of
   executeQuery leaves the handler. *)
SelectFails(w) ==
    /\ At(w, "select")
    /\ MySQLFails
    /\ EndWithout(w, "databaseError") \/ EndWith(w, "silence", None, FALSE)
    /\ UNCHANGED <<row, redis, suspect>>

(* A SETEX that throws is logged; it was executed or was not. *)
Fill(w) ==
    /\ At(w, "setex")
    /\ \/ Setex(req[w].read)
       \/ RedisFails /\ UNCHANGED <<redis, suspect>>
    /\ EndReading(w, req[w].read, req[w].inherits)
    /\ UNCHANGED row

Get(w) == StartGet(w) \/ Hit(w) \/ Miss(w) \/ Select(w) \/ SelectFails(w) \/ Fill(w)

-----------------------------------------------------------------------------
(* handleUpdateProfile: updateProfile, then getUserInfoJson as above. *)

StartUpdate(w) ==
    /\ MayStart(w)
    /\ req' = [req EXCEPT ![w] = [Idle EXCEPT !.at = "update", !.updates = TRUE,
                                              !.since = settled]]
    /\ UNCHANGED <<row, redis, answer, settled, suspect>>

(* The statement makes a version, on a connection that is free. *)
WriteRow(c) == Free(c) /\ ~ Blocked(c) /\ latest < MaxUpdates /\ Write(c)

(* Mutant of UpdateRow: the copy is not deleted. *)
UpdateRowOnly(w) ==
    /\ At(w, "update")
    /\ \E c \in Conns :
         /\ WriteRow(c)
         /\ req' = [req EXCEPT ![w].at = "get",
                               ![w].since = IF c \in open THEN @ ELSE latest']
    /\ UNCHANGED <<redis, answer, settled, suspect>>

(* The row of user_profiles may be written for a user who no longer exists. *)
UpdateRow(w) ==
    /\ At(w, "update")
    /\ \E c \in Conns :
         /\ WriteRow(c)
         /\ req' = [req EXCEPT ![w].at = "del", ![w].conn = c,
                               ![w].since = IF c \in open THEN @ ELSE latest']
    /\ UNCHANGED <<redis, answer, settled, suspect>>

(* The wait for a row that another connection has not committed times out, or the
   statement is not executed; prepareStatement throws past the handler. *)
UpdateFails(w) ==
    /\ At(w, "update")
    /\ \/ (\E c \in Conns : Free(c) /\ Blocked(c)) /\ EndWith(w, "databaseError", None, FALSE)
       \/ MySQLFails /\ \E code \in {"databaseError", "silence"} : EndWith(w, code, None, FALSE)
    /\ UNCHANGED <<row, redis, suspect>>

(* The statement is executed, but its result does not arrive. *)
UpdateUnconfirmed(w) ==
    /\ At(w, "update")
    /\ MySQLFails
    /\ \E c \in Conns : WriteRow(c)
    /\ ChangedUnawares
    /\ EndWith(w, "databaseError", None, FALSE)
    /\ UNCHANGED redis

(* Mutant of Invalidate: the name of another key. *)
InvalidateOther(w) ==
    /\ At(w, "del")
    /\ req' = [req EXCEPT ![w].at = "get", ![w].conn = None]
    /\ UNCHANGED <<row, redis, answer, settled, suspect>>

(* The connection is free again when updateProfile returns. *)
Invalidate(w) ==
    /\ At(w, "del")
    /\ Del
    /\ req' = [req EXCEPT ![w].at = "get", ![w].conn = None]
    /\ UNCHANGED <<row, answer, settled>>

(* sw::redis::Error is no sql::SQLException: it leaves the handler. *)
InvalidateFails(w) ==
    /\ At(w, "del")
    /\ RedisFails
    /\ Del \/ (UNCHANGED redis /\ Accident)
    /\ EndWith(w, "silence", None, FALSE)
    /\ UNCHANGED row

Update(w) ==
    \/ StartUpdate(w) \/ UpdateRow(w) \/ UpdateFails(w) \/ UpdateUnconfirmed(w)
    \/ Invalidate(w) \/ InvalidateFails(w)

-----------------------------------------------------------------------------
Next == Expire \/ Remove \/ Elsewhere \/ \E w \in Workers : Get(w) \/ Update(w)

(* TTLs run out.  Nothing else has to happen. *)
Fairness == WF_vars(Expire)

Spec == Init /\ [][Next]_vars /\ Fairness

-----------------------------------------------------------------------------
(* Types; a reader that is about to fill the cache has something to write. *)
TypeOK ==
    /\ version \in Contents /\ latest \in 0..MaxUpdates
    /\ open \subseteq Conns
    /\ {view, wrote} \subseteq [Conns -> Contents \cup {None}]
    /\ cache \in Contents \cup {None}
    /\ ttl \in BOOLEAN
    /\ req \in [Workers -> Request]
    /\ \A w \in Workers : At(w, "setex") => req[w].read # None
    /\ answer \in Answer
    /\ settled \in 0..MaxUpdates
    /\ suspect \in BOOLEAN

Stale == cache # None /\ cache # version

(* A copy differs from the row only while the update that made the difference
   is about to delete it, or after one of these accidents: a reader wrote it after
   the row had changed or from an inherited transaction, a DEL or an UPDATE ended
   in an error, the user was removed, or a later registration committed the update
   that an inherited transaction held.  There is no other way, for any overlap of
   readers, updates and such transactions. *)
StaleOnlyIfKnown ==
    Stale => \/ suspect
             \/ \E w \in Workers : At(w, "del") /\ req[w].since > cache

(* What a client is sent is at least as new as every update that was answered
   with success before its request began, and an update is answered with its own
   effect, unless the copy that was sent had one of the accidents, the SELECT ran
   in an inherited transaction, or the update did (it has committed nothing then). *)
AnswersFresh ==
    answer.got # None => answer.got >= answer.since \/ answer.suspect

(* README.md:25: every copy has a TTL, so a stale one does not stay. *)
StaleCopiesGo == Stale ~> ~Stale

-----------------------------------------------------------------------------
(* Statements the code does not keep (see README.md). *)

(* ErrorCode.h:26: a failed Redis command has an error code; no request that
   wrote to the row ends without an answer. *)
RedisErrorsAnswered == answer.code # "silence"

(* UserService.cpp:334 deletes the copy so that the update is seen at once. *)
UpdatesSeenAtOnce == answer.got # None => answer.got >= answer.since
=============================================================================

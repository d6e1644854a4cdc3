------------------------------ MODULE Sessions -------------------------------
(***************************************************************************)
(* The sessions of one account: login, logout and password change, which   *)
(* worker threads carry out with one MySQL statement or Redis command at a *)
(* time (UserHandler, UserService, TokenManager).  Every statement and     *)
(* every command is one action, so that requests interleave between them.  *)
(*                                                                         *)
(* Accounts share no key and no row, so one account is enough.  Every TTL  *)
(* is seven days: what was given its TTL first expires first, and the      *)
(* order of the keys stands for the clock.  Login and change hold their    *)
(* connection (PooledRow) from their SELECT to their end, so that they may *)
(* find on it a transaction that a registration left open.  Reading the    *)
(* profile does not touch this state and is not modelled here.             *)
(***************************************************************************)
EXTENDS PooledRow, FiniteSets

CONSTANTS
    Workers,     \* threads of the pool
    Tokens,      \* 256-bit random strings: no two logins draw the same
    Passwords,
    TokenSet,    \* the key user_tokens:<id>
    MaxChanges,  \* bound: password changes
    Env          \* "overlap": requests overlap; "redis": a command may fail;
                 \* "mysql": a statement may fail; "left": registrations leave
                 \* transactions open

ASSUME SessionsAssumption ==
    /\ IsFiniteSet(Workers) /\ IsFiniteSet(Tokens)
    /\ MaxChanges \in Nat
    /\ Passwords # {}
    /\ None \notin Passwords \cup Tokens \cup Conns \cup (0..MaxChanges)
    /\ TokenSet \notin Tokens
    /\ Env \subseteq {"overlap", "redis", "mysql", "left"}

VARIABLES
    (* MySQL: the row of PooledRow is the account's in the table users *)
    passwords,  \* the password in each version of the row
    (* Redis *)
    keys,       \* tokens t for which the key token:t exists
    tokenSet,   \* the members of user_tokens:<id>
    deadlines,  \* pairs <<k, l>> of keys with a TTL: l expires no earlier than k
    failed,     \* some command has failed
    (* the requests in progress *)
    req,
    (* what clients were told, and what happened *)
    delivered,  \* tokens a client got
    origin,     \* the version of the row each token was drawn for, or None
    closed,     \* tokens whose logout was answered with success
    cleared,    \* the latest version that a change answered with success committed
    hollow,     \* a login was answered with code 0 and no token
    raced,      \* tokens whose SADD fell into a removal, or whose set expired
                \* between SADD and EXPIRE
    overtaken,  \* tokens whose login was past its check when an UPDATE committed
    inheriting  \* tokens whose login found an open transaction on its connection

mysql == <<row, passwords>>
stored == <<keys, tokenSet, deadlines>>
redis == <<stored, failed>>
history == <<delivered, origin, closed, cleared, hollow, raced, overtaken, inheriting>>
vars == <<mysql, redis, req, history>>

Steps == {"check", "setex", "sadd", "expire",             \* login
          "get", "srem", "del",                           \* logout
          "verify", "select", "update", "smembers", "delEach"}  \* change

Request == [at : Steps \cup {"idle"},
            token : Tokens \cup {None},     \* drawn or presented
            given : Passwords \cup {None},  \* password, old_password
            new : Passwords \cup {None},    \* new_password
            made : 0..MaxChanges,           \* version the UPDATE committed
            todo : SUBSET Tokens,           \* tokens removeAll has to delete
            conn : Conns \cup {None}]       \* the connection it holds

Idle == [at |-> "idle", token |-> None, given |-> None, new |-> None,
         made |-> 0, todo |-> {}, conn |-> None]

Init ==
    /\ RowInit
    /\ \E p \in Passwords :
         passwords = [v \in 0..MaxChanges |-> IF v = 0 THEN p ELSE None]
    /\ keys = {} /\ tokenSet = {} /\ deadlines = {} /\ failed = FALSE
    /\ req = [w \in Workers |-> Idle]
    /\ delivered = {} /\ origin = [t \in Tokens |-> None]
    /\ closed = {} /\ cleared = 0 /\ hollow = FALSE /\ raced = {}
    /\ overtaken = {} /\ inheriting = {}

At(w, step) == req[w].at = step
Finish(w) == req' = [req EXCEPT ![w] = Idle]
Proceed(w, step) == req' = [req EXCEPT ![w].at = step]

Free(c) == \A w \in Workers : req[w].conn # c

MayStart(w) ==
    /\ At(w, "idle")
    /\ "overlap" \in Env \/ \A v \in Workers : At(v, "idle")

(* Tokens no login has drawn yet. *)
Fresh == {t \in Tokens : origin[t] = None /\ \A w \in Workers : req[w].token # t}

-----------------------------------------------------------------------------
(* The Redis commands. *)

Timed == {k \in Tokens \cup {TokenSet} : <<k, k>> \in deadlines}

Without(k) == {p \in deadlines : k \notin {p[1], p[2]}}

(* k gets a TTL, and every other key with one expires before it. *)
Renewed(k) == Without(k) \cup {<<l, k>> : l \in Timed \cup {k}}

Setex(t) ==
    /\ keys' = keys \cup {t}
    /\ deadlines' = Renewed(t)
    /\ UNCHANGED tokenSet

Sadd(t) == tokenSet' = tokenSet \cup {t} /\ UNCHANGED <<keys, deadlines>>

(* EXPIRE of a key that does not exist does nothing. *)
ExpireSet ==
    /\ deadlines' = IF tokenSet = {} THEN deadlines ELSE Renewed(TokenSet)
    /\ UNCHANGED <<keys, tokenSet>>

(* A set without members does not exist, nor does its TTL. *)
Srem(t) ==
    /\ tokenSet' = tokenSet \ {t}
    /\ deadlines' = IF tokenSet \subseteq {t} THEN Without(TokenSet) ELSE deadlines
    /\ UNCHANGED keys

DelKey(t) == keys' = keys \ {t} /\ deadlines' = Without(t) /\ UNCHANGED tokenSet

DelSet == tokenSet' = {} /\ deadlines' = Without(TokenSet) /\ UNCHANGED keys

(* A command that throws sw::redis::Error was executed or was not. *)
Fails(effect) == "redis" \in Env /\ failed' = TRUE /\ (effect \/ UNCHANGED stored)
Answers(effect) == effect /\ UNCHANGED failed

(* A TTL runs out. *)
Expire ==
    /\ \E k \in Timed :
         /\ \A l \in Timed : <<k, l>> \in deadlines
         /\ deadlines' = Without(k)
         /\ IF k = TokenSet
            THEN /\ tokenSet' = {}
                 /\ raced' = raced \cup {t \in tokenSet :
                                 \E w \in Workers : At(w, "expire") /\ req[w].token = t}
                 /\ UNCHANGED keys
            ELSE keys' = keys \ {k} /\ UNCHANGED <<tokenSet, raced>>
    /\ UNCHANGED <<mysql, failed, req, delivered, origin, closed, cleared, hollow, overtaken, inheriting>>

-----------------------------------------------------------------------------
(* handleLogin, loginUser, createToken. *)

StartLogin(w, p) ==
    /\ MayStart(w)
    /\ \E t \in Fresh :
         req' = [req EXCEPT ![w] = [Idle EXCEPT !.at = "check", !.given = p, !.token = t]]
    /\ UNCHANGED <<mysql, redis, history>>

(* SELECT password_hash, BCrypt::validatePassword. *)
LoginCheck(w) ==
    /\ At(w, "check")
    /\ \/ \E c \in Conns :
            /\ Free(c)
            /\ Read(c)
            /\ \/ /\ req[w].given = passwords[Seen(c)]
                  /\ req' = [req EXCEPT ![w] = [Idle EXCEPT !.at = "setex", !.conn = c,
                                                            !.token = req[w].token]]
                  /\ origin' = [origin EXCEPT ![req[w].token] = Seen(c)]
                  /\ inheriting' = IF c \in open THEN inheriting \cup {req[w].token}
                                                 ELSE inheriting
               \/ /\ req[w].given # passwords[Seen(c)]
                  /\ Finish(w)
                  /\ UNCHANGED <<origin, inheriting>>
       \/ "mysql" \in Env /\ Finish(w) /\ UNCHANGED <<row, origin, inheriting>>
    /\ UNCHANGED <<passwords, redis, delivered, closed, cleared, hollow, raced, overtaken>>

(* createToken returns an empty string, loginUser Success: handleLogin answers
   with sendError(resp, Success). *)
LoginWithoutToken(w) ==
    /\ Finish(w)
    /\ hollow' = TRUE
    /\ UNCHANGED <<mysql, delivered, origin, closed, cleared, raced, overtaken, inheriting>>

LoginSetex(w) ==
    /\ At(w, "setex")
    /\ \/ Answers(Setex(req[w].token)) /\ Proceed(w, "sadd") /\ UNCHANGED <<mysql, history>>
       \/ Fails(Setex(req[w].token)) /\ LoginWithoutToken(w)

(* Some worker is between SMEMBERS and DEL of removeAllTokensForUser. *)
Removing == \E w \in Workers : At(w, "delEach")

LoginSadd(w) ==
    /\ At(w, "sadd")
    /\ \/ /\ Answers(Sadd(req[w].token))
          /\ Proceed(w, "expire")
          /\ raced' = IF Removing THEN raced \cup {req[w].token} ELSE raced
          /\ UNCHANGED <<mysql, delivered, origin, closed, cleared, hollow, overtaken, inheriting>>
       \/ Fails(Sadd(req[w].token)) /\ LoginWithoutToken(w)

(* Mutant of LoginExpire: a set that has a TTL keeps it. *)
LoginExpireOnce(w) ==
    /\ At(w, "expire")
    /\ IF TokenSet \in Timed THEN UNCHANGED redis ELSE Answers(ExpireSet)
    /\ Finish(w)
    /\ delivered' = delivered \cup {req[w].token}
    /\ UNCHANGED <<mysql, origin, closed, cleared, hollow, raced, overtaken, inheriting>>

LoginExpire(w) ==
    /\ At(w, "expire")
    /\ \/ /\ Answers(ExpireSet)
          /\ Finish(w)
          /\ delivered' = delivered \cup {req[w].token}
          /\ UNCHANGED <<mysql, origin, closed, cleared, hollow, raced, overtaken, inheriting>>
       \/ Fails(ExpireSet) /\ LoginWithoutToken(w)

Login(w) == LoginCheck(w) \/ LoginSetex(w) \/ LoginSadd(w) \/ LoginExpire(w)

-----------------------------------------------------------------------------
(* handleLogout, removeToken: the answer is success whatever happened. *)

StartLogout(w, t) ==
    /\ MayStart(w)
    /\ req' = [req EXCEPT ![w] = [Idle EXCEPT !.at = "get", !.token = t]]
    /\ UNCHANGED <<mysql, redis, history>>

LoggedOut(w) ==
    /\ Finish(w)
    /\ closed' = closed \cup {req[w].token}
    /\ UNCHANGED <<mysql, delivered, origin, cleared, hollow, raced, overtaken, inheriting>>

LogoutGet(w) ==
    /\ At(w, "get")
    /\ \/ /\ req[w].token \in keys
          /\ Proceed(w, "srem")
          /\ UNCHANGED <<mysql, redis, history>>
       \/ req[w].token \notin keys /\ UNCHANGED redis /\ LoggedOut(w)
       \/ Fails(FALSE) /\ LoggedOut(w)

(* Mutant of LogoutSrem: the token leaves the set and its key stays. *)
LogoutSremOnly(w) == At(w, "srem") /\ Answers(Srem(req[w].token)) /\ LoggedOut(w)

LogoutSrem(w) ==
    /\ At(w, "srem")
    /\ \/ Answers(Srem(req[w].token)) /\ Proceed(w, "del") /\ UNCHANGED <<mysql, history>>
       \/ Fails(Srem(req[w].token)) /\ LoggedOut(w)

LogoutDel(w) ==
    /\ At(w, "del")
    /\ Answers(DelKey(req[w].token)) \/ Fails(DelKey(req[w].token))
    /\ LoggedOut(w)

Logout(w) == LogoutGet(w) \/ LogoutSrem(w) \/ LogoutDel(w)

-----------------------------------------------------------------------------
(* handleChangePassword, changePassword, removeAllTokensForUser. *)

StartChange(w, t, old, new) ==
    /\ MayStart(w)
    /\ latest + Cardinality({v \in Workers : req[v].new # None}) < MaxChanges
    /\ req' = [req EXCEPT ![w] = [Idle EXCEPT !.at = "verify", !.token = t,
                                              !.given = old, !.new = new]]
    /\ UNCHANGED <<mysql, redis, history>>

ChangeVerify(w) ==
    /\ At(w, "verify")
    /\ \/ req[w].token \in keys /\ UNCHANGED redis /\ Proceed(w, "select")
       \/ req[w].token \notin keys /\ UNCHANGED redis /\ Finish(w)
       \/ Fails(FALSE) /\ Finish(w)
    /\ UNCHANGED <<mysql, history>>

ChangeSelect(w) ==
    /\ At(w, "select")
    /\ \/ \E c \in Conns :
            /\ Free(c)
            /\ Read(c)
            /\ IF req[w].given = passwords[Seen(c)]
               THEN req' = [req EXCEPT ![w].at = "update", ![w].conn = c, ![w].token = None]
               ELSE Finish(w)
       \/ "mysql" \in Env /\ Finish(w) /\ UNCHANGED row
    /\ UNCHANGED <<passwords, redis, history>>

(* A new salt makes a new hash, so a row is always affected. *)
WritePassword(w) ==
    /\ ~ Blocked(req[w].conn)
    /\ Write(req[w].conn)
    /\ passwords' = [passwords EXCEPT ![latest'] = req[w].new]

StoringTokens == {req[v].token : v \in {u \in Workers : req[u].at \in {"setex", "sadd", "expire"}}}

(* UPDATE by id: executed, executed without a result, not executed, or timed out
   as it waits for the row. *)
ChangeUpdate(w) ==
    /\ At(w, "update")
    /\ \/ /\ WritePassword(w)
          /\ LET committed == req[w].conn \notin open
             IN  /\ req' = [req EXCEPT ![w] = [Idle EXCEPT !.at = "smembers", !.conn = req[w].conn,
                                                 !.made = IF committed THEN version' ELSE 0]]
                 /\ overtaken' = IF committed THEN overtaken \cup StoringTokens ELSE overtaken
       \/ "mysql" \in Env /\ WritePassword(w) /\ Finish(w) /\ UNCHANGED overtaken
       \/ /\ "mysql" \in Env \/ Blocked(req[w].conn)
          /\ Finish(w)
          /\ UNCHANGED <<mysql, overtaken>>
    /\ UNCHANGED <<redis, delivered, origin, closed, cleared, hollow, raced, inheriting>>

(* Success, also when removeAllTokensForUser caught an error. *)
Changed(w) ==
    /\ Finish(w)
    /\ cleared' = IF req[w].made > cleared THEN req[w].made ELSE cleared
    /\ UNCHANGED <<mysql, delivered, origin, closed, hollow, raced, overtaken, inheriting>>

(* Mutant of ChangeSmembers: the tokens are not removed. *)
ChangeAnswers(w) == At(w, "smembers") /\ UNCHANGED redis /\ Changed(w)

ChangeSmembers(w) ==
    /\ At(w, "smembers")
    /\ \/ /\ req' = [req EXCEPT ![w].at = "delEach", ![w].todo = tokenSet]
          /\ UNCHANGED <<mysql, redis, history>>
       \/ Fails(FALSE) /\ Changed(w)

ChangeDelKey(w) ==
    /\ At(w, "delEach")
    /\ \E t \in req[w].todo :
         \/ /\ Answers(DelKey(t))
            /\ req' = [req EXCEPT ![w].todo = @ \ {t}]
            /\ UNCHANGED <<mysql, history>>
         \/ Fails(DelKey(t)) /\ Changed(w)

ChangeDelSet(w) ==
    /\ At(w, "delEach")
    /\ req[w].todo = {}
    /\ Answers(DelSet) \/ Fails(DelSet)
    /\ Changed(w)

Change(w) ==
    \/ ChangeVerify(w) \/ ChangeSelect(w) \/ ChangeUpdate(w)
    \/ ChangeSmembers(w) \/ ChangeDelKey(w) \/ ChangeDelSet(w)

-----------------------------------------------------------------------------
Start(w) ==
    \/ \E p \in Passwords : StartLogin(w, p)
    \/ \E t \in delivered : StartLogout(w, t)
    \/ \E t \in delivered, old, new \in Passwords : StartChange(w, t, old, new)

WorkerStep(w) == Login(w) \/ Logout(w) \/ Change(w)

(* Registrations and requests of other accounts on the connections of the pool. *)
Elsewhere ==
    /\ \E c \in Conns :
         \/ /\ Free(c)
            /\ ("left" \in Env /\ LeaveOpen(c)) \/ LookElsewhere(c) \/ Settle(c)
         \/ Lose(c) /\ \A w \in Workers : ~ (At(w, "update") /\ req[w].conn = c)
    /\ UNCHANGED <<passwords, redis, req, history>>

Next == Expire \/ Elsewhere \/ \E w \in Workers : Start(w) \/ WorkerStep(w)

(* Workers finish the requests they began and time passes. *)
Fairness == WF_vars(Expire) /\ \A w \in Workers : WF_vars(WorkerStep(w))

Spec == Init /\ [][Next]_vars /\ Fairness
-----------------------------------------------------------------------------
(* Types of the rows, the keys and the requests. *)
TypeOK ==
    /\ {version, latest, cleared} \subseteq 0..MaxChanges
    /\ open \subseteq Conns
    /\ {view, wrote} \subseteq [Conns -> (0..MaxChanges) \cup {None}]
    /\ passwords \in [0..MaxChanges -> Passwords \cup {None}]
    /\ \A S \in {keys, tokenSet, delivered, closed, raced, overtaken, inheriting} : S \subseteq Tokens
    /\ deadlines \subseteq (Tokens \cup {TokenSet}) \X (Tokens \cup {TokenSet})
    /\ req \in [Workers -> Request]
    /\ origin \in [Tokens -> (0..MaxChanges) \cup {None}]
    /\ {hollow, failed} \subseteq BOOLEAN

LoggingOut(t) == \E w \in Workers : At(w, "del") /\ req[w].token = t

(* removeAllTokensForUser finds every session: a token a client has that is still
   valid is in user_tokens:<id>, whatever failed or expired before, unless it was
   raced or its logout was answered.  So no other sequence of commands, failures
   and expiries of TokenManager.cpp loses track of a session. *)
TrackedUnlessRaced ==
    \A t \in keys \cap delivered :
        t \in tokenSet \cup raced \cup closed \/ LoggingOut(t)

(* While Redis answers, a token got for an earlier password survives a password
   change whose UPDATE committed and that was answered with success only if its
   login overlapped a change or an expiry of the set, or read the row in a
   transaction a registration had left open.  (In such a transaction the UPDATE
   commits nothing, see AnsweredIsCommitted.) *)
OnlyOverlapsSurvive ==
    failed \/
    \A t \in keys \cap delivered :
        \/ origin[t] >= cleared
        \/ t \in raced \cup overtaken \cup inheriting
        \/ LoggingOut(t)

(* Every token dies after its TTL, also one whose login failed half way. *)
TokensExpire == \A t \in Tokens : t \in keys ~> t \notin keys

(* README.md:21 "log out (delete the current token)": a token is invalid from the
   answer to its logout on, whatever other requests of the account do. *)
LogoutEnds == failed \/ closed \cap keys = {}

(* README.md:22 "change the password (... then clear all tokens by force)": once a
   change is answered with success, no token got for an earlier password is valid
   in a client's hands. *)
StaleTokensDie == \A t \in keys \cap delivered : origin[t] >= cleared

(* README.md:22 "change the password (verify the old one, ...": a password is
   replaced only by a request that gave the one it replaces. *)
OldPasswordVerified ==
    [][\A w \in Workers :
         (At(w, "update") /\ version' # version /\ ~At(w, "update")')
            => req[w].given = passwords[version]]_vars

(* UserService.cpp:387 "Password changed": a request that wrote the row leaves
   nothing uncommitted. *)
AnsweredIsCommitted == \A c \in Conns : Free(c) => wrote[c] = None

(* ErrorCode.h:5 "Success, the operation succeeded" and :26 "RedisError": a login
   that got no token because of Redis is not answered with code 0. *)
LoginSuccessHasToken == ~hollow
=============================================================================

---------------------------- MODULE RateLimiter ----------------------------
(***************************************************************************)
(* RateLimiter::isAllowed for one address: a counter in Redis, made by the  *)
(* first request of a window and given a TTL by a second command.  The I/O  *)
(* thread is the only caller, so requests do not overlap.                   *)
(*                                                                         *)
(* A command fails before or after Redis has executed it.  The process may  *)
(* end anywhere and be started again; Redis keeps the counter.              *)
(***************************************************************************)
EXTENDS Integers, FiniteSets

CONSTANTS
    Limit,      \* requests allowed per window
    Period,     \* length of a window
    MaxWaved,   \* bound: requests let in without being counted, per unit of time
    Env         \* "errors": commands may fail; "crash": the process may be restarted

ASSUME LimiterAssumption ==
    /\ Limit \in Nat \ {0}
    /\ Period \in Nat \ {0}
    /\ MaxWaved \in Nat
    /\ Env \subseteq {"errors", "crash"}

Forever == -1       \* the TTL of a key without one

VARIABLES
    count,      \* rate_limit:<ip>, 0 when absent; more than Limit + 1 is no different
    ttl,        \* time left to the key, or Forever
    expiring,   \* isAllowed is between INCR and EXPIRE
    passed,     \* passed[a]: requests let in a units of time ago that Redis had
                \* counted, within the limit
    waved,      \* waved[a]: the others let in then, all of them by the catch block
    refused,    \* the last verdict was 429
    accident    \* a command failed or the process ended before the present key had a TTL

limiterVars == <<count, ttl, expiring, passed, waved, refused, accident>>
Ages == 0..(Period - 1)

LimiterInit ==
    /\ count = 0 /\ ttl = Forever
    /\ expiring = FALSE
    /\ passed = [a \in Ages |-> 0]
    /\ waved = [a \in Ages |-> 0]
    /\ refused = FALSE
    /\ accident = FALSE

OneMoreIn(f) == [f EXCEPT ![0] = @ + 1]

Incremented == IF count > Limit THEN count ELSE count + 1

(* Mutant of Verdict: one request too many. *)
VerdictOneMore(counted) ==
    IF count > Limit THEN refused' = TRUE /\ UNCHANGED passed
    ELSE refused' = FALSE /\ passed' = OneMoreIn(passed)

(* return count <= limit. *)
Verdict(counted) ==
    IF counted > Limit THEN refused' = TRUE /\ UNCHANGED passed
    ELSE refused' = FALSE /\ passed' = OneMoreIn(passed)

(* Mutant of Count: every request extends the window. *)
CountAndExtend ==
    /\ ~ expiring
    /\ count' = Incremented
    /\ expiring' = TRUE
    /\ UNCHANGED <<ttl, passed, waved, refused, accident>>

(* INCR; a first request goes on to EXPIRE. *)
Count ==
    /\ ~ expiring
    /\ count' = Incremented
    /\ expiring' = (count' = 1)
    /\ IF expiring' THEN UNCHANGED <<passed, refused>> ELSE Verdict(count')
    /\ UNCHANGED <<ttl, waved, accident>>

Expire ==
    /\ expiring
    /\ ttl' = Period
    /\ expiring' = FALSE
    /\ accident' = FALSE
    /\ Verdict(count)
    /\ UNCHANGED <<count, waved>>

(* Whatever is thrown lets the request in: an INCR that was executed may have
   counted it within the limit or beyond, one that was not has not counted it. *)
CountFails ==
    /\ "errors" \in Env
    /\ ~ expiring
    /\ count' \in {count, Incremented}
    /\ IF count' # count /\ count' <= Limit
       THEN passed' = OneMoreIn(passed) /\ UNCHANGED waved
       ELSE waved[0] < MaxWaved /\ waved' = OneMoreIn(waved) /\ UNCHANGED passed
    /\ refused' = FALSE
    /\ accident' = (accident \/ (count = 0 /\ count' = 1))
    /\ UNCHANGED <<ttl, expiring>>

(* The request that INCR has counted is let in whatever becomes of the EXPIRE. *)
ExpireFails ==
    /\ "errors" \in Env
    /\ expiring
    /\ expiring' = FALSE
    /\ ttl' \in {ttl, Period}
    /\ passed' = OneMoreIn(passed)
    /\ refused' = FALSE
    /\ accident' = (ttl' = Forever)
    /\ UNCHANGED <<count, waved>>

(* A process that starts anew finds the counter as the old one left it; without
   Redis it counts nothing, as if each INCR failed. *)
Restart ==
    /\ "crash" \in Env
    /\ expiring' = FALSE
    /\ accident' = (accident \/ expiring)
    /\ UNCHANGED <<count, ttl, passed, waved, refused>>

isAllowed == Count \/ Expire \/ CountFails \/ ExpireFails

Older(f) == [a \in Ages |-> IF a = 0 THEN 0 ELSE f[a - 1]]

Tick ==
    /\ passed' = Older(passed)
    /\ waved' = Older(waved)
    /\ ttl' = IF ttl > 1 THEN ttl - 1 ELSE Forever
    /\ count' = IF ttl = 1 THEN 0 ELSE count
    /\ UNCHANGED <<expiring, refused, accident>>

LimiterNext == isAllowed \/ Restart \/ Tick

(* Redis lets time pass, and the I/O thread finishes what it began. *)
LimiterSpec ==
    /\ LimiterInit
    /\ [][LimiterNext]_limiterVars
    /\ WF_limiterVars(Tick)
    /\ WF_limiterVars(expiring /\ isAllowed)

-----------------------------------------------------------------------------
(* The requests of the last Period, numbered in each unit of time. *)
Numbered(f) == UNION {{a} \X (1..f[a]) : a \in Ages}
LetIn == Numbered(passed)
WavedIn == Numbered(waved)
InTheLastPeriod == Cardinality(LetIn) + Cardinality(WavedIn)

(* No stretch of time as long as a window has more than two windows' worth of
   requests, whatever failed and however often the process was restarted, beside
   those the catch block let in although Redis had not counted them or had counted
   them beyond the limit. *)
TwiceTheLimitAtMost == InTheLastPeriod <= 2 * Limit + Cardinality(WavedIn)

(* An address that is refused is let in again some time later, however often it
   asks meanwhile, unless an accident kept its counter
   from getting a TTL. *)
RefusalsEnd == refused ~> (count = 0 \/ accident)

(* README.md:29, "60 requests a minute". *)
LimitPerPeriod == InTheLastPeriod <= Limit

(* README.md:29, "fixed window counter": the window of every counter ends. *)
WindowsEnd == refused ~> count = 0
=============================================================================

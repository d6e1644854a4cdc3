----------------------------- MODULE PooledRow ------------------------------
(***************************************************************************)
(* One row of MySQL, read and written by requests through the connections  *)
(* of the pool, one statement at a time.                                   *)
(*                                                                         *)
(* The requests that use this module begin no transaction, but             *)
(* registerUser may have left one open on the connection they get          *)
(* (Registration shows how).  Then the server does what it does in a       *)
(* transaction of their own: InnoDB at REPEATABLE READ, with the snapshot  *)
(* of the first SELECT.                                                    *)
(*                                                                         *)
(* A write makes a version of the row, and versions are numbered as they   *)
(* are made: 0 is the row at the beginning.                                *)
(***************************************************************************)
EXTENDS Naturals

CONSTANTS
    Conns,      \* connections of the pool
    None        \* no version

VARIABLES
    version,    \* the version that is committed
    latest,     \* the newest version that was made, committed or not
    open,       \* connections that carry a transaction a registration left open
    view,       \* per connection: the version in its snapshot, or None
    wrote       \* per connection: the version it has not committed, or None

row == <<version, latest, open, view, wrote>>

RowInit ==
    /\ version = 0 /\ latest = 0
    /\ open = {}
    /\ view = [c \in Conns |-> None]
    /\ wrote = [c \in Conns |-> None]

Newer(v, w) == IF w # None /\ w > v THEN w ELSE v

-----------------------------------------------------------------------------
(* The statements of a request. *)

(* What a SELECT returns: the snapshot under the connection's own writes. *)
Seen(c) == Newer(IF view[c] = None THEN version ELSE view[c], wrote[c])

(* The first SELECT of a transaction takes the snapshot. *)
Read(c) ==
    /\ view' = [view EXCEPT ![c] = IF c \in open /\ @ = None THEN version ELSE @]
    /\ UNCHANGED <<version, latest, open, wrote>>

(* A write waits for a row that another connection has not committed. *)
Blocked(c) == \E d \in Conns \ {c} : wrote[d] # None

(* Outside a transaction a write commits at once. *)
Write(c) ==
    /\ latest' = latest + 1
    /\ IF c \in open
       THEN wrote' = [wrote EXCEPT ![c] = latest + 1] /\ UNCHANGED version
       ELSE version' = Newer(version, latest + 1) /\ UNCHANGED wrote
    /\ UNCHANGED <<open, view>>

-----------------------------------------------------------------------------
(* What registrations and requests about other rows do to a connection. *)

(* registerUser is left by an exception, or its ROLLBACK or COMMIT fails. *)
LeaveOpen(c) ==
    /\ c \notin open
    /\ open' = open \cup {c}
    /\ UNCHANGED <<version, latest, view, wrote>>

(* A SELECT of theirs takes the snapshot. *)
LookElsewhere(c) == c \in open /\ view[c] = None /\ Read(c)

CloseTransaction(c) ==
    /\ open' = open \ {c}
    /\ view' = [view EXCEPT ![c] = None]
    /\ wrote' = [wrote EXCEPT ![c] = None]
    /\ UNCHANGED latest

(* The START TRANSACTION of a later registration commits what it finds. *)
Settle(c) == c \in open /\ version' = Newer(version, wrote[c]) /\ CloseTransaction(c)

(* The connection breaks, or that START TRANSACTION fails and a ROLLBACK follows. *)
Lose(c) == c \in open /\ UNCHANGED version /\ CloseTransaction(c)
=============================================================================

---------------------------- MODULE AsyncLogger ----------------------------
(***************************************************************************)
(* AsyncLogger: threads that log fill current_buffer_, a back-end thread   *)
(* carries full buffers, or after flush_interval_ half full ones, into the *)
(* log file, and ~AsyncLogger stops it.                                    *)
(*                                                                         *)
(* is_running_ is atomic and not protected by mtx_: log tests it before it *)
(* takes the mutex, the back end tests it in the wait predicate with the   *)
(* mutex held, and shutdown clears it and calls notify_all without the     *)
(* mutex.  So the back end's way into cv_.wait_for is two steps (predicate *)
(* false, blocked) during which it owns mtx_.  The destructor runs at exit *)
(* while the threads of the pool, destroyed later, may still log.          *)
(*                                                                         *)
(* An entry is one unit of buffer and of file; levels, formatting and      *)
(* truncation are left out, and so is a rename that throws in rollFile.    *)
(***************************************************************************)
EXTENDS Naturals, Sequences

CONSTANTS
    Writers,       \* threads that log
    MaxCalls,      \* bound: calls of log by one thread
    BufferSize,    \* buffer_size_
    MaxFileSize,   \* MAX_FILE_SIZE
    OpensFail      \* whether log_file_.open may fail

(* init gets 8M buffers, MAX_FILE_SIZE is 100M. *)
ASSUME LoggerAssumption ==
    /\ BufferSize \in Nat \ {0}
    /\ MaxFileSize \in Nat
    /\ 2 * BufferSize < MaxFileSize
    /\ MaxCalls \in Nat
    /\ OpensFail \in BOOLEAN

Entries == Writers \X (1..MaxCalls)

VARIABLES
    running,    \* is_running_
    current,    \* *current_buffer_
    next,       \* *next_buffer_
    batch,      \* write_buffer of writeThreadFunc, final_buf of writeWhenExit
    thread,     \* where the back-end thread is
    file,       \* log_file_.is_open(), file_size_, and the true length of the file
    out,        \* history: what was written, to the file or to stderr
    calls,      \* what became of each call of log
    late,       \* history: entries stored after is_running_ was cleared
    shutdown    \* how far ~AsyncLogger is

vars == <<running, current, next, batch, thread, file, out, calls, late, shutdown>>

ThreadStates == {"loop", "locking", "blocking", "asleep", "expired",
                 "writing", "exiting", "writingRest", "done"}
CallStates == {"new", "admitted", "ignored", "dropped", "stored", "written", "lost", "undefined"}

Elements(s) == {s[i] : i \in 1..Len(s)}
Marked(es, mark) == [e \in Entries |-> IF e \in es THEN mark ELSE calls[e]]

(* mtx_ is held across steps only by the back end on its way into wait_for. *)
Unlocked == thread # "blocking"

Opened == IF OpensFail THEN BOOLEAN ELSE {TRUE}

(* After init: log file rolled, back end started. *)
Init ==
    /\ running = TRUE
    /\ current = <<>> /\ next = <<>> /\ batch = <<>>
    /\ thread = "loop"
    /\ file \in {[open |-> ok, size |-> 0, length |-> 0] : ok \in Opened}
    /\ out = <<>>
    /\ calls = [e \in Entries |-> "new"]
    /\ late = {}
    /\ shutdown = "none"

-----------------------------------------------------------------------------
(* AsyncLogger::log.  A thread makes one call after the other. *)

Returned(e) == calls[e] \notin {"new", "admitted"}
MayCall(e) == calls[e] = "new" /\ (e[2] > 1 => Returned(<<e[1], e[2] - 1>>))

(* Line 99, without the mutex. *)
Admit(e) ==
    /\ MayCall(e)
    /\ calls' = [calls EXCEPT ![e] = IF running THEN "admitted" ELSE "ignored"]
    /\ UNCHANGED <<running, current, next, batch, thread, file, out, late, shutdown>>

(* Mutant of WakeBackEnd. *)
WakeNobody == thread' = thread

(* cv_.notify_one: only the back end waits. *)
WakeBackEnd == thread' = IF thread = "asleep" THEN "locking" ELSE thread

Stored(e) ==
    /\ calls' = [calls EXCEPT ![e] = "stored"]
    /\ late' = IF running THEN late ELSE late \cup {e}

(* Room in current_buffer_. *)
StoreInCurrent(e) ==
    /\ Len(current) < BufferSize
    /\ current' = Append(current, e)
    /\ Stored(e)
    /\ UNCHANGED <<next, thread>>

(* current_buffer_ is full: hand it over and start on the empty one. *)
StoreAfterSwap(e) ==
    /\ Len(current) >= BufferSize
    /\ next = <<>>
    /\ next' = current
    /\ current' = <<e>>
    /\ Stored(e)
    /\ WakeBackEnd

(* Both are full. *)
Drop(e) ==
    /\ Len(current) >= BufferSize
    /\ next # <<>>
    /\ calls' = [calls EXCEPT ![e] = "dropped"]
    /\ UNCHANGED <<current, next, thread, late>>

(* The rest of log, with mtx_ held. *)
Store(e) ==
    /\ calls[e] = "admitted"
    /\ shutdown # "destroyed"
    /\ Unlocked
    /\ StoreInCurrent(e) \/ StoreAfterSwap(e) \/ Drop(e)
    /\ UNCHANGED <<running, batch, file, out, shutdown>>

(* The same in a thread that outlives the logger: mutex and buffers are gone. *)
StoreIntoDestroyed(e) ==
    /\ calls[e] = "admitted"
    /\ shutdown = "destroyed"
    /\ calls' = [calls EXCEPT ![e] = "undefined"]
    /\ UNCHANGED <<running, current, next, batch, thread, file, out, late, shutdown>>

Log(e) == Admit(e) \/ Store(e) \/ StoreIntoDestroyed(e)

-----------------------------------------------------------------------------
(* AsyncLogger::writeThreadFunc. *)

(* while (is_running_) *)
Loop ==
    /\ thread = "loop"
    /\ thread' = IF running THEN "locking" ELSE "exiting"
    /\ UNCHANGED <<running, current, next, batch, file, out, calls, late, shutdown>>

WaitOver == next # <<>> \/ current # <<>> \/ ~running

(* The predicate of wait_for is false; the mutex is still held ... *)
FindNothing ==
    /\ thread = "locking"
    /\ ~WaitOver
    /\ thread' = "blocking"
    /\ UNCHANGED <<running, current, next, batch, file, out, calls, late, shutdown>>

(* ... until the thread is in the wait set of cv_. *)
Block ==
    /\ thread = "blocking"
    /\ thread' = "asleep"
    /\ UNCHANGED <<running, current, next, batch, file, out, calls, late, shutdown>>

SpuriousWakeup ==
    /\ thread = "asleep"
    /\ thread' = "locking"
    /\ UNCHANGED <<running, current, next, batch, file, out, calls, late, shutdown>>

(* Mutant of Timeout. *)
TimeoutNever == FALSE /\ UNCHANGED vars

(* flush_interval_ is over: wait_for returns whatever the predicate says. *)
Timeout ==
    /\ thread = "asleep"
    /\ thread' = "expired"
    /\ UNCHANGED <<running, current, next, batch, file, out, calls, late, shutdown>>

Reached == thread = "expired" \/ (thread = "locking" /\ WaitOver)

(* Mutant of Take. *)
TakeCurrentFirst ==
    /\ Reached
    /\ IF current # <<>>
       THEN batch' = current /\ current' = <<>> /\ UNCHANGED next
       ELSE batch' = next /\ next' = <<>> /\ UNCHANGED current
    /\ thread' = IF batch' = <<>> THEN "loop" ELSE "writing"
    /\ UNCHANGED <<running, file, out, calls, late, shutdown>>

(* With the mutex held: the full buffer if there is one, else the other. *)
Take ==
    /\ Reached
    /\ IF next # <<>>
       THEN batch' = next /\ next' = <<>> /\ UNCHANGED current
       ELSE batch' = current /\ current' = <<>> /\ UNCHANGED next
    /\ thread' = IF batch' = <<>> THEN "loop" ELSE "writing"
    /\ UNCHANGED <<running, file, out, calls, late, shutdown>>

(* Mutant of RolledFor. *)
RolledLate(n) ==
    IF file.size + n > MaxFileSize
    THEN {[open |-> ok, size |-> 0, length |-> 0] : ok \in Opened}
    ELSE {file}

(* rollFile if n more units do not fit: the log file that is written next. *)
RolledFor(n) ==
    IF file.size + n >= MaxFileSize
    THEN {[open |-> ok, size |-> 0, length |-> 0] : ok \in Opened}
    ELSE {file}

(* With file_mtx_ held; a file that did not open is replaced by stderr. *)
Write ==
    /\ thread = "writing"
    /\ \E f \in RolledFor(Len(batch)) :
         file' = IF f.open
                 THEN [f EXCEPT !.size = @ + Len(batch), !.length = @ + Len(batch)]
                 ELSE f
    /\ out' = out \o batch
    /\ calls' = Marked(Elements(batch), "written")
    /\ batch' = <<>>
    /\ thread' = "loop"
    /\ UNCHANGED <<running, current, next, late, shutdown>>

(* Mutant of TakeRest. *)
TakeFullOnly ==
    /\ thread = "exiting"
    /\ batch' = next
    /\ next' = <<>>
    /\ thread' = "writingRest"
    /\ UNCHANGED <<running, current, file, out, calls, late, shutdown>>

(* AsyncLogger::writeWhenExit: both buffers under the mutex, then the file. *)
TakeRest ==
    /\ thread = "exiting"
    /\ batch' = next \o current
    /\ next' = <<>>
    /\ current' = <<>>
    /\ thread' = "writingRest"
    /\ UNCHANGED <<running, file, out, calls, late, shutdown>>

(* Here file_size_ is not updated, and without a file the rest is lost. *)
WriteRest ==
    /\ thread = "writingRest"
    /\ IF batch = <<>>
       THEN UNCHANGED <<file, out, calls>>
       ELSE \E f \in RolledFor(Len(batch)) :
              IF f.open
              THEN /\ file' = [f EXCEPT !.length = @ + Len(batch)]
                   /\ out' = out \o batch
                   /\ calls' = Marked(Elements(batch), "written")
              ELSE /\ file' = f
                   /\ out' = out
                   /\ calls' = Marked(Elements(batch), "lost")
    /\ batch' = <<>>
    /\ thread' = "done"
    /\ UNCHANGED <<running, current, next, late, shutdown>>

(* What the thread does by itself; SpuriousWakeup is the environment's. *)
BackEnd ==
    \/ Loop \/ FindNothing \/ Block \/ Timeout \/ Take \/ Write
    \/ TakeRest \/ WriteRest

-----------------------------------------------------------------------------
(* AsyncLogger::shutdown, called by the destructor of the singleton. *)

ShutdownStop ==
    /\ shutdown = "none"
    /\ running' = FALSE
    /\ shutdown' = "stopped"
    /\ UNCHANGED <<current, next, batch, thread, file, out, calls, late>>

ShutdownNotifyAll ==
    /\ shutdown = "stopped"
    /\ WakeBackEnd
    /\ shutdown' = "joining"
    /\ UNCHANGED <<running, current, next, batch, file, out, calls, late>>

(* The join returns and the members are destroyed. *)
ShutdownJoin ==
    /\ shutdown = "joining"
    /\ thread = "done"
    /\ shutdown' = "destroyed"
    /\ UNCHANGED <<running, current, next, batch, thread, file, out, calls, late>>

Shutdown == ShutdownStop \/ ShutdownNotifyAll \/ ShutdownJoin

Next ==
    \/ \E e \in Entries : Log(e)
    \/ BackEnd
    \/ SpuriousWakeup
    \/ Shutdown

(* The back end is scheduled, and a wait with a time limit ends; a destructor
   that was entered goes on.  Nobody has to log or to exit. *)
Fairness == WF_vars(BackEnd) /\ WF_vars(ShutdownNotifyAll) /\ WF_vars(ShutdownJoin)

Spec == Init /\ [][Next]_vars /\ Fairness

-----------------------------------------------------------------------------
(* Types of the fields; neither buffer ever exceeds buffer_size_, so that no
   vector reallocates while the mutex is held. *)
TypeOK ==
    /\ running \in BOOLEAN
    /\ current \in Seq(Entries) /\ Len(current) <= BufferSize
    /\ next \in Seq(Entries) /\ Len(next) <= BufferSize
    /\ batch \in Seq(Entries) /\ Len(batch) <= 2 * BufferSize
    /\ thread \in ThreadStates
    /\ file \in [open : BOOLEAN, size : Nat, length : Nat]
    /\ out \in Seq(Entries)
    /\ calls \in [Entries -> CallStates]
    /\ late \subseteq Entries
    /\ shutdown \in {"none", "stopped", "joining", "destroyed"}

(* A full buffer does not wait for flush_interval_: whenever a buffer has been
   handed over, the back end is not asleep, although log notifies only at the
   swap and the back end may have been writing, or on its way to sleep, then. *)
AwakeWhenFull == next # <<>> => thread \notin {"blocking", "asleep"}

(* Logger.h:60: what was stored while the logger ran is in the file when the
   destructor returns, whatever the back end was doing when it was stopped,
   unless the file could not be opened.  Entries stored by calls that straddle
   the shutdown are excepted: late ones may miss the last drain. *)
NothingLeftBehind ==
    (shutdown = "destroyed" /\ file.open) =>
        \A e \in Entries \ late : calls[e] \notin {"stored", "lost"}

(* No log file reaches MAX_FILE_SIZE, the rest written at exit included. *)
FileBounded == file.length < MaxFileSize

(* The destructor returns, though notify_all can come between the back end's
   look at is_running_ and its sleep: the time limit of the wait makes up for it. *)
ShutdownReturns == shutdown = "stopped" ~> shutdown = "destroyed"

(* What the logger promises: LogService, where the line is what the batch and
   the two buffers hold, in this order.  Covers that entries come out in the
   order of log's critical sections and once, whichever buffers they took; that
   one is dropped only while two full buffers wait or after the shutdown began;
   and, by the fairness there, that each stored entry gets written without
   further calls of log. *)
Line == IF thread = "done" THEN <<>> ELSE batch \o next \o current

Refused == {e \in Entries : \/ calls[e] \in {"ignored", "dropped", "lost", "undefined"}
                            \/ thread = "done" /\ calls[e] = "stored"}

Phase == IF thread = "done" THEN "closed" ELSE IF running THEN "open" ELSE "closing"

Service == INSTANCE LogService WITH
    Capacity <- 2 * BufferSize, line <- Line, refused <- Refused, phase <- Phase

ImplementsLogService == Service!Spec

-----------------------------------------------------------------------------
(* Statements of comments that the code does not keep (see README.md). *)

(* Logger.cpp:100: after the logger was closed no more entries are written. *)
NothingAfterShutdown == late = {}

(* Logger.h:60: what remains is written before the thread exits. *)
ExitWritesRest ==
    shutdown = "destroyed" => \A e \in Entries : calls[e] \notin {"stored", "lost"}
=============================================================================

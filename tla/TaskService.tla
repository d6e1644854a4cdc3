---------------------------- MODULE TaskService ----------------------------
(***************************************************************************)
(* What the thread pool promises its clients (main.cpp, the request        *)
(* callback), without threads, mutex or condition variable: accepted tasks *)
(* wait in a bounded line, leave it in order of arrival, each is carried   *)
(* out once, and after the service closes nothing more is accepted but all *)
(* that was accepted is still carried out.                                 *)
(***************************************************************************)
EXTENDS Naturals, Sequences

CONSTANTS
    Tasks,      \* the tasks clients may hand in
    Capacity    \* length of the line, 0 for no limit


VARIABLES
    line,       \* accepted tasks nobody works on, oldest first
    underway,   \* tasks in progress
    finished,   \* tasks carried out, with success or not
    open        \* the service accepts tasks

vars == <<line, underway, finished, open>>

InLine == {line[i] : i \in 1..Len(line)}

Init == line = <<>> /\ underway = {} /\ finished = {} /\ open = TRUE

(* A task the service has never seen joins the line if there is room. *)
Accept(t) ==
    /\ open
    /\ t \notin InLine \cup underway \cup finished
    /\ Capacity > 0 => Len(line) < Capacity
    /\ line' = Append(line, t)
    /\ UNCHANGED <<underway, finished, open>>

(* The oldest task is taken up. *)
Begin ==
    /\ line # <<>>
    /\ underway' = underway \cup {Head(line)}
    /\ line' = Tail(line)
    /\ UNCHANGED <<finished, open>>

Finish(t) ==
    /\ t \in underway
    /\ underway' = underway \ {t}
    /\ finished' = finished \cup {t}
    /\ UNCHANGED <<line, open>>

Close ==
    /\ open
    /\ open' = FALSE
    /\ UNCHANGED <<line, underway, finished>>

Next == Begin \/ Close \/ \E t \in Tasks : Accept(t) \/ Finish(t)

(* Accepted work is always carried out; tasks come, and the service closes,
   when its environment pleases. *)
Fairness == WF_vars(Begin) /\ \A t \in Tasks : WF_vars(Finish(t))

Spec == Init /\ [][Next]_vars /\ Fairness
=============================================================================

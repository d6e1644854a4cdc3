----------------------------- MODULE LogService -----------------------------
(***************************************************************************)
(* What the asynchronous logger promises the threads that log, without     *)
(* buffers, mutexes or a back end: entries come out in the order they went *)
(* in, each once; one is refused only while Capacity entries wait or once  *)
(* the log is being closed; what is in the log when closing begins and is  *)
(* not abandoned by Finish comes out.                                      *)
(***************************************************************************)
EXTENDS Naturals, Sequences

CONSTANTS
    Entries,    \* the calls of log
    Capacity    \* so many entries wait before one is refused

VARIABLES
    line,       \* entries that wait, oldest first
    out,        \* entries that came out, oldest first
    refused,    \* entries that never will
    phase       \* "open", "closing", "closed"

vars == <<line, out, refused, phase>>

Elements(s) == {s[i] : i \in 1..Len(s)}

Init == line = <<>> /\ out = <<>> /\ refused = {} /\ phase = "open"

Unseen(e) == e \notin Elements(line) \cup Elements(out) \cup refused

Accept(e) ==
    /\ phase # "closed"
    /\ Unseen(e)
    /\ line' = Append(line, e)
    /\ UNCHANGED <<out, refused, phase>>

Refuse(e) ==
    /\ phase # "open" \/ Len(line) >= Capacity
    /\ Unseen(e)
    /\ refused' = refused \cup {e}
    /\ UNCHANGED <<line, out, phase>>

(* Some of the oldest entries come out together. *)
Emit ==
    \E n \in 1..Len(line) :
        /\ out' = out \o SubSeq(line, 1, n)
        /\ line' = SubSeq(line, n + 1, Len(line))
        /\ UNCHANGED <<refused, phase>>

BeginClosing ==
    /\ phase = "open"
    /\ phase' = "closing"
    /\ UNCHANGED <<line, out, refused>>

(* The oldest entries come out, the others never do. *)
Finish ==
    /\ phase = "closing"
    /\ \E n \in 0..Len(line) :
        /\ out' = out \o SubSeq(line, 1, n)
        /\ refused' = refused \cup Elements(SubSeq(line, n + 1, Len(line)))
    /\ line' = <<>>
    /\ phase' = "closed"

Next == Emit \/ BeginClosing \/ Finish \/ \E e \in Entries : Accept(e) \/ Refuse(e)

(* Nothing waits for ever, and a log that is being closed gets closed. *)
Fairness == WF_vars(Emit) /\ WF_vars(Finish)

Spec == Init /\ [][Next]_vars /\ Fairness
=============================================================================

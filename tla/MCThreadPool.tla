---------------------------- MODULE MCThreadPool ----------------------------
(* ThreadPool on a small instance, with more threads than the queue has places. *)
EXTENDS ThreadPool, TLC
=============================================================================

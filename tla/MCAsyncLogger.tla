--------------------------- MODULE MCAsyncLogger ---------------------------
(* AsyncLogger on a small instance: two threads, buffers of two entries. *)
EXTENDS AsyncLogger, TLC
=============================================================================

---------------------------- MODULE MCEventLoop ----------------------------
(* EventLoop with two threads, a periodic timer whose callback adds a timer that
   is due at once (the idle check), and a functor that adds an early timer and posts
   the functor that the periodic timer posts too. *)
EXTENDS EventLoop

CONSTANTS f1, f2, idle, close, soon

Intervals == idle :> 2 @@ close :> 0 @@ soon :> 0
Delays == idle :> 2 @@ close :> 0 @@ soon :> 1
Posted == idle :> f2 @@ f1 :> f2 @@ f2 :> None @@ close :> None @@ soon :> None
Added == idle :> {close} @@ f1 :> {soon} @@ f2 :> {} @@ close :> {} @@ soon :> {}
=============================================================================

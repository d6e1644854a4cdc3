------------------------------ MODULE MCReactor ------------------------------
(* Reactor on a few clients that compete for one or two descriptor numbers. *)
EXTENDS Reactor, TLC

Symmetry == Permutations(Clients)
=============================================================================

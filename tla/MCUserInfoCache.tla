-------------------------- MODULE MCUserInfoCache --------------------------
(* UserInfoCache on a small instance; workers and connections are interchangeable. *)
EXTENDS UserInfoCache, TLC

Symmetry == Permutations(Workers) \cup Permutations(Conns)
=============================================================================

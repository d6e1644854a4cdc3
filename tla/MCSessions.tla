----------------------------- MODULE MCSessions ------------------------------
(* Sessions with two workers and two connections; workers, tokens, passwords
   and connections are interchangeable. *)
EXTENDS Sessions, TLC

Symmetry ==
    Permutations(Workers) \cup Permutations(Tokens)
        \cup Permutations(Passwords) \cup Permutations(Conns)
=============================================================================

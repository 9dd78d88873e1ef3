----------------------------- MODULE MCSessions -----------------------------
(* Instances of Sessions for TLC. *)
EXTENDS Sessions, TLC

Symmetric ==
    Permutations(Threads) \cup Permutations(Tokens)
=============================================================================

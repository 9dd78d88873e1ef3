------------------------------ MODULE MCStores ------------------------------
(* An instance of Stores for TLC: two secret fields and one profile, which    *)
(* the older version has left behind, as it has a configuration.              *)
EXTENDS Stores, TLC

CONSTANTS p, f1, f2, d, v, s1, s2

MCNames == {p}
MCFields == {f1, f2}
MCValues == {d, v}
MCSecrets == {s1, s2}

Sealed(s) == [key |-> 1, text |-> s]

MCOldProfiles ==
    [n \in MCNames |-> [plain |-> v, secret |-> [f \in MCFields |-> IF f = f1 THEN Sealed(s1) ELSE None]]]

MCOldConfig == [shown |-> v, hidden |-> v, secret |-> [f \in {Smtp} |-> Sealed(s1)]]

Symmetric == Permutations(Threads)
=============================================================================

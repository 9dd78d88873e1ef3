----------------------------- MODULE MCIdentity -----------------------------
(* An instance of Identity for TLC: the provider knows two accounts that   *)
(* claim the same address, which an admin may also give to a local user;   *)
(* one group grants a role.                                                *)
EXTENDS Identity, TLC

CONSTANTS s1, s2, e1, g1

MCEmailOf == s1 :> e1 @@ s2 :> e1

MCRoleOf == g1 :> Manager

Symmetric == Permutations(Threads)
=============================================================================

----------------------------- MODULE MCRoleAdmin -----------------------------
(***************************************************************************)
(* RoleAdmin on a small instance.                                          *)
(***************************************************************************)
EXTENDS RoleAdmin, TLC

Interchangeable ==
    Permutations(Code) \cup Permutations(Perm) \cup Permutations(Request)
=============================================================================

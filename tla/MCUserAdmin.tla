----------------------------- MODULE MCUserAdmin -----------------------------
(***************************************************************************)
(* UserAdmin on a small instance.                                          *)
(***************************************************************************)
EXTENDS UserAdmin, TLC

Interchangeable == Permutations(Email) \cup Permutations(Request)
=============================================================================

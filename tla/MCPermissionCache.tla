------------------------- MODULE MCPermissionCache -------------------------
(***************************************************************************)
(* PermissionCache on a small instance.                                    *)
(***************************************************************************)
EXTENDS PermissionCache, TLC

Interchangeable == Permutations(User) \cup Permutations(Worker)
=============================================================================

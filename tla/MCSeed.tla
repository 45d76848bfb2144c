------------------------------- MODULE MCSeed -------------------------------
(***************************************************************************)
(* Seed on a small instance.                                               *)
(***************************************************************************)
EXTENDS Seed, TLC

Interchangeable == Permutations(Perm) \cup Permutations(Process)
=============================================================================

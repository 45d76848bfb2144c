----------------------------- MODULE MCSessions -----------------------------
(***************************************************************************)
(* Sessions on a small instance.  Requests are interchangeable, users too. *)
(***************************************************************************)
EXTENDS Sessions, TLC

Interchangeable == Permutations(Request) \cup Permutations(User)
=============================================================================

---------------------------- MODULE MCAuditTrail ----------------------------
(***************************************************************************)
(* AuditTrail on a small instance.                                         *)
(***************************************************************************)
EXTENDS AuditTrail, TLC

Interchangeable ==
    Permutations(Name) \cup Permutations(Code)
    \cup Permutations(Perm) \cup Permutations(Request)
=============================================================================

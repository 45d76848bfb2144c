--------------------------- MODULE MCAccessTokens ---------------------------
(***************************************************************************)
(* AccessTokens on a small instance.                                       *)
(***************************************************************************)
EXTENDS AccessTokens, TLC

Interchangeable == 
    Permutations(Token) \cup Permutations(Request)
    \cup Permutations(Process) \cup Permutations(User)
=============================================================================

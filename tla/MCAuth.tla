------------------------------- MODULE MCAuth -------------------------------
(* Auth on small sets.  Tokens, request slots and users are interchangeable; *)
(* runs that check liveness do not use the symmetry.                         *)
EXTENDS Auth, TLC

Interchangeable == Permutations(Tokens) \cup Permutations(Requests) \cup Permutations(Users)
=============================================================================

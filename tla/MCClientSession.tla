-------------------------- MODULE MCClientSession --------------------------
(* ClientSession on small sets.                                             *)
EXTENDS ClientSession, TLC

\* No definition tells one call, flight, pair or account from another.
Interchangeable == Permutations(Calls) \cup Permutations(Flights)
                   \cup Permutations(Pairs) \cup Permutations(Accounts)
=============================================================================

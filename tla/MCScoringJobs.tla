--------------------------- MODULE MCScoringJobs ---------------------------
(* ScoringJobs on small sets.  Runs that check an invariant use the symmetry. *)
EXTENDS ScoringJobs, TLC

Interchangeable == Permutations(Users) \cup Permutations(Sessions) \cup Permutations(Verses)
                   \cup Permutations(Requests) \cup Permutations(Deletions)
=============================================================================

--------------------------- MODULE MCPracticeSync ---------------------------
(* PracticeSync on small sets; the tabs of a browser are interchangeable, as *)
(* are its users.                                                            *)
EXTENDS PracticeSync, FiniteSetsExt, TLC

\* Once an account has changed under another tab no property speaks of the
\* caches any more: such a state is checked, its successors are not visited; nor
\* are those of a state in which more than three calls wait.
Whole ==
  /\ ~split
  /\ FoldSet(LAMBDA t, n : Len(calls[t]) + n, 0, Tabs) <= 3

Interchangeable == Permutations(Tabs) \cup Permutations(Users)
=============================================================================

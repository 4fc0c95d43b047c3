----------------------------- MODULE BestScores -----------------------------
(***************************************************************************)
(* What ADR 0021 promises of best scores, without tabs, caches or rows:    *)
(* one register per user that a score can only raise, so that the order in *)
(* which devices report and how often they do does not matter.             *)
(***************************************************************************)
EXTENDS Naturals
CONSTANTS Users, MaxScore
VARIABLE register

Init == register = [u \in Users |-> 0]

Raise(u, s) == s > register[u] /\ register' = [register EXCEPT ![u] = s]

Next == \E u \in Users, s \in 1..MaxScore : Raise(u, s)

Spec == Init /\ [][Next]_register
=============================================================================

-------------------------- MODULE AccountLifecycle --------------------------
(***************************************************************************)
(* What ADR 0024 promises about an account, without requests, tables or    *)
(* tokens: it opens once, the owner can close and restore it, a closed     *)
(* account lapses when its grace window is over, and only lapsed accounts  *)
(* are erased, for good.                                                   *)
(***************************************************************************)
CONSTANT Accounts
VARIABLE stage

Init == stage = [a \in Accounts |-> "none"]

Move(a, from, to) == stage[a] \in from /\ stage' = [stage EXCEPT ![a] = to]

Open(a) == Move(a, {"none"}, "open")
Close(a) == Move(a, {"open"}, "closed")
Restore(a) == Move(a, {"closed", "lapsed"}, "open")
Lapse(a) == Move(a, {"closed"}, "lapsed")

\* The purge takes every lapsed account at once.
Erase ==
  /\ \E a \in Accounts : stage[a] = "lapsed"
  /\ stage' = [a \in Accounts |-> IF stage[a] = "lapsed" THEN "erased" ELSE stage[a]]

Next == Erase \/ \E a \in Accounts : Open(a) \/ Close(a) \/ Restore(a) \/ Lapse(a)

\* A closed account does not stay closed: it is restored or erased.
Spec == Init /\ [][Next]_stage /\ WF_stage(Erase) /\ \A a \in Accounts : WF_stage(Lapse(a))
SafeSpec == Init /\ [][Next]_stage
=============================================================================

\* Two accounts on one device, two calls at a time, on both platforms.
SPECIFICATION Spec
CONSTANTS
  Platforms = {"ios", "android"}
  Accounts = {a1, a2}
  Pairs = {p1, p2, p3, p4}
  Calls = {c1, c2}
  Flights = {f1, f2}
  MaxFaults = 1
  None = None
INVARIANTS
  NoReplay
  SessionConsistent
  DeadMeansDead
SYMMETRY Interchangeable
\* Every pair may have been used.
CHECK_DEADLOCK FALSE

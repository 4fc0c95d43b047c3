\* The caller that started a refresh goes away, on Android.
SPECIFICATION Spec
CONSTANTS
  Platforms = {"android"}
  Accounts = {a1}
  Pairs = {p1, p2, p3}
  Calls = {c1, c2}
  Flights = {f1, f2}
  MaxFaults = 1
  None = None
INVARIANT OneRefreshPerWindow
CHECK_DEADLOCK FALSE

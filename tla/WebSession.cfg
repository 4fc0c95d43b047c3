\* Two tabs, two users, up to three pairs of tokens, one fault.
SPECIFICATION Spec
CONSTANTS
  Users = {u1, u2}
  Tabs = {t1, t2}
  MaxPairs = 3
  MaxFaults = 1
  None = None
INVARIANTS
  DeadSessionExplained
  SignedOutStays
PROPERTIES
  SessionKept
SYMMETRY Interchangeable
CHECK_DEADLOCK FALSE

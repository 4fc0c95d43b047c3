\* One user whose access token expires opens the home page.
SPECIFICATION Spec
CONSTANTS
  Users = {u1}
  Tabs = {t1}
  MaxPairs = 3
  MaxFaults = 0
  None = None
INVARIANTS
  RotationPersisted
CHECK_DEADLOCK FALSE

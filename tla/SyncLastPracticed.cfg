\* Two tabs of one signed-in user start a practice each.
SPECIFICATION Spec
CONSTANTS
  Users = {u1}
  Tabs = {t1, t2}
  Keys = {"last"}
  MaxScore = 0
  HistoryLimit = 1
  MaxNow = 2
  MaxQueue = 2
  MaxFaults = 0
  MaxSwitches = 0
  None = None
PROPERTIES
  LastPracticedNewest
CHECK_DEADLOCK FALSE

\* Two tabs of one browser, two results or practices begun, one fault, one account change.
SPECIFICATION Spec
CONSTANTS
  Users = {u1, u2}
  Tabs = {t1, t2}
  Keys = {"best", "hist", "last"}
  MaxScore = 2
  HistoryLimit = 1
  MaxNow = 2
  MaxQueue = 2
  MaxFaults = 1
  MaxSwitches = 1
  None = None
CONSTRAINT Whole
SYMMETRY Interchangeable
INVARIANTS
  NoBleed
  ScoresReachServer
PROPERTIES
  BestScoresKept
CHECK_DEADLOCK FALSE

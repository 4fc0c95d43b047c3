\* Two recordings of one panel, an interval that fires while at most one call waits,
\* and one failure.
SPECIFICATION FairSpec
CONSTANTS
  MaxTakes = 2
  MaxCalls = 2
  MaxFaults = 1
INVARIANTS
  MicReleased
  ShownIsCurrent
  OneAttemptPerJob
PROPERTIES
  PanelSettles
CHECK_DEADLOCK FALSE

\* A submission that was cancelled, and whose answers still come.
SPECIFICATION FairSpec
CONSTANTS
  MaxTakes = 2
  MaxCalls = 1
  MaxFaults = 0
PROPERTIES
  CancelReturnsToIdle
CHECK_DEADLOCK FALSE

\* Three requests of one session, with a lost write or a restart: the status.
SPECIFICATION FairSpec
CONSTANTS
  Users = {u1}
  Sessions = {s1}
  Names = {n1}
  Verses = {v1, v2}
  Requests = {r1, r2, r3}
  Deletions = {}
  MaxTick = 0
  MaxFaults = 1
  None = None
INVARIANTS
  CompletedScoreAgrees
  RunningExplained
PROPERTIES
  CompletionKept
  RunningSettles
CHECK_DEADLOCK FALSE

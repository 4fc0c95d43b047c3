\* ADR 0019: a handler writes COMPLETED or FAILED.
SPECIFICATION Spec
CONSTANTS
  Users = {u1}
  Sessions = {s1}
  Names = {n1}
  Verses = {v1}
  Requests = {r1}
  Deletions = {}
  MaxTick = 0
  MaxFaults = 1
  None = None
INVARIANT
  CompletedOrFailed
CHECK_DEADLOCK FALSE

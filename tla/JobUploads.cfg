\* Two users, two sessions, keys that may collide, a deletion: whose audio is
\* scored for whom, and what stays in the object store.
SPECIFICATION Spec
CONSTANTS
  Users = {u1, u2}
  Sessions = {s1, s2}
  Names = {n1}
  Verses = {v1}
  Requests = {r1, r2}
  Deletions = {d1}
  MaxTick = 1
  MaxFaults = 1
  None = None
INVARIANTS
  JobsBelongToUploader
  ScoresOwnRecording
  AudioAccounted
SYMMETRY Interchangeable
CHECK_DEADLOCK FALSE

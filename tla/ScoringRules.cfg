\* One user, two jobs per window of three ticks, one restart; and every pair of
\* a short verse and a short answer; and two recitals of a verse of eleven words.
SPECIFICATION SpecRules
CONSTANTS
  Users = {u1}
  WindowMs = 3
  MaxJobs = 2
  MaxNow = 7
  MaxCalls = 6
  MaxRestarts = 1
  Characters = {"a", "b", "fatha", "waqf"}
  Marks = {"fatha", "waqf"}
  References <- Verses
  Responses <- Answers
  Recitals <- MCRecitals
  MaxScored = 2
  BelowHalf <- MCBelowHalf
INVARIANTS
  QuotaExact
  DistancesExact
  ScoreShownFairly
CHECK_DEADLOCK FALSE

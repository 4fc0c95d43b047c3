SPECIFICATION FairSpec
CONSTANTS
  Surahs = {"1"}
  AskedSurahs = {"1", "115"}
  Ayahs = {1, 2}
  AskedAyahs = {1, 2, 9}
  Voiced <- VoicedOnes
  Visits = {v1, v2}
  MaxRetries = 2
  None = None
INVARIANTS
  AbsenceExplained
  ScoringExplained
PROPERTIES
  VisitsEnd
CHECK_DEADLOCK FALSE

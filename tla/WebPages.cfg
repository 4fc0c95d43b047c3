\* The profile page with one preference and one fault, four days of 23 to 25 hours
\* with practice of two surahs, three rows of the history and two verses to play, one
\* job, two arrivals and two attempts to sign in, two cached attempts with one filter.
SPECIFICATION Spec
CONSTANTS
  Prefs = {goal}
  MaxTodo = 2
  MaxTrouble = 1
  Surahs = {1, 2}
  ShortMeccan = {1, 2}
  FallbackSurah = 2
  RecentWindow = 24
  DayLengths <- MCDayLengths
  MaxAttempts = 3
  Scores = {1}
  MaxPractice = 3
  Rows = {r1, r2, r3}
  NoRow = NoRow
  MaxAsked = 3
  Ayahs = {a1, a2}
  Completed = {s1}
  MaxArrivals = 2
  MaxHistory = 3
  MaxTries = 2
  MaxWrites = 3
  Chapters = {1, 2}
  Grades = {1, 2}
  MaxCached = 2
  MaxChips = 1
  MaxWeeks = 2
INVARIANTS CardShowsStored StreakCounted PlaybackHeard EntersCleanly ListsAgree
PROPERTIES SavedMeansStored SuggestionRested ResultSettles
CHECK_DEADLOCK FALSE

\* Two claims of the repository that the pages do not keep, each of which is violated;
\* TLC stops at the first, so check them one at a time: what the home page keeps
\* showing after a sign-out (HomePage), and a streak over a change of the clocks (Progress).
SPECIFICATION Spec
CONSTANTS
  Prefs = {goal}
  MaxTodo = 2
  MaxTrouble = 1
  Surahs = {1, 2}
  ShortMeccan = {1, 2}
  FallbackSurah = 2
  RecentWindow = 24
  DayLengths <- MCDayLengths
  MaxAttempts = 3
  Scores = {1}
  MaxPractice = 3
  Rows = {r1, r2, r3}
  NoRow = NoRow
  MaxAsked = 3
  Ayahs = {a1, a2}
  Completed = {s1}
  MaxArrivals = 2
  MaxHistory = 3
  MaxTries = 2
  MaxWrites = 3
  Chapters = {1, 2}
  Grades = {1, 2}
  MaxCached = 2
  MaxChips = 1
  MaxWeeks = 2
INVARIANTS SignedOutShowsNothing StreakIsCalendar
CHECK_DEADLOCK FALSE

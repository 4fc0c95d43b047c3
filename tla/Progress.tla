------------------------------ MODULE Progress ------------------------------
(***************************************************************************)
(* What the program makes of past practice: the BFF's suggestion of the    *)
(* next surah (suggestions.ts, shown by SuggestedCard) and the streaks the *)
(* web app computes from its cached attempts (historyStats.ts).            *)
(*                                                                         *)
(* Time is counted in hours of the clock that Date uses.  A local day has  *)
(* 24 of them, or 23 or 25 when the clocks change.  One verse per surah is *)
(* practised, so that its best score is the average of the surah.          *)
(***************************************************************************)
EXTENDS Integers, Sequences, FiniteSets, FiniteSetsExt

CONSTANTS
  Surahs,        \* the ids of surahs
  ShortMeccan,   \* those with at most ten verses, revealed in Mecca
  FallbackSurah, \* FALLBACK_SURAH_ID
  RecentWindow,  \* RECENT_ATTEMPT_WINDOW_DAYS, in hours
  DayLengths,    \* the lengths of the days that are followed
  MaxAttempts,   \* of attempts that the web app caches
  Scores,
  MaxPractice    \* bound on attempts

ASSUME ProgressConstants ==
  /\ ShortMeccan \subseteq Surahs /\ Surahs \subseteq Nat /\ Scores \subseteq Nat
  /\ RecentWindow \in Nat /\ MaxAttempts \in Nat \ {0}
  /\ DayLengths \in Seq({23, 24, 25}) \ {<<>>}

None == -1

VARIABLES
  now,
  attempts,    \* practice_attempts of the user: [surah, at]
  bestOf,      \* best_scores of the user: by surah, or None
  recent,      \* the times of the attempts the web app caches, newest first
  request,     \* getSuggestion under way: what it has read, empty where it has not
  suggestion   \* what the library page shows: [surah, reason]

progressVars == <<now, attempts, bestOf, recent, request, suggestion>>

NoRequest == [avgs |-> <<>>, read |-> FALSE, rows |-> {}]
NoSuggestion == [surah |-> None, reason |-> "none"]

InitProgress ==
  /\ now = 0
  /\ attempts = {} /\ bestOf = [s \in Surahs |-> None] /\ recent = <<>>
  /\ request = NoRequest /\ suggestion = NoSuggestion

-----------------------------------------------------------------------------
(* The calendar.  Day d is DayLengths[d]; it starts at Midnight[d].         *)

Days == DOMAIN DayLengths
Midnight[d \in Days] == IF d = 1 THEN 0 ELSE Midnight[d - 1] + DayLengths[d - 1]
DayOf(t) == Max({d \in Days : Midnight[d] <= t})

\* startOfDay: setHours(0, 0, 0, 0) goes to the midnight of the local day.
StartOfDay(t) == Midnight[DayOf(t)]

Day == 24   \* MS_PER_DAY
PracticedDays(times) == {StartOfDay(times[i]) : i \in DOMAIN times}

\* The days of the run that ends with, or starts with, a midnight: the steps are
\* of 24 hours, and a day that is not found ends it.
Length(days, start, step) ==
  Cardinality({n \in 0..Cardinality(days) : \A i \in 0..n : start + i * step \in days})

-----------------------------------------------------------------------------
(* Variants with a plausible mistake; no action of Next uses them.          *)

\* A day not practised yet keeps the streak of the day before.
StreakOrYesterday(times, t) ==
  LET today == StartOfDay(t) IN
  Length(PracticedDays(times), IF today \in PracticedDays(times) THEN today ELSE today - Day, -Day)

\* Every earlier attempt has lapsed, those inside the window too.
LapsedEarly(lasts, t) == {s \in ShortMeccan : lasts[s] # None /\ lasts[s] <= t}

-----------------------------------------------------------------------------
(* historyStats.ts                                                          *)

\* The consecutive days up to today
ComputeStreak(times, t) == Length(PracticedDays(times), StartOfDay(t), -Day)

\* Only the days with none before them start a run.
ComputeLongestStreak(times) ==
  LET days == PracticedDays(times) IN
  Max({0} \cup {Length(days, d, Day) : d \in {e \in days : e - Day \notin days}})

-----------------------------------------------------------------------------
(* suggestions.ts                                                           *)

LastAttempts(taken) ==
  [s \in Surahs |-> Max({None} \cup {a.at : a \in {b \in taken : b.surah = s}})]

Unpracticed(lasts) == {s \in ShortMeccan : lasts[s] = None}
Lapsed(lasts, t) == {s \in ShortMeccan : lasts[s] # None /\ lasts[s] < t - RecentWindow}

\* A surah without a score ranks after all others, equals by their ids.
Weakest(surahs, avgs) ==
  CHOOSE s \in surahs : \A r \in surahs \ {s} :
    \/ avgs[s] # None /\ (avgs[r] = None \/ avgs[s] < avgs[r])
    \/ avgs[s] = avgs[r] /\ s < r

ComposeSuggestion(avgs, lasts, t) ==
  IF Unpracticed(lasts) # {}
  THEN [surah |-> Min(Unpracticed(lasts)), reason |-> "short_unpracticed"]
  ELSE IF Lapsed(lasts, t) # {}
  THEN [surah |-> Weakest(Lapsed(lasts, t), avgs), reason |-> "short_low_score"]
  ELSE [surah |-> FallbackSurah, reason |-> "fallback"]

-----------------------------------------------------------------------------
(* Practice, as recordAttempt and recordBestScore leave it on both sides; a *)
(* failed attempt has no score.                                             *)

Practise(s, score) ==
  /\ Cardinality(attempts) < MaxPractice
  /\ attempts' = attempts \cup {[surah |-> s, at |-> now]}
  /\ bestOf' = [bestOf EXCEPT ![s] = Max({@, score})]
  /\ recent' = SubSeq(<<now>> \o recent, 1, Min({Len(recent) + 1, MaxAttempts}))
  /\ UNCHANGED <<now, request, suggestion>>

\* Noon of each day, and midnight of the first and of the last
Moments == {Midnight[d] + 12 : d \in Days} \cup {Midnight[d] : d \in {1, Len(DayLengths)}}
Wait ==
  /\ \E t \in Moments : t > now
  /\ now' = Min({t \in Moments : t > now})
  /\ UNCHANGED <<attempts, bestOf, recent, request, suggestion>>

\* getSuggestion reads the tables at once, in any order.
ReadAverages ==
  /\ request.avgs = <<>>
  /\ request' = [request EXCEPT !.avgs = bestOf]
  /\ UNCHANGED <<now, attempts, bestOf, recent, suggestion>>

ReadLastAttempts ==
  /\ ~request.read
  /\ request' = [request EXCEPT !.read = TRUE, !.rows = attempts]
  /\ UNCHANGED <<now, attempts, bestOf, recent, suggestion>>

\* The page takes the suggestion of the BFF.
GetSuggestion ==
  /\ request.avgs # <<>> /\ request.read
  /\ suggestion' = ComposeSuggestion(request.avgs, LastAttempts(request.rows), now)
  /\ request' = NoRequest
  /\ UNCHANGED <<now, attempts, bestOf, recent>>

NextProgress ==
  \/ \E s \in Surahs, score \in Scores \cup {None} : Practise(s, score)
  \/ Wait \/ ReadAverages \/ ReadLastAttempts \/ GetSuggestion

SpecProgress == InitProgress /\ [][NextProgress]_progressVars

-----------------------------------------------------------------------------
(* Properties.                                                              *)

PractisedOn(d) == \E i \in DOMAIN recent : DayOf(recent[i]) = d

\* The days of the calendar practised in a row up to today
CalendarStreak ==
  LET today == DayOf(now) IN
  Max({0} \cup {n \in 1..today : \A d \in (today - n + 1)..today : PractisedOn(d)})

\* One of them, before today, has 23 or 25 hours.
ClocksChanged ==
  \E d \in (DayOf(now) - CalendarStreak + 1)..(DayOf(now) - 1) : DayLengths[d] # Day

\* The streak of the badge and of the history page is that of the calendar, unless
\* the clocks changed within it: then it may fall short, since the code steps by
\* 24 hours (historyStats.ts:94), but never counts a day too many.  The longest
\* streak is never shorter than the current one, and never longer than some row
\* of days that were all practised.
StreakCounted ==
  LET streak == ComputeStreak(recent, now)
      longest == ComputeLongestStreak(recent) IN
  /\ streak <= CalendarStreak
  /\ streak = CalendarStreak \/ ClocksChanged
  /\ streak <= longest
  /\ \E end \in Days : \A d \in (end - longest + 1)..end : d \in Days /\ PractisedOn(d)

\* historyStats.ts:27-31: "Structural twin of iOS `HistoryStats.compute`", which
\* steps by calendar days (StatsGrid.swift:114).  It is violated: after a day of 23
\* or 25 hours the code does not find the midnight (see the README).
StreakIsCalendar == ComputeStreak(recent, now) = CalendarStreak

\* A suggestion that is not the fallback names a short Meccan surah which none
\* of the attempts it read practised within the window; and the fallback is only
\* named when all of them were (composeSuggestion).
SuggestionRested ==
  [][LET rested == {s \in ShortMeccan : \A a \in request.rows :
                      a.surah = s => a.at < now - RecentWindow} IN
     request.read /\ ~request'.read =>
       /\ suggestion'.reason # "fallback" => suggestion'.surah \in rested
       /\ suggestion'.reason = "fallback" => rested = {}]_progressVars
=============================================================================

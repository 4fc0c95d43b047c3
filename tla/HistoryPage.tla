----------------------------- MODULE HistoryPage ----------------------------
(***************************************************************************)
(* The history page of the web app: the attempts of localStorage as it     *)
(* last read them (HistoryList.tsx), a filter by surah with a few chips    *)
(* (historyFilters.ts), two orders, and the tiles of a week or a lifetime  *)
(* (HistoryStatsGrid.tsx, historyStats.ts).  Playback is in Listening.     *)
(*                                                                         *)
(* Time is counted in weeks.                                               *)
(***************************************************************************)
EXTENDS Naturals, Sequences, FiniteSets, SequencesExt

CONSTANTS
  Chapters,   \* the surahs of the attempts
  Grades,     \* the scores
  MaxCached,  \* HISTORY_LIMIT
  MaxChips,   \* MAX_SURAH_CHIPS
  MaxWeeks    \* bound on the time that passes

ASSUME HistoryPageConstants == Grades \subseteq Nat /\ MaxCached \in Nat

VARIABLES
  week,       \* the time
  snapshot,   \* what the page read, and when: [rows, readAt]; a row is
              \* [surah, score, at], newest first, and a score of 0 is none
  filter,     \* the surahs it lists: one, or all
  scope, scopedAt,   \* "week" or "lifetime", and when that was last chosen
  order,      \* "recent" or "score"
  reread      \* history: the snapshot was replaced since the filter was chosen

pastVars == <<week, snapshot, filter, scope, scopedAt, order, reread>>

All == Chapters

InitPast ==
  /\ week = 0
  /\ snapshot = [rows |-> <<>>, readAt |-> 0]
  /\ filter = All /\ scope = "week" /\ scopedAt = 0 /\ order = "recent"
  /\ reread = FALSE

-----------------------------------------------------------------------------
(* What the page derives from its state.                                    *)

Listed(rows, chosen) ==
  LET first[n \in 0..Len(rows)] ==   \* what is listed of the first n
        IF n = 0 THEN <<>>
        ELSE IF rows[n].surah \in chosen THEN Append(first[n - 1], rows[n]) ELSE first[n - 1]
  IN first[Len(rows)]

\* Stable: of equal scores the newest stays first; no score sorts last.
ByScore(rows) ==
  LET Before(i, j) == rows[i].score > rows[j].score \/ (rows[i].score = rows[j].score /\ i < j)
      Rank(i) == 1 + Cardinality({j \in DOMAIN rows : Before(j, i)})
  IN [k \in DOMAIN rows |-> rows[CHOOSE i \in DOMAIN rows : Rank(i) = k]]

VisibleAttempts ==
  LET rows == Listed(snapshot.rows, filter) IN IF order = "score" THEN ByScore(rows) ELSE rows

\* The surahs of the chips: the first few that occur.
Recency(s) == CHOOSE i \in DOMAIN snapshot.rows :
  snapshot.rows[i].surah = s /\ \A j \in 1..(i - 1) : snapshot.rows[j].surah # s
FilterOptions ==
  LET seen == {snapshot.rows[i].surah : i \in DOMAIN snapshot.rows} IN
  {{s} : s \in {t \in seen : Cardinality({u \in seen : Recency(u) < Recency(t)}) < MaxChips}}

ScopeNow == IF scopedAt > snapshot.readAt THEN scopedAt ELSE snapshot.readAt
ScopedAttempts ==
  IF scope = "lifetime" THEN snapshot.rows
  ELSE SelectSeq(snapshot.rows, LAMBDA a : a.at + 1 >= ScopeNow)

\* The first of the best scored attempts
BestAttempt(rows) ==
  LET Beats(i, j) == rows[i].score > rows[j].score \/ (rows[i].score = rows[j].score /\ i <= j)
  IN {rows[i] : i \in {k \in DOMAIN rows : rows[k].score > 0 /\ \A j \in DOMAIN rows : Beats(k, j)}}

-----------------------------------------------------------------------------
(* Variants with a plausible mistake; no action of Next uses them.          *)

\* The rows are sorted where they are.
SortedInPlace(rows, by) == IF by = "score" THEN ByScore(rows) ELSE rows

-----------------------------------------------------------------------------

\* What localStorage may have got since the page read it: at most one more attempt.
Newer == {<<>>} \cup
  {<<[surah |-> s, score |-> score, at |-> at]>> :
     s \in Chapters, score \in Grades \cup {0}, at \in snapshot.readAt..week}

\* The tab becomes visible, and reads what localStorage has by then: the attempts
\* of another tab or of a refresh of the cache too, and never too many; or
\* nothing, when another tab has signed out.
Refresh ==
  /\ \E newer \in Newer :
       LET rows == newer \o snapshot.rows
           cached == SubSeq(rows, 1, IF Len(rows) < MaxCached THEN Len(rows) ELSE MaxCached)
       IN \E read \in {cached, <<>>} : snapshot' = [rows |-> read, readAt |-> week]
  /\ reread' = (filter # All)
  /\ UNCHANGED <<week, filter, scope, scopedAt, order>>

\* While there are attempts the page shows chips, orders and scopes.
Controls == snapshot.rows # <<>>
Select ==
  /\ Controls
  /\ filter' \in {All} \cup FilterOptions /\ reread' = FALSE
  /\ UNCHANGED <<week, snapshot, scope, scopedAt, order>>

Sorted(rows, by) == rows
Sort ==
  /\ Controls
  /\ order' \in {"recent", "score"}
  /\ snapshot' = [snapshot EXCEPT !.rows = Sorted(@, order')]
  /\ UNCHANGED <<week, filter, scope, scopedAt, reread>>
ScopeChange ==
  /\ Controls
  /\ scope' \in {"week", "lifetime"} /\ scopedAt' = week
  /\ UNCHANGED <<week, snapshot, filter, order, reread>>

WeekPasses ==
  /\ week < MaxWeeks /\ week' = week + 1
  /\ UNCHANGED <<snapshot, filter, scope, scopedAt, order, reread>>

NextPast == Refresh \/ Select \/ Sort \/ ScopeChange \/ WeekPasses
SpecPast == InitPast /\ [][NextPast]_pastVars

-----------------------------------------------------------------------------
(* Properties.                                                              *)

\* The recent order is newest first, whatever order was chosen before.  With all
\* surahs over a lifetime the Best tile is the first row by score.  And a list is
\* narrowed to a surah whose chip is shown, with a row at least, unless the page
\* has read the attempts again since.
HistoryAgrees ==
  LET rows == VisibleAttempts IN
  /\ order = "recent" => \A i, j \in DOMAIN rows : i < j => rows[i].at >= rows[j].at
  /\ order = "score" /\ filter = All /\ scope = "lifetime" =>
       BestAttempt(ScopedAttempts) = {rows[i] : i \in {k \in DOMAIN rows : k = 1 /\ rows[k].score > 0}}
  /\ filter # All /\ ~reread => filter \in FilterOptions /\ rows # <<>>
=============================================================================

----------------------------- MODULE ResultPage -----------------------------
(***************************************************************************)
(* A score on its way to the reader.  The backend stores the evaluation of *)
(* a job and its score, a NUMERIC(6,3), and answers the request with the   *)
(* score it computed; the web app keeps a personal best from that answer   *)
(* (RecorderPanel.tsx) and opens the result page, which reads the row      *)
(* again through the BFF (scoringJobs.ts) and shows a dial, three cards,   *)
(* the words and the personal best (ResultDetail.tsx).                     *)
(*                                                                         *)
(* A recital is the numbers of words of a verse that were matched,         *)
(* substituted and left out, and of words added: what the page tells apart.*)
(***************************************************************************)
EXTENDS Recitation

CONSTANTS
  Recitals,    \* [match, substitute, delete, insert]: the recitals of one verse
  MaxScored,   \* bound on the jobs scored
  BelowHalf    \* the thousandths n.5 % whose product with 100 is just below n.5

ASSUME ResultPageConstants ==
  \A recital \in Recitals :
    /\ recital \in [match : Nat, substitute : Nat, delete : Nat, insert : Nat]
    /\ recital.match + recital.substitute + recital.delete > 0

VARIABLES
  row,     \* the row of the job last scored: [score, evaluation], or NoJob
  best,    \* the personal best of the verse in the cache, 0 for none
  page,    \* what the result page shows, NoJob while it is not open
  scored   \* the jobs scored

pageVars == <<row, best, page, scored>>

NoJob == [dial |-> -1]

InitPage == row = NoJob /\ best = 0 /\ page = NoJob /\ scored = 0

-----------------------------------------------------------------------------
(* The backend.                                                             *)

RowsOf(recital) ==
  LET Times(n, r) == [k \in 1..n |-> r]
      w == <<"w">>  v == <<"v">>
  IN  Times(recital.match, WordRow(w, w, "match")) \o Times(recital.substitute, WordRow(w, v, "substitute"))
        \o Times(recital.delete, WordRow(w, <<>>, "delete")) \o Times(recital.insert, WordRow(<<>>, v, "insert"))

WordsOf(recital) == recital.match + recital.substitute + recital.delete
WrongIn(recital) == recital.substitute + recital.delete + recital.insert

ScoreOf(recital) == ScorePronunciation(RowsOf(recital), <<>>, <<WrongIn(recital), WordsOf(recital)>>)

\* The JSON of an alignment leaves out a word that is empty.
Evaluation(recital) ==
  LET s == ScoreOf(recital)
  IN  [accuracy     |-> s.accuracy,
       completeness |-> s.completeness,
       wer          |-> <<WrongIn(recital), WordsOf(recital)>>,
       alignments   |-> RowsOf(recital)]

\* NUMERIC(6,3) rounds to thousandths, halves up.
Stored(score) == <<(2000 * score[1] + score[2]) \div (2 * score[2]), 1000>>

-----------------------------------------------------------------------------
(* The BFF.                                                                 *)

Null == <<"null">>   \* not a word: no word has this for a character

WordOrNull(word) == IF word = <<>> THEN Null ELSE word

MapEvaluationToFeedback(evaluation, overall) ==
  [accuracy       |-> evaluation.accuracy,
   completeness   |-> evaluation.completeness,
   overall        |-> overall,
   wer            |-> evaluation.wer,
   wordAlignments |-> [k \in DOMAIN evaluation.alignments |->
                        [refWord |-> WordOrNull(evaluation.alignments[k].refWord),
                         hypWord |-> WordOrNull(evaluation.alignments[k].hypWord),
                         op      |-> evaluation.alignments[k].op]]]

-----------------------------------------------------------------------------
(* The web app.                                                             *)

\* Math.round(raw * 100): halves up, unless the product of the floats is short
\* of the half.
ToScoreOutOf100(raw) ==
  LET half == (200 * raw[1]) % (2 * raw[2]) = raw[2]
      short == half /\ (1000 * raw[1]) \div raw[2] \in BelowHalf
  IN  (200 * raw[1] + raw[2]) \div (2 * raw[2]) - (IF short THEN 1 ELSE 0)

VerdictForScore(score) ==
  IF score >= 90 THEN "mastered"
  ELSE IF score >= 70 THEN "great"
  ELSE IF score >= 40 THEN "midway" ELSE "beginner"

\* The bug of knowing the operations by the names jiwer gave them only.
CategoryJiwer(op) ==
  CASE op = "equal"      -> "match"
    [] op = "delete"     -> "missing"
    [] op = "insert"     -> "inserted"
    [] OTHER             -> "substitution"

CategoryFor(op) ==
  CASE op \in {"equal", "match"}  -> "match"
    [] op \in {"delete", "del"}   -> "missing"
    [] op \in {"insert", "ins"}   -> "inserted"
    [] OTHER                      -> "substitution"

\* The two rows of tiles; a word that is not there is a placeholder.
Tiles(alignments) ==
  [k \in DOMAIN alignments |->
    [expected |-> alignments[k].refWord, heard |-> alignments[k].hypWord,
     category |-> CategoryFor(alignments[k].op)]]

\* The dial and the cards stay between 0 and 100 %.
ScoreDial(score) == Max({0, Min({100, score})})
ToPercent(value) == Clamp(value[1], value[2])

\* The personal best is read from the cache.
SideStats == best

ResultDetail(feedback, score) ==
  LET points == ToScoreOutOf100(score)
  IN  [dial         |-> ScoreDial(points),
       verdict      |-> VerdictForScore(points),
       accuracy     |-> ToPercent(feedback.accuracy),
       completeness |-> ToPercent(feedback.completeness),
       wer          |-> feedback.wer,
       tiles        |-> Tiles(feedback.wordAlignments),
       personalBest |-> SideStats]

-----------------------------------------------------------------------------
(* A job is scored; its panel records the best score of the answer and goes *)
(* to the result page, which may also be opened again later.                *)

ScoreJob(recital) ==
  LET overall == ScoreOf(recital).overall IN
  /\ scored < MaxScored
  /\ scored' = scored + 1
  /\ row' = [score |-> Stored(overall), evaluation |-> Evaluation(recital)]
  /\ best' = Max({best, ToScoreOutOf100(overall)})
  /\ page' = NoJob

ShowResult ==
  /\ row # NoJob
  /\ page' = ResultDetail(MapEvaluationToFeedback(row.evaluation, row.score), row.score)
  /\ UNCHANGED <<row, best, scored>>

NextPage == (\E recital \in Recitals : ScoreJob(recital)) \/ ShowResult

-----------------------------------------------------------------------------
(* Properties.                                                              *)

CountTiles(p, cat) == Cardinality({k \in DOMAIN p.tiles : p.tiles[k].category = cat})
Expected(p) == Cardinality({k \in DOMAIN p.tiles : p.tiles[k].expected # Null})
Missing(p) == CountTiles(p, "missing")
Wrong(p) == Len(p.tiles) - CountTiles(p, "match")

\* What the page says in numbers is what its tiles show: the wrong tiles over the
\* expected words are the word error rate, those not missing the completeness,
\* and the dial is their mean, of the accuracy it shows and that completeness, to
\* within a point.  The personal best beside it is of the same scores, but it
\* comes from the answer to the request, before the database rounds: it may trail
\* the dial by a point, never by more.
PageAgrees ==
  page # NoJob =>
    LET n == Expected(page)
        mean == 100 * (2 * n - Wrong(page) - Missing(page))   \* dial = mean / 2n
    IN  /\ page.wer = <<Wrong(page), n>>
        /\ page.completeness = <<n - Missing(page), n>>
        /\ Wrong(page) <= n => page.accuracy = <<n - Wrong(page), n>>
                            /\ 2 * n * (page.dial - 1) <= mean /\ mean <= 2 * n * (page.dial + 1)
        /\ page.dial - 1 <= page.personalBest
=============================================================================

----------------------------- MODULE Recitation -----------------------------
(***************************************************************************)
(* How the Go backend scores one recitation: the recogniser's answer is    *)
(* flattened into a transcript, both texts are stripped of diacritics and  *)
(* cut into words, and a word alignment, a word error rate, a character    *)
(* error rate and a pronunciation score are computed from them.            *)
(*                                                                         *)
(* A text is a sequence of words as printed, a word is a sequence of       *)
(* characters, and Marks are the characters isDiacritic() drops.  A rate   *)
(* is a pair <<numerator, denominator>>: the code divides in float64,      *)
(* which is exact where the properties look (0 and 1).                     *)
(***************************************************************************)
EXTENDS Naturals, Integers, Sequences, FiniteSets, SequencesExt

CONSTANTS
  Characters,   \* what words are made of
  Marks,        \* the characters of U+064B-065F, U+0670 and U+06D6-06ED
  References,   \* the texts a verse may have
  Responses     \* the answers of the recogniser: sequences of results

\* A result is a list of alternative texts and a confidence in percent.
ASSUME RecitationConstants ==
  /\ References \subseteq Seq(Seq(Characters))
  /\ \A r \in Responses :
       r \in Seq([alternatives : Seq(Seq(Seq(Characters))), confidence : Nat])

VARIABLES
  reference,    \* Request.ExpectedText
  response,     \* RecognizeResponse
  result        \* scoring.Result, NotScored before, Failed after an error

recitationVars == <<reference, response, result>>

NotScored == [wer |-> <<>>]
Failed == [wer |-> <<0>>]

-----------------------------------------------------------------------------
(* Text *)

\* What is left of a sequence without the members of a set.
Without(seq, S) ==
  LET kept[n \in 0..Len(seq)] ==   \* of the first n
        IF n = 0 THEN <<>>
        ELSE IF seq[n] \in S THEN kept[n - 1] ELSE Append(kept[n - 1], seq[n])
  IN  kept[Len(seq)]

Joined(seqs) ==
  LET joined[n \in 0..Len(seqs)] == IF n = 0 THEN <<>> ELSE joined[n - 1] \o seqs[n]
  IN  joined[Len(seqs)]

\* A pause sign printed as a word of its own leaves no word behind.
Normalize(word) == Without(word, Marks)

Tokens(text) == Without([k \in DOMAIN text |-> Normalize(text[k])], {<<>>})

Letters(text) == Joined(Tokens(text))

\* Only the first alternative of a result counts; a result may have none.
ParseResponse(resp) ==
  LET tops == Without(resp, {resp[k] : k \in {i \in DOMAIN resp : resp[i].alternatives = <<>>}})
  IN  [transcript |-> Joined([k \in DOMAIN tops |-> tops[k].alternatives[1]]),
       words      |-> Joined([k \in DOMAIN tops |->
                        [i \in DOMAIN tops[k].alternatives[1] |-> tops[k].confidence]])]

-----------------------------------------------------------------------------
(* Alignment *)

OpPriority(op) ==
  CASE op = "match"      -> 0
    [] op = "substitute" -> 1
    [] op = "delete"     -> 2
    [] op = "insert"     -> 3

\* The cheapest candidate; of equally cheap ones the first in priority.
PickBest(candidates) ==
  CHOOSE c \in candidates : \A d \in candidates :
    \/ c.cost < d.cost
    \/ c.cost = d.cost /\ OpPriority(c.op) <= OpPriority(d.op)

Cell(cost, op) == [cost |-> cost, op |-> op]

\* The two tables dp and ops of Align, cell by cell.
Table(ref, hyp) ==
  LET cell[c \in (0..Len(ref)) \X (0..Len(hyp))] ==
        LET i == c[1]  j == c[2]
        IN  IF i = 0 THEN Cell(j, IF j = 0 THEN "" ELSE "insert")
            ELSE IF j = 0 THEN Cell(i, "delete")
            ELSE LET same == ref[i] = hyp[j]
                 IN  PickBest({
                       Cell(cell[<<i - 1, j - 1>>].cost + (IF same THEN 0 ELSE 1),
                            IF same THEN "match" ELSE "substitute"),
                       Cell(cell[<<i - 1, j>>].cost + 1, "delete"),
                       Cell(cell[<<i, j - 1>>].cost + 1, "insert")})
  IN  cell

WordRow(refWord, hypWord, op) == [refWord |-> refWord, hypWord |-> hypWord, op |-> op]

\* The bug of stopping at the edge of the table instead of at its corner.
TracebackToEdge(ref, hyp, ops) ==
  LET rows[c \in DOMAIN ops] ==
        LET i == c[1]  j == c[2]  op == ops[c].op
        IN  IF i = 0 \/ j = 0 THEN <<>>
            ELSE CASE op \in {"match", "substitute"} ->
                   Append(rows[<<i - 1, j - 1>>], WordRow(ref[i], hyp[j], op))
              [] op = "delete" -> Append(rows[<<i - 1, j>>], WordRow(ref[i], <<>>, op))
              [] op = "insert" -> Append(rows[<<i, j - 1>>], WordRow(<<>>, hyp[j], op))
  IN  rows[<<Len(ref), Len(hyp)>>]

\* The rows from the corner <<i, j>> back to the origin, in reading order.
Traceback(ref, hyp, ops) ==
  LET rows[c \in DOMAIN ops] ==
        LET i == c[1]  j == c[2]  op == ops[c].op
        IN  CASE op \in {"match", "substitute"} ->
                   Append(rows[<<i - 1, j - 1>>], WordRow(ref[i], hyp[j], op))
              [] op = "delete" -> Append(rows[<<i - 1, j>>], WordRow(ref[i], <<>>, op))
              [] op = "insert" -> Append(rows[<<i, j - 1>>], WordRow(<<>>, hyp[j], op))
              [] OTHER -> <<>>
  IN  rows[<<Len(ref), Len(hyp)>>]

Align(refText, hypText) ==
  LET ref == Tokens(refText)  hyp == Tokens(hypText)
  IN  Traceback(ref, hyp, Table(ref, hyp))

-----------------------------------------------------------------------------
(* Error rates *)

Min3(a, b, c) == CHOOSE m \in {a, b, c} : m <= a /\ m <= b /\ m <= c

LevenshteinMatrix(ref, hyp) ==
  LET dp[c \in (0..Len(ref)) \X (0..Len(hyp))] ==
        LET i == c[1]  j == c[2]
        IN  IF i = 0 \/ j = 0 THEN i + j
            ELSE Min3(dp[<<i - 1, j>>] + 1,
                      dp[<<i, j - 1>>] + 1,
                      dp[<<i - 1, j - 1>>] + (IF ref[i] = hyp[j] THEN 0 ELSE 1))
  IN  dp

Rate(distance, ref, hyp) ==
  IF ref = <<>> THEN <<IF hyp = <<>> THEN 0 ELSE 1, 1>>
  ELSE <<distance, Len(ref)>>

WER(refText, hypText) ==
  LET ref == Tokens(refText)  hyp == Tokens(hypText)
  IN  Rate(LevenshteinMatrix(ref, hyp)[<<Len(ref), Len(hyp)>>], ref, hyp)

\* One row of CER from the one before it: curr[0] = i, then left to right.
CerRow(prev, i, ref, hyp) ==
  LET curr[j \in 0..Len(hyp)] ==
        IF j = 0 THEN i
        ELSE Min3(prev[j] + 1, curr[j - 1] + 1,
                  prev[j - 1] + (IF ref[i] = hyp[j] THEN 0 ELSE 1))
  IN  curr

CER(refText, hypText) ==
  LET ref == Letters(refText)  hyp == Letters(hypText)
      row[i \in 0..Len(ref)] ==
        IF i = 0 THEN [j \in 0..Len(hyp) |-> j] ELSE CerRow(row[i - 1], i, ref, hyp)
  IN  Rate(row[Len(ref)][Len(hyp)], ref, hyp)

-----------------------------------------------------------------------------
(* The pronunciation score *)

\* clamp(n / d) to [0, 1], for d > 0.
Clamp(n, d) == <<IF n < 0 THEN 0 ELSE IF n > d THEN d ELSE n, d>>

CountRows(rows, Test(_)) == Cardinality({k \in DOMAIN rows : Test(rows[k])})

AtLeastOne(n) == IF n < 1 THEN 1 ELSE n

\* wordConfidences drops the words the recogniser gave no confidence for.
WordConfidences(words) == Without(words, {0})

ScorePronunciation(rows, probabilities, wer) ==
  LET refCount     == CountRows(rows, LAMBDA r : r.refWord # <<>>)
      delCount     == CountRows(rows, LAMBDA r : r.op = "delete")
      accuracy     == Clamp(wer[2] - wer[1], wer[2])
      completeness == Clamp(refCount - delCount, AtLeastOne(refCount))
      fluency      == Clamp(FoldSeq(LAMBDA p, s : p + s, 0, probabilities),
                            100 * AtLeastOne(Len(probabilities)))
  IN  [accuracy     |-> accuracy,
       completeness |-> completeness,
       fluency      |-> fluency,
       overall      |-> Clamp(accuracy[1] * completeness[2] + completeness[1] * accuracy[2],
                              2 * accuracy[2] * completeness[2])]

-----------------------------------------------------------------------------
(* Engine.Score *)

InitScore ==
  /\ reference \in References
  /\ response \in Responses
  /\ result = NotScored

Score ==
  /\ result = NotScored
  /\ LET tr   == ParseResponse(response)
         rows == Align(reference, tr.transcript)
         wer  == WER(reference, tr.transcript)
     IN  result' = [transcript |-> tr.transcript,
                    alignments |-> rows,
                    wer        |-> wer,
                    cer        |-> CER(reference, tr.transcript),
                    score      |-> ScorePronunciation(rows, WordConfidences(tr.words), wer)]
  /\ UNCHANGED <<reference, response>>

\* The audio cannot be fetched or read, or the recogniser answers an error.
EngineFails ==
  /\ result = NotScored
  /\ result' = Failed
  /\ UNCHANGED <<reference, response>>

NextScore == Score \/ EngineFails

SpecScore == InitScore /\ [][NextScore]_recitationVars

-----------------------------------------------------------------------------
(* A reference definition of the distance, with no table: choose which     *)
(* words of each text are paired, in order; an unpaired word costs 1, and  *)
(* so does a pair of different words.                                      *)

Scored == result \notin {NotScored, Failed}

Pairings(a, b) ==
  {p \in (SUBSET DOMAIN a) \X (SUBSET DOMAIN b) : Cardinality(p[1]) = Cardinality(p[2])}

\* The k-th smallest member of a set of positions.
Kth(S, k) == CHOOSE x \in {z \in S : Cardinality({y \in S : y < z}) = k - 1} : TRUE

Mismatches(a, b, p) ==
  Cardinality({k \in 1..Cardinality(p[1]) : a[Kth(p[1], k)] # b[Kth(p[2], k)]})

CostOf(a, b, p) == Len(a) + Len(b) - 2 * Cardinality(p[1]) + Mismatches(a, b, p)

Distance(a, b) ==
  LET costs == {CostOf(a, b, p) : p \in Pairings(a, b)}
  IN  CHOOSE d \in costs : \A e \in costs : d <= e

-----------------------------------------------------------------------------
(* Properties *)

Words(rows, side) == Without([k \in DOMAIN rows |-> rows[k][side]], {<<>>})

\* The rows the reader is shown spell the verse on one side and what was heard
\* on the other, both in order and complete, and no other alignment needs fewer
\* corrections.  The rows marked wrong are exactly the distance the error rate
\* counts, although the two are computed by separate tables; and the character
\* error rate is the distance of the letters run together, blind to where words
\* are cut (align.go, wer.go, cer.go).
DistancesExact ==
  Scored =>
    LET ref == Tokens(reference)  hyp == Tokens(result.transcript)
        refLetters == Letters(reference)  hypLetters == Letters(result.transcript)
        wrong == CountRows(result.alignments, LAMBDA r : r.op # "match")
    IN  /\ Words(result.alignments, "refWord") = ref
        /\ Words(result.alignments, "hypWord") = hyp
        /\ wrong = Distance(ref, hyp)
        /\ ref # <<>> => result.wer = <<wrong, Len(ref)>>
        /\ ref # <<>> => result.cer = <<Distance(refLetters, hypLetters), Len(refLetters)>>

\* A verse of at least one word gets the full score exactly when the words heard
\* are its words, diacritics aside.  Accuracy comes from the error rate's table
\* and completeness from the alignment's: the first never exceeds the second, so
\* the overall score, their mean, never shows less than the share of words that
\* were right (pronunciation.go).
ScoreIsFair ==
  Scored /\ Tokens(reference) # <<>> =>
    LET s == result.score
    IN  /\ (s.overall[1] = s.overall[2]) <=> Tokens(reference) = Tokens(result.transcript)
        /\ s.accuracy[1] * s.completeness[2] <= s.completeness[1] * s.accuracy[2]
=============================================================================

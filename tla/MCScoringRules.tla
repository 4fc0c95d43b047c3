---------------------------- MODULE MCScoringRules --------------------------
(* Verses of up to three words and answers of up to two results over two    *)
(* words, one of them also vocalised, one the split of the other, and a     *)
(* pause sign standing alone.                                               *)
EXTENDS ScoringRules

Printed == {<<"b">>, <<"b", "a">>, <<"b", "fatha">>}
Heard == {<<"b">>, <<"a">>, <<"b", "a">>}
Pause == <<"waqf">>

UpTo(S, n) == UNION {[1..k -> S] : k \in 0..n}

Verses == UpTo(Printed, 2) \cup [1..3 -> {<<"b">>, <<"b", "a">>}] \cup {<<<<"b">>, Pause, <<"a">>>>, <<Pause>>}

Results == [alternatives : {<<>>} \cup {<<t>> : t \in UpTo(Heard, 2)}, confidence : {0, 80}]

Answers == {<<>>} \cup {<<r>> : r \in Results}
        \cup {<<r, s>> : r \in Results, s \in {q \in Results : q.confidence = 0}}

\* A verse of eleven words, the shortest at which the database's rounding shows.
MCRecitals == {r \in [match : 0..11, substitute : 0..11, delete : 0..11, insert : 0..1] : WordsOf(r) = 11}
MCBelowHalf == {145, 285, 565, 575}
=============================================================================

---------------------------- MODULE ScoringRules ----------------------------
(***************************************************************************)
(* The rules a scoring request is held against: the quota of the BFF,      *)
(* before it is sent on, the score of the backend, and the page that shows *)
(* it.  They share no state, so a behaviour is about one of them.          *)
(***************************************************************************)
EXTENDS ScoringQuota, ResultPage

VARIABLE rule   \* the one a behaviour is about

rulesVars == <<rule, quotaVars, recitationVars, pageVars>>

InitRules ==
  /\ rule \in {"quota", "score", "page"}
  /\ InitQuota
  /\ InitPage
  /\ IF rule = "score" THEN InitScore
     ELSE reference = <<>> /\ response = <<>> /\ result = NotScored

NextRules ==
  \/ rule = "quota" /\ NextQuota /\ UNCHANGED <<rule, recitationVars, pageVars>>
  \/ rule = "score" /\ NextScore /\ UNCHANGED <<rule, quotaVars, pageVars>>
  \/ rule = "page" /\ NextPage /\ UNCHANGED <<rule, quotaVars, recitationVars>>

SpecRules == InitRules /\ [][NextRules]_rulesVars

\* A score is fair where the backend computes it, and what the result page shows
\* of it agrees with itself (ScoreIsFair in Recitation, PageAgrees in ResultPage).
ScoreShownFairly == ScoreIsFair /\ PageAgrees
=============================================================================

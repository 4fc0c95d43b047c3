------------------------------ MODULE WebPages ------------------------------
(***************************************************************************)
(* A tab of the web app on one of the pages that ProfilePage, Progress,    *)
(* Playback, SignIn, HomePage and HistoryPage describe.  A page loses its  *)
(* state when the tab leaves it, so the pages share nothing but the tab.   *)
(***************************************************************************)
EXTENDS ProfilePage, Progress, Playback, SignIn, HomePage, HistoryPage

vars == <<profileVars, progressVars, playbackVars, entryVars, homeVars, pastVars>>

\* A page that is not shown is in some state; one is enough.
Views == {"profile", "library", "history", "result", "practice", "scored", "entry", "home", "past"}
Init ==
  /\ view \in Views
  /\ InitProfile /\ InitProgress /\ ListeningStart /\ PlaybackStart /\ InitSignIn /\ InitHome /\ InitPast
  /\ view # "profile" => props = row /\ card = prefRow
  /\ view # "result" => job = "QUEUED"
  /\ view # "practice" => ayah = CHOOSE a \in Ayahs : TRUE
  /\ view # "scored" => present = {}
  /\ view # "entry" => cache = "nobody"
  /\ view # "home" => gate = FALSE /\ last = None

Next ==
  \/ view = "profile" /\ NextProfile
     /\ UNCHANGED <<progressVars, playbackVars, entryVars, homeVars, pastVars>>
  \/ view = "library" /\ NextProgress
     /\ UNCHANGED <<profileVars, playbackVars, entryVars, homeVars, pastVars>>
  \/ NextListening /\ UNCHANGED <<profileVars, progressVars, panel, tiles, entryVars, homeVars, pastVars>>
  \/ NextPlayback /\ UNCHANGED <<profileVars, progressVars, entryVars, homeVars, pastVars>>
  \/ view = "entry" /\ NextSignIn
     /\ UNCHANGED <<profileVars, progressVars, playbackVars, homeVars, pastVars>>
  \/ view = "home" /\ NextHome
     /\ UNCHANGED <<profileVars, progressVars, playbackVars, entryVars, pastVars>>
  \/ view = "past" /\ NextPast
     /\ UNCHANGED <<profileVars, progressVars, playbackVars, entryVars, homeVars>>

Spec == Init /\ [][Next]_vars /\ FairListening

\* Wherever the app plays a recording, what it shows is what is heard
\* (PlayingIsHeard in Listening, the others in Playback).
PlaybackHeard == PlayingIsHeard /\ TeacherIsHeard /\ TakesTurns

\* Whoever enters finds their own history and no stale toast (ToastOnce in
\* Toasts, the others in SignIn).
EntersCleanly == ToastOnce /\ CacheIsOwners /\ FormSpeaks

\* What the lists of past practice show agrees (CardsAgree in HomePage,
\* HistoryAgrees in HistoryPage).
ListsAgree == CardsAgree /\ HistoryAgrees
=============================================================================

------------------------------ MODULE Listening -----------------------------
(***************************************************************************)
(* Two pages of the web app that wait for fetchScoringJob: the history     *)
(* list, which plays the recording of a row on its one audio element       *)
(* (HistoryList.tsx), and the result page of a job that is not scored yet, *)
(* which polls it (ResultPolling.tsx).                                     *)
(*                                                                         *)
(* Next.js runs the server actions of a tab one at a time: asked is that   *)
(* queue; its head is served first and answered after.                     *)
(***************************************************************************)
EXTENDS Naturals, Sequences, FiniteSets

CONSTANTS
  Rows,       \* the attempts listed, each with a job of its own
  NoRow,
  MaxAsked    \* bound on the calls that wait

VARIABLES
  view,       \* the page: "history" or "result"
  asked,      \* [row, view, answer]: who asked, in which effect run, and the answer
  \* The history list
  playing, loading, failed,   \* playingId, loadingId, errorId
  element,    \* the audio element: [src, state]
  urls,       \* urlCacheRef: what is known of the recording of each row
  aborted,    \* history: a play() was rejected for a row that was not to blame
  \* The result page
  job,        \* the status of the job at the BFF
  shownJob,   \* the job the page holds: its status
  pollError,  \* it has an error
  ticking     \* the effect polls

history == <<playing, loading, failed, element, urls, aborted>>
result == <<job, shownJob, pollError, ticking>>
listeningVars == <<view, asked, history, result>>

Terminal == {"COMPLETED", "FAILED"}

Call(r, effect) == [row |-> r, effect |-> effect, answer |-> "none"]

\* The practice page, too, asks for a clip when it is mounted (Playback).
ListeningStart ==
  /\ asked = IF view = "practice" THEN <<Call(NoRow, "current")>> ELSE <<>>
  /\ playing = NoRow /\ loading = NoRow /\ failed = NoRow
  /\ element = [src |-> NoRow, state |-> "paused"]
  /\ urls = [r \in Rows |-> "unknown"]
  /\ aborted = FALSE
  /\ job \in {"QUEUED", "RUNNING"}
  /\ shownJob = job
  /\ pollError = FALSE /\ ticking = TRUE

InitListening == view \in {"history", "result"} /\ ListeningStart

Ask(call) == Len(asked) < MaxAsked /\ asked' = Append(asked, call)

-----------------------------------------------------------------------------
(* Variants with a plausible mistake; no action of Next uses them.          *)

\* The effect does not run again when the status changes.
StopsPolling(status) == FALSE

-----------------------------------------------------------------------------
(* The history list: handlePlay.                                            *)

\* start(): a new source rejects a play() that still waits for the old one, and
\* its catch runs after the row is marked.
Waiting == element.state = "starting"
StartRow(r, mark) ==
  /\ element' = [src |-> r, state |-> "starting"]
  /\ playing' = IF Waiting THEN NoRow ELSE r
  /\ failed' = IF Waiting THEN element.src ELSE mark
  /\ aborted' = (aborted \/ Waiting)

\* A click on the row that plays pauses it, which rejects a play() that waits.
PauseRow(r) ==
  /\ view = "history" /\ playing = r
  /\ element' = [element EXCEPT !.state = "paused"]
  /\ playing' = NoRow
  /\ failed' = IF Waiting THEN r ELSE failed
  /\ aborted' = (aborted \/ Waiting)
  /\ UNCHANGED <<view, asked, loading, urls, result>>

\* The button of the row that loads is disabled, the others are not.
ClickRow(r) ==
  /\ view = "history" /\ playing # r /\ loading # r
  /\ \/ /\ urls[r] = "url"
        /\ StartRow(r, NoRow)
        /\ UNCHANGED <<asked, loading>>
     \/ /\ urls[r] = "none"
        /\ failed' = r
        /\ UNCHANGED <<asked, loading, playing, element, aborted>>
     \/ /\ urls[r] = "unknown"
        /\ Ask(Call(r, "none"))
        /\ loading' = r /\ failed' = NoRow
        /\ UNCHANGED <<playing, element, aborted>>
  /\ UNCHANGED <<view, urls, result>>

Served(effects) == asked # <<>> /\ Head(asked).answer # "none" /\ Head(asked).effect \in effects

\* The continuation starts its row whatever was clicked since, and its finally
\* clears the mark of any row that loads.
AnswerRow ==
  LET r == Head(asked).row
      url == Head(asked).answer IN
  /\ view = "history" /\ Served({"none"})
  /\ asked' = Tail(asked)
  /\ loading' = NoRow
  /\ urls' = IF url = "failed" THEN urls ELSE [urls EXCEPT ![r] = url]
  /\ IF url = "url"
     THEN StartRow(r, failed)
     ELSE failed' = r /\ UNCHANGED <<playing, element, aborted>>
  /\ UNCHANGED <<view, result>>

\* The audio element.  play() resolves, or is rejected because the recording
\* does not load; its end is announced, but not that it breaks off.
Plays ==
  /\ Waiting
  /\ element' = [element EXCEPT !.state = "playing"]
  /\ UNCHANGED <<view, asked, playing, loading, failed, urls, aborted, result>>
PlayFails ==
  /\ Waiting
  /\ element' = [element EXCEPT !.state = "paused"]
  /\ playing' = NoRow /\ failed' = element.src
  /\ UNCHANGED <<view, asked, loading, urls, aborted, result>>
Ends ==
  /\ element.state = "playing"
  /\ element' = [element EXCEPT !.state = "paused"]
  /\ playing' = NoRow
  /\ UNCHANGED <<view, asked, loading, failed, urls, aborted, result>>
Breaks ==
  /\ element.state = "playing"
  /\ element' = [element EXCEPT !.state = "broken"]
  /\ UNCHANGED <<view, asked, playing, loading, failed, urls, aborted, result>>

-----------------------------------------------------------------------------
(* The result page.  Its effect runs for one status of the job; the cleanup *)
(* cancels what that run still waits for.                                   *)

Tick ==
  /\ view = "result" /\ ticking
  /\ Ask(Call(NoRow, shownJob))
  /\ UNCHANGED <<view, history, result>>

Polling(status) == status \notin Terminal
Current(effect) == effect = shownJob

AnswerPoll ==
  LET status == Head(asked).answer IN
  /\ view = "result" /\ Served({"QUEUED", "RUNNING"})
  /\ asked' = Tail(asked)
  /\ IF ~Current(Head(asked).effect) THEN UNCHANGED <<shownJob, pollError, ticking>>
     ELSE IF status = "failed" THEN pollError' = TRUE /\ UNCHANGED <<shownJob, ticking>>
     ELSE /\ shownJob' = status
          /\ ticking' = IF status = shownJob THEN ticking ELSE Polling(status)
          /\ UNCHANGED pollError
  /\ UNCHANGED <<view, history, job>>

\* What the page renders
ResultView ==
  IF pollError THEN "error"
  ELSE IF shownJob = "COMPLETED" THEN "detail"
  ELSE IF shownJob = "FAILED" THEN "error" ELSE "pending"

-----------------------------------------------------------------------------
(* The BFF: fetchScoringJob answers with the job, fetchReferenceAudioUrl    *)
(* with a URL, or they fail.                                                *)

Offered ==
  CASE view = "history"  -> {"url", "none"}
    [] view = "result"   -> {job}
    [] view = "practice" -> {"url"}
    [] OTHER             -> {}

ServeJob ==
  /\ asked # <<>> /\ Head(asked).answer = "none"
  /\ \E answer \in {"failed"} \cup Offered :
       asked' = [asked EXCEPT ![1].answer = answer]
  /\ UNCHANGED <<view, history, result>>

JobRuns ==
  /\ view = "result" /\ job = "QUEUED"
  /\ job' = "RUNNING"
  /\ UNCHANGED <<view, asked, history, shownJob, pollError, ticking>>
JobEnds ==
  /\ view = "result" /\ job \notin Terminal
  /\ job' \in Terminal
  /\ UNCHANGED <<view, asked, history, shownJob, pollError, ticking>>

Answers == AnswerRow \/ AnswerPoll
NextListening ==
  \/ \E r \in Rows : PauseRow(r) \/ ClickRow(r)
  \/ Plays \/ PlayFails \/ Ends \/ Breaks
  \/ Tick \/ ServeJob \/ JobRuns \/ JobEnds \/ Answers

FairListening == WF_listeningVars(Tick) /\ WF_listeningVars(ServeJob) /\ WF_listeningVars(Answers)
SpecListening == InitListening /\ [][NextListening]_listeningVars /\ FairListening

-----------------------------------------------------------------------------
(* Properties.                                                              *)

\* The row marked as playing is the one that sounds, however clicks and late
\* answers interleave, unless it broke off, which leaves it marked; and a recording
\* that sounds has its row marked, unless a play() was once rejected because
\* another row, or a pause, took its place.
Heard == element.state \in {"starting", "playing"}
PlayingIsHeard ==
  /\ playing # NoRow => element.src = playing /\ (Heard \/ element.state = "broken")
  /\ Heard /\ ~aborted => playing = element.src

\* The page of a job that ends shows its result or an error at last.
ResultSettles == view = "result" /\ job \in Terminal ~> ResultView # "pending"
=============================================================================

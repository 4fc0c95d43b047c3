------------------------------ MODULE Playback ------------------------------
(***************************************************************************)
(* Two pages with players of their own: the practice page, where a panel   *)
(* plays the verse as a teacher recites it (useTeacherAudio.ts,            *)
(* TeacherPanel.tsx), and the result page of a scored job, where the       *)
(* teacher's and the user's recitals are played side by side               *)
(* (ListenBack.tsx).                                                       *)
(*                                                                         *)
(* A player that is not paused sounds, unless its clip broke off, of which *)
(* no event that the pages listen to tells.  What it does it tells by      *)
(* events, delivered in order; a new source pauses it and drops those that *)
(* wait.  A play() may be rejected, which the pages catch.                 *)
(***************************************************************************)
EXTENDS Listening

CONSTANT Ayahs   \* the verses of the practice page, not empty

VARIABLES
  \* The practice page
  ayah,      \* the verse of the page
  teacher,   \* useTeacherAudio: [url, playing, rate, loop]
  speaker,   \* its audio element: [src, paused, broken, rate]
  events,    \* the events of the element still to deliver
  ended,     \* the update handleEnded has queued: "loop", "stop" or "none"
  astray,    \* the last event came while the panel had no clip
  refused,   \* the last update was of a loop whose play() was rejected
  \* The result page of a scored job
  present,   \* the recordings it was given a URL for
  players,   \* its two audio elements: which are not paused
  torn,      \* those whose recording broke off
  armed,     \* the `ended' listeners handlePlayBoth left on the teacher's
  together   \* the user started one by its tile while the other was not paused

panel == <<ayah, teacher, speaker, events, ended, astray, refused>>
tiles == <<present, players, torn, armed, together>>
playbackVars == <<listeningVars, panel, tiles>>

NoUrl == "null"
Rates == {"normal", "chosen"}
MaxEvents == 3   \* bound on the events pending
MaxArmed == 2    \* bound on the listeners

PlaybackStart ==
  /\ ayah \in Ayahs
  /\ teacher = [url |-> NoUrl, playing |-> FALSE, rate |-> "normal", loop |-> FALSE]
  /\ speaker = [src |-> NoUrl, paused |-> TRUE, broken |-> FALSE, rate |-> "normal"]
  /\ events = <<>> /\ ended = "none" /\ astray = FALSE /\ refused = FALSE
  /\ present \in SUBSET {"teacher", "user"}
  /\ players = {} /\ torn = {} /\ armed = 0 /\ together = FALSE

-----------------------------------------------------------------------------
(* Variants with a plausible mistake; no action of Next uses them.          *)

\* The user's recording is left to sound.
PauseTeacher == {"teacher"}

-----------------------------------------------------------------------------
(* The practice page: the hook.                                             *)

OnPanel == view = "practice" /\ UNCHANGED <<view, history, result, tiles>>
Fire(told) == Len(events) + Len(told) <= MaxEvents /\ events' = events \o told

\* What the page asks of the element: play(), which it obeys or rejects, and pause().
SpeakerPlays == speaker' = [speaker EXCEPT !.paused = FALSE] /\ Fire(<<"play">>)
SpeakerRefuses == UNCHANGED <<speaker, events>>
SpeakerPauses == speaker' = [speaker EXCEPT !.paused = TRUE] /\ Fire(<<"pause">>)

FetchClip(pending) == Len(pending) < MaxAsked /\ asked' = Append(pending, Call(NoRow, "current"))

\* Another verse: its panel takes the place of the old one, which is removed
\* and falls silent, or is the old one with new properties.  Then the state is
\* reset but for the rate and the loop, and the element loses its source, which
\* does not stop it.  Either way an answer for the old verse is cancelled.
ChangeAyah(a) ==
  /\ OnPanel
  /\ a # ayah /\ ayah' = a
  /\ FetchClip([k \in DOMAIN asked |-> [asked[k] EXCEPT !.effect = "cancelled"]])
  /\ \/ /\ teacher' = [url |-> NoUrl, playing |-> FALSE, rate |-> "normal", loop |-> FALSE]
        /\ speaker' = [src |-> NoUrl, paused |-> TRUE, broken |-> FALSE, rate |-> "normal"]
        /\ events' = <<>> /\ ended' = "none" /\ astray' = FALSE
     \/ /\ teacher' = [teacher EXCEPT !.url = NoUrl, !.playing = FALSE]
        /\ UNCHANGED <<speaker, events, ended, astray>>
  /\ refused' = FALSE

\* A new source pauses the element without a pause event and gives it the
\* normal rate back, which the effect of [rate, url] then sets again.
AnswerClip ==
  /\ OnPanel /\ Served({"current", "cancelled"})
  /\ asked' = Tail(asked)
  /\ IF Head(asked).effect = "current" /\ Head(asked).answer = "url"
     THEN /\ teacher' = [teacher EXCEPT !.url = ayah]
          /\ speaker' = [src |-> ayah, paused |-> TRUE, broken |-> FALSE, rate |-> teacher.rate]
          /\ events' = <<>>
          /\ UNCHANGED <<ayah, ended, astray, refused>>
     ELSE UNCHANGED panel

\* togglePlay; its button is disabled without a URL.
TogglePlay ==
  /\ OnPanel /\ teacher.url # NoUrl
  /\ \/ speaker.paused /\ (SpeakerPlays \/ SpeakerRefuses)
     \/ ~speaker.paused /\ SpeakerPauses
  /\ UNCHANGED <<asked, ayah, teacher, ended, astray, refused>>

SetRate(rate) ==
  /\ OnPanel
  /\ teacher' = [teacher EXCEPT !.rate = rate]
  /\ speaker' = [speaker EXCEPT !.rate = rate]
  /\ UNCHANGED <<asked, ayah, events, ended, astray, refused>>

ToggleLoop ==
  /\ OnPanel
  /\ teacher' = [teacher EXCEPT !.loop = ~@]
  /\ UNCHANGED <<asked, ayah, speaker, events, ended, astray, refused>>

\* The recorder announces that it records.
RecordingStarted ==
  /\ OnPanel /\ ~speaker.paused
  /\ SpeakerPauses
  /\ UNCHANGED <<asked, ayah, teacher, ended, astray, refused>>

\* The clip comes to its end, which pauses the element.
Sounds == ~speaker.paused /\ ~speaker.broken
ClipEnds ==
  /\ OnPanel /\ Sounds
  /\ speaker' = [speaker EXCEPT !.paused = TRUE]
  /\ Fire(<<"pause", "ended">>)
  /\ UNCHANGED <<asked, ayah, teacher, ended, astray, refused>>

\* The clip does not load or cannot be played on.  The element fires `error',
\* which has no listener, and is not paused by it.
ClipBreaks ==
  /\ OnPanel /\ speaker.src # NoUrl /\ ~speaker.broken
  /\ speaker' = [speaker EXCEPT !.broken = TRUE]
  /\ UNCHANGED <<asked, ayah, teacher, events, ended, astray, refused>>

\* The listeners.  The one of `ended' queues an update of the state, which reads
\* the loop as it was then and plays again; later updates wait for it.
Deliver ==
  /\ OnPanel /\ events # <<>> /\ ended = "none"
  /\ events' = Tail(events)
  /\ IF Head(events) = "ended"
     THEN ended' = (IF teacher.loop THEN "loop" ELSE "stop") /\ UNCHANGED <<teacher, astray, refused>>
     ELSE /\ teacher' = [teacher EXCEPT !.playing = (Head(events) = "play")]
          /\ astray' = (teacher.url = NoUrl) /\ refused' = FALSE
          /\ UNCHANGED ended
  /\ UNCHANGED <<asked, ayah, speaker>>

\* With a loop the panel says that it plays, whether play() is rejected or not.
HandleEnded ==
  /\ OnPanel /\ ended # "none"
  /\ ended' = "none"
  /\ teacher' = [teacher EXCEPT !.playing = (ended = "loop")]
  /\ astray' = (teacher.url = NoUrl)
  /\ \/ /\ ended = "loop" /\ speaker.paused
        /\ \/ SpeakerPlays /\ refused' = FALSE
           \/ SpeakerRefuses /\ refused' = TRUE
     \/ /\ ~(ended = "loop" /\ speaker.paused)
        /\ refused' = FALSE
        /\ UNCHANGED <<speaker, events>>
  /\ UNCHANGED <<asked, ayah>>

-----------------------------------------------------------------------------
(* The result page: the two tiles and the button that plays both.           *)

\* A recording without a URL has no tile; without both there is no button.
OnTiles == view = "scored" /\ UNCHANGED <<view, asked, history, result, panel, present>>
HasTile(p) == p \in present
CanPlayBoth == present = {"teacher", "user"}

\* The reset of handlePlayBoth: both players are paused and rewound.
PauseBoth == {"teacher", "user"}

PlayBoth ==
  /\ OnTiles /\ CanPlayBoth /\ armed < MaxArmed
  /\ players' = (players \ PauseBoth) \cup {"teacher"}
  /\ armed' = armed + 1
  /\ together' = FALSE
  /\ UNCHANGED torn

\* teacher.play() is rejected: the last click takes its listener away.
PlayBothFails ==
  /\ OnTiles /\ armed > 0 /\ "teacher" \in players
  /\ players' = players \ {"teacher"}
  /\ armed' = armed - 1
  /\ together' = FALSE
  /\ UNCHANGED torn

\* play() may be rejected.
ToggleTile(p) ==
  /\ OnTiles /\ HasTile(p)
  /\ \/ p \in players /\ players' = players \ {p} /\ together' = FALSE
     \/ /\ p \notin players
        /\ \/ players' = players \cup {p} /\ together' = (players # {})
           \/ UNCHANGED <<players, together>>
  /\ UNCHANGED <<torn, armed>>

\* The teacher's recital ends.  Its listeners start the user's recording from
\* the beginning, whoever started the teacher's, unless that play() is rejected.
TeacherEnds ==
  /\ OnTiles /\ "teacher" \in players \ torn
  /\ \E started \in SUBSET (IF armed > 0 THEN {"user"} ELSE {}) :
       players' = (players \ {"teacher"}) \cup started
  /\ armed' = 0 /\ together' = FALSE
  /\ UNCHANGED torn
UserEnds ==
  /\ OnTiles /\ "user" \in players \ torn
  /\ players' = players \ {"user"}
  /\ together' = FALSE
  /\ UNCHANGED <<torn, armed>>

\* A recording breaks off, or does not load.
TileBreaks(p) ==
  /\ OnTiles /\ HasTile(p) /\ p \notin torn
  /\ torn' = torn \cup {p}
  /\ UNCHANGED <<players, armed, together>>

NextPlayback ==
  \/ AnswerClip \/ TogglePlay \/ ToggleLoop
  \/ \E a \in Ayahs : ChangeAyah(a)
  \/ \E rate \in Rates : SetRate(rate)
  \/ RecordingStarted \/ ClipEnds \/ ClipBreaks \/ Deliver \/ HandleEnded
  \/ PlayBoth \/ PlayBothFails \/ TeacherEnds \/ UserEnds
  \/ \E p \in {"teacher", "user"} : ToggleTile(p) \/ TileBreaks(p)

-----------------------------------------------------------------------------
(* Properties.                                                              *)

\* The clip broke off while the element plays, or the loop could not start it
\* again: the panel goes on saying that it plays (useTeacherAudio.ts:108-111).
Silenced == (~speaker.paused /\ speaker.broken) \/ refused

\* Once the panel has a clip, what sounds is the verse of the page, at the rate
\* of the panel, and when every event has been delivered the panel says it plays
\* exactly when it sounds: unless it is Silenced, or the last event was of the
\* verse played before.
TeacherIsHeard ==
  /\ speaker.rate = teacher.rate
  /\ teacher.url # NoUrl =>
       /\ speaker.src = ayah
       /\ events = <<>> /\ ended = "none" /\ ~astray =>
            IF Silenced THEN teacher.playing ELSE teacher.playing <=> Sounds

\* The two recitals play together only when the user started one by its tile
\* while the other was not paused.
TakesTurns == players = {"teacher", "user"} => together
=============================================================================

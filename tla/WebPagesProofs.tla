--------------------------- MODULE WebPagesProofs ---------------------------
(***************************************************************************)
(* Proofs about the pages of the web client.  The pages share nothing but  *)
(* the tab, so each has an invariant of its own, which the steps of the    *)
(* others leave alone.                                                     *)
(***************************************************************************)
EXTENDS WebPages, SequenceTheorems, FiniteSetTheorems, TLAPS

-----------------------------------------------------------------------------
(* The history list and its audio element.                                  *)

\* PlayingIsHeard is inductive once the element is known to be a record.
ListInv ==
  /\ DOMAIN element = {"src", "state"} /\ element.state \in {"starting", "playing", "paused", "broken"}
  /\ PlayingIsHeard

LEMMA InitList == Init => ListInv
BY DEF Init, ListeningStart, ListInv, PlayingIsHeard, Heard

\* A row that is started takes the place of whatever sounds or waits to.
LEMMA StartList ==
  ASSUME NEW r, NEW mark, StartRow(r, mark)
  PROVE  ListInv'
BY DEF StartRow, Waiting, ListInv, PlayingIsHeard, Heard

LEMMA ListStep == ListInv /\ NextListening => ListInv'
<1> SUFFICES ASSUME ListInv, NextListening PROVE ListInv'
  OBVIOUS
<1>1. ASSUME UNCHANGED history PROVE ListInv'
  BY <1>1 DEF history, ListInv, PlayingIsHeard, Heard
<1>2. ASSUME UNCHANGED <<playing, element, aborted>> PROVE ListInv'
  BY <1>2 DEF ListInv, PlayingIsHeard, Heard
<1>3. ASSUME NEW r \in Rows, PauseRow(r) PROVE ListInv'
  BY <1>3 DEF PauseRow, Waiting, ListInv, PlayingIsHeard, Heard
<1>4. ASSUME NEW r \in Rows, ClickRow(r) PROVE ListInv'
  BY <1>2, <1>4, StartList DEF ClickRow
<1>5. CASE Plays
  BY <1>5 DEF Plays, Waiting, ListInv, PlayingIsHeard, Heard
<1>6. CASE PlayFails
  BY <1>6 DEF PlayFails, Waiting, ListInv, PlayingIsHeard, Heard
<1>7. CASE Ends
  BY <1>7 DEF Ends, ListInv, PlayingIsHeard, Heard
<1>8. CASE Breaks
  BY <1>8 DEF Breaks, ListInv, PlayingIsHeard, Heard
<1>9. CASE AnswerRow
  BY <1>2, <1>9, StartList DEF AnswerRow
<1>10. CASE Tick \/ ServeJob \/ JobRuns \/ JobEnds \/ AnswerPoll
  BY <1>1, <1>10 DEF Tick, ServeJob, JobRuns, JobEnds, AnswerPoll
<1> QED
  BY <1>3, <1>4, <1>5, <1>6, <1>7, <1>8, <1>9, <1>10 DEF NextListening, Answers

-----------------------------------------------------------------------------
(* The two tiles of a scored job.                                           *)

TilesInv == players \subseteq {"teacher", "user"} /\ TakesTurns

LEMMA InitTiles == Init => TilesInv
BY DEF Init, PlaybackStart, TilesInv, TakesTurns

LEMMA TilesStep == TilesInv /\ NextPlayback => TilesInv'
<1> SUFFICES ASSUME TilesInv, NextPlayback PROVE TilesInv'
  OBVIOUS
<1>1. ASSUME OnPanel PROVE TilesInv'
  BY <1>1 DEF OnPanel, tiles, TilesInv, TakesTurns
<1>2. CASE PlayBoth
  BY <1>2 DEF PlayBoth, PauseBoth, TilesInv, TakesTurns
<1>3. CASE PlayBothFails
  BY <1>3 DEF PlayBothFails, TilesInv, TakesTurns
<1>4. CASE TeacherEnds
  BY <1>4 DEF TeacherEnds, TilesInv, TakesTurns
<1>5. CASE UserEnds
  BY <1>5 DEF UserEnds, TilesInv, TakesTurns
<1>6. ASSUME NEW p \in {"teacher", "user"}, ToggleTile(p) PROVE TilesInv'
  <2>1. CASE players' = players \ {p}
    BY <1>6, <2>1 DEF ToggleTile, TilesInv, TakesTurns
  <2>2. CASE UNCHANGED <<players, together>>
    BY <2>2 DEF TilesInv, TakesTurns
  <2>3. CASE players' = players \cup {p} /\ together' = (players # {})
    <3>1. players = {} => players' # {"teacher", "user"}
      BY <2>3
    <3> QED
      BY <1>6, <2>3, <3>1 DEF TilesInv, TakesTurns
  <2> QED
    BY <1>6, <2>1, <2>2, <2>3 DEF ToggleTile
<1>7. ASSUME NEW p \in {"teacher", "user"}, TileBreaks(p) PROVE TilesInv'
  BY <1>7 DEF TileBreaks, TilesInv, TakesTurns
<1> QED
  BY <1>1, <1>2, <1>3, <1>4, <1>5, <1>6, <1>7 DEF NextPlayback, AnswerClip, TogglePlay, ToggleLoop,
     ChangeAyah, SetRate, RecordingStarted, ClipEnds, ClipBreaks, Deliver, HandleEnded

-----------------------------------------------------------------------------
(* The panel of the practice page.                                          *)

ClipCall == [row : {NoRow}, effect : {"current", "cancelled"}, answer : {"none", "url", "failed"}]
Event == {"play", "pause", "ended"}

PanelTyped ==
  /\ view = "practice" => asked \in Seq(ClipCall)
  /\ DOMAIN teacher = {"url", "playing", "rate", "loop"}
  /\ DOMAIN speaker = {"src", "paused", "broken", "rate"}
  /\ teacher.playing \in BOOLEAN /\ speaker.paused \in BOOLEAN /\ speaker.broken \in BOOLEAN
  /\ astray \in BOOLEAN /\ refused \in BOOLEAN
  /\ events \in Seq(Event) /\ ended \in {"none", "loop", "stop"}

\* The panel waits for one clip at most, that of its verse, and has none yet.
OneClip ==
  view = "practice" =>
    \A i \in 1..Len(asked) : asked[i].effect = "current" =>
      teacher.url = NoUrl /\ \A j \in 1..Len(asked) : asked[j].effect = "current" => i = j

\* The last event that waits says what the element does.  Without one it has
\* ended if an end is being handled; otherwise the panel knows.
EventsTell ==
  /\ events # <<>> => (events[Len(events)] = "play" <=> ~speaker.paused)
  /\ events = <<>> /\ ended # "none" => speaker.paused

\* A panel without a clip has been reset, or an event came astray.
ResetTells == teacher.url = NoUrl /\ ~astray => ~teacher.playing

\* Only a panel that says it plays was refused a play().
RefusedTells == refused => teacher.playing

PanelInv == PanelTyped /\ OneClip /\ EventsTell /\ ResetTells /\ RefusedTells /\ TeacherIsHeard

LEMMA InitPanel == Init => PanelInv
<1> SUFFICES ASSUME Init PROVE PanelInv
  OBVIOUS
<1> USE DEF Init, ListeningStart, PlaybackStart
<1>1. Call(NoRow, "current") \in ClipCall
  BY DEF Call, ClipCall
<1>2. view = "practice" => asked = <<Call(NoRow, "current")>>
  OBVIOUS
<1>3. PanelTyped
  <2>1. <<Call(NoRow, "current")>> \in Seq(ClipCall)
    BY <1>1
  <2>2. teacher.playing = FALSE /\ speaker.paused = TRUE /\ speaker.broken = FALSE /\ events \in Seq(Event)
    OBVIOUS
  <2>3. DOMAIN teacher = {"url", "playing", "rate", "loop"} /\ DOMAIN speaker = {"src", "paused", "broken", "rate"}
    OBVIOUS
  <2>4. view = "practice" => asked \in Seq(ClipCall)
    BY <1>2, <2>1
  <2>5. astray \in BOOLEAN /\ refused \in BOOLEAN /\ ended \in {"none", "loop", "stop"}
    OBVIOUS
  <2> QED
    BY <2>2, <2>3, <2>4, <2>5 DEF PanelTyped
<1>4. OneClip
  BY <1>2 DEF OneClip
<1>5. EventsTell /\ ResetTells /\ RefusedTells /\ TeacherIsHeard
  BY DEF EventsTell, ResetTells, RefusedTells, TeacherIsHeard, Silenced, Sounds
<1> QED
  BY <1>3, <1>4, <1>5 DEF PanelInv

\* What the element fires comes last.
LEMMA FireLast ==
  ASSUME NEW told \in Seq(Event), told # <<>>, events \in Seq(Event), Fire(told)
  PROVE  events' \in Seq(Event) /\ events' # <<>> /\ events'[Len(events')] = told[Len(told)]
<1>1. events' = events \o told
  BY DEF Fire
<1>2. Len(events) \in Nat /\ Len(told) \in Nat \ {0}
  BY LenProperties, EmptySeq
<1>3. /\ events \o told \in Seq(Event) /\ Len(events \o told) = Len(events) + Len(told)
      /\ \A i \in 1..Len(events) + Len(told) :
           (events \o told)[i] = IF i <= Len(events) THEN events[i] ELSE told[i - Len(events)]
  BY ConcatProperties
<1> DEFINE all == events \o told
           k == Len(events)
           n == Len(told)
<1>4. /\ all \in Seq(Event) /\ Len(all) = k + n /\ k \in Nat /\ n \in Nat \ {0}
      /\ \A i \in 1..k + n : all[i] = IF i <= k THEN events[i] ELSE told[i - k]
  BY <1>2, <1>3
<1>5. all # <<>> /\ all[Len(all)] = told[n]
  <2> HIDE DEF all, k, n
  <2>1. all = <<>> => Len(all) = 0
    BY EmptySeq
  <2>2. k + n \in 1..k + n /\ ~(k + n <= k) /\ (k + n) - k = n /\ k + n # 0
    BY <1>4
  <2> QED
    BY <1>4, <2>1, <2>2
<1> QED
  BY <1>1, <1>4, <1>5

\* What the element may tell of a step.
LEMMA Tellings ==
  /\ <<"play">> \in Seq(Event) /\ <<"play">> # <<>> /\ <<"play">>[Len(<<"play">>)] = "play"
  /\ <<"pause">> \in Seq(Event) /\ <<"pause">> # <<>> /\ <<"pause">>[Len(<<"pause">>)] = "pause"
  /\ <<"pause", "ended">> \in Seq(Event) /\ <<"pause", "ended">> # <<>>
  /\ <<"pause", "ended">>[Len(<<"pause", "ended">>)] = "ended"
BY DEF Event

\* Steps of the element: it plays or is paused, and fires what it did last.
LEMMA ElementStep ==
  ASSUME PanelInv, NEW told \in Seq(Event), told # <<>>, Fire(told),
         UNCHANGED <<view, asked, ayah, teacher, ended, astray, refused>>,
         NEW paused \in BOOLEAN, speaker' = [speaker EXCEPT !.paused = paused],
         told[Len(told)] = "play" <=> ~paused
  PROVE  PanelInv'
<1> USE DEF PanelInv, PanelTyped
<1>1. /\ DOMAIN speaker' = DOMAIN speaker /\ speaker'.paused = paused /\ speaker'.broken = speaker.broken
      /\ speaker'.src = speaker.src /\ speaker'.rate = speaker.rate
  OBVIOUS
<1>2. events' \in Seq(Event) /\ events' # <<>> /\ events'[Len(events')] = told[Len(told)]
  BY FireLast
<1>3. PanelTyped'
  BY <1>1, <1>2
<1>4. OneClip'
  BY <1>1 DEF OneClip
<1>5. EventsTell'
  BY <1>1, <1>2 DEF EventsTell
<1>6. ResetTells' /\ RefusedTells' /\ TeacherIsHeard'
  BY <1>1, <1>2 DEF ResetTells, RefusedTells, TeacherIsHeard
<1> QED
  BY <1>3, <1>4, <1>5, <1>6

LEMMA AnswerStep == PanelInv /\ AnswerClip => PanelInv'
<1> SUFFICES ASSUME PanelInv, AnswerClip PROVE PanelInv'
  OBVIOUS
<1> USE DEF PanelInv, PanelTyped, OnPanel
<1>1. view = "practice" /\ view' = "practice" /\ asked' = Tail(asked) /\ asked \in Seq(ClipCall) /\ asked # <<>>
  BY DEF AnswerClip, Served
<1>2. /\ Tail(asked) \in Seq(ClipCall) /\ Len(Tail(asked)) = Len(asked) - 1 /\ Len(asked) \in Nat \ {0}
      /\ \A i \in 1..Len(asked) - 1 : Tail(asked)[i] = asked[i + 1]
      /\ Head(asked) = asked[1]
  BY <1>1, HeadTailProperties, LenProperties, EmptySeq
<1>3. ASSUME NEW i \in 1..Len(asked'), asked'[i].effect = "current"
      PROVE  i + 1 \in 1..Len(asked) /\ asked[i + 1].effect = "current"
  BY <1>1, <1>2, <1>3
<1>4. CASE Head(asked).effect = "current" /\ Head(asked).answer = "url"
  <2>1. /\ teacher' = [teacher EXCEPT !.url = ayah]
        /\ speaker' = [src |-> ayah, paused |-> TRUE, broken |-> FALSE, rate |-> teacher.rate]
        /\ events' = <<>> /\ UNCHANGED <<ayah, ended, astray, refused>>
    BY <1>4 DEF AnswerClip
  <2>2. /\ DOMAIN teacher' = DOMAIN teacher /\ teacher'.rate = teacher.rate
        /\ teacher'.playing = teacher.playing /\ teacher'.url = ayah
    BY <2>1
  <2>3. 1 \in 1..Len(asked) /\ asked[1].effect = "current"
    BY <1>2, <1>4
  <2>4. teacher.url = NoUrl /\ \A j \in 1..Len(asked) : asked[j].effect = "current" => 1 = j
    BY <1>1, <2>3 DEF OneClip
  <2>5. OneClip'
    <3>1. ASSUME NEW i \in 1..Len(asked'), asked'[i].effect = "current" PROVE FALSE
      BY <1>2, <1>3, <2>4, <3>1
    <3> QED
      BY <3>1 DEF OneClip
  <2>6. DOMAIN speaker' = {"src", "paused", "broken", "rate"} /\ speaker'.paused = TRUE /\ speaker'.broken = FALSE
        /\ speaker'.src = ayah /\ speaker'.rate = teacher.rate
    BY <2>1
  <2>7. PanelTyped'
    BY <1>1, <1>2, <2>1, <2>2, <2>6
  <2>8. EventsTell' /\ ResetTells' /\ RefusedTells' /\ TeacherIsHeard'
    BY <2>1, <2>2, <2>4, <2>6 DEF EventsTell, ResetTells, RefusedTells, TeacherIsHeard, Silenced, Sounds
  <2> QED
    BY <2>5, <2>7, <2>8
<1>5. CASE ~(Head(asked).effect = "current" /\ Head(asked).answer = "url")
  <2>1. UNCHANGED <<ayah, teacher, speaker, events, ended, astray, refused>>
    BY <1>5 DEF AnswerClip, panel
  <2>2. OneClip'
    <3>1. ASSUME NEW i \in 1..Len(asked'), asked'[i].effect = "current",
                 NEW j \in 1..Len(asked'), asked'[j].effect = "current"
          PROVE  teacher.url = NoUrl /\ i = j
      <4>1. i + 1 = j + 1 /\ teacher.url = NoUrl
        BY <1>1, <1>3, <3>1 DEF OneClip
      <4> QED
        BY <4>1
    <3> QED
      BY <2>1, <3>1 DEF OneClip
  <2>3. PanelTyped' /\ EventsTell' /\ ResetTells' /\ RefusedTells' /\ TeacherIsHeard'
    BY <1>1, <1>2, <2>1 DEF EventsTell, ResetTells, RefusedTells, TeacherIsHeard, Silenced, Sounds
  <2> QED
    BY <2>2, <2>3
<1> QED
  BY <1>4, <1>5

LEMMA ChangeStep ==
  ASSUME PanelInv, NEW a \in Ayahs, ChangeAyah(a)
  PROVE  PanelInv'
<1> USE DEF PanelInv, PanelTyped, OnPanel
<1> DEFINE old == [k \in DOMAIN asked |-> [asked[k] EXCEPT !.effect = "cancelled"]]
<1>1. view = "practice" /\ view' = "practice" /\ asked \in Seq(ClipCall)
  BY DEF ChangeAyah
<1>2. asked' = Append(old, Call(NoRow, "current"))
  BY DEF ChangeAyah, FetchClip
<1>3. DOMAIN asked = 1..Len(asked) /\ Len(asked) \in Nat /\ \A k \in 1..Len(asked) : asked[k] \in ClipCall
  BY <1>1, LenProperties, ElementOfSeq
<1>4. /\ old \in Seq(ClipCall) /\ Len(old) = Len(asked)
      /\ \A k \in 1..Len(asked) : old[k].effect = "cancelled"
  <2>1. \A k \in 1..Len(asked) : /\ [asked[k] EXCEPT !.effect = "cancelled"] \in ClipCall
                                 /\ [asked[k] EXCEPT !.effect = "cancelled"].effect = "cancelled"
    BY <1>3 DEF ClipCall
  <2>2. old \in [1..Len(asked) -> ClipCall]
    BY <1>3, <2>1
  <2>3. old \in Seq(ClipCall)
    BY <1>3, <2>2, IsASeq
  <2>4. Len(old) = Len(asked)
    BY <1>3, <2>2, <2>3, LenProperties
  <2> QED
    BY <1>3, <2>1, <2>3, <2>4
<1> HIDE DEF old
<1>5. Call(NoRow, "current") \in ClipCall
  BY DEF Call, ClipCall
<1>6. /\ asked' \in Seq(ClipCall) /\ Len(asked') = Len(asked) + 1
      /\ \A k \in 1..Len(asked) : asked'[k].effect = "cancelled"
  BY <1>2, <1>3, <1>4, <1>5, AppendProperties
<1>7. \A k \in 1..Len(asked') : asked'[k].effect = "current" => k = Len(asked) + 1
  BY <1>3, <1>6
<1>8. \/ /\ teacher' = [url |-> NoUrl, playing |-> FALSE, rate |-> "normal", loop |-> FALSE]
         /\ speaker' = [src |-> NoUrl, paused |-> TRUE, broken |-> FALSE, rate |-> "normal"]
         /\ events' = <<>> /\ ended' = "none" /\ astray' = FALSE
      \/ /\ teacher' = [teacher EXCEPT !.url = NoUrl, !.playing = FALSE]
         /\ UNCHANGED <<speaker, events, ended, astray>>
  BY DEF ChangeAyah
<1>9. refused' = FALSE
  BY DEF ChangeAyah
<1>10. /\ teacher'.url = NoUrl /\ teacher'.playing = FALSE /\ DOMAIN teacher' = {"url", "playing", "rate", "loop"}
      /\ DOMAIN speaker' = {"src", "paused", "broken", "rate"} /\ speaker'.paused \in BOOLEAN
      /\ speaker'.broken \in BOOLEAN /\ refused' = FALSE
      /\ astray' \in BOOLEAN /\ events' \in Seq(Event) /\ ended' \in {"none", "loop", "stop"}
      /\ EventsTell' /\ speaker'.rate = teacher'.rate
  <2>1. CASE /\ teacher' = [url |-> NoUrl, playing |-> FALSE, rate |-> "normal", loop |-> FALSE]
             /\ speaker' = [src |-> NoUrl, paused |-> TRUE, broken |-> FALSE, rate |-> "normal"]
             /\ events' = <<>> /\ ended' = "none" /\ astray' = FALSE
    <3>1. events' \in Seq(Event) /\ speaker'.paused = TRUE /\ speaker'.broken = FALSE
      BY <2>1
    <3>2. EventsTell'
      BY <2>1, <3>1 DEF EventsTell
    <3> QED
      BY <1>9, <2>1, <3>1, <3>2
  <2>2. CASE /\ teacher' = [teacher EXCEPT !.url = NoUrl, !.playing = FALSE]
             /\ UNCHANGED <<speaker, events, ended, astray>>
    <3>1. EventsTell'
      BY <2>2 DEF EventsTell
    <3>2. teacher'.rate = teacher.rate
      BY <2>2
    <3> QED
      BY <1>9, <2>2, <3>1, <3>2 DEF TeacherIsHeard
  <2> QED
    BY <1>8, <2>1, <2>2
<1>11. OneClip'
  BY <1>1, <1>3, <1>6, <1>7, <1>10 DEF OneClip
<1>12. PanelTyped'
  BY <1>6, <1>10
<1>13. ResetTells' /\ RefusedTells' /\ TeacherIsHeard'
  BY <1>10 DEF ResetTells, RefusedTells, TeacherIsHeard
<1> QED
  BY <1>10, <1>11, <1>12, <1>13

LEMMA DeliverStep == PanelInv /\ Deliver => PanelInv'
<1> SUFFICES ASSUME PanelInv, Deliver PROVE PanelInv'
  OBVIOUS
<1> USE DEF PanelInv, PanelTyped, OnPanel
<1>1. view' = view /\ events # <<>> /\ ended = "none" /\ events' = Tail(events) /\ UNCHANGED <<asked, ayah, speaker>>
  BY DEF Deliver
<1>2. /\ Tail(events) \in Seq(Event) /\ Len(Tail(events)) = Len(events) - 1 /\ Len(events) \in Nat \ {0}
      /\ \A i \in 1..Len(events) - 1 : Tail(events)[i] = events[i + 1]
      /\ Head(events) = events[1] /\ Head(events) \in Event
  BY <1>1, HeadTailProperties, LenProperties, EmptySeq
<1>3. /\ events' = <<>> <=> Len(events) = 1
      /\ events' # <<>> => events'[Len(events')] = events[Len(events)]
  <2> DEFINE rest == Tail(events)
             n == Len(events)
  <2>1. rest \in Seq(Event) /\ Len(rest) = n - 1 /\ n \in Nat \ {0} /\ \A i \in 1..n - 1 : rest[i] = events[i + 1]
    BY <1>2
  <2> HIDE DEF rest
  <2>2. rest = <<>> <=> Len(rest) = 0
    BY <2>1, EmptySeq
  <2> HIDE DEF n
  <2>3. n - 1 \in Nat /\ (n # 1 => n - 1 \in 1..n - 1 /\ (n - 1) + 1 = n)
    BY <2>1
  <2>4. (rest = <<>> <=> n = 1) /\ (rest # <<>> => rest[Len(rest)] = events[n])
    BY <2>1, <2>2, <2>3
  <2> QED
    BY <1>1, <2>4 DEF rest, n
<1>4. CASE Head(events) = "ended"
  <2>1. ended' = (IF teacher.loop THEN "loop" ELSE "stop") /\ UNCHANGED <<teacher, astray, refused>>
    BY <1>4 DEF Deliver
  <2>2. ended' \in {"loop", "stop"}
    BY <2>1
  <2>3. PanelTyped' /\ OneClip' /\ ResetTells' /\ RefusedTells' /\ TeacherIsHeard'
    BY <1>1, <1>2, <2>1, <2>2 DEF OneClip, ResetTells, RefusedTells, TeacherIsHeard
  <2>4. EventsTell'
    BY <1>1, <1>2, <1>3, <1>4 DEF EventsTell
  <2> QED
    BY <2>3, <2>4
<1>5. CASE Head(events) # "ended"
  <2>1. /\ teacher' = [teacher EXCEPT !.playing = (Head(events) = "play")]
        /\ astray' = (teacher.url = NoUrl) /\ ended' = ended /\ refused' = FALSE
    BY <1>5 DEF Deliver
  <2>2. /\ DOMAIN teacher' = DOMAIN teacher /\ teacher'.rate = teacher.rate /\ teacher'.url = teacher.url
        /\ teacher'.playing = (Head(events) = "play")
    BY <2>1
  <2>3. PanelTyped' /\ OneClip' /\ ResetTells' /\ RefusedTells'
    BY <1>1, <1>2, <2>1, <2>2 DEF OneClip, ResetTells, RefusedTells
  <2>4. EventsTell'
    BY <1>1, <1>3, <2>1 DEF EventsTell
  <2>5. events' = <<>> => (teacher'.playing <=> ~speaker.paused)
    BY <1>1, <1>2, <1>3, <2>2 DEF EventsTell
  <2>6. TeacherIsHeard'
    BY <1>1, <2>1, <2>2, <2>5 DEF TeacherIsHeard, Silenced, Sounds
  <2> QED
    BY <2>3, <2>4, <2>6
<1> QED
  BY <1>4, <1>5

LEMMA HandleStep == PanelInv /\ HandleEnded => PanelInv'
<1> SUFFICES ASSUME PanelInv, HandleEnded PROVE PanelInv'
  OBVIOUS
<1> USE DEF PanelInv, PanelTyped, OnPanel
<1>1. /\ view' = view /\ ended # "none" /\ ended' = "none" /\ UNCHANGED <<asked, ayah>>
      /\ teacher' = [teacher EXCEPT !.playing = (ended = "loop")]
      /\ astray' = (teacher.url = NoUrl)
  BY DEF HandleEnded
<1>2. /\ DOMAIN teacher' = DOMAIN teacher /\ teacher'.rate = teacher.rate /\ teacher'.url = teacher.url
      /\ teacher'.playing = (ended = "loop")
  BY <1>1
<1>3. CASE ended = "loop" /\ speaker.paused /\ SpeakerPlays /\ refused' = FALSE
  <2>1. /\ DOMAIN speaker' = DOMAIN speaker /\ speaker'.paused = FALSE /\ speaker'.broken = speaker.broken
        /\ speaker'.src = speaker.src /\ speaker'.rate = speaker.rate
    BY <1>3 DEF SpeakerPlays
  <2>2. events' \in Seq(Event) /\ events' # <<>> /\ events'[Len(events')] = "play"
    BY <1>3, FireLast, Tellings DEF SpeakerPlays
  <2>3. PanelTyped' /\ OneClip'
    BY <1>1, <1>2, <1>3, <2>1, <2>2 DEF OneClip
  <2>4. EventsTell' /\ ResetTells' /\ RefusedTells' /\ TeacherIsHeard'
    BY <1>1, <1>2, <1>3, <2>1, <2>2 DEF EventsTell, ResetTells, RefusedTells, TeacherIsHeard
  <2> QED
    BY <2>3, <2>4
<1>4. CASE ended = "loop" /\ speaker.paused /\ SpeakerRefuses /\ refused' = TRUE
  <2>1. UNCHANGED <<speaker, events>>
    BY <1>4 DEF SpeakerRefuses
  <2>2. PanelTyped' /\ OneClip'
    BY <1>1, <1>2, <1>4, <2>1 DEF OneClip
  <2>3. EventsTell' /\ ResetTells' /\ RefusedTells' /\ TeacherIsHeard'
    BY <1>1, <1>2, <1>4, <2>1 DEF EventsTell, ResetTells, RefusedTells, TeacherIsHeard, Silenced
  <2> QED
    BY <2>2, <2>3
<1>5. CASE ~(ended = "loop" /\ speaker.paused) /\ UNCHANGED <<speaker, events>> /\ refused' = FALSE
  <2>1. PanelTyped' /\ OneClip'
    BY <1>1, <1>2, <1>5 DEF OneClip
  <2>2. EventsTell' /\ ResetTells' /\ RefusedTells'
    BY <1>1, <1>2, <1>5 DEF EventsTell, ResetTells, RefusedTells
  <2>3. TeacherIsHeard'
    BY <1>1, <1>2, <1>5 DEF EventsTell, TeacherIsHeard, Silenced, Sounds
  <2> QED
    BY <2>1, <2>2, <2>3
<1> QED
  BY <1>3, <1>4, <1>5 DEF HandleEnded

LEMMA PanelStep == PanelInv /\ NextPlayback => PanelInv'
<1> SUFFICES ASSUME PanelInv, NextPlayback PROVE PanelInv'
  OBVIOUS
<1>1. CASE OnTiles
  BY <1>1 DEF OnTiles, panel, PanelInv, PanelTyped, OneClip, EventsTell, ResetTells, RefusedTells,
     TeacherIsHeard, Silenced, Sounds
<1>2. CASE TogglePlay \/ RecordingStarted
  <2>1. UNCHANGED <<view, asked, ayah, teacher, ended, astray, refused>>
    BY <1>2 DEF TogglePlay, RecordingStarted, OnPanel
  <2>2. CASE SpeakerPlays
    BY <2>1, <2>2, ElementStep, Tellings DEF SpeakerPlays
  <2>3. CASE SpeakerPauses
    BY <2>1, <2>3, ElementStep, Tellings DEF SpeakerPauses
  <2>4. CASE SpeakerRefuses
    BY <2>1, <2>4 DEF SpeakerRefuses, PanelInv, PanelTyped, OneClip, EventsTell, ResetTells, RefusedTells,
       TeacherIsHeard, Silenced, Sounds
  <2> QED
    BY <1>2, <2>2, <2>3, <2>4 DEF TogglePlay, RecordingStarted
<1>3. CASE ClipEnds
  BY <1>3, ElementStep, Tellings DEF ClipEnds, OnPanel
<1>4. CASE ClipBreaks
  <2>1. /\ speaker' = [speaker EXCEPT !.broken = TRUE]
        /\ UNCHANGED <<view, asked, ayah, teacher, events, ended, astray, refused>>
    BY <1>4 DEF ClipBreaks, OnPanel
  <2>2. /\ DOMAIN speaker' = DOMAIN speaker /\ speaker'.paused = speaker.paused /\ speaker'.broken = TRUE
        /\ speaker'.src = speaker.src /\ speaker'.rate = speaker.rate
    BY <2>1 DEF PanelInv, PanelTyped
  <2>3. TeacherIsHeard'
    BY <2>1, <2>2 DEF PanelInv, PanelTyped, TeacherIsHeard, Silenced, Sounds
  <2> QED
    BY <2>1, <2>2, <2>3 DEF PanelInv, PanelTyped, OneClip, EventsTell, ResetTells, RefusedTells
<1>5. ASSUME NEW rate \in Rates, SetRate(rate) PROVE PanelInv'
  <2>1. /\ teacher' = [teacher EXCEPT !.rate = rate] /\ speaker' = [speaker EXCEPT !.rate = rate]
        /\ UNCHANGED <<view, asked, ayah, events, ended, astray, refused>>
    BY <1>5 DEF SetRate, OnPanel
  <2>2. /\ DOMAIN teacher' = DOMAIN teacher /\ teacher'.playing = teacher.playing /\ teacher'.url = teacher.url
        /\ DOMAIN speaker' = DOMAIN speaker /\ speaker'.paused = speaker.paused
        /\ speaker'.broken = speaker.broken /\ speaker'.src = speaker.src
        /\ teacher'.rate = rate /\ speaker'.rate = rate
    BY <2>1 DEF PanelInv, PanelTyped
  <2> QED
    BY <2>1, <2>2 DEF PanelInv, PanelTyped, OneClip, EventsTell, ResetTells, RefusedTells,
       TeacherIsHeard, Silenced, Sounds
<1>6. CASE ToggleLoop
  <2>1. teacher' = [teacher EXCEPT !.loop = ~@] /\ UNCHANGED <<view, asked, ayah, speaker, events, ended, astray, refused>>
    BY <1>6 DEF ToggleLoop, OnPanel
  <2>2. /\ DOMAIN teacher' = DOMAIN teacher /\ teacher'.playing = teacher.playing /\ teacher'.url = teacher.url
        /\ teacher'.rate = teacher.rate
    BY <2>1
  <2> QED
    BY <2>1, <2>2 DEF PanelInv, PanelTyped, OneClip, EventsTell, ResetTells, RefusedTells,
       TeacherIsHeard, Silenced, Sounds
<1> QED
  BY <1>1, <1>2, <1>3, <1>4, <1>5, <1>6, AnswerStep, ChangeStep, DeliverStep, HandleStep
     DEF NextPlayback, PlayBoth, PlayBothFails, TeacherEnds, UserEnds, ToggleTile, TileBreaks

\* The queue is shared with the lists; on the practice page only the BFF's
\* answers change it.
LEMMA ServedStep == PanelInv /\ NextListening /\ UNCHANGED panel => PanelInv'
<1> SUFFICES ASSUME PanelInv, NextListening, UNCHANGED panel PROVE PanelInv'
  OBVIOUS
<1>1. UNCHANGED <<view, ayah, teacher, speaker, events, ended, astray, refused>>
  BY DEF panel, NextListening, Answers, PauseRow, ClickRow, Plays, PlayFails, Ends, Breaks, Tick, ServeJob,
     JobRuns, JobEnds, AnswerRow, AnswerPoll
<1>2. ASSUME view # "practice" \/ UNCHANGED asked PROVE PanelInv'
  BY <1>1, <1>2 DEF PanelInv, PanelTyped, OneClip, EventsTell, ResetTells, RefusedTells,
       TeacherIsHeard, Silenced, Sounds
<1>3. CASE ServeJob /\ view = "practice"
  <2>1. PICK answer \in {"failed", "url"} : asked' = [asked EXCEPT ![1].answer = answer] /\ asked # <<>>
    BY <1>3 DEF ServeJob, Offered
  <2>2. asked \in Seq(ClipCall) /\ 1 \in 1..Len(asked)
    BY <1>3, <2>1, LenProperties, EmptySeq DEF PanelInv, PanelTyped
  <2>3. /\ DOMAIN asked = 1..Len(asked) /\ Len(asked) \in Nat
        /\ \A k \in 1..Len(asked) : asked[k] \in ClipCall
    BY <2>2, LenProperties, ElementOfSeq
  <2>4. [asked[1] EXCEPT !.answer = answer] \in ClipCall /\ [asked[1] EXCEPT !.answer = answer].effect = asked[1].effect
    BY <2>2, <2>3 DEF ClipCall
  <2>5. asked' \in [1..Len(asked) -> ClipCall] /\ \A k \in 1..Len(asked) : asked'[k].effect = asked[k].effect
    BY <2>1, <2>2, <2>3, <2>4
  <2>6. asked' \in Seq(ClipCall)
    BY <2>3, <2>5, IsASeq
  <2>7. Len(asked') = Len(asked)
    BY <2>3, <2>5, <2>6, LenProperties
  <2>8. OneClip'
    BY <1>1, <2>5, <2>7 DEF PanelInv, OneClip
  <2> QED
    BY <1>1, <2>6, <2>8 DEF PanelInv, PanelTyped, EventsTell, ResetTells, RefusedTells,
       TeacherIsHeard, Silenced, Sounds
<1> QED
  BY <1>2, <1>3 DEF NextListening, Answers, PauseRow, ClickRow, Plays, PlayFails, Ends, Breaks, Tick,
     JobRuns, JobEnds, AnswerRow, AnswerPoll

PlaybackInv == ListInv /\ TilesInv /\ PanelInv

LEMMA PlaybackSteps == PlaybackInv /\ [Next]_vars => PlaybackInv'
<1> SUFFICES ASSUME PlaybackInv, [Next]_vars PROVE PlaybackInv'
  OBVIOUS
<1>1. CASE UNCHANGED playbackVars
  BY <1>1 DEF playbackVars, listeningVars, history, result, panel, tiles, PlaybackInv, ListInv, PlayingIsHeard,
     Heard, TilesInv, TakesTurns, PanelInv, PanelTyped, OneClip, EventsTell, ResetTells, RefusedTells,
     TeacherIsHeard, Silenced, Sounds
<1>2. CASE NextListening /\ UNCHANGED <<panel, tiles>>
  <2>1. TilesInv'
    BY <1>2 DEF PlaybackInv, TilesInv, TakesTurns, tiles
  <2> QED
    BY <1>2, <2>1, ListStep, ServedStep DEF PlaybackInv
<1>3. CASE NextPlayback
  <2>1. UNCHANGED history
    BY <1>3 DEF NextPlayback, OnPanel, OnTiles, AnswerClip, TogglePlay, ToggleLoop, ChangeAyah, SetRate,
       RecordingStarted, ClipEnds, ClipBreaks, Deliver, HandleEnded, PlayBoth, PlayBothFails, TeacherEnds, UserEnds,
       ToggleTile, TileBreaks
  <2>2. ListInv'
    BY <2>1 DEF PlaybackInv, ListInv, PlayingIsHeard, Heard, history
  <2> QED
    BY <1>3, <2>2, TilesStep, PanelStep DEF PlaybackInv
<1> QED
  BY <1>1, <1>2, <1>3 DEF Next, vars

\* However clicks, late answers, rejected plays and events of the audio elements
\* interleave: the row or panel that is marked as playing is the one that sounds,
\* but for what its audio element does not tell, a clip that broke off or a loop
\* that was not let go on; and the two tiles take turns unless the user did not
\* (HistoryList.handlePlay, useTeacherAudio, ListenBack.handlePlayBoth).
THEOREM PlaybackIsHeard == Spec => []PlaybackHeard
<1>1. Init => PlaybackInv
  BY InitList, InitTiles, InitPanel DEF PlaybackInv
<1>2. PlaybackInv => PlaybackHeard
  BY DEF PlaybackInv, ListInv, TilesInv, PanelInv, PlaybackHeard
<1> QED
  BY <1>1, <1>2, PlaybackSteps, PTL DEF Spec

-----------------------------------------------------------------------------
(* The profile page: its queue of server actions.                           *)

Patch == UNION {[columns -> Values] : columns \in SUBSET (Fields \cup Prefs)}
Ops == Dialogs \cup {"prefs", "signOut", "refresh"}
ProfileCall ==
  [op : Ops, draft : [values : Patch, current : BOOLEAN], sent : Patch,
   served : BOOLEAN, ok : BOOLEAN, row : Patch, since : SUBSET Prefs]

\* What an action carries, and what its answer does.
Made(c) ==
  /\ c \in ProfileCall
  /\ ~c.served => ~c.ok /\ c.since = {}
  /\ c.op = "prefs" /\ c.ok => c.row \in [Prefs -> Values]
  /\ c.op = "refresh" /\ c.ok => c.row \in [Fields -> Values]
  /\ c.op = "edit" => /\ c.draft.values \in [Fields -> Values]
                      /\ DOMAIN c.sent \subseteq Fields
                      /\ \A f \in DOMAIN c.sent : c.sent[f] = c.draft.values[f]
  /\ c.op \in {"email", "password"} => DOMAIN c.draft.values = {} /\ DOMAIN c.sent = {}

\* Only the head of the queue has been served; an edit or a save of the
\* preferences waits, alone of its kind, as long as its transition does.
Single == {"edit", "prefs"}
Queue(q, waiting) ==
  /\ q \in Seq(ProfileCall)
  /\ \A i \in 1..Len(q) : Made(q[i])
  /\ \A i \in 2..Len(q) : ~q[i].served
  /\ \A i \in 1..Len(q) : q[i].op \in Single => q[i].op \in waiting
  /\ \A i, j \in 1..Len(q) : q[i].op \in Single /\ q[i].op = q[j].op => i = j

Of(q) == {q[i] : i \in 1..Len(q)}

LEMMA QueueTail ==
  ASSUME NEW q, NEW waiting, Queue(q, waiting), q # <<>>
  PROVE  /\ Queue(Tail(q), waiting \ {Head(q).op})
         /\ Made(Head(q)) /\ Head(q) = q[1]
         /\ Of(q) = {Head(q)} \cup Of(Tail(q))
         /\ \A d \in Of(Tail(q)) : Made(d) /\ ~d.served /\ (d.op \in Single => d.op # Head(q).op)
         /\ Head(q).op \in Single => Head(q).op \in waiting
<1> DEFINE rest == Tail(q)
           n == Len(q)
<1>1. /\ rest \in Seq(ProfileCall) /\ Len(rest) = n - 1 /\ n \in Nat \ {0}
      /\ \A i \in 1..n - 1 : rest[i] = q[i + 1]
      /\ Head(q) = q[1]
  BY HeadTailProperties, LenProperties, EmptySeq DEF Queue
<1> HIDE DEF rest, n
<1>2. \A i \in 1..n - 1 : i + 1 \in 2..n /\ i + 1 \in 1..n /\ i + 1 # 1
  BY <1>1
<1>3. /\ \A i \in 1..n : Made(q[i])
      /\ \A i \in 2..n : ~q[i].served
      /\ \A i \in 1..n : q[i].op \in Single => q[i].op \in waiting
      /\ \A i, j \in 1..n : q[i].op \in Single /\ q[i].op = q[j].op => i = j
      /\ 1 \in 1..n
  BY <1>1 DEF Queue, n
<1>4. \A i \in 1..n - 1 : /\ Made(rest[i]) /\ ~rest[i].served
                          /\ rest[i].op \in Single => rest[i].op # q[1].op /\ rest[i].op \in waiting
  BY <1>1, <1>2, <1>3
<1>5. ASSUME NEW i \in 1..n - 1, NEW j \in 1..n - 1, rest[i].op \in Single, rest[i].op = rest[j].op
      PROVE  i = j
  <2>1. i + 1 = j + 1
    BY <1>1, <1>2, <1>3, <1>5
  <2> QED
    BY <2>1
<1>6. Queue(rest, waiting \ {Head(q).op})
  <2>1. \A i \in 2..Len(rest) : i \in 1..n - 1
    BY <1>1
  <2> QED
    BY <1>1, <1>4, <1>5, <2>1 DEF Queue
<1>7. Of(q) = {Head(q)} \cup Of(rest)
  <2>1. ASSUME NEW i \in 1..n PROVE q[i] \in {Head(q)} \cup Of(rest)
    <3>1. CASE i = 1
      BY <1>1, <3>1
    <3>2. CASE i # 1
      <4>1. i - 1 \in 1..n - 1 /\ (i - 1) + 1 = i
        BY <1>1, <2>1, <3>2
      <4>2. rest[i - 1] = q[i] /\ i - 1 \in 1..Len(rest)
        BY <1>1, <4>1
      <4> QED
        BY <4>2 DEF Of
    <3> QED
      BY <3>1, <3>2
  <2>2. ASSUME NEW i \in 1..Len(rest) PROVE rest[i] \in Of(q)
    BY <1>1, <1>2, <2>2 DEF Of, n
  <2>3. Head(q) \in Of(q)
    BY <1>1, <1>3 DEF Of, n
  <2> QED
    BY <2>1, <2>2, <2>3 DEF Of, n
<1>8. \A d \in Of(rest) : Made(d) /\ ~d.served /\ (d.op \in Single => d.op # Head(q).op)
  BY <1>1, <1>4 DEF Of
<1> QED
  BY <1>1, <1>3, <1>6, <1>7, <1>8 DEF rest

LEMMA QueueHead ==
  ASSUME NEW q, NEW waiting, Queue(q, waiting), q # <<>>,
         NEW c, Made(c), c.op = q[1].op,
         NEW new, new = [q EXCEPT ![1] = c]
  PROVE  Queue(new, waiting) /\ Of(new) = {c} \cup Of(Tail(q)) /\ new # <<>>
<1> DEFINE n == Len(q)
<1>1. n \in Nat \ {0} /\ DOMAIN q = 1..n /\ q \in Seq(ProfileCall) /\ \A i \in 1..n : q[i] \in ProfileCall
  BY LenProperties, EmptySeq, ElementOfSeq DEF Queue
<1>2. c \in ProfileCall
  BY DEF Made
<1> HIDE DEF n
<1>3. /\ new \in [1..n -> ProfileCall] /\ new[1] = c /\ \A i \in 2..n : new[i] = q[i]
  BY <1>1, <1>2
<1>4. new \in Seq(ProfileCall)
  BY <1>1, <1>3, IsASeq
<1>5. Len(new) = n /\ new # <<>>
  BY <1>1, <1>3, <1>4, LenProperties, EmptySeq
<1>6. \A i \in 1..n : i = 1 \/ i \in 2..n
  BY <1>1
<1>7. \A i \in 1..n : new[i].op = q[i].op
  BY <1>3, <1>6
<1>8. Queue(new, waiting)
  <2>1. \A i \in 1..n : Made(new[i])
    BY <1>3, <1>6 DEF Queue, n
  <2>2. \A i \in 2..n : ~new[i].served
    BY <1>3 DEF Queue, n
  <2>3. \A i \in 1..n : new[i].op \in Single => new[i].op \in waiting
    BY <1>7 DEF Queue, n
  <2>4. \A i, j \in 1..n : new[i].op \in Single /\ new[i].op = new[j].op => i = j
    BY <1>7 DEF Queue, n
  <2> QED
    BY <1>4, <1>5, <2>1, <2>2, <2>3, <2>4 DEF Queue
<1>9. /\ Len(Tail(q)) = n - 1 /\ \A i \in 1..n - 1 : Tail(q)[i] = q[i + 1]
  BY <1>1, HeadTailProperties, EmptySeq DEF n
<1>10. Of(new) = {c} \cup Of(Tail(q))
  <2>1. ASSUME NEW i \in 1..n PROVE new[i] \in {c} \cup Of(Tail(q))
    <3>1. CASE i = 1
      BY <1>3, <3>1
    <3>2. CASE i # 1
      <4>1. i - 1 \in 1..n - 1 /\ (i - 1) + 1 = i /\ i \in 2..n
        BY <1>1, <2>1, <3>2
      <4>2. Tail(q)[i - 1] = new[i] /\ i - 1 \in 1..Len(Tail(q))
        BY <1>3, <1>9, <4>1
      <4> QED
        BY <4>2 DEF Of
    <3> QED
      BY <3>1, <3>2
  <2>2. ASSUME NEW i \in 1..n - 1 PROVE Tail(q)[i] \in Of(new)
    <3>1. i + 1 \in 2..n /\ i + 1 \in 1..n
      BY <1>1, <2>2
    <3> QED
      BY <1>3, <1>5, <1>9, <3>1 DEF Of
  <2>3. c \in Of(new)
    <3>1. 1 \in 1..n
      BY <1>1
    <3> QED
      BY <1>3, <1>5, <3>1 DEF Of
  <2> QED
    BY <1>5, <1>9, <2>1, <2>2, <2>3 DEF Of
<1> QED
  BY <1>5, <1>8, <1>10

LEMMA QueueAppend ==
  ASSUME NEW q, NEW waiting, Queue(q, waiting),
         NEW c, Made(c), ~c.served, c.op \in Single => c.op \notin waiting
  PROVE  Queue(Append(q, c), waiting \cup {c.op}) /\ Of(Append(q, c)) = Of(q) \cup {c}
<1> DEFINE n == Len(q)
           new == Append(q, c)
<1>1. q \in Seq(ProfileCall) /\ c \in ProfileCall
  BY DEF Queue, Made
<1>2. /\ new \in Seq(ProfileCall) /\ Len(new) = n + 1 /\ n \in Nat
      /\ \A i \in 1..n : new[i] = q[i]
      /\ new[n + 1] = c
  BY <1>1, AppendProperties, LenProperties
<1>3. /\ \A i \in 1..n : Made(q[i])
      /\ \A i \in 2..n : ~q[i].served
      /\ \A i \in 1..n : q[i].op \in Single => q[i].op \in waiting
      /\ \A i, j \in 1..n : q[i].op \in Single /\ q[i].op = q[j].op => i = j
  BY DEF Queue
<1> HIDE DEF n, new
<1>4. \A i \in 1..n + 1 : i \in 1..n \/ i = n + 1
  BY <1>2
<1>5. \A i \in 2..n + 1 : i \in 2..n \/ i = n + 1
  BY <1>2
<1>6. \A i \in 1..n + 1 : Made(new[i]) /\ (new[i].op \in Single => new[i].op \in waiting \cup {c.op})
  BY <1>2, <1>3, <1>4
<1>7. \A i \in 2..n + 1 : ~new[i].served
  <2>1. \A i \in 2..n : i \in 1..n
    BY <1>2
  <2> QED
    BY <1>2, <1>3, <1>5, <2>1
<1>8. ASSUME NEW i \in 1..n + 1, NEW j \in 1..n + 1, new[i].op \in Single, new[i].op = new[j].op
      PROVE  i = j
  BY <1>2, <1>3, <1>4, <1>8
<1>9. Queue(new, waiting \cup {c.op})
  BY <1>2, <1>6, <1>7, <1>8 DEF Queue
<1>10. Of(new) = Of(q) \cup {c}
  <2>1. \A i \in 1..n + 1 : new[i] \in Of(q) \cup {c}
    BY <1>2, <1>4 DEF Of, n
  <2>2. \A i \in 1..n : i \in 1..n + 1
    BY <1>2
  <2>3. \A i \in 1..n : q[i] \in Of(new)
    BY <1>2, <2>2 DEF Of
  <2>4. c \in Of(new)
    <3>1. n + 1 \in 1..n + 1
      BY <1>2
    <3> QED
      BY <1>2, <3>1 DEF Of
  <2> QED
    BY <1>2, <2>1, <2>3, <2>4 DEF Of, n
<1> QED
  BY <1>9, <1>10 DEF new

LEMMA QueueMore ==
  ASSUME NEW q, NEW waiting, NEW more, Queue(q, waiting), waiting \subseteq more
  PROVE  Queue(q, more)
BY DEF Queue

-----------------------------------------------------------------------------
(* The profile page: what is stored and what is shown.                      *)

ProfileTyped ==
  /\ row \in [Fields -> Values] /\ props \in [Fields -> Values]
  /\ prefRow \in [Prefs -> Values] /\ card \in [Prefs -> Values] /\ previous \in [Prefs -> Values]
  /\ disturbed \in BOOLEAN

\* A save of the preferences knows what to go back to, and once it is served
\* what is stored; so does a served edit, and a served refresh.
KnowsPrefs(c) ==
  c.op = "prefs" =>
    /\ \A p \in Prefs \ doubt : c.ok => p \in DOMAIN c.sent \/ previous[p] = prefRow[p]
    /\ \A p \in Prefs \ doubt : ~c.ok => previous[p] = prefRow[p]
    /\ c.ok => \A p \in Prefs \ c.since : c.row[p] = prefRow[p]
KnowsRow(c) ==
  ~disturbed =>
    /\ c.op = "edit" /\ c.draft.current /\ ~c.served =>
         \A f \in Fields \ DOMAIN c.sent : row[f] = c.draft.values[f]
    /\ c.op = "edit" /\ c.draft.current /\ c.ok => row = c.draft.values
    /\ c.op = "refresh" /\ c.ok => c.row = row

\* The page shows the row unless it is about to be refreshed.
Behind(c) == c.op = "refresh" \/ (c.op = "edit" /\ c.ok)
PropsShown == ~disturbed /\ ~left /\ (\A c \in Of(todo) : ~Behind(c)) => props = row

ProfileInv ==
  /\ ProfileTyped /\ Queue(todo, pending) /\ CardShowsStored /\ PropsShown
  /\ \A c \in Of(todo) : KnowsPrefs(c) /\ KnowsRow(c)

LEMMA Patches ==
  /\ NoPatch \in Patch /\ DOMAIN NoPatch = {}
  /\ [Fields -> Values] \subseteq Patch /\ [Prefs -> Values] \subseteq Patch
  /\ \A columns \in SUBSET (Fields \cup Prefs) : [columns -> Values] \subseteq Patch
BY DEF Patch, NoPatch

\* Nothing an action or its answer knows has changed.
LEMMA KnownStays ==
  ASSUME UNCHANGED <<row, prefRow, previous, doubt, disturbed>>,
         NEW c, KnowsPrefs(c), KnowsRow(c)
  PROVE  KnowsPrefs(c)' /\ KnowsRow(c)'
BY DEF KnowsPrefs, KnowsRow

\* A form is sent.
LEMMA SubmitStep ==
  ASSUME ProfileInv, NEW c, Made(c), ~c.served, c.op \notin pending \cup {"prefs"}, KnowsRow(c),
         todo' = Append(todo, c), pending' = pending \cup {c.op},
         UNCHANGED <<row, prefRow, props, card, previous, left, doubt, disturbed>>
  PROVE  ProfileInv'
<1>1. Queue(todo', pending') /\ Of(todo') = Of(todo) \cup {c}
  BY QueueAppend DEF ProfileInv
<1>2. ProfileTyped'
  BY DEF ProfileInv, ProfileTyped
<1>3. CardShowsStored'
  BY DEF ProfileInv, CardShowsStored
<1>4. PropsShown'
  BY <1>1 DEF ProfileInv, PropsShown, Behind
<1>5. KnowsPrefs(c)
  BY DEF KnowsPrefs
<1>6. ASSUME NEW d \in Of(todo') PROVE KnowsPrefs(d)' /\ KnowsRow(d)'
  BY <1>1, <1>5, <1>6, KnownStays DEF ProfileInv
<1> QED
  BY <1>1, <1>2, <1>3, <1>4, <1>6 DEF ProfileInv

\* Nothing that matters changes.
LEMMA QuietPage ==
  ASSUME ProfileInv,
         UNCHANGED <<row, prefRow, props, card, previous, pending, todo, left, doubt, disturbed>>
  PROVE  ProfileInv'
BY DEF ProfileInv, ProfileTyped, Queue, CardShowsStored, PropsShown, Behind, KnowsPrefs, KnowsRow

LEMMA ActionMade ==
  ASSUME NEW op \in Ops, NEW values \in Patch, NEW sent \in Patch,
         op = "edit" => /\ values \in [Fields -> Values] /\ DOMAIN sent \subseteq Fields
                        /\ \A f \in DOMAIN sent : sent[f] = values[f],
         op \in {"email", "password"} => DOMAIN values = {} /\ DOMAIN sent = {}
  PROVE  LET c == Action(op, Draft(values), sent) IN
         /\ Made(c) /\ ~c.served /\ ~c.ok /\ c.op = op /\ c.sent = sent
         /\ c.draft.values = values /\ c.draft.current = ~Queued("refresh")
<1>1. Draft(values) \in [values : Patch, current : BOOLEAN]
  BY DEF Draft
<1>2. Action(op, Draft(values), sent) \in ProfileCall
  BY <1>1, Patches DEF Action, ProfileCall
<1> QED
  BY <1>2 DEF Action, Draft, Made

LEMMA DialogStep ==
  ASSUME ProfileInv, NEW d \in {"email", "password", "delete"}, Submit(d, NoPatch, NoPatch)
  PROVE  ProfileInv'
<1> DEFINE c == Action(d, Draft(NoPatch), NoPatch)
<1>1. Made(c) /\ ~c.served /\ ~c.ok /\ c.op = d
  BY ActionMade, Patches DEF Ops, Dialogs
<1>2. KnowsRow(c)
  BY <1>1 DEF KnowsRow
<1>3. todo' = Append(todo, c) /\ d \notin pending /\ pending' = pending \cup {d}
  BY DEF Submit, CanSubmit, Enqueue
<1>4. UNCHANGED <<row, prefRow, props, card, previous, left, doubt, disturbed>>
  BY DEF Submit, rows
<1> HIDE DEF c
<1> QED
  BY <1>1, <1>2, <1>3, <1>4, SubmitStep

\* A page that is not to be refreshed and waits for no edit shows the row.
LEMMA CurrentPage ==
  ASSUME ProfileInv, ~disturbed, ~left, ~Queued("refresh"), "edit" \notin pending
  PROVE  props = row
<1>1. \A d \in Of(todo) : d.op # "refresh"
  BY LenProperties DEF Queued, Of, ProfileInv, Queue
<1>2. \A d \in Of(todo) : d.op # "edit"
  BY DEF ProfileInv, Queue, Of, Single
<1> QED
  BY <1>1, <1>2 DEF ProfileInv, PropsShown, Behind

\* A draft made on such a page is made over the row.
LEMMA EditStep ==
  ASSUME ProfileInv, NEW draft \in [Fields -> Values], SubmitProfile(draft)
  PROVE  ProfileInv'
<1> DEFINE changed == {f \in DOMAIN draft : draft[f] # props[f]}
           sent == [f \in changed |-> draft[f]]
           c == Action("edit", Draft(draft), sent)
<1>1. CASE changed = {}
  <2>1. UNCHANGED <<row, prefRow, props, card, previous, pending, todo, left, doubt, disturbed>>
    BY <1>1 DEF SubmitProfile, rows
  <2> QED
    BY <2>1, QuietPage
<1>2. CASE changed # {}
  <2>1. Submit("edit", draft, sent)
    BY <1>2 DEF SubmitProfile
  <2>2. todo' = Append(todo, c) /\ "edit" \notin pending /\ pending' = pending \cup {"edit"} /\ ~left
    BY <2>1 DEF Submit, CanSubmit, Enqueue
  <2>3. UNCHANGED <<row, prefRow, props, card, previous, left, doubt, disturbed>>
    BY <2>1 DEF Submit, rows
  <2>4. changed \subseteq Fields /\ sent \in [changed -> Values] /\ DOMAIN sent = changed
    OBVIOUS
  <2>5. sent \in Patch /\ draft \in Patch
    BY <2>4, Patches
  <2>6. \A f \in DOMAIN sent : sent[f] = draft[f]
    OBVIOUS
  <2>7. \A f \in Fields \ DOMAIN sent : draft[f] = props[f]
    OBVIOUS
  <2> HIDE DEF changed, sent
  <2>8. /\ Made(c) /\ ~c.served /\ ~c.ok /\ c.op = "edit" /\ c.sent = sent
        /\ c.draft.values = draft /\ c.draft.current = ~Queued("refresh")
    BY <2>4, <2>5, <2>6, ActionMade DEF Ops, Dialogs
  <2> HIDE DEF c
  <2>9. ASSUME ~disturbed, c.draft.current PROVE props = row
    BY <2>2, <2>8, <2>9, CurrentPage
  <2>10. KnowsRow(c)
    BY <2>7, <2>8, <2>9 DEF KnowsRow
  <2> QED
    BY <2>2, <2>3, <2>8, <2>10, SubmitStep
<1> QED
  BY <1>1, <1>2

LEMMA SignOutStep == ProfileInv /\ SignOut => ProfileInv'
<1> SUFFICES ASSUME ProfileInv, SignOut PROVE ProfileInv'
  OBVIOUS
<1> DEFINE c == Action("signOut", Draft(NoPatch), NoPatch)
<1>1. Made(c) /\ ~c.served /\ ~c.ok /\ c.op = "signOut"
  BY ActionMade, Patches DEF Ops
<1>2. KnowsRow(c)
  BY <1>1 DEF KnowsRow
<1>3. todo' = Append(todo, c) /\ "signOut" \notin pending /\ pending' = pending \cup {"signOut"}
  BY DEF SignOut, Enqueue
<1>4. UNCHANGED <<row, prefRow, props, card, previous, left, doubt, disturbed>>
  BY DEF SignOut, rows
<1> HIDE DEF c
<1> QED
  BY <1>1, <1>2, <1>3, <1>4, SubmitStep

\* The card is saved: its snapshot is what the card showed at rest.
LEMMA SaveStep ==
  ASSUME ProfileInv, NEW p \in Prefs, SavePreference(p)
  PROVE  ProfileInv'
<1> DEFINE patch == [q \in {p} |-> 1 - card[p]]
           call == Action("prefs", Draft(patch), patch)
<1>1. /\ todo' = Append(todo, call) /\ "prefs" \notin pending /\ pending' = pending \cup {"prefs"} /\ ~left
      /\ previous' = card /\ card' = [card EXCEPT ![p] = patch[p]]
      /\ UNCHANGED <<row, prefRow, props, left, doubt, disturbed>>
  BY DEF SavePreference, Enqueue, OnPage, rows
<1>2. card[p] \in Values /\ 1 - card[p] \in Values
  BY DEF ProfileInv, ProfileTyped, Values
<1>3. patch \in [{p} -> Values] /\ patch[p] \in Values
  BY <1>2
<1>4. patch \in Patch
  <2>1. {p} \in SUBSET (Fields \cup Prefs)
    OBVIOUS
  <2> QED
    BY <1>3, <2>1, Patches
<1>5. Made(call) /\ ~call.served /\ ~call.ok /\ call.op = "prefs"
  BY <1>4, ActionMade DEF Ops
<1> HIDE DEF patch, call
<1>6. PICK c : c = call
  OBVIOUS
<1>7. Queue(todo', pending') /\ Of(todo') = Of(todo) \cup {c}
  BY <1>1, <1>5, <1>6, QueueAppend DEF ProfileInv
<1>8. ProfileTyped'
  BY <1>1, <1>3 DEF ProfileInv, ProfileTyped
<1>9. CardShowsStored'
  BY <1>1 DEF CardShowsStored
<1>10. PropsShown'
  BY <1>1, <1>7 DEF ProfileInv, PropsShown, Behind
<1>11. KnowsPrefs(c)'
  BY <1>1, <1>5, <1>6 DEF KnowsPrefs, ProfileInv, CardShowsStored
<1>12. KnowsRow(c)'
  BY <1>5, <1>6 DEF KnowsRow
<1>13. ASSUME NEW d \in Of(todo) PROVE KnowsPrefs(d)' /\ KnowsRow(d)'
  <2>1. d.op # "prefs"
    BY <1>1, <1>13 DEF ProfileInv, Queue, Of, Single
  <2> QED
    BY <1>1, <1>13, <2>1 DEF ProfileInv, KnowsPrefs, KnowsRow
<1> QED
  BY <1>7, <1>8, <1>9, <1>10, <1>11, <1>12, <1>13 DEF ProfileInv

\* The head of the queue, served.
Given(c, ok, answer) == [c EXCEPT !.served = TRUE, !.ok = ok, !.row = answer]

\* The BFF serves the head.  It writes what an edit or a save has sent; a save
\* and a refresh are answered with what is stored then.
LEMMA ServeStep ==
  ASSUME ProfileInv, NEW ok \in BOOLEAN, NEW answer \in Patch, Serve(ok, answer),
         row' \in [Fields -> Values], prefRow' \in [Prefs -> Values], disturbed' \in BOOLEAN,
         disturbed => disturbed',
         row' = row \/ (Head(todo).op = "edit" /\ ok),
         Head(todo).op = "edit" /\ ok => row' = Patched(row, Head(todo).sent),
         prefRow' = prefRow \/ (Head(todo).op = "prefs" /\ ok),
         \A p \in Prefs \ DOMAIN Head(todo).sent : prefRow'[p] = prefRow[p],
         Head(todo).op = "prefs" /\ ok => answer = prefRow',
         Head(todo).op = "refresh" /\ ok =>
           answer \in [Fields -> Values] /\ (~disturbed' => answer = row')
  PROVE  ProfileInv'
<1> DEFINE h == Head(todo)
<1>1. ~left /\ todo # <<>> /\ ~h.served
      /\ todo' = [todo EXCEPT ![1].served = TRUE, ![1].ok = ok, ![1].row = answer]
      /\ UNCHANGED <<props, card, previous, pending, left, doubt>>
  BY DEF Serve, shown
<1>2. Queue(todo, pending)
  BY DEF ProfileInv
<1>3. PICK c : c = Given(h, ok, answer)
  OBVIOUS
<1>4. /\ Made(h) /\ h = todo[1] /\ Of(todo) = {h} \cup Of(Tail(todo))
      /\ \A d \in Of(Tail(todo)) : Made(d) /\ ~d.served /\ (d.op \in Single => d.op # h.op)
      /\ h.op \in Single => h.op \in pending
  BY <1>1, <1>2, QueueTail
<1>5. todo \in Seq(ProfileCall) /\ todo # <<>>
  BY <1>1, <1>2 DEF Queue
<1>6. /\ Made(c) /\ c.op = h.op /\ c.sent = h.sent /\ c.draft = h.draft
      /\ c.since = {} /\ c.served = TRUE /\ c.ok = ok /\ c.row = answer
      /\ todo' = [todo EXCEPT ![1] = c]
  <2>1. /\ c \in ProfileCall /\ c.op = h.op /\ c.sent = h.sent /\ c.draft = h.draft
        /\ c.since = h.since /\ c.served = TRUE /\ c.ok = ok /\ c.row = answer
        /\ todo' = [todo EXCEPT ![1] = c]
    <3>1. Len(todo) \in Nat \ {0} /\ DOMAIN todo = 1..Len(todo) /\ 1 \in DOMAIN todo /\ h \in ProfileCall
      BY <1>4, <1>5, LenProperties, EmptySeq, ElementOfSeq
    <3>2. c = [h EXCEPT !.served = TRUE, !.ok = ok, !.row = answer]
      BY <1>3 DEF Given
    <3> HIDE DEF h
    <3>3. /\ c \in ProfileCall /\ c.op = h.op /\ c.sent = h.sent /\ c.draft = h.draft
          /\ c.since = h.since /\ c.served = TRUE /\ c.ok = ok /\ c.row = answer
      BY <3>1, <3>2 DEF ProfileCall
    <3>4. todo' = [todo EXCEPT ![1] = c]
      BY <1>1, <1>4, <3>1, <3>2
    <3> QED
      BY <3>3, <3>4
  <2>2. h.since = {}
    BY <1>1, <1>4 DEF Made
  <2>3. /\ h.op = "prefs" /\ ok => answer \in [Prefs -> Values]
        /\ h.op = "refresh" /\ ok => answer \in [Fields -> Values]
    OBVIOUS
  <2> HIDE DEF h
  <2>4. Made(c)
    BY <1>4, <2>1, <2>3 DEF Made
  <2> QED
    BY <2>1, <2>2, <2>4
<1>7. Queue(todo', pending') /\ Of(todo') = {c} \cup Of(Tail(todo))
  <2>1. c.op = todo[1].op /\ Made(c) /\ todo' = [todo EXCEPT ![1] = c] /\ todo # <<>> /\ pending' = pending
    BY <1>1, <1>6, <1>4
  <2> QED
    BY <1>2, <2>1, QueueHead
<1>8. ~h.ok
  BY <1>1, <1>4 DEF Made
<1>9. KnowsPrefs(h) /\ KnowsRow(h) /\ \A d \in Of(Tail(todo)) : KnowsPrefs(d) /\ KnowsRow(d) /\ ~d.ok
  BY <1>4 DEF ProfileInv, Made
<1> HIDE DEF h
<1>10. ProfileTyped'
  BY <1>1 DEF ProfileInv, ProfileTyped
<1>11. CardShowsStored'
  <2>1. "prefs" \notin pending => prefRow' = prefRow
    BY <1>4 DEF Single, h
  <2> QED
    BY <1>1, <2>1 DEF ProfileInv, CardShowsStored
<1>12. PropsShown'
  <2> SUFFICES ASSUME ~disturbed', ~left', \A d \in Of(todo') : ~Behind(d) PROVE props' = row'
    BY DEF PropsShown, Behind
  <2>1. ~Behind(c) /\ \A d \in Of(Tail(todo)) : ~Behind(d)
    BY <1>7
  <2>2. ~Behind(h) /\ row' = row
    BY <1>6, <1>8, <2>1 DEF Behind, h
  <2>3. ~disturbed
    OBVIOUS
  <2>4. props = row
    BY <1>1, <1>4, <2>1, <2>2, <2>3 DEF ProfileInv, PropsShown
  <2> QED
    BY <1>1, <2>2, <2>4
<1>13. KnowsPrefs(c)'
  <2> SUFFICES ASSUME c.op = "prefs"
               PROVE  /\ \A p \in Prefs \ doubt : c.ok => p \in DOMAIN c.sent \/ previous[p] = prefRow'[p]
                      /\ \A p \in Prefs \ doubt : ~c.ok => previous[p] = prefRow'[p]
                      /\ c.ok => \A p \in Prefs \ c.since : c.row[p] = prefRow'[p]
    BY <1>1 DEF KnowsPrefs
  <2>1. \A p \in Prefs \ doubt : previous[p] = prefRow[p]
    BY <1>6, <1>8, <1>9 DEF KnowsPrefs
  <2> QED
    BY <1>6, <2>1 DEF h
<1>14. KnowsRow(c)'
  <2> SUFFICES ASSUME ~disturbed'
               PROVE  /\ c.op = "edit" /\ c.draft.current /\ c.ok => row' = c.draft.values
                      /\ c.op = "refresh" /\ c.ok => c.row = row'
    BY <1>6 DEF KnowsRow
  <2>1. ASSUME c.op = "edit", c.draft.current, c.ok PROVE row' = c.draft.values
    <3>1. \A f \in Fields \ DOMAIN h.sent : row[f] = h.draft.values[f]
      BY <1>1, <1>6, <1>9, <2>1 DEF KnowsRow, h
    <3>2. h.draft.values \in [Fields -> Values] /\ \A f \in DOMAIN h.sent : h.sent[f] = h.draft.values[f]
      BY <1>6, <1>4, <2>1 DEF Made
    <3>3. row' = Patched(row, h.sent) /\ row \in [Fields -> Values]
      BY <1>6, <2>1 DEF h, ProfileInv, ProfileTyped
    <3>4. row' = [f \in Fields |-> h.draft.values[f]]
      BY <3>1, <3>2, <3>3 DEF Patched
    <3> QED
      BY <1>6, <3>2, <3>4
  <2> QED
    BY <1>6, <2>1 DEF h
<1>15. ASSUME NEW d \in Of(Tail(todo)) PROVE KnowsPrefs(d)' /\ KnowsRow(d)'
  <2>1. d.op = "prefs" => prefRow' = prefRow
    BY <1>4, <1>15 DEF Single, h
  <2>2. d.op = "edit" => row' = row
    BY <1>4, <1>15 DEF Single, h
  <2>3. KnowsPrefs(d)'
    BY <1>1, <1>9, <1>15, <2>1 DEF KnowsPrefs
  <2>4. KnowsRow(d)'
    BY <1>1, <1>9, <1>15, <2>2 DEF KnowsRow
  <2> QED
    BY <2>3, <2>4
<1> QED
  BY <1>7, <1>10, <1>11, <1>12, <1>13, <1>14, <1>15 DEF ProfileInv

LEMMA PatchedTyped ==
  ASSUME NEW S, NEW old \in [S -> Values], NEW sent \in Patch
  PROVE  /\ Patched(old, sent) \in [S -> Values]
         /\ \A f \in S \ DOMAIN sent : Patched(old, sent)[f] = old[f]
         /\ DOMAIN sent = {} => Patched(old, sent) = old
<1>1. PICK columns \in SUBSET (Fields \cup Prefs) : sent \in [columns -> Values]
  BY DEF Patch
<1> QED
  BY <1>1 DEF Patched

LEMMA ServeSteps ==
  ASSUME ProfileInv,
         \/ ServeProfile \/ ServePassword \/ ServePreferences \/ ServeDelete \/ ServeRefresh
         \/ ServeSignOut \/ Refuse
  PROVE  ProfileInv'
<1> DEFINE h == Head(todo)
<1>1. /\ row \in [Fields -> Values] /\ prefRow \in [Prefs -> Values] /\ disturbed \in BOOLEAN
      /\ NoPatch \in Patch /\ [Fields -> Values] \subseteq Patch /\ [Prefs -> Values] \subseteq Patch
  BY Patches DEF ProfileInv, ProfileTyped
<1>2. todo # <<>> => Made(h) /\ h.sent \in Patch
  BY QueueTail DEF ProfileInv, Made, ProfileCall
<1>3. CASE ServeProfile
  <2>1. /\ row' = Patched(row, h.sent) /\ Serve(TRUE, row') /\ prefRow' = prefRow /\ disturbed' = disturbed
        /\ h.op \in {"edit", "email"} /\ todo # <<>>
    BY <1>3 DEF ServeProfile
  <2>2. row' \in [Fields -> Values] /\ row' \in Patch
    BY <1>1, <1>2, <2>1, PatchedTyped
  <2>3. h.op = "email" => row' = row
    BY <1>1, <1>2, <2>1, PatchedTyped DEF Made
  <2> QED
    BY <1>1, <2>1, <2>2, <2>3, ServeStep
<1>4. CASE ServePreferences
  <2>1. /\ prefRow' = Patched(prefRow, h.sent) /\ Serve(TRUE, prefRow') /\ row' = row /\ disturbed' = disturbed
        /\ h.op = "prefs" /\ todo # <<>>
    BY <1>4 DEF ServePreferences
  <2>2. /\ prefRow' \in [Prefs -> Values] /\ prefRow' \in Patch
        /\ \A p \in Prefs \ DOMAIN h.sent : prefRow'[p] = prefRow[p]
    BY <1>1, <1>2, <2>1, PatchedTyped
  <2> QED
    BY <1>1, <2>1, <2>2, ServeStep
<1>5. ASSUME NEW ok \in BOOLEAN, Serve(ok, NoPatch), ok => h.op \notin {"edit", "prefs", "refresh"},
             row' = row, prefRow' = prefRow, disturbed' \in BOOLEAN, disturbed => disturbed'
      PROVE  ProfileInv'
  BY <1>1, <1>5, ServeStep
<1>6. CASE ServePassword \/ ServeDelete \/ ServeSignOut
  <2>1. /\ Serve(TRUE, NoPatch) /\ h.op \in {"password", "delete", "signOut"}
        /\ row' = row /\ prefRow' = prefRow /\ disturbed' = disturbed
    BY <1>6 DEF ServePassword, ServeDelete, ServeSignOut, rows
  <2> QED
    BY <1>1, <1>5, <2>1
<1>7. CASE Refuse
  <2>1. Serve(FALSE, NoPatch) /\ row' = row /\ prefRow' = prefRow /\ disturbed' = disturbed
    BY <1>7 DEF Refuse, rows
  <2> QED
    BY <1>1, <1>5, <2>1
<1>8. CASE ServeRefresh
  <2>1. /\ h.op = "refresh" /\ disturbed' = (disturbed \/ ~Authorised) /\ row' = row /\ prefRow' = prefRow
    BY <1>8 DEF ServeRefresh, rows
  <2>2. disturbed' \in BOOLEAN /\ (disturbed => disturbed')
    BY <1>1, <2>1 DEF Authorised
  <2>3. CASE Serve(FALSE, NoPatch)
    BY <1>5, <2>1, <2>2, <2>3
  <2>4. CASE Serve(TRUE, IF Authorised THEN row ELSE Fallback)
    <3> DEFINE answer == IF Authorised THEN row ELSE Fallback
    <3>1. answer \in [Fields -> Values]
      BY <1>1 DEF Fallback, Values
    <3>2. ~disturbed' => answer = row'
      BY <2>1
    <3> QED
      BY <1>1, <2>1, <2>2, <2>4, <3>1, <3>2, ServeStep
  <2> QED
    BY <1>8, <2>3, <2>4 DEF ServeRefresh
<1> QED
  BY <1>3, <1>4, <1>6, <1>7, <1>8

\* What QueueTail says of the head and of what waits behind it.
Headed(h) ==
  /\ Made(h) /\ h = Head(todo) /\ h = todo[1] /\ Of(todo) = {h} \cup Of(Tail(todo))
  /\ KnowsPrefs(h) /\ KnowsRow(h)
  /\ \A d \in Of(Tail(todo)) : /\ Made(d) /\ ~d.served /\ ~d.ok
                               /\ d.op \in Single => d.op # h.op
                               /\ KnowsPrefs(d) /\ KnowsRow(d)
  /\ h.op \in Single => h.op \in pending
  /\ Queue(Tail(todo), pending \ {h.op})

LEMMA HeadKnown ==
  ASSUME ProfileInv, todo # <<>>
  PROVE  Headed(Head(todo))
<1>1. Queue(todo, pending)
  BY DEF ProfileInv
<1>2. PICK h : h = Head(todo)
  OBVIOUS
<1>3. /\ Queue(Tail(todo), pending \ {h.op})
      /\ Made(h) /\ h = todo[1]
      /\ Of(todo) = {h} \cup Of(Tail(todo))
      /\ \A d \in Of(Tail(todo)) : Made(d) /\ ~d.served /\ (d.op \in Single => d.op # h.op)
      /\ h.op \in Single => h.op \in pending
  BY <1>1, <1>2, QueueTail
<1>4. \A d \in Of(todo) : KnowsPrefs(d) /\ KnowsRow(d)
  BY DEF ProfileInv
<1>5. \A d \in Of(Tail(todo)) : ~d.ok
  BY <1>3 DEF Made
<1> QED
  BY <1>2, <1>3, <1>4, <1>5 DEF Headed

LEMMA FailStep == ProfileInv /\ CallFails => ProfileInv'
<1> SUFFICES ASSUME ProfileInv, CallFails PROVE ProfileInv'
  OBVIOUS
<1>1. PICK h : h = Head(todo)
  OBVIOUS
<1>2. PICK c : c = [h EXCEPT !.served = TRUE, !.ok = FALSE]
  OBVIOUS
<1>3. /\ todo # <<>> /\ (h.served => h.ok)
      /\ todo' = [todo EXCEPT ![1].served = TRUE, ![1].ok = FALSE]
      /\ doubt' = doubt \cup (IF h.served THEN DOMAIN h.sent \cap Prefs ELSE {})
      /\ disturbed' = (disturbed \/ h.served)
      /\ UNCHANGED <<row, prefRow, props, card, previous, pending, left>>
  BY <1>1 DEF CallFails, rows, shown
<1>4. Headed(h)
  BY <1>1, <1>3, HeadKnown
<1>5. h \in ProfileCall /\ Made(h) /\ Queue(todo, pending)
  BY <1>4 DEF Headed, Made, ProfileInv
<1>6. /\ c \in ProfileCall /\ c.op = h.op /\ c.sent = h.sent /\ c.draft = h.draft /\ c.row = h.row
      /\ c.since = h.since /\ c.served = TRUE /\ c.ok = FALSE
  BY <1>2, <1>5 DEF ProfileCall
<1>7. todo' = [todo EXCEPT ![1] = c]
  <2>1. todo \in Seq(ProfileCall) /\ Len(todo) \in Nat \ {0} /\ DOMAIN todo = 1..Len(todo) /\ 1 \in DOMAIN todo
    BY <1>3, <1>5, LenProperties, EmptySeq DEF Queue
  <2>2. h = todo[1]
    BY <1>4 DEF Headed
  <2> QED
    BY <1>2, <1>3, <2>1, <2>2
<1>8. Made(c)
  BY <1>5, <1>6 DEF Made
<1>9. Queue(todo', pending') /\ Of(todo') = {c} \cup Of(Tail(todo))
  <2>1. c.op = todo[1].op /\ pending' = pending
    BY <1>3, <1>4, <1>6 DEF Headed
  <2> QED
    BY <1>3, <1>5, <1>7, <1>8, <2>1, QueueHead
<1>10. ProfileTyped'
  <2>1. disturbed' \in BOOLEAN
    BY <1>3, <1>5 DEF ProfileInv, ProfileTyped, ProfileCall
  <2> QED
    BY <1>3, <2>1 DEF ProfileInv, ProfileTyped
<1>11. CardShowsStored'
  BY <1>3 DEF ProfileInv, CardShowsStored
<1>12. PropsShown'
  <2> SUFFICES ASSUME ~disturbed', ~left', \A d \in Of(todo') : ~Behind(d) PROVE props' = row'
    BY DEF PropsShown, Behind
  <2>1. ~disturbed /\ ~h.served /\ ~h.ok
    BY <1>3, <1>5 DEF Made
  <2>2. ~Behind(h) /\ \A d \in Of(Tail(todo)) : ~Behind(d)
    BY <1>6, <1>9, <2>1 DEF Behind
  <2> QED
    BY <1>3, <1>4, <2>1, <2>2 DEF Headed, ProfileInv, PropsShown
<1>13. KnowsPrefs(c)'
  <2>1. ASSUME h.op = "prefs", NEW p \in Prefs \ doubt' PROVE previous[p] = prefRow[p]
    <3>1. CASE h.served
      <4>1. h.ok /\ p \notin DOMAIN h.sent /\ p \notin doubt
        BY <1>3, <2>1, <3>1
      <4> QED
        BY <1>4, <2>1, <4>1 DEF Headed, KnowsPrefs
    <3>2. CASE ~h.served
      <4>1. ~h.ok /\ p \notin doubt
        BY <1>3, <1>5, <2>1, <3>2 DEF Made
      <4> QED
        BY <1>4, <2>1, <4>1 DEF Headed, KnowsPrefs
    <3> QED
      BY <3>1, <3>2
  <2> QED
    BY <1>3, <1>6, <2>1 DEF KnowsPrefs
<1>14. KnowsRow(c)'
  BY <1>6 DEF KnowsRow
<1>15. ASSUME NEW d \in Of(Tail(todo)) PROVE KnowsPrefs(d)' /\ KnowsRow(d)'
  <2>1. KnowsPrefs(d) /\ KnowsRow(d)
    BY <1>4, <1>15 DEF Headed
  <2>2. KnowsPrefs(d)'
    BY <1>3, <2>1 DEF KnowsPrefs
  <2>3. KnowsRow(d)'
    BY <1>3, <2>1 DEF KnowsRow
  <2> QED
    BY <2>2, <2>3
<1> QED
  BY <1>9, <1>10, <1>11, <1>12, <1>13, <1>14, <1>15 DEF ProfileInv

\* Another device writes: the row is then no longer what a page knows, and a
\* preference is in doubt until the next answer.
LEMMA ElsewhereStep == ProfileInv /\ Elsewhere => ProfileInv'
<1> SUFFICES ASSUME ProfileInv, Elsewhere PROVE ProfileInv'
  OBVIOUS
<1>1. disturbed' = TRUE /\ UNCHANGED <<props, card, previous, pending, left>>
  BY DEF Elsewhere, shown
<1>2. PropsShown' /\ \A d : KnowsRow(d)'
  BY <1>1 DEF PropsShown, KnowsRow
<1>3. CASE /\ \E f \in Fields : row' = [row EXCEPT ![f] = 1 - @]
           /\ UNCHANGED <<prefRow, todo, doubt>>
  <2>1. PICK f \in Fields : row' = [row EXCEPT ![f] = 1 - @]
    BY <1>3
  <2>2. row \in [Fields -> Values] /\ 1 - row[f] \in Values
    BY DEF ProfileInv, ProfileTyped, Values
  <2>3. row' \in [Fields -> Values]
    BY <2>1, <2>2
  <2>4. ProfileTyped' /\ CardShowsStored'
    BY <1>1, <1>3, <2>3 DEF ProfileInv, ProfileTyped, CardShowsStored
  <2>5. Queue(todo', pending') /\ Of(todo') = Of(todo)
    BY <1>1, <1>3 DEF ProfileInv
  <2>6. ASSUME NEW d \in Of(todo) PROVE KnowsPrefs(d)'
    BY <1>1, <1>3, <2>6 DEF ProfileInv, KnowsPrefs
  <2> QED
    BY <1>2, <2>4, <2>5, <2>6 DEF ProfileInv
<1>4. ASSUME NEW p \in Prefs, prefRow' = [prefRow EXCEPT ![p] = 1 - @], doubt' = doubt \cup {p}, row' = row,
             todo' = IF todo # <<>> /\ Head(todo).served THEN [todo EXCEPT ![1].since = @ \cup {p}] ELSE todo
      PROVE  ProfileInv'
  <2>1. prefRow \in [Prefs -> Values] /\ 1 - prefRow[p] \in Values
    BY DEF ProfileInv, ProfileTyped, Values
  <2>2. prefRow' \in [Prefs -> Values] /\ \A q \in Prefs \ {p} : prefRow'[q] = prefRow[q]
    BY <1>4, <2>1
  <2>3. ProfileTyped' /\ CardShowsStored'
    BY <1>1, <1>4, <2>2 DEF ProfileInv, ProfileTyped, CardShowsStored
  <2>4. ASSUME NEW d, KnowsPrefs(d), ~d.ok PROVE KnowsPrefs(d)'
    BY <1>1, <1>4, <2>2, <2>4 DEF KnowsPrefs
  <2>5. CASE todo # <<>> /\ Head(todo).served
    <3>1. PICK h : h = Head(todo)
      OBVIOUS
    <3>2. PICK c : c = [h EXCEPT !.since = @ \cup {p}]
      OBVIOUS
    <3>3. Headed(h)
      BY <2>5, <3>1, HeadKnown
    <3>4. h \in ProfileCall /\ Made(h) /\ Queue(todo, pending) /\ h.served
      BY <2>5, <3>1, <3>3 DEF Headed, Made, ProfileInv
    <3>5. /\ c \in ProfileCall /\ c.op = h.op /\ c.sent = h.sent /\ c.draft = h.draft /\ c.row = h.row
          /\ c.since = h.since \cup {p} /\ c.served = h.served /\ c.ok = h.ok
      BY <3>2, <3>4 DEF ProfileCall
    <3>6. todo' = [todo EXCEPT ![1] = c]
      <4>1. todo \in Seq(ProfileCall) /\ Len(todo) \in Nat \ {0} /\ DOMAIN todo = 1..Len(todo) /\ 1 \in DOMAIN todo
        BY <2>5, <3>4, LenProperties, EmptySeq DEF Queue
      <4>2. h = todo[1]
        BY <3>3 DEF Headed
      <4> QED
        BY <1>4, <2>5, <3>2, <4>1, <4>2
    <3>7. Made(c)
      BY <3>4, <3>5 DEF Made
    <3>8. Queue(todo', pending') /\ Of(todo') = {c} \cup Of(Tail(todo))
      <4>1. c.op = todo[1].op /\ pending' = pending
        BY <1>1, <3>3, <3>5 DEF Headed
      <4> QED
        BY <2>5, <3>4, <3>6, <3>7, <4>1, QueueHead
    <3>9. KnowsPrefs(c)'
      <4>1. KnowsPrefs(h)
        BY <3>3 DEF Headed
      <4> QED
        BY <1>1, <1>4, <2>2, <3>5, <4>1 DEF KnowsPrefs
    <3>10. ASSUME NEW d \in Of(Tail(todo)) PROVE KnowsPrefs(d)'
      BY <2>4, <3>3, <3>10 DEF Headed
    <3> QED
      BY <1>2, <2>3, <3>8, <3>9, <3>10 DEF ProfileInv
  <2>6. CASE ~(todo # <<>> /\ Head(todo).served)
    <3>1. todo' = todo /\ Queue(todo', pending') /\ Of(todo') = Of(todo)
      BY <1>1, <1>4, <2>6 DEF ProfileInv
    <3>2. ASSUME NEW d \in Of(todo) PROVE ~d.ok /\ KnowsPrefs(d)
      <4>1. todo # <<>>
        BY <3>2, EmptySeq DEF Of
      <4>2. Headed(Head(todo)) /\ ~Head(todo).served
        BY <2>6, <4>1, HeadKnown
      <4> QED
        BY <3>2, <4>2 DEF Headed, Made
    <3> QED
      BY <1>2, <2>3, <2>4, <3>1, <3>2 DEF ProfileInv
  <2> QED
    BY <2>5, <2>6
<1> QED
  BY <1>3, <1>4 DEF Elsewhere

\* The answers.
LEMMA DialogAnswered == ProfileInv /\ AnswerDialog => ProfileInv'
<1> SUFFICES ASSUME ProfileInv, AnswerDialog PROVE ProfileInv'
  OBVIOUS
<1>1. PICK h : h = Head(todo)
  OBVIOUS
<1>2. /\ todo # <<>> /\ h.served /\ h.op \in {"edit", "email", "password"} /\ ~left
      /\ pending' = pending \ {h.op}
      /\ UNCHANGED <<row, prefRow, props, card, previous, left, doubt, disturbed>>
  BY <1>1 DEF AnswerDialog, Answered, rows
<1>3. Headed(h)
  BY <1>1, <1>2, HeadKnown
<1>4. ProfileTyped'
  BY <1>2 DEF ProfileInv, ProfileTyped
<1>5. CardShowsStored'
  BY <1>2 DEF ProfileInv, CardShowsStored
<1>6. ASSUME NEW d \in Of(Tail(todo)) PROVE KnowsPrefs(d)' /\ KnowsRow(d)'
  BY <1>2, <1>3, <1>6, KnownStays DEF Headed
<1>7. CASE todo' = Tail(todo) /\ (h.ok => h.op = "password")
  <2>1. Queue(todo', pending') /\ Of(todo') = Of(Tail(todo))
    BY <1>2, <1>3, <1>7 DEF Headed
  <2>2. PropsShown'
    <3>1. ~Behind(h)
      BY <1>2, <1>7 DEF Behind
    <3> QED
      BY <1>2, <1>3, <2>1, <3>1 DEF Headed, ProfileInv, PropsShown, Behind
  <2> QED
    BY <1>4, <1>5, <1>6, <2>1, <2>2 DEF ProfileInv
<1>8. CASE todo' = Append(Tail(todo), Action("refresh", Draft(NoPatch), NoPatch))
  <2>1. PICK c : c = Action("refresh", Draft(NoPatch), NoPatch)
    OBVIOUS
  <2>2. Made(c) /\ ~c.served /\ ~c.ok /\ c.op = "refresh"
    BY <2>1, ActionMade, Patches DEF Ops
  <2>3. Queue(Tail(todo), pending')
    BY <1>2, <1>3 DEF Headed
  <2>4. Queue(todo', pending' \cup {"refresh"}) /\ Of(todo') = Of(Tail(todo)) \cup {c}
    <3>1. c.op \notin Single
      BY <2>2 DEF Single
    <3>2. /\ Queue(Append(Tail(todo), c), pending' \cup {c.op})
          /\ Of(Append(Tail(todo), c)) = Of(Tail(todo)) \cup {c}
      BY <2>2, <2>3, <3>1, QueueAppend
    <3> QED
      BY <1>8, <2>1, <2>2, <3>2
  <2>5. Queue(todo', pending')
    BY <2>4 DEF Queue, Single
  <2>6. PropsShown'
    BY <2>2, <2>4 DEF PropsShown, Behind
  <2>7. KnowsPrefs(c)' /\ KnowsRow(c)'
    BY <2>2 DEF KnowsPrefs, KnowsRow
  <2> QED
    BY <1>4, <1>5, <1>6, <2>4, <2>5, <2>6, <2>7 DEF ProfileInv
<1> QED
  BY <1>1, <1>7, <1>8 DEF AnswerDialog

LEMMA PreferencesAnswered == ProfileInv /\ AnswerPreferences => ProfileInv'
<1> SUFFICES ASSUME ProfileInv, AnswerPreferences PROVE ProfileInv'
  OBVIOUS
<1>1. PICK h : h = Head(todo)
  OBVIOUS
<1>2. /\ todo # <<>> /\ h.served /\ h.op = "prefs" /\ ~left
      /\ todo' = Tail(todo) /\ pending' = pending \ {"prefs"}
      /\ IF h.ok THEN card' = h.row /\ doubt' = h.since ELSE card' = previous /\ doubt' = doubt
      /\ UNCHANGED <<row, prefRow, props, previous, left, disturbed>>
  BY <1>1 DEF AnswerPreferences, Answered, rows, RolledBack
<1>3. Headed(h)
  BY <1>1, <1>2, HeadKnown
<1>4. Made(h) /\ KnowsPrefs(h)
  BY <1>3 DEF Headed
<1>5. card' \in [Prefs -> Values]
  BY <1>2, <1>4 DEF Made, ProfileInv, ProfileTyped
<1>6. ProfileTyped'
  BY <1>2, <1>5 DEF ProfileInv, ProfileTyped
<1>7. CardShowsStored'
  BY <1>2, <1>4 DEF KnowsPrefs, CardShowsStored
<1>8. Queue(todo', pending') /\ Of(todo') = Of(Tail(todo))
  BY <1>2, <1>3 DEF Headed
<1>9. PropsShown'
  <2>1. ~Behind(h)
    BY <1>2 DEF Behind
  <2> QED
    BY <1>2, <1>3, <1>8, <2>1 DEF Headed, ProfileInv, PropsShown, Behind
<1>10. ASSUME NEW d \in Of(Tail(todo)) PROVE KnowsPrefs(d)' /\ KnowsRow(d)'
  <2>1. d.op # "prefs" /\ KnowsRow(d)
    BY <1>2, <1>3, <1>10 DEF Headed, Single
  <2> QED
    BY <1>2, <2>1 DEF KnowsPrefs, KnowsRow
<1> QED
  BY <1>6, <1>7, <1>8, <1>9, <1>10 DEF ProfileInv

LEMMA EndAnswered ==
  ASSUME ProfileInv, AnswerEnd \/ AnswerRefresh
  PROVE  ProfileInv'
<1>1. PICK h : h = Head(todo)
  OBVIOUS
<1>2. /\ todo # <<>> /\ h.served /\ h.op \in {"signOut", "delete", "refresh"} /\ ~left
      /\ todo' = Tail(todo) /\ pending \ {h.op} \subseteq pending' /\ ("prefs" \notin pending' => "prefs" \notin pending)
      /\ IF h.op = "refresh" /\ h.ok THEN props' = h.row /\ left' = left ELSE props' = props
      /\ h.op = "refresh" /\ ~h.ok => left'
      /\ UNCHANGED <<row, prefRow, card, previous, doubt, disturbed>>
  BY <1>1 DEF AnswerEnd, AnswerRefresh, Answered, rows
<1>3. Headed(h)
  BY <1>1, <1>2, HeadKnown
<1>4. Made(h) /\ KnowsRow(h)
  BY <1>3 DEF Headed
<1>5. ProfileTyped'
  BY <1>2, <1>4 DEF Made, ProfileInv, ProfileTyped
<1>6. CardShowsStored'
  BY <1>2 DEF ProfileInv, CardShowsStored
<1>7. Queue(todo', pending') /\ Of(todo') = Of(Tail(todo))
  BY <1>2, <1>3, QueueMore DEF Headed
<1>8. PropsShown'
  <2> SUFFICES ASSUME ~disturbed', ~left', \A d \in Of(todo') : ~Behind(d) PROVE props' = row'
    BY DEF PropsShown, Behind
  <2>1. CASE h.op = "refresh"
    BY <1>2, <1>4, <2>1 DEF KnowsRow
  <2>2. CASE h.op # "refresh"
    <3>1. ~Behind(h)
      BY <1>2, <2>2 DEF Behind
    <3> QED
      BY <1>2, <1>3, <1>7, <2>2, <3>1 DEF Headed, ProfileInv, PropsShown
  <2> QED
    BY <2>1, <2>2
<1>9. ASSUME NEW d \in Of(Tail(todo)) PROVE KnowsPrefs(d)' /\ KnowsRow(d)'
  BY <1>2, <1>3, <1>9, KnownStays DEF Headed
<1> QED
  BY <1>5, <1>6, <1>7, <1>8, <1>9 DEF ProfileInv

LEMMA InitProfileInv == Init => ProfileInv
<1> SUFFICES ASSUME Init PROVE ProfileInv
  OBVIOUS
<1> USE DEF Init, InitProfile
<1>1. 0 \in Values /\ 1 \in Values
  BY DEF Values
<1>2. row \in [Fields -> Values] /\ Fallback \in [Fields -> Values]
      /\ [Fallback EXCEPT !["displayName"] = row["displayName"]] \in [Fields -> Values]
  BY <1>1 DEF Fallback, Fields
<1>3. prefRow \in [Prefs -> Values] /\ card \in [Prefs -> Values]
  BY <1>1
<1>4. ProfileTyped
  BY <1>2, <1>3 DEF ProfileTyped
<1>5. todo = <<>> /\ Len(todo) = 0 /\ Of(todo) = {}
  BY EmptySeq DEF Of
<1>6. Queue(todo, pending)
  BY <1>5 DEF Queue
<1>7. CardShowsStored
  BY DEF CardShowsStored
<1>8. PropsShown
  BY DEF PropsShown
<1> QED
  BY <1>4, <1>5, <1>6, <1>7, <1>8 DEF ProfileInv

LEMMA ProfileSteps == ProfileInv /\ [Next]_vars => ProfileInv'
<1> SUFFICES ASSUME ProfileInv, [Next]_vars PROVE ProfileInv'
  OBVIOUS
<1>1. CASE UNCHANGED profileVars
  BY <1>1, QuietPage DEF profileVars, rows, shown
<1>2. CASE NextProfile
  <2>1. ASSUME NEW d \in Dialogs, OpenDialog(d) \/ CloseDialog(d) PROVE ProfileInv'
    BY <2>1, QuietPage DEF OpenDialog, CloseDialog, rows
  <2> QED
    BY <1>2, <2>1, EditStep, DialogStep, SignOutStep, SaveStep, ServeSteps, FailStep, ElsewhereStep,
       DialogAnswered, PreferencesAnswered, EndAnswered
       DEF NextProfile, SubmitEmail, SubmitPassword, ConfirmDelete
<1> QED
  BY <1>1, <1>2 DEF Next, vars

\* Whatever fails, closes or is written by another device: between saves the
\* card shows the stored preferences, unless it cannot know them
\* (PracticePreferencesCard.save and its rollback).
THEOREM CardStaysTrue == Spec => []CardShowsStored
<1>1. ProfileInv => CardShowsStored
  BY DEF ProfileInv
<1> QED
  BY <1>1, InitProfileInv, ProfileSteps, PTL DEF Spec

\* Only what was changed is sent, yet a dialog that closes as saved has stored
\* all it showed, if its draft was made on a current page and nobody else writes
\* (EditProfileButton.onSubmit).
THEOREM SavedIsStored == Spec => SavedMeansStored
<1> DEFINE Kept == saved' # saved /\ saved'.current /\ ~disturbed =>
                     \A f \in DOMAIN saved'.values : row[f] = saved'.values[f]
<1>1. ProfileInv /\ [Next]_vars => [Kept]_profileVars
  <2> SUFFICES ASSUME ProfileInv, NextProfile, saved' # saved, saved'.current, ~disturbed
               PROVE  \A f \in DOMAIN saved'.values : row[f] = saved'.values[f]
    BY DEF Next, vars
  <2>1. CASE saved' = Draft(NoPatch)
    BY <2>1, Patches DEF Draft
  <2>2. ASSUME NEW draft \in [Fields -> Values], SubmitProfile(draft) PROVE saved' = Draft(draft) /\ row = draft
    <3>1. /\ {f \in DOMAIN draft : draft[f] # props[f]} = {} /\ CanSubmit("edit") /\ saved' = Draft(draft)
      BY <2>2 DEF SubmitProfile, Submit
    <3>2. props = row
      BY <3>1, CurrentPage DEF CanSubmit, Draft
    <3>3. \A f \in Fields : draft[f] = row[f]
      BY <3>1, <3>2
    <3> QED
      BY <3>1, <3>3 DEF ProfileInv, ProfileTyped
  <2>3. CASE AnswerDialog
    <3>1. PICK h : h = Head(todo)
      OBVIOUS
    <3>2. todo # <<>> /\ h.op \in {"edit", "email", "password"} /\ h.ok /\ saved' = h.draft
      BY <2>3, <3>1 DEF AnswerDialog, Answered
    <3>3. Headed(h)
      BY <3>1, <3>2, HeadKnown
    <3> QED
      BY <3>2, <3>3 DEF Headed, Made, KnowsRow
  <2>4. CASE \E d \in Dialogs : OpenDialog(d)
    BY <2>1, <2>4 DEF OpenDialog
  <2>5. CASE \E draft \in [Fields -> Values] : SubmitProfile(draft)
    BY <2>2, <2>5 DEF Draft
  <2> QED
    BY <2>3, <2>4, <2>5 DEF NextProfile, CloseDialog, SubmitEmail, SubmitPassword, ConfirmDelete, Submit,
       SignOut, SavePreference, ServeProfile, ServePassword, ServePreferences, ServeDelete, ServeRefresh,
       ServeSignOut, Refuse, Serve, CallFails, Elsewhere, AnswerPreferences, AnswerEnd, AnswerRefresh
<1> QED
  BY <1>1, InitProfileInv, ProfileSteps, PTL DEF Spec, SavedMeansStored

-----------------------------------------------------------------------------
(* The history of the tab and its toasts.                                   *)

Place == [page : {"form", "home", "result"}, param : Completed \cup {"welcome", "none"}, arrival : Nat]
Navigation == [how : {"push", "replace", "strip"}, to : Place]

ToastsTyped ==
  /\ hist \in Seq(Place) /\ at \in 1..Len(hist)
  /\ going = <<>> \/ \E way \in Navigation : going = <<way>>
  /\ visible \in BOOLEAN
  /\ arrivals \in Seq(Completed \cup {"welcome"}) /\ stripped \subseteq 0..Len(arrivals)

\* An address that asks for a toast was asked for, and is not stripped yet.
Traced(e) == Asks(e) => /\ e.arrival \in 1..Len(arrivals) /\ arrivals[e.arrival] = e.param
                        /\ e.arrival \notin stripped

\* No arrival is twice in the history; the form is alone in it, and gone once
\* it is left.
HistTraced ==
  /\ \A i \in 1..Len(hist) : Traced(hist[i]) /\ (hist[i].page = "form" => Len(hist) = 1 /\ ~Asks(hist[i]))
  /\ \A i, j \in 1..Len(hist) :
       Asks(hist[i]) /\ Asks(hist[j]) /\ hist[i].arrival = hist[j].arrival => i = j

\* Nor is the arrival under way in it; what is stripped is the entry shown.
WayTraced(way) ==
  /\ way.to.page # "form" /\ Traced(way.to)
  /\ Asks(way.to) => \A i \in 1..Len(hist) : Asks(hist[i]) => hist[i].arrival # way.to.arrival
  /\ way.how = "strip" => ~Asks(way.to) /\ Asks(Here)
  /\ OnForm => way.how = "replace"

ToastsInv ==
  /\ ToastsTyped /\ HistTraced /\ ToastOnce
  /\ going # <<>> => WayTraced(Head(going))

LEMMA InitToastsInv == InitToasts => ToastsInv
<1> SUFFICES ASSUME InitToasts PROVE ToastsInv
  OBVIOUS
<1> USE DEF InitToasts
<1>1. Plain("form") \in Place /\ ~Asks(Plain("form")) /\ Plain("form").page = "form"
  BY DEF Plain, Place, Asks
<1>2. hist \in Seq(Place) /\ Len(hist) = 1 /\ hist[1] = Plain("form") /\ at = 1 /\ Len(arrivals) = 0
  BY <1>1
<1>3. ToastsTyped
  <2>1. going = <<>> /\ visible \in BOOLEAN /\ stripped \subseteq 0..Len(arrivals)
    OBVIOUS
  <2>2. arrivals \in Seq(Completed \cup {"welcome"})
    BY EmptySeq
  <2>3. at \in 1..Len(hist)
    BY <1>2
  <2> QED
    BY <1>2, <2>1, <2>2, <2>3 DEF ToastsTyped
<1>4. HistTraced
  BY <1>1, <1>2 DEF HistTraced, Traced
<1>5. ToastOnce
  BY <1>1, <1>2 DEF ToastOnce, Here
<1> QED
  BY <1>3, <1>4, <1>5 DEF ToastsInv

\* What a navigation makes of the history.
LEMMA LandedHist ==
  ASSUME ToastsInv, Land, NEW way, going = <<way>>
  PROVE  /\ way \in Navigation /\ WayTraced(way) /\ going' = <<>> /\ arrivals' = arrivals
         /\ hist' \in Seq(Place) /\ at' \in 1..Len(hist') /\ hist'[at'] = way.to
         /\ \A i \in 1..Len(hist') \ {at'} :
              /\ i \in 1..Len(hist) /\ hist'[i] = hist[i] /\ hist[i].page # "form"
              /\ way.how # "push" => i # at
         /\ visible' = Synced(way.to)
         /\ stripped' = IF way.how = "strip" THEN stripped \cup {Here.arrival} ELSE stripped
<1>1. PICK n \in Navigation : going = <<n>>
  BY DEF Land, ToastsInv, ToastsTyped
<1>2. way \in Navigation /\ Head(going) = way /\ WayTraced(way) /\ way.to \in Place
  BY <1>1 DEF ToastsInv, Navigation
<1>3. /\ hist' = Landed(way.how, way.to)
      /\ at' = IF Len(hist') = Len(hist) /\ way.how # "push" THEN at ELSE Len(hist')
      /\ visible' = Synced(way.to)
      /\ stripped' = IF way.how = "strip" THEN stripped \cup {Here.arrival} ELSE stripped
      /\ going' = <<>> /\ arrivals' = arrivals
  BY <1>2 DEF Land
<1>4. hist \in Seq(Place) /\ at \in 1..Len(hist) /\ Len(hist) \in Nat
      /\ hist \in [1..Len(hist) -> Place]
  BY LenProperties DEF ToastsInv, ToastsTyped
<1>5. CASE way.how = "push"
  <2> DEFINE kept == SubSeq(hist, 1, at)
  <2>1. kept \in Seq(Place) /\ Len(kept) = at /\ \A i \in 1..at : kept[i] = hist[i]
    BY <1>4, SubSeqProperties
  <2> HIDE DEF kept
  <2>2. hist' = Append(kept, way.to)
    BY <1>3, <1>5 DEF Landed, kept
  <2>3. hist' \in Seq(Place) /\ Len(hist') = at + 1 /\ hist'[at + 1] = way.to
        /\ \A i \in 1..at : hist'[i] = hist[i]
    BY <1>2, <2>1, <2>2, AppendProperties
  <2>4. at' = at + 1 /\ at' \in 1..Len(hist')
    BY <1>3, <1>4, <1>5, <2>3
  <2>5. \A i \in 1..Len(hist') \ {at'} : i \in 1..at /\ i \in 1..Len(hist)
    BY <1>4, <2>3, <2>4
  <2>6. \A i \in 1..Len(hist) : hist[i].page # "form"
    BY <1>2, <1>4, <1>5 DEF WayTraced, OnForm, Here, ToastsInv, HistTraced
  <2> QED
    BY <1>2, <1>3, <1>5, <2>3, <2>4, <2>5, <2>6
<1>6. CASE way.how # "push"
  <2>1. hist' = [hist EXCEPT ![at] = way.to]
    BY <1>3, <1>6 DEF Landed
  <2>2. hist' \in [1..Len(hist) -> Place] /\ hist'[at] = way.to
        /\ \A i \in 1..Len(hist) \ {at} : hist'[i] = hist[i]
    BY <1>2, <1>4, <2>1
  <2>3. hist' \in Seq(Place)
    BY <1>4, <2>2, IsASeq
  <2>4. Len(hist') = Len(hist)
    BY <1>4, <2>2, <2>3, LenProperties
  <2>5. at' = at
    BY <1>3, <1>6, <2>4
  <2>6. \A i \in 1..Len(hist) \ {at} : hist[i].page # "form"
    BY <1>4 DEF ToastsInv, HistTraced
  <2> QED
    BY <1>2, <1>3, <1>4, <1>6, <2>2, <2>3, <2>4, <2>5, <2>6
<1> QED
  BY <1>5, <1>6


LEMMA LandStep == ToastsInv /\ Land => ToastsInv' /\ ~OnForm'
<1> SUFFICES ASSUME ToastsInv, Land PROVE ToastsInv' /\ ~OnForm'
  OBVIOUS
<1>1. PICK way \in Navigation : going = <<way>>
  BY DEF Land, ToastsInv, ToastsTyped
<1>2. PICK n : n = Len(hist')
  OBVIOUS
<1>3. PICK p : p = at'
  OBVIOUS
<1>4. /\ WayTraced(way) /\ going' = <<>> /\ arrivals' = arrivals /\ way.to \in Place
      /\ hist' \in Seq(Place) /\ p \in 1..n /\ hist'[p] = way.to
      /\ \A i \in 1..n \ {p} :
           /\ i \in 1..Len(hist) /\ hist'[i] = hist[i] /\ hist[i].page # "form"
           /\ way.how # "push" => i # at
      /\ visible' = Synced(way.to)
      /\ stripped' = IF way.how = "strip" THEN stripped \cup {Here.arrival} ELSE stripped
  BY <1>1, <1>2, <1>3, LandedHist DEF Navigation
<1>5. Here = hist[at] /\ at \in 1..Len(hist) /\ Here \in Place /\ (Asks(Here) => Traced(Here))
  BY DEF ToastsInv, ToastsTyped, HistTraced, Here
<1>6. visible => Asks(Here)
  BY DEF ToastsInv, ToastOnce
<1>7. stripped' \subseteq 0..Len(arrivals) /\ visible' \in BOOLEAN
  <2>1. Asks(Here) => Here.arrival \in 0..Len(arrivals)
    BY <1>5 DEF Traced
  <2>2. stripped \subseteq 0..Len(arrivals) /\ visible \in BOOLEAN
    BY DEF ToastsInv, ToastsTyped
  <2> QED
    BY <1>4, <2>1, <2>2 DEF WayTraced, Synced, Asks
<1>8. ToastsTyped'
  BY <1>2, <1>3, <1>4, <1>7 DEF ToastsInv, ToastsTyped
<1>9. Traced(way.to)'
  BY <1>4 DEF WayTraced, Traced, Asks
<1>10. ASSUME NEW i \in 1..n \ {p} PROVE Traced(hist[i])' /\ hist'[i].page # "form"
  <2>1. i \in 1..Len(hist) /\ hist'[i] = hist[i] /\ hist[i].page # "form" /\ Traced(hist[i])
    BY <1>4, <1>10 DEF ToastsInv, HistTraced
  <2>2. ASSUME way.how = "strip", Asks(hist[i]) PROVE hist[i].arrival # Here.arrival
    <3>1. i # at /\ Asks(hist[at]) /\ hist[at] = Here
      BY <1>4, <1>5, <1>10, <2>2 DEF WayTraced
    <3> QED
      BY <1>5, <2>1, <2>2, <3>1 DEF ToastsInv, HistTraced
  <2>3. Asks(hist[i]) => hist[i].arrival \notin stripped'
    BY <1>4, <2>1, <2>2 DEF Traced
  <2> QED
    BY <1>4, <2>1, <2>3 DEF Traced, Asks
<1>11. ASSUME NEW i \in 1..n \ {p}, Asks(hist'[i]), Asks(way.to)
       PROVE  hist'[i].arrival # way.to.arrival
  BY <1>4, <1>11 DEF WayTraced
<1>12. ASSUME NEW i \in 1..n, NEW j \in 1..n,
              Asks(hist'[i]), Asks(hist'[j]), hist'[i].arrival = hist'[j].arrival
       PROVE  i = j
  <2>1. CASE i = p \/ j = p
    BY <1>4, <1>11, <1>12, <2>1
  <2>2. CASE i # p /\ j # p
    BY <1>4, <1>12, <2>2 DEF ToastsInv, HistTraced
  <2> QED
    BY <2>1, <2>2
<1>13. HistTraced'
  <2>1. \A i \in 1..n : Traced(hist[i])' /\ hist'[i].page # "form"
    BY <1>4, <1>9, <1>10 DEF WayTraced
  <2>2. \A i, j \in 1..n : Asks(hist'[i]) /\ Asks(hist'[j]) /\ hist'[i].arrival = hist'[j].arrival => i = j
    BY <1>12
  <2> QED
    BY <1>2, <2>1, <2>2 DEF HistTraced, Asks
<1>14. Here' = way.to
  BY <1>3, <1>4 DEF Here
<1>15. ASSUME visible' PROVE Asks(way.to) /\ way.to.arrival \notin stripped'
  <2>1. Asks(way.to)
    BY <1>4, <1>6, <1>15 DEF Synced, Asks
  <2> QED
    BY <1>4, <1>9, <2>1 DEF Traced, Asks
<1>16. ASSUME Asks(way.to), ~visible'
       PROVE  \E i, j \in DOMAIN arrivals : i # j /\ arrivals[i] = way.to.param /\ arrivals[j] = way.to.param
  <2>1. way.to.param = Here.param /\ Asks(Here)
    BY <1>4, <1>16 DEF Synced, Asks
  <2>2. Here.arrival # way.to.arrival
    BY <1>4, <1>5, <1>16, <2>1 DEF WayTraced
  <2>3. /\ Here.arrival \in 1..Len(arrivals) /\ arrivals[Here.arrival] = Here.param
        /\ way.to.arrival \in 1..Len(arrivals) /\ arrivals[way.to.arrival] = way.to.param
    BY <1>4, <1>5, <1>16, <2>1 DEF WayTraced, Traced
  <2>4. DOMAIN arrivals = 1..Len(arrivals)
    BY LenProperties DEF ToastsInv, ToastsTyped
  <2> QED
    BY <2>1, <2>2, <2>3, <2>4
<1>17. ToastOnce'
  BY <1>4, <1>14, <1>15, <1>16 DEF ToastOnce, Asks
<1> QED
  BY <1>4, <1>8, <1>13, <1>14, <1>17 DEF ToastsInv, OnForm, WayTraced

\* A navigation that sets out, from an address that stays as it is.
LEMMA SetOut ==
  ASSUME ToastsInv, NEW way \in Navigation, going' = <<way>>, hist' = hist, at' = at, stripped' = stripped,
         visible' \in BOOLEAN, visible' => visible,
         way.to.page # "form", OnForm => way.how = "replace",
         \/ arrivals' = arrivals /\ ~Asks(way.to) /\ (way.how = "strip" => Asks(Here))
         \/ /\ way.how # "strip" /\ way.to.param \in Completed \cup {"welcome"}
            /\ way.to.arrival = Len(arrivals) + 1 /\ arrivals' = Append(arrivals, way.to.param)
  PROVE  ToastsInv' /\ (OnForm' <=> OnForm)
<1>1. /\ arrivals \in Seq(Completed \cup {"welcome"}) /\ Len(arrivals) \in Nat
      /\ stripped \subseteq 0..Len(arrivals) /\ hist \in Seq(Place) /\ at \in 1..Len(hist)
  BY LenProperties DEF ToastsInv, ToastsTyped
<1>2. /\ arrivals' \in Seq(Completed \cup {"welcome"}) /\ Len(arrivals) \leq Len(arrivals') /\ Len(arrivals') \in Nat
      /\ \A i \in 1..Len(arrivals) : arrivals'[i] = arrivals[i]
  <2>1. CASE arrivals' = arrivals
    BY <1>1, <2>1
  <2>2. CASE arrivals' = Append(arrivals, way.to.param) /\ way.to.param \in Completed \cup {"welcome"}
    BY <1>1, <2>2, AppendProperties
  <2> QED
    BY <2>1, <2>2
<1>3. ToastsTyped'
  <2>1. stripped' \subseteq 0..Len(arrivals')
    BY <1>1, <1>2
  <2>2. hist' \in Seq(Place) /\ at' \in 1..Len(hist') /\ going' = <<way>> /\ visible' \in BOOLEAN
    BY <1>1
  <2> QED
    BY <1>2, <2>1, <2>2 DEF ToastsTyped
<1>4. ASSUME NEW e, Traced(e) PROVE Traced(e)'
  <2>1. Asks(e) => e.arrival \in 1..Len(arrivals) /\ e.arrival \in 1..Len(arrivals')
    BY <1>1, <1>2, <1>4 DEF Traced
  <2> QED
    BY <1>2, <1>4, <2>1 DEF Traced, Asks
<1>5. HistTraced'
  BY <1>4 DEF ToastsInv, HistTraced, Asks
<1>6. Traced(way.to)'
  <2>1. CASE ~Asks(way.to)
    BY <2>1 DEF Traced, Asks
  <2>2. CASE /\ way.to.param \in Completed \cup {"welcome"}
             /\ way.to.arrival = Len(arrivals) + 1 /\ arrivals' = Append(arrivals, way.to.param)
    <3>1. Len(arrivals') = Len(arrivals) + 1 /\ arrivals'[Len(arrivals) + 1] = way.to.param
      BY <1>1, <2>2, AppendProperties
    <3>2. way.to.arrival \in 1..Len(arrivals') /\ way.to.arrival \notin stripped
      BY <1>1, <2>2, <3>1
    <3> QED
      BY <2>2, <3>1, <3>2 DEF Traced
  <2> QED
    BY <2>1, <2>2
<1>7. ASSUME NEW i \in 1..Len(hist), Asks(way.to), Asks(hist[i]) PROVE hist[i].arrival # way.to.arrival
  <2>1. hist[i].arrival \in 1..Len(arrivals)
    BY <1>7 DEF ToastsInv, HistTraced, Traced
  <2> QED
    BY <1>1, <1>7, <2>1
<1>8. Here' = Here
  BY DEF Here
<1>9. WayTraced(way)'
  <2>1. Asks(way.to) => \A i \in 1..Len(hist') : Asks(hist'[i]) => hist'[i].arrival # way.to.arrival
    BY <1>7
  <2>2. way.how = "strip" => ~Asks(way.to) /\ Asks(Here)
    OBVIOUS
  <2> QED
    BY <1>6, <1>8, <2>1, <2>2 DEF WayTraced, OnForm, Asks
<1>10. ToastOnce'
  BY <1>8 DEF ToastsInv, ToastOnce, Asks
<1>11. Head(going') = way
  OBVIOUS
<1> QED
  BY <1>3, <1>5, <1>8, <1>9, <1>10, <1>11 DEF ToastsInv, OnForm

\* The entry shown changes without a navigation: back, forward or a reload.
LEMMA Shown ==
  ASSUME ToastsInv, InApp, NEW to \in 1..Len(hist), at' = to, going' = <<>>,
         UNCHANGED <<hist, arrivals, stripped>>,
         (visible' = Synced(hist[to]) /\ to # at) \/ visible' = Asks(hist[to])
  PROVE  ToastsInv' /\ ~OnForm'
<1>1. /\ hist \in Seq(Place) /\ at \in 1..Len(hist) /\ Here \in Place /\ hist[to] \in Place
      /\ Here = hist[at] /\ Here' = hist[to] /\ DOMAIN arrivals = 1..Len(arrivals)
  BY LenProperties, ElementOfSeq DEF ToastsInv, ToastsTyped, Here
<1>2. Traced(hist[to]) /\ Traced(Here) /\ (visible => Asks(Here))
  BY <1>1 DEF ToastsInv, HistTraced, ToastOnce
<1>3. ToastsTyped'
  BY <1>1 DEF ToastsInv, ToastsTyped, Synced, Asks
<1>4. HistTraced'
  BY DEF ToastsInv, HistTraced, Traced, Asks
<1>5. visible' => Asks(hist[to])
  BY <1>2 DEF Synced, Asks
<1>6. ASSUME Asks(hist[to]), ~visible'
      PROVE  \E i, j \in DOMAIN arrivals : i # j /\ arrivals[i] = hist[to].param /\ arrivals[j] = hist[to].param
  <2>1. to # at /\ hist[to].param = Here.param /\ Asks(Here)
    BY <1>6 DEF Synced, Asks
  <2>2. Here.arrival # hist[to].arrival
    BY <1>1, <1>6, <2>1 DEF ToastsInv, HistTraced
  <2> QED
    BY <1>1, <1>2, <1>6, <2>1, <2>2 DEF Traced
<1>7. ToastOnce'
  BY <1>1, <1>2, <1>5, <1>6 DEF ToastOnce, Traced, Asks
<1>8. hist[to].page # "form"
  <2>1. CASE to = at
    BY <1>1, <2>1 DEF InApp
  <2>2. CASE to # at
    <3>1. Len(hist) # 1
      BY <1>1, <2>2
    <3> QED
      BY <3>1 DEF ToastsInv, HistTraced
  <2> QED
    BY <2>1, <2>2
<1> QED
  BY <1>1, <1>3, <1>4, <1>7, <1>8 DEF ToastsInv, OnForm

LEMMA ToastsSteps == ToastsInv /\ NextToasts => ToastsInv' /\ ~OnForm'
<1> SUFFICES ASSUME ToastsInv, NextToasts PROVE ToastsInv' /\ ~OnForm'
  OBVIOUS
<1>1. /\ hist \in Seq(Place) /\ at \in 1..Len(hist) /\ Here \in Place /\ Here = hist[at]
      /\ DOMAIN hist = 1..Len(hist) /\ visible \in BOOLEAN /\ Len(arrivals) \in Nat
  BY LenProperties, ElementOfSeq DEF ToastsInv, ToastsTyped, Here
<1>2. CASE Land
  BY <1>2, LandStep
<1>3. CASE Dismiss
  <2>1. PICK way : way = [how |-> "strip", to |-> [Here EXCEPT !.param = "none", !.arrival = 0]]
    OBVIOUS
  <2>2. Asks(Here) /\ Here.page # "form"
    BY <1>1, <1>3 DEF Dismiss, ToastsInv, ToastOnce, HistTraced
  <2>3. /\ way.to \in Place /\ way \in Navigation /\ way.how = "strip"
        /\ way.to.param = "none" /\ way.to.page = Here.page
    BY <1>1, <2>1 DEF Place, Navigation
  <2>4. /\ going' = <<way>> /\ ~visible' /\ visible' \in BOOLEAN
        /\ UNCHANGED <<hist, at, arrivals, stripped>>
    BY <1>3, <2>1 DEF Dismiss, Go
  <2>5. ToastsInv' /\ (OnForm' <=> OnForm)
    BY <2>2, <2>3, <2>4, SetOut DEF OnForm, Asks
  <2> QED
    BY <2>2, <2>5 DEF OnForm
<1>4. CASE Reload
  BY <1>1, <1>4, Shown DEF Reload
<1>5. ASSUME NEW surah \in Completed, Finish(surah) PROVE ToastsInv' /\ ~OnForm'
  <2>1. PICK way : way = [how |-> "push", to |-> Arrival(surah)]
    OBVIOUS
  <2>2. /\ way.to \in Place /\ way \in Navigation /\ way.how = "push" /\ way.to.page = "home"
        /\ way.to.param = surah /\ way.to.arrival = Len(arrivals) + 1
    BY <1>1, <2>1 DEF Place, Navigation, Arrival
  <2>3. /\ going' = <<way>> /\ arrivals' = Append(arrivals, surah) /\ Here.page = "result"
        /\ UNCHANGED <<hist, at, visible, stripped>>
    BY <1>5, <2>1 DEF Finish, Go
  <2>4. ToastsInv' /\ (OnForm' <=> OnForm)
    BY <1>1, <2>2, <2>3, SetOut DEF OnForm
  <2> QED
    BY <2>3, <2>4 DEF OnForm
<1>6. ASSUME NEW p \in {"home", "result"}, Follow(p) PROVE ToastsInv' /\ ~OnForm'
  <2>1. PICK way : way = [how |-> "push", to |-> Plain(p)]
    OBVIOUS
  <2>2. /\ way.to \in Place /\ way \in Navigation /\ way.how = "push" /\ way.to.page = p
        /\ ~Asks(way.to)
    BY <2>1 DEF Place, Navigation, Plain, Asks
  <2>3. /\ going' = <<way>> /\ InApp /\ UNCHANGED <<hist, at, visible, arrivals, stripped>>
    BY <1>6, <2>1 DEF Follow, Go
  <2>4. ToastsInv' /\ (OnForm' <=> OnForm)
    BY <1>1, <2>2, <2>3, SetOut DEF OnForm, InApp
  <2> QED
    BY <2>3, <2>4 DEF OnForm, InApp
<1>7. ASSUME NEW to \in DOMAIN hist, Walk(to) PROVE ToastsInv' /\ ~OnForm'
  BY <1>1, <1>7, Shown DEF Walk
<1> QED
  BY <1>2, <1>3, <1>4, <1>5, <1>6, <1>7 DEF NextToasts

-----------------------------------------------------------------------------
(* The ways in.                                                             *)

EntryCalls == [by : {"password", "google"}, step : {"enter", "refresh"}, revived : BOOLEAN,
               answer : {"none", "ok", "refused", "nobody", "password", "google"}]

\* Only the head of the queue has been answered.
Line(q) == q \in Seq(EntryCalls) /\ \A i \in 2..Len(q) : q[i].answer = "none"
Rereads(q) == \E i \in 1..Len(q) : q[i].step = "refresh"

\* A way in that the tab has not noticed yet.
Entered == calls # <<>> /\ Head(calls).step = "enter" /\ Head(calls).answer = "ok"

\* A refresh is answered for the account of the moment, which a waiting way in
\* cannot change before the answer is taken.
SignInInv ==
  /\ Line(calls)
  /\ session \in {"nobody", "password", "google"}
  /\ calls # <<>> /\ Head(calls).step = "refresh" => Head(calls).answer \in {"none", "refused", session}
  /\ session # "nobody" => cache \in {"nobody", session} \/ Entered
  /\ OnForm /\ session # "nobody" => going # <<>> \/ Rereads(calls) \/ Entered
  /\ OnForm /\ tried => error \/ calls # <<>> \/ going # <<>>

LEMMA LineTail ==
  ASSUME NEW q, Line(q), q # <<>>
  PROVE  /\ Line(Tail(q)) /\ Head(q) = q[1] /\ Head(q) \in EntryCalls
         /\ Tail(q) # <<>> => Head(Tail(q)).answer = "none"
         /\ Rereads(q) /\ Head(q).step # "refresh" => Rereads(Tail(q))
<1> DEFINE rest == Tail(q)
           n == Len(q)
<1>1. /\ rest \in Seq(EntryCalls) /\ Len(rest) = n - 1 /\ n \in Nat \ {0}
      /\ \A i \in 1..n - 1 : rest[i] = q[i + 1]
      /\ Head(q) = q[1] /\ Head(q) \in EntryCalls
  BY HeadTailProperties, LenProperties, EmptySeq DEF Line
<1>2. \A i \in 2..n : q[i].answer = "none"
  BY DEF Line
<1> HIDE DEF n, rest
<1>3. \A i \in 1..n - 1 : i + 1 \in 2..n
  BY <1>1
<1>4. \A i \in 1..n - 1 : rest[i].answer = "none"
  BY <1>1, <1>2, <1>3
<1>5. Line(rest)
  <2>1. \A i \in 2..Len(rest) : i \in 1..n - 1
    BY <1>1
  <2> QED
    BY <1>1, <1>4, <2>1 DEF Line
<1>6. rest # <<>> => Head(rest).answer = "none"
  <2> SUFFICES ASSUME rest # <<>> PROVE Head(rest).answer = "none"
    OBVIOUS
  <2>1. Head(rest) = rest[1] /\ Len(rest) \in Nat \ {0}
    BY <1>1, HeadTailProperties, LenProperties, EmptySeq
  <2>2. 1 \in 1..n - 1
    BY <1>1, <2>1
  <2> QED
    BY <1>4, <2>1, <2>2
<1>7. ASSUME NEW i \in 1..n, q[i].step = "refresh", q[1].step # "refresh" PROVE Rereads(rest)
  <2>1. i - 1 \in 1..n - 1 /\ (i - 1) + 1 = i
    BY <1>1, <1>7
  <2> QED
    BY <1>1, <1>7, <2>1 DEF Rereads
<1> QED
  BY <1>1, <1>5, <1>6, <1>7 DEF Rereads, rest, n

LEMMA LineAppend ==
  ASSUME NEW q, Line(q), NEW c \in EntryCalls, c.answer = "none"
  PROVE  /\ Line(Append(q, c)) /\ Append(q, c) # <<>>
         /\ Head(Append(q, c)) = IF q = <<>> THEN c ELSE Head(q)
         /\ Rereads(q) \/ c.step = "refresh" => Rereads(Append(q, c))
<1> DEFINE new == Append(q, c)
           n == Len(q)
<1>1. /\ new \in Seq(EntryCalls) /\ Len(new) = n + 1 /\ n \in Nat
      /\ \A i \in 1..n : new[i] = q[i]
      /\ new[n + 1] = c
      /\ q = <<>> <=> n = 0
  BY AppendProperties, LenProperties, EmptySeq DEF Line
<1>2. \A i \in 2..n : q[i].answer = "none"
  BY DEF Line
<1>3. q # <<>> => Head(q) = q[1]
  BY HeadTailProperties DEF Line
<1>4. new # <<>> => Head(new) = new[1]
  BY <1>1, HeadTailProperties
<1>5. new # <<>>
  BY <1>1, EmptySeq
<1> HIDE DEF new, n
<1>6. \A i \in 2..n + 1 : i = n + 1 \/ (i \in 2..n /\ i \in 1..n)
  BY <1>1
<1>7. Line(new)
  BY <1>1, <1>2, <1>6 DEF Line
<1>8. new[1] = IF q = <<>> THEN c ELSE q[1]
  <2>1. CASE n = 0
    BY <1>1, <2>1
  <2>2. CASE n # 0
    BY <1>1, <2>2
  <2> QED
    BY <2>1, <2>2
<1>9. \A i \in 1..n : i \in 1..n + 1
  BY <1>1
<1>10. n + 1 \in 1..n + 1
  BY <1>1
<1>11. Rereads(q) \/ c.step = "refresh" => Rereads(new)
  BY <1>1, <1>9, <1>10 DEF Rereads, n
<1> QED
  BY <1>3, <1>4, <1>5, <1>7, <1>8, <1>11 DEF new

LEMMA LineHead ==
  ASSUME NEW q, Line(q), q # <<>>, NEW c \in EntryCalls, c.step = Head(q).step,
         NEW new, new = [q EXCEPT ![1] = c]
  PROVE  Line(new) /\ new # <<>> /\ Head(new) = c /\ (Rereads(q) => Rereads(new))
<1> DEFINE n == Len(q)
<1>1. n \in Nat \ {0} /\ DOMAIN q = 1..n /\ q \in Seq(EntryCalls) /\ \A i \in 1..n : q[i] \in EntryCalls
  BY LenProperties, EmptySeq, ElementOfSeq DEF Line
<1>2. Head(q) = q[1] /\ \A i \in 2..n : q[i].answer = "none"
  BY HeadTailProperties DEF Line
<1> HIDE DEF n
<1>3. new \in [1..n -> EntryCalls] /\ new[1] = c /\ \A i \in 2..n : new[i] = q[i]
  BY <1>1
<1>4. new \in Seq(EntryCalls)
  BY <1>1, <1>3, IsASeq
<1>5. Len(new) = n /\ new # <<>>
  BY <1>1, <1>3, <1>4, LenProperties, EmptySeq
<1>6. Head(new) = c
  BY <1>3, <1>4, <1>5, HeadTailProperties
<1>7. \A i \in 1..n : i = 1 \/ i \in 2..n
  BY <1>1
<1>8. \A i \in 1..n : new[i].step = q[i].step
  BY <1>2, <1>3, <1>7
<1> QED
  BY <1>2, <1>3, <1>4, <1>5, <1>6, <1>8 DEF Line, Rereads, n

EntryInv == ToastsInv /\ SignInInv

LEMMA QuietToasts ==
  ASSUME ToastsInv, UNCHANGED toastVars
  PROVE  ToastsInv' /\ (OnForm' <=> OnForm) /\ going' = going
<1>1. UNCHANGED <<hist, at, going, visible, arrivals, stripped>>
  BY DEF toastVars
<1>2. Here' = Here
  BY <1>1 DEF Here
<1>3. ToastsTyped' /\ ToastOnce' /\ HistTraced'
  BY <1>1, <1>2 DEF ToastsInv, ToastsTyped, ToastOnce, HistTraced, Traced, Asks
<1>4. going # <<>> => WayTraced(Head(going))'
  BY <1>1, <1>2 DEF ToastsInv, WayTraced, Traced, OnForm, Asks
<1> QED
  BY <1>1, <1>2, <1>3, <1>4 DEF ToastsInv, OnForm

\* An attempt joins the queue.
LEMMA AttemptStep ==
  ASSUME EntryInv, NEW by \in {"password", "google"}, Enter(by), UNCHANGED <<session, cache, toastVars>>
  PROVE  EntryInv'
<1>1. PICK c : c = EntryCall(by, "enter", FALSE)
  OBVIOUS
<1>2. c \in EntryCalls /\ c.answer = "none" /\ c.step = "enter" /\ calls' = Append(calls, c)
  BY <1>1 DEF EntryCall, EntryCalls, Enter
<1>3. Line(calls) /\ session \in {"nobody", "password", "google"}
  BY DEF EntryInv, SignInInv
<1>4. /\ Line(calls') /\ calls' # <<>> /\ (Rereads(calls) => Rereads(calls'))
      /\ Head(calls') = IF calls = <<>> THEN c ELSE Head(calls)
  BY <1>2, <1>3, LineAppend
<1>5. Entered => Entered'
  BY <1>4 DEF Entered
<1>6. ToastsInv' /\ (OnForm' <=> OnForm) /\ going' = going
  BY QuietToasts DEF EntryInv
<1>7. session' = session /\ cache' = cache
  OBVIOUS
<1>8. Head(calls').step = "refresh" => Head(calls').answer \in {"none", "refused", session}
  BY <1>2, <1>4 DEF EntryInv, SignInInv
<1> QED
  BY <1>3, <1>4, <1>5, <1>6, <1>7, <1>8 DEF EntryInv, SignInInv

\* Nothing but the error and the popup changes.
LEMMA FormQuiet ==
  ASSUME EntryInv, UNCHANGED <<calls, session, cache, toastVars>>,
         ~tried' \/ (tried' = tried /\ (error => error'))
  PROVE  EntryInv'
<1>1. ToastsInv' /\ (OnForm' <=> OnForm) /\ going' = going
  BY QuietToasts DEF EntryInv
<1>2. calls' = calls /\ session' = session /\ cache' = cache /\ (Entered' <=> Entered)
  BY DEF Entered
<1> QED
  BY <1>1, <1>2 DEF EntryInv, SignInInv

\* The head of the queue is answered.
LEMMA ServedEntry ==
  ASSUME EntryInv, calls # <<>>, Head(calls).answer = "none",
         NEW c \in EntryCalls, c.step = Head(calls).step, calls' = [calls EXCEPT ![1] = c],
         session' \in {"nobody", "password", "google"},
         \/ c.step = "enter" /\ c.answer = "ok"
         \/ session' = session /\ c.answer \in {"refused", session},
         UNCHANGED <<cache, error, tried, toastVars>>
  PROVE  EntryInv'
<1>1. PICK q : q = calls'
  OBVIOUS
<1>2. Line(calls) /\ ~Entered
  BY DEF EntryInv, SignInInv, Entered
<1>3. Line(q) /\ q # <<>> /\ Head(q) = c /\ (Rereads(calls) => Rereads(q))
  BY <1>1, <1>2, LineHead
<1>4. ToastsInv' /\ (OnForm' <=> OnForm) /\ going' = going
  BY QuietToasts DEF EntryInv
<1>5. c.step = "enter" /\ c.answer = "ok" => Entered'
  BY <1>1, <1>3 DEF Entered
<1>6. c.step = "refresh" => c.answer \in {"none", "refused", session'}
  OBVIOUS
<1>7. session' # "nobody" => cache' \in {"nobody", session'} \/ Entered'
  BY <1>2, <1>5 DEF EntryInv, SignInInv
<1>8. OnForm' /\ session' # "nobody" => going' # <<>> \/ Rereads(q) \/ Entered'
  BY <1>2, <1>3, <1>4, <1>5 DEF EntryInv, SignInInv
<1>9. SignInInv'
  BY <1>1, <1>3, <1>6, <1>7, <1>8 DEF SignInInv
<1> QED
  BY <1>4, <1>9 DEF EntryInv

LEMMA ServeEntryStep == EntryInv /\ (ServeEntry \/ ServeReread) => EntryInv'
<1> SUFFICES ASSUME EntryInv, ServeEntry \/ ServeReread PROVE EntryInv'
  OBVIOUS
<1>1. calls # <<>> /\ Head(calls).answer = "none" /\ UNCHANGED <<cache, error, tried, toastVars>>
  BY DEF ServeEntry, ServeReread
<1>2. /\ Line(calls) /\ Head(calls) = calls[1] /\ Head(calls) \in EntryCalls
      /\ session \in {"nobody", "password", "google"}
  BY <1>1, LineTail DEF EntryInv, SignInInv
<1>3. calls \in Seq(EntryCalls) /\ 1 \in DOMAIN calls
  BY <1>1, <1>2, LenProperties, EmptySeq DEF Line
<1>4. ASSUME NEW answer \in {"refused", session}, calls' = [calls EXCEPT ![1].answer = answer], session' = session
      PROVE  EntryInv'
  <2>1. PICK c : c = [calls[1] EXCEPT !.answer = answer]
    OBVIOUS
  <2>2. c \in EntryCalls /\ c.step = Head(calls).step /\ c.answer = answer
    BY <1>2, <2>1 DEF EntryCalls
  <2>3. calls' = [calls EXCEPT ![1] = c]
    BY <1>3, <1>4, <2>1
  <2> QED
    BY <1>1, <1>2, <1>4, <2>2, <2>3, ServedEntry
<1>5. ASSUME NEW revived \in BOOLEAN, Head(calls).step = "enter", session' = Head(calls).by,
             calls' = [calls EXCEPT ![1].answer = "ok", ![1].revived = revived]
      PROVE  EntryInv'
  <2>1. PICK c : c = [calls[1] EXCEPT !.answer = "ok", !.revived = revived]
    OBVIOUS
  <2>2. c \in EntryCalls /\ c.step = Head(calls).step /\ c.answer = "ok"
    BY <1>2, <2>1 DEF EntryCalls
  <2>3. calls' = [calls EXCEPT ![1] = c]
    BY <1>3, <1>5, <2>1
  <2>4. session' \in {"nobody", "password", "google"}
    BY <1>2, <1>5 DEF EntryCalls
  <2> QED
    BY <1>1, <1>5, <2>2, <2>3, <2>4, ServedEntry
<1>6. CASE ServeEntry
  BY <1>4, <1>5, <1>6 DEF ServeEntry
<1>7. CASE ServeReread
  BY <1>4, <1>7 DEF ServeReread
<1> QED
  BY <1>6, <1>7

LEMMA AnswerEntryStep == EntryInv /\ AnswerEntry => EntryInv'
<1> SUFFICES ASSUME EntryInv, AnswerEntry PROVE EntryInv'
  OBVIOUS
<1>1. PICK h, q : h = Head(calls) /\ q = Tail(calls)
  OBVIOUS
<1>2. /\ calls # <<>> /\ h.step = "enter" /\ h.answer # "none"
      /\ UNCHANGED <<session, tried, toastVars>>
  BY <1>1 DEF AnswerEntry
<1>3. /\ Line(q) /\ h \in EntryCalls /\ (q # <<>> => Head(q).answer = "none")
      /\ Rereads(calls) => Rereads(q)
  BY <1>1, <1>2, LineTail DEF EntryInv, SignInInv
<1>4. ToastsInv' /\ (OnForm' <=> OnForm) /\ going' = going
  BY <1>2, QuietToasts DEF EntryInv
<1>5. CASE h.answer = "ok"
  <2>1. PICK c : c = EntryCall(h.by, "refresh", h.revived)
    OBVIOUS
  <2>2. c \in EntryCalls /\ c.answer = "none" /\ c.step = "refresh"
    BY <1>3, <2>1 DEF EntryCall, EntryCalls
  <2>3. calls' = Append(q, c) /\ cache' = "nobody"
    BY <1>1, <1>5, <2>1 DEF AnswerEntry, Cleared
  <2>4. /\ Line(calls') /\ calls' # <<>> /\ Rereads(calls')
        /\ Head(calls') = IF q = <<>> THEN c ELSE Head(q)
    BY <1>3, <2>2, <2>3, LineAppend
  <2>5. Head(calls').answer = "none"
    BY <1>3, <2>2, <2>4
  <2> QED
    BY <1>2, <1>4, <2>3, <2>4, <2>5 DEF EntryInv, SignInInv
<1>6. CASE h.answer # "ok"
  <2>1. calls' = q /\ cache' = cache /\ (OnForm => error')
    BY <1>1, <1>6 DEF AnswerEntry
  <2>2. ~Entered
    BY <1>1, <1>6 DEF Entered
  <2>3. OnForm' /\ session' # "nobody" => going' # <<>> \/ Rereads(calls')
    BY <1>2, <1>3, <1>4, <2>1, <2>2 DEF EntryInv, SignInInv
  <2>4. session' # "nobody" => cache' \in {"nobody", session'}
    BY <1>2, <2>1, <2>2 DEF EntryInv, SignInInv
  <2>5. Line(calls') /\ (calls' # <<>> => Head(calls').answer = "none")
    BY <1>3, <2>1
  <2>6. session' \in {"nobody", "password", "google"}
    BY <1>2 DEF EntryInv, SignInInv
  <2> QED
    BY <1>4, <2>1, <2>3, <2>4, <2>5, <2>6 DEF EntryInv, SignInInv
<1> QED
  BY <1>5, <1>6

LEMMA AnswerRereadStep == EntryInv /\ AnswerReread => EntryInv'
<1> SUFFICES ASSUME EntryInv, AnswerReread PROVE EntryInv'
  OBVIOUS
<1>1. PICK h, q : h = Head(calls) /\ q = Tail(calls)
  OBVIOUS
<1>2. /\ calls # <<>> /\ h.step = "refresh" /\ h.answer # "none" /\ calls' = q
      /\ cache' = IF h.answer = "refused" THEN cache ELSE h.answer
      /\ UNCHANGED <<session, error, tried, hist, at, visible, stripped>>
  BY <1>1 DEF AnswerReread
<1>3. Line(q) /\ h \in EntryCalls /\ (q # <<>> => Head(q).answer = "none")
  BY <1>1, <1>2, LineTail DEF EntryInv, SignInInv
<1>4. h.answer \in {"refused", session} /\ ~Entered /\ session \in {"nobody", "password", "google"}
  BY <1>1, <1>2 DEF EntryInv, SignInInv, Entered
<1>5. ToastsInv /\ Len(arrivals) \in Nat /\ visible \in BOOLEAN
  BY LenProperties DEF EntryInv, ToastsInv, ToastsTyped
<1>6. ToastsInv' /\ going' # <<>>
  <2>1. CASE h.revived
    <3>1. PICK way : way = [how |-> "replace", to |-> Arrival("welcome")]
      OBVIOUS
    <3>2. /\ way.to \in Place /\ way \in Navigation /\ way.how = "replace" /\ way.to.page = "home"
          /\ way.to.param = "welcome" /\ way.to.arrival = Len(arrivals) + 1
      BY <1>5, <3>1 DEF Place, Navigation, Arrival
    <3>3. going' = <<way>> /\ arrivals' = Append(arrivals, "welcome")
      BY <1>1, <2>1, <3>1 DEF AnswerReread, Go
    <3> QED
      BY <1>2, <1>5, <3>2, <3>3, SetOut
  <2>2. CASE ~h.revived
    <3>1. PICK way : way = [how |-> "replace", to |-> Plain("home")]
      OBVIOUS
    <3>2. /\ way.to \in Place /\ way \in Navigation /\ way.how = "replace" /\ way.to.page = "home"
          /\ ~Asks(way.to)
      BY <3>1 DEF Place, Navigation, Plain, Asks
    <3>3. going' = <<way>> /\ arrivals' = arrivals
      BY <1>1, <2>2, <3>1 DEF AnswerReread, Go
    <3> QED
      BY <1>2, <1>5, <3>2, <3>3, SetOut
  <2> QED
    BY <2>1, <2>2
<1>7. session' # "nobody" => cache' \in {"nobody", session'}
  BY <1>2, <1>4 DEF EntryInv, SignInInv
<1> QED
  BY <1>2, <1>3, <1>4, <1>6, <1>7 DEF EntryInv, SignInInv

LEMMA EntrySteps == EntryInv /\ NextSignIn => EntryInv'
<1> SUFFICES ASSUME EntryInv, NextSignIn PROVE EntryInv'
  OBVIOUS
<1>1. CASE SubmitForm
  <2>1. CASE Enter("password")
    BY <1>1, <2>1, AttemptStep DEF SubmitForm
  <2>2. CASE error' = TRUE /\ tried' = FALSE /\ UNCHANGED <<calls, tries>>
    BY <1>1, <2>2, FormQuiet DEF SubmitForm
  <2> QED
    BY <1>1, <2>1, <2>2 DEF SubmitForm
<1>2. CASE LoadGoogle \/ ClickGoogle
  <2>1. UNCHANGED <<calls, session, cache, tried, toastVars>> /\ (error => error')
    BY <1>2 DEF LoadGoogle, ClickGoogle
  <2> QED
    BY <2>1, FormQuiet
<1>3. CASE PopupEnds
  <2>1. UNCHANGED <<session, cache, toastVars>>
    BY <1>3 DEF PopupEnds
  <2>2. CASE Enter("google")
    BY <2>1, <2>2, AttemptStep
  <2>3. CASE UNCHANGED <<calls, error, tried, tries>>
    BY <2>1, <2>3, FormQuiet
  <2>4. CASE error' = (error \/ OnForm) /\ UNCHANGED <<calls, tried, tries>>
    BY <2>1, <2>4, FormQuiet
  <2> QED
    BY <1>3, <2>2, <2>3, <2>4 DEF PopupEnds
<1>4. CASE NextToasts /\ UNCHANGED signInVars
  <2>1. ToastsInv' /\ ~OnForm'
    BY <1>4, ToastsSteps DEF EntryInv
  <2>2. UNCHANGED <<calls, session, cache, error, tried>>
    BY <1>4 DEF signInVars
  <2> QED
    BY <2>1, <2>2 DEF EntryInv, SignInInv, Entered
<1> QED
  BY <1>1, <1>2, <1>3, <1>4, ServeEntryStep, AnswerEntryStep, AnswerRereadStep DEF NextSignIn

\* Whoever enters the app, by whichever of the two ways in and with both under
\* way: the history shown is theirs, no toast that was stripped comes back, and
\* the form is left or shows an error (AuthForm.tsx, GoogleSignInButton.tsx,
\* WelcomeBackToast.tsx and CompletionToast.tsx).
THEOREM EntersAsOwner == Spec => []EntersCleanly
<1>1. Init => EntryInv
  <2> SUFFICES ASSUME Init PROVE EntryInv
    OBVIOUS
  <2>1. ToastsInv
    BY InitToastsInv DEF Init, InitSignIn
  <2>2. calls = <<>> /\ session = "nobody" /\ tried = FALSE
    BY DEF Init, InitSignIn
  <2>3. Line(calls)
    <3>1. calls \in Seq(EntryCalls) /\ Len(calls) = 0
      BY <2>2, EmptySeq
    <3> QED
      BY <3>1 DEF Line
  <2> QED
    BY <2>1, <2>2, <2>3 DEF EntryInv, SignInInv
<1>2. EntryInv /\ [Next]_vars => EntryInv'
  <2> SUFFICES ASSUME EntryInv, [Next]_vars PROVE EntryInv'
    OBVIOUS
  <2>1. CASE UNCHANGED entryVars
    <3>1. UNCHANGED <<calls, session, cache, tried, error, toastVars>>
      BY <2>1 DEF entryVars, signInVars
    <3> QED
      BY <3>1, FormQuiet
  <2>2. CASE NextSignIn
    BY <2>2, EntrySteps
  <2> QED
    BY <2>1, <2>2 DEF Next, vars
<1>3. EntryInv => EntersCleanly
  <2> SUFFICES ASSUME EntryInv PROVE EntersCleanly
    OBVIOUS
  <2>1. calls = <<>> => ~Rereads(calls) /\ ~Entered
    BY EmptySeq DEF Rereads, Entered
  <2> QED
    BY <2>1 DEF EntryInv, ToastsInv, SignInInv, EntersCleanly, CacheIsOwners, FormSpeaks
<1> QED
  BY <1>1, <1>2, <1>3, PTL DEF Spec
-----------------------------------------------------------------------------
(* Sets of numbers.  The least number of a set takes the place of induction. *)

LEMMA Least ==
  ASSUME NEW S \in SUBSET Nat, S # {}
  PROVE  \E x \in S : \A y \in S : x <= y
<1>1. PICK x \in S : \A y \in S : ~(<<y, x>> \in OpToRel(<, Nat))
  BY NatLessThanWellFounded, WFMin
<1>2. ASSUME NEW y \in S PROVE x <= y
  <2>1. ~(<<y, x>> \in {z \in Nat \X Nat : z[1] < z[2]})
    BY <1>1 DEF OpToRel
  <2> QED
    BY <2>1
<1> QED
  BY <1>2

LEMMA MinIs ==
  ASSUME NEW S \in SUBSET Nat, S # {}
  PROVE  Min(S) \in S /\ \A y \in S : Min(S) <= y
BY Least DEF Min

LEMMA MaxIs ==
  ASSUME NEW S \in SUBSET Int, S # {}, NEW b \in Int, \A x \in S : x <= b
  PROVE  Max(S) \in S /\ \A y \in S : Max(S) >= y
<1>1. PICK z \in {b - x : x \in S} : \A w \in {b - x : x \in S} : z <= w
  <2>1. {b - x : x \in S} \in SUBSET Nat
    OBVIOUS
  <2>2. PICK x \in S : TRUE
    OBVIOUS
  <2>3. b - x \in {b - y : y \in S}
    OBVIOUS
  <2> QED
    BY <2>1, <2>3, Least
<1>2. PICK x \in S : z = b - x
  BY <1>1
<1>3. \A y \in S : x >= y
  BY <1>1, <1>2
<1> QED
  BY <1>3 DEF Max

-----------------------------------------------------------------------------
(* The calendar.                                                            *)

\* Midnight, a recursive function, is what its definition says.
LEMMA MidnightIs ==
  /\ Days = 1..Len(DayLengths) /\ Len(DayLengths) \in Nat \ {0}
  /\ Midnight \in [Days -> Nat]
  /\ \A d \in Days : Midnight[d] = IF d = 1 THEN 0 ELSE Midnight[d - 1] + DayLengths[d - 1]
  /\ \A d \in Days : DayLengths[d] \in {23, 24, 25}
<1> DEFINE n == Len(DayLengths)
           Follows(f, m) == \A d \in 1..m : f[d] = IF d = 1 THEN 0 ELSE f[d - 1] + DayLengths[d - 1]
           Bad == {m \in Nat : m <= n /\ ~\E f \in [1..m -> Nat] : Follows(f, m)}
<1>1. /\ n \in Nat \ {0} /\ Days = 1..n
      /\ \A d \in 1..n : DayLengths[d] \in {23, 24, 25} /\ DayLengths[d] \in Nat
  BY ProgressConstants, LenProperties, EmptySeq, ElementOfSeq DEF Days
<1> HIDE DEF n
<1>2. Bad = {}
  <2> SUFFICES ASSUME Bad # {} PROVE FALSE
    OBVIOUS
  <2>1. PICK m \in Bad : \A k \in Bad : m <= k
    BY Least
  <2>2. CASE m = 0
    <3>1. Follows([d \in 1..0 |-> 0], 0) /\ [d \in 1..0 |-> 0] \in [1..0 -> Nat]
      OBVIOUS
    <3> QED
      BY <2>1, <2>2, <3>1
  <2>3. CASE m # 0
    <3>1. m \in Nat \ {0} /\ m <= n /\ m - 1 \in Nat /\ ~(m <= m - 1)
      BY <2>1, <2>3
    <3>2. PICK f \in [1..m - 1 -> Nat] : Follows(f, m - 1)
      <4>1. m - 1 \notin Bad
        BY <2>1, <3>1
      <4>2. m - 1 <= n
        BY <1>1, <3>1
      <4> QED
        BY <3>1, <4>1, <4>2
    <3> DEFINE next == IF m = 1 THEN 0 ELSE f[m - 1] + DayLengths[m - 1]
               g == [d \in 1..m |-> IF d = m THEN next ELSE f[d]]
    <3>3. next \in Nat
      BY <1>1, <3>1
    <3>4. g \in [1..m -> Nat]
      BY <3>1, <3>3
    <3>5. Follows(g, m)
      <4> SUFFICES ASSUME NEW d \in 1..m PROVE g[d] = IF d = 1 THEN 0 ELSE g[d - 1] + DayLengths[d - 1]
        OBVIOUS
      <4>1. CASE d = m
        BY <3>1, <4>1
      <4>2. CASE d # m
        <5>1. d \in 1..m - 1 /\ g[d] = f[d] /\ (d # 1 => d - 1 \in 1..m /\ d - 1 # m /\ g[d - 1] = f[d - 1])
          BY <3>1, <4>2
        <5> QED
          BY <3>2, <5>1
      <4> QED
        BY <4>1, <4>2
    <3> QED
      BY <2>1, <3>4, <3>5
  <2> QED
    BY <2>2, <2>3
<1>3. PICK f \in [1..n -> Nat] : Follows(f, n)
  <2> SUFFICES ASSUME ~\E f \in [1..n -> Nat] : Follows(f, n) PROVE FALSE
    OBVIOUS
  <2>1. n \in Nat /\ n <= n
    BY <1>1
  <2>2. n \in Bad
    BY <2>1
  <2> QED
    BY <1>2, <2>2
<1>4. f = [d \in Days |-> IF d = 1 THEN 0 ELSE f[d - 1] + DayLengths[d - 1]]
  BY <1>1, <1>3
<1>5. Midnight = [d \in Days |-> IF d = 1 THEN 0 ELSE Midnight[d - 1] + DayLengths[d - 1]]
  BY <1>4 DEF Midnight
<1>6. ASSUME NEW d \in Days PROVE Midnight[d] = f[d]
  <2> DEFINE Differ == {e \in Days : Midnight[e] # f[e]}
  <2> SUFFICES ASSUME Differ # {} PROVE FALSE
    BY <1>6
  <2>1. PICK e \in Differ : \A c \in Differ : e <= c
    <3>1. Differ \in SUBSET Nat
      BY <1>1
    <3> HIDE DEF Differ
    <3> QED
      BY <3>1, Least
  <2>2. e \in Days /\ Midnight[e] # f[e] /\ e \in Nat
    BY <1>1, <2>1
  <2>3. /\ Midnight[e] = IF e = 1 THEN 0 ELSE Midnight[e - 1] + DayLengths[e - 1]
        /\ f[e] = IF e = 1 THEN 0 ELSE f[e - 1] + DayLengths[e - 1]
    BY <1>1, <1>3, <1>5, <2>2
  <2>4. e # 1 => e - 1 \in Days /\ ~(e <= e - 1)
    BY <1>1, <2>2
  <2> QED
    BY <2>1, <2>2, <2>3, <2>4
<1> QED
  <2>1. \A d \in Days : Midnight[d] \in Nat
    BY <1>1, <1>3, <1>6
  <2>2. Midnight \in [Days -> Nat]
    BY <1>5, <2>1
  <2> QED
    BY <1>1, <1>5, <2>2 DEF n

LEMMA DaysAreNumbers == \A d \in Days : d \in Nat /\ Midnight[d] \in Nat
BY MidnightIs

\* A later day starts 23 hours later at least.
LEMMA MidnightLater ==
  ASSUME NEW c \in Days, NEW d \in Days, c < d
  PROVE  Midnight[c] + 23 <= Midnight[d]
<1> DEFINE Bad == {e \in Days : c < e /\ ~(Midnight[c] + 23 <= Midnight[e])}
<1> SUFFICES ASSUME Bad # {} PROVE FALSE
  OBVIOUS
<1>1. PICK e \in Bad : \A b \in Bad : e <= b
  <2>1. Bad \in SUBSET Nat
    BY MidnightIs
  <2> HIDE DEF Bad
  <2> QED
    BY <2>1, Least
<1>2. /\ e \in Days /\ c \in Nat /\ e \in Nat /\ c < e /\ e - 1 \in Days
      /\ Midnight[c] \in Nat /\ Midnight[e - 1] \in Nat /\ Midnight[e] \in Nat
      /\ Midnight[e] = Midnight[e - 1] + DayLengths[e - 1] /\ DayLengths[e - 1] \in {23, 24, 25}
      /\ ~(Midnight[c] + 23 <= Midnight[e])
  <2>1. e \in Days /\ c < e /\ ~(Midnight[c] + 23 <= Midnight[e])
    BY <1>1
  <2>2. c \in Nat /\ e \in Nat /\ e - 1 \in Days /\ e # 1
    BY <2>1, MidnightIs
  <2> QED
    BY <2>1, <2>2, MidnightIs
<1>3. CASE c = e - 1
  BY <1>2, <1>3
<1>4. CASE c # e - 1
  <2>1. c < e - 1 /\ ~(e <= e - 1)
    BY <1>2, <1>4
  <2>2. Midnight[c] + 23 <= Midnight[e - 1]
    BY <1>1, <1>2, <2>1
  <2> QED
    BY <1>2, <2>2
<1> QED
  BY <1>3, <1>4

LEMMA DayOfIs ==
  ASSUME NEW t \in Nat
  PROVE  /\ DayOf(t) \in Days /\ Midnight[DayOf(t)] <= t
         /\ \A d \in Days : Midnight[d] <= t => d <= DayOf(t)
<1> DEFINE begun == {d \in Days : Midnight[d] <= t}
<1>1. 1 \in begun
  BY MidnightIs
<1>2. begun \in SUBSET Int /\ Len(DayLengths) \in Int /\ \A d \in begun : d <= Len(DayLengths)
  BY MidnightIs
<1>3. Max(begun) \in begun /\ \A d \in begun : Max(begun) >= d
  <2> HIDE DEF begun
  <2> QED
    BY <1>1, <1>2, MaxIs
<1> QED
  BY <1>3, MidnightIs DEF DayOf

\* Days are told apart by their midnights.
LEMMA SameDay ==
  ASSUME NEW c \in Days, NEW d \in Days, Midnight[c] = Midnight[d]
  PROVE  c = d
<1>1. Midnight[c] \in Nat /\ c \in Nat /\ d \in Nat
  BY MidnightIs
<1>2. ~(c < d)
  BY <1>1, MidnightLater
<1>3. ~(d < c)
  BY <1>1, MidnightLater
<1> QED
  BY <1>1, <1>2, <1>3

\* The days practised, as midnights.
LEMMA PracticedDaysAre ==
  ASSUME NEW times \in Seq(Nat)
  PROVE  /\ IsFiniteSet(PracticedDays(times)) /\ Cardinality(PracticedDays(times)) \in Nat
         /\ \A m \in PracticedDays(times) : \E d \in Days : m = Midnight[d]
         /\ \A d \in Days : Midnight[d] \in PracticedDays(times) <=> \E i \in DOMAIN times : DayOf(times[i]) = d
<1>1. /\ DOMAIN times = 1..Len(times) /\ Len(times) \in Nat
      /\ \A i \in DOMAIN times : times[i] \in Nat
  BY LenProperties, ElementOfSeq
<1>2. \A i \in DOMAIN times : DayOf(times[i]) \in Days
  BY <1>1, DayOfIs
<1>3. IsFiniteSet(PracticedDays(times)) /\ Cardinality(PracticedDays(times)) \in Nat
  <2> DEFINE f == [i \in DOMAIN times |-> StartOfDay(times[i])]
  <2>1. f \in Surjection(DOMAIN times, PracticedDays(times))
    BY DEF Surjection, PracticedDays
  <2>2. IsFiniteSet(DOMAIN times)
    BY <1>1, FS_Interval
  <2> HIDE DEF f
  <2>3. IsFiniteSet(PracticedDays(times))
    BY <2>1, <2>2, FS_Surjection
  <2> QED
    BY <2>3, FS_CardinalityType
<1>4. ASSUME NEW m \in PracticedDays(times) PROVE \E d \in Days : m = Midnight[d]
  BY <1>2 DEF PracticedDays, StartOfDay
<1>5. ASSUME NEW d \in Days
      PROVE  Midnight[d] \in PracticedDays(times) <=> \E i \in DOMAIN times : DayOf(times[i]) = d
  BY <1>2, SameDay DEF PracticedDays, StartOfDay
<1> QED
  BY <1>3, <1>4, <1>5

-----------------------------------------------------------------------------
(* The streaks.                                                             *)

\* Of the values of a function that never repeats itself, so many are in a
\* finite set until one is not.
LEMMA RunIs ==
  ASSUME NEW P, IsFiniteSet(P), NEW f \in [Nat -> Int], \A i, j \in Nat : f[i] = f[j] => i = j
  PROVE  LET run == {n \in 0..Cardinality(P) : \A i \in 0..n : f[i] \in P} IN
         \E m \in Nat : /\ Cardinality(run) = m /\ m <= Cardinality(P)
                        /\ \A i \in 0..(m - 1) : f[i] \in P
                        /\ f[m] \notin P
<1> DEFINE N == Cardinality(P)
           run == {n \in 0..N : \A i \in 0..n : f[i] \in P}
           Out == {k \in 0..N : f[k] \notin P}
<1>1. N \in Nat
  BY FS_CardinalityType
<1> HIDE DEF N
<1>2. Out # {}
  <2> SUFFICES ASSUME Out = {} PROVE FALSE
    OBVIOUS
  <2> DEFINE g == [k \in 0..N |-> f[k]]
  <2>1. g \in Injection(0..N, P)
    <3>1. \A k \in 0..N : f[k] \in P
      OBVIOUS
    <3>2. g \in [0..N -> P]
      BY <3>1
    <3>3. \A a, b \in 0..N : g[a] = g[b] => a = b
      BY <1>1
    <3> QED
      BY <3>2, <3>3 DEF Injection, IsInjective
  <2>2. Cardinality(0..N) = N + 1
    BY <1>1, FS_Interval
  <2>3. Cardinality(0..N) <= N
    BY <2>1, FS_Injection DEF N
  <2> QED
    BY <1>1, <2>2, <2>3
<1>3. PICK m \in Out : \A k \in Out : m <= k
  <2>1. Out \in SUBSET Nat
    BY <1>1
  <2> HIDE DEF Out
  <2> QED
    BY <1>2, <2>1, Least
<1>4. m \in Nat /\ m <= N /\ f[m] \notin P
  BY <1>1, <1>3
<1>5. \A i \in 0..(m - 1) : f[i] \in P
  <2> SUFFICES ASSUME NEW i \in 0..(m - 1), f[i] \notin P PROVE FALSE
    OBVIOUS
  <2>1. i \in Out /\ ~(m <= i)
    BY <1>1, <1>4
  <2> QED
    BY <1>3, <2>1
<1>6. run = 0..(m - 1)
  <2>1. ASSUME NEW n \in run PROVE n \in 0..(m - 1)
    <3>1. n \in 0..N /\ \A i \in 0..n : f[i] \in P
      BY <2>1
    <3>2. m \notin 0..n
      BY <1>4, <3>1
    <3> QED
      BY <1>1, <1>4, <3>1, <3>2
  <2>2. ASSUME NEW n \in 0..(m - 1) PROVE n \in run
    <3>1. n \in 0..N /\ \A i \in 0..n : i \in 0..(m - 1)
      BY <1>1, <1>4
    <3> QED
      BY <1>5, <3>1
  <2> QED
    BY <2>1, <2>2
<1>7. Cardinality(run) = m
  <2>1. Cardinality(0..(m - 1)) = m
    BY <1>4, FS_Interval
  <2> QED
    BY <1>6, <2>1
<1> QED
  BY <1>4, <1>5, <1>7 DEF N

LEMMA LengthIs ==
  ASSUME NEW P, IsFiniteSet(P), NEW s \in Int, NEW step \in {24, -24}
  PROVE  \E m \in Nat : /\ Length(P, s, step) = m /\ m <= Cardinality(P)
                        /\ \A i \in 0..(m - 1) : s + i * step \in P
                        /\ s + m * step \notin P
<1> DEFINE f == [i \in Nat |-> s + i * step]
<1>1. f \in [Nat -> Int] /\ \A i, j \in Nat : f[i] = f[j] => i = j
  BY SMT
<1>2. \A i \in Nat : f[i] = s + i * step
  OBVIOUS
<1> HIDE DEF f
<1>3. PICK m \in Nat :
        /\ Cardinality({n \in 0..Cardinality(P) : \A i \in 0..n : f[i] \in P}) = m /\ m <= Cardinality(P)
        /\ \A i \in 0..(m - 1) : f[i] \in P
        /\ f[m] \notin P
  BY <1>1, RunIs
<1>4. \A n \in 0..Cardinality(P) :
        (\A i \in 0..n : f[i] \in P) <=> (\A i \in 0..n : s + i * step \in P)
  <2>1. Cardinality(P) \in Nat
    BY FS_CardinalityType
  <2>2. \A n \in 0..Cardinality(P) : \A i \in 0..n : i \in Nat
    BY <2>1
  <2> QED
    BY <1>2, <2>2
<1>5. Length(P, s, step) = m
  BY <1>3, <1>4 DEF Length
<1> QED
  BY <1>2, <1>3, <1>5

\* Midnights a day of 24 hours apart are of days in a row, none of which the
\* clock change made longer or shorter.
LEMMA DaysInRow ==
  ASSUME NEW today \in Days, NEW k \in Nat,
         \A i \in 0..k : \E d \in Days : Midnight[today] - 24 * i = Midnight[d]
  PROVE  \A i \in 0..k : /\ i < today /\ Midnight[today - i] = Midnight[today] - 24 * i
                         /\ i > 0 => DayLengths[today - i] = 24
<1> DEFINE Good(i) == /\ i < today /\ Midnight[today - i] = Midnight[today] - 24 * i
                      /\ i > 0 => DayLengths[today - i] = 24
           Bad == {i \in 0..k : ~Good(i)}
<1>1. today \in Nat /\ today >= 1 /\ Midnight[today] \in Nat
  BY MidnightIs
<1> SUFFICES ASSUME Bad # {} PROVE FALSE
  OBVIOUS
<1>2. PICK i \in Bad : \A j \in Bad : i <= j
  <2>1. Bad \in SUBSET Nat
    OBVIOUS
  <2> HIDE DEF Bad
  <2> QED
    BY <2>1, Least
<1>3. i \in 0..k /\ ~Good(i)
  BY <1>2
<1>4. CASE i = 0
  BY <1>1, <1>3, <1>4
<1>5. CASE i # 0
  <2>1. PICK e : e = today - (i - 1)
    OBVIOUS
  <2>2. i - 1 \in 0..k /\ ~(i <= i - 1)
    BY <1>3, <1>5
  <2>3. Good(i - 1)
    BY <1>2, <2>2
  <2>4. e \in Days /\ Midnight[e] = Midnight[today] - 24 * (i - 1) /\ e \in Nat
    BY <1>1, <2>1, <2>2, <2>3, MidnightIs
  <2>5. PICK c \in Days : Midnight[today] - 24 * i = Midnight[c]
    BY <1>3
  <2>6. c \in Nat /\ Midnight[c] \in Nat /\ Midnight[e] \in Nat /\ Midnight[c] + 24 = Midnight[e]
    <3>1. c \in Nat /\ Midnight[c] \in Nat /\ Midnight[e] \in Nat
      BY <2>4, <2>5, DaysAreNumbers
    <3>2. Midnight[c] = Midnight[today] - 24 * i /\ i \in Nat
      BY <1>3, <2>5
    <3> QED
      BY <1>1, <2>4, <3>1, <3>2
  <2>7. c < e
    <3>1. ~(e < c)
      BY <2>4, <2>6, MidnightLater
    <3> QED
      BY <2>4, <2>6, <3>1
  <2>8. e - 1 \in Days
    BY <2>4, <2>6, <2>7, MidnightIs
  <2>9. Midnight[e - 1] \in Nat /\ Midnight[e - 1] + 23 <= Midnight[e]
    <3>1. e - 1 < e
      BY <2>4
    <3>2. Midnight[e - 1] \in Nat
      BY <2>8, MidnightIs
    <3> QED
      BY <2>4, <2>8, <3>1, <3>2, MidnightLater
  <2>10. c = e - 1
    <3>1. ~(c < e - 1)
      <4> SUFFICES ASSUME c < e - 1 PROVE FALSE
        OBVIOUS
      <4>1. Midnight[c] + 23 <= Midnight[e - 1]
        BY <2>8, MidnightLater
      <4> QED
        BY <2>6, <2>9, <4>1
    <3> QED
      BY <2>4, <2>6, <2>7, <3>1
  <2>11. e # 1 /\ Midnight[e] = Midnight[e - 1] + DayLengths[e - 1] /\ DayLengths[e - 1] \in {23, 24, 25}
    BY <2>4, <2>6, <2>7, <2>8, MidnightIs
  <2>12. DayLengths[e - 1] = 24
    BY <2>6, <2>10, <2>11
  <2>13. today - i = e - 1 /\ i < today
    BY <1>1, <1>3, <2>1, <2>4, <2>8, MidnightIs
  <2> QED
    BY <1>3, <2>5, <2>10, <2>12, <2>13
<1> QED
  BY <1>4, <1>5

\* And conversely.
LEMMA RowOfDays ==
  ASSUME NEW today \in Days, NEW n \in 1..today,
         \A d \in (today - n + 1)..today : d < today => DayLengths[d] = 24
  PROVE  \A i \in 0..(n - 1) : today - i \in Days /\ Midnight[today - i] = Midnight[today] - 24 * i
<1>1. today \in Nat /\ today >= 1 /\ Midnight[today] \in Nat /\ n \in Nat /\ n >= 1 /\ n <= today
  BY MidnightIs
<1>2. \A i \in 0..(n - 1) : today - i \in Days
  BY <1>1, MidnightIs
<1> DEFINE Bad == {i \in 0..(n - 1) : Midnight[today - i] # Midnight[today] - 24 * i}
<1> SUFFICES ASSUME Bad # {} PROVE FALSE
  BY <1>2
<1>3. PICK i \in Bad : \A j \in Bad : i <= j
  <2>1. Bad \in SUBSET Nat
    OBVIOUS
  <2> HIDE DEF Bad
  <2> QED
    BY <2>1, Least
<1>4. i \in 0..(n - 1) /\ Midnight[today - i] # Midnight[today] - 24 * i
  BY <1>3
<1>5. CASE i = 0
  BY <1>1, <1>4, <1>5
<1>6. CASE i # 0
  <2>1. PICK e : e = today - (i - 1)
    OBVIOUS
  <2>2. i - 1 \in 0..(n - 1) /\ ~(i <= i - 1)
    BY <1>1, <1>4, <1>6
  <2>3. Midnight[e] = Midnight[today] - 24 * (i - 1)
    BY <1>3, <2>1, <2>2
  <2>4. e \in Days /\ e - 1 \in Days /\ e # 1 /\ e - 1 = today - i /\ e - 1 < today /\ e - 1 \in (today - n + 1)..today
    BY <1>1, <1>2, <1>4, <1>6, <2>1, <2>2, MidnightIs
  <2>5. DayLengths[e - 1] = 24 /\ Midnight[e] = Midnight[e - 1] + DayLengths[e - 1] /\ Midnight[e - 1] \in Nat
    BY <2>4, MidnightIs
  <2> QED
    BY <1>1, <1>4, <2>3, <2>4, <2>5
<1> QED
  BY <1>5, <1>6

\* The streak of historyStats.ts is that of the calendar back to a day that the
\* clock change made longer or shorter.
LEMMA StreakIs ==
  ASSUME NEW t \in Nat, NEW times \in Seq(Nat), recent = times, now = t
  PROVE  StreakCounted
<1> DEFINE P == PracticedDays(times)
           today == DayOf(t)
           start == Midnight[today]
           Practised(d) == \E i \in DOMAIN times : DayOf(times[i]) = d
           inRow == {n \in 1..today : \A d \in (today - n + 1)..today :
                       Practised(d) /\ (d < today => DayLengths[d] = 24)}
<1>1. /\ today \in Days /\ today \in Nat /\ start \in Nat
      /\ \A d \in Days : Midnight[d] \in Nat
  <2>1. today \in Days
    BY DayOfIs
  <2> QED
    BY <2>1, DaysAreNumbers
<1>2. /\ IsFiniteSet(P) /\ Cardinality(P) \in Nat
      /\ \A m \in P : \E d \in Days : m = Midnight[d]
      /\ \A d \in Days : Midnight[d] \in P <=> Practised(d)
  BY PracticedDaysAre
<1> HIDE DEF P, today, start, Practised
<1>3. PICK m \in Nat : /\ Length(P, start, -24) = m
                       /\ \A i \in 0..(m - 1) : start + i * (-24) \in P
                       /\ start + m * (-24) \notin P
  <2>1. start \in Int /\ -24 \in {24, -24}
    BY <1>1
  <2> QED
    BY <1>2, <2>1, LengthIs
<1>4. /\ \A i \in 0..(m - 1) : start - 24 * i \in P
      /\ start - 24 * m \notin P
  <2>1. \A i \in Nat : start + i * (-24) = start - 24 * i
    BY <1>1
  <2> QED
    BY <1>3, <2>1
<1>5. ComputeStreak(recent, now) = m
  BY <1>3 DEF ComputeStreak, StartOfDay, Day, P, start, today
<1>6. inRow = 1..m
  <2>1. ASSUME NEW n \in inRow PROVE n \in 1..m
    <3>1. /\ n \in 1..today /\ n \in Nat /\ n >= 1
          /\ \A d \in (today - n + 1)..today : Practised(d) /\ (d < today => DayLengths[d] = 24)
      BY <1>1, <2>1
    <3>2. \A i \in 0..(n - 1) : today - i \in Days /\ Midnight[today - i] = start - 24 * i
      BY <1>1, <3>1, RowOfDays DEF start
    <3>3. ~(n > m)
      <4> SUFFICES ASSUME n > m PROVE FALSE
        OBVIOUS
      <4>1. m \in 0..(n - 1) /\ today - m \in (today - n + 1)..today
        BY <1>1, <3>1
      <4> QED
        BY <1>2, <1>4, <3>1, <3>2, <4>1
    <3> QED
      BY <3>1, <3>3
  <2>2. ASSUME NEW n \in 1..m PROVE n \in inRow
    <3>1. n \in Nat /\ n - 1 \in Nat /\ \A i \in 0..(n - 1) : i \in 0..(m - 1)
      OBVIOUS
    <3>2. \A i \in 0..(n - 1) : start - 24 * i \in P /\ \E d \in Days : start - 24 * i = Midnight[d]
      BY <1>2, <1>4, <3>1
    <3>3. \A i \in 0..(n - 1) : /\ i < today /\ Midnight[today - i] = start - 24 * i
                                /\ i > 0 => DayLengths[today - i] = 24
      BY <1>1, <3>1, <3>2, DaysInRow DEF start
    <3>4. n \in 1..today
      <4>1. n - 1 \in 0..(n - 1)
        BY <3>1
      <4>2. n - 1 < today
        BY <3>3, <4>1
      <4> QED
        BY <1>1, <3>1, <4>2
    <3>5. ASSUME NEW d \in (today - n + 1)..today PROVE Practised(d) /\ (d < today => DayLengths[d] = 24)
      <4>1. PICK i : i = today - d
        OBVIOUS
      <4>2. i \in 0..(n - 1) /\ d = today - i /\ (d < today => i > 0) /\ d \in Nat /\ d >= 1 /\ d <= today
        BY <1>1, <3>1, <3>4, <4>1
      <4>3. d \in Days
        BY <1>1, <4>2, MidnightIs
      <4> QED
        BY <1>2, <3>2, <3>3, <4>2, <4>3
    <3> QED
      BY <3>4, <3>5
  <2> QED
    BY <2>1, <2>2
<1>7. PICK cal \in Nat :
        /\ CalendarStreak = cal /\ m <= cal
        /\ m = cal \/ \E d \in (today - cal + 1)..(today - 1) : DayLengths[d] # 24
  <2> DEFINE inAnyRow == {n \in 1..today : \A d \in (today - n + 1)..today : Practised(d)}
             S == {0} \cup inAnyRow
             cal == Max(S)
  <2>1. cal \in S /\ \A y \in S : cal >= y
    <3>1. S \in SUBSET Int /\ S # {} /\ today \in Int /\ \A x \in S : x <= today
      BY <1>1
    <3> HIDE DEF S
    <3> QED
      BY <3>1, MaxIs
  <2>2. cal \in Nat
    BY <1>1, <2>1
  <2>3. inRow \subseteq inAnyRow
    OBVIOUS
  <2>4. m \in S
    <3>1. m = 0 \/ m \in 1..m
      BY <1>3
    <3> HIDE DEF inRow, inAnyRow
    <3> QED
      BY <1>6, <2>3, <3>1
  <2>5. CalendarStreak = cal
    BY DEF CalendarStreak, PractisedOn, Practised, today
  <2>6. ASSUME \A d \in (today - cal + 1)..(today - 1) : DayLengths[d] = 24, cal # 0
        PROVE  cal \in inRow
    <3>1. PICK k : k = cal
      OBVIOUS
    <3>2. k \in 1..today /\ \A d \in (today - k + 1)..today : Practised(d)
      BY <2>1, <2>6, <3>1
    <3>3. ASSUME NEW d \in (today - k + 1)..today, d < today PROVE DayLengths[d] = 24
      <4>1. d \in (today - k + 1)..(today - 1)
        BY <1>1, <3>2, <3>3
      <4> QED
        BY <2>6, <3>1, <4>1
    <3> HIDE DEF cal
    <3> QED
      BY <3>1, <3>2, <3>3
  <2>7. ASSUME cal \in inRow PROVE cal <= m
    <3> HIDE DEF cal, inRow
    <3> QED
      BY <1>3, <1>6, <2>7
  <2>8. m <= cal
    BY <2>1, <2>2, <2>4
  <2> HIDE DEF cal, inRow
  <2>9. m = cal \/ \E d \in (today - cal + 1)..(today - 1) : DayLengths[d] # 24
    BY <1>3, <2>2, <2>6, <2>7, <2>8
  <2> QED
    BY <2>2, <2>5, <2>8, <2>9
<1>8. /\ ComputeLongestStreak(recent) >= m
      /\ \E end \in Days : \A d \in (end - ComputeLongestStreak(recent) + 1)..end : d \in Days /\ Practised(d)
  <2> DEFINE firsts == {e \in P : e - 24 \notin P}
             lengths == {Length(P, d, 24) : d \in firsts}
             S == {0} \cup lengths
  <2>1. \A e \in P : e \in Nat
    BY <1>1, <1>2
  <2>2. \A d \in P : Length(P, d, 24) \in Nat /\ Length(P, d, 24) <= Cardinality(P)
    <3> SUFFICES ASSUME NEW d \in P PROVE Length(P, d, 24) \in Nat /\ Length(P, d, 24) <= Cardinality(P)
      OBVIOUS
    <3>1. d \in Int
      BY <2>1
    <3> QED
      <4>1. 24 \in {24, -24}
        OBVIOUS
      <4>2. \E k \in Nat : Length(P, d, 24) = k /\ k <= Cardinality(P)
        BY <1>2, <3>1, <4>1, LengthIs
      <4> QED
        BY <4>2
  <2>3. Max(S) \in S /\ \A y \in S : Max(S) >= y
    <3>1. S \in SUBSET Int /\ S # {} /\ \A x \in S : x <= Cardinality(P)
      BY <1>2, <2>2
    <3>2. Cardinality(P) \in Int
      BY <1>2
    <3> HIDE DEF S
    <3> QED
      BY <3>1, <3>2, MaxIs
  <2>4. ComputeLongestStreak(recent) = Max(S)
    BY DEF ComputeLongestStreak, Day, P
  <2>5. Max(S) \in Nat
    BY <2>2, <2>3
  <2>6. ASSUME m = 0 PROVE ComputeLongestStreak(recent) >= m
    BY <2>5, <2>4, <2>6
  <2>7. ASSUME m # 0 PROVE ComputeLongestStreak(recent) >= m
    <3>1. PICK d : d = start - 24 * (m - 1)
      OBVIOUS
    <3>2. d \in P /\ d - 24 \notin P
      <4>1. m - 1 \in 0..(m - 1) /\ d - 24 = start - 24 * m
        BY <1>1, <2>7, <3>1
      <4> QED
        BY <1>4, <3>1, <4>1
    <3>3. d \in Int
      BY <2>1, <3>2
    <3>4. PICK k \in Nat : Length(P, d, 24) = k /\ d + k * 24 \notin P
      BY <1>2, <3>3, LengthIs
    <3>5. ~(k < m)
      <4> SUFFICES ASSUME k < m PROVE FALSE
        OBVIOUS
      <4>1. (m - 1) - k \in 0..(m - 1) /\ start - 24 * ((m - 1) - k) = d + k * 24
        BY <1>1, <2>7, <3>1
      <4> QED
        BY <1>4, <3>4, <4>1
    <3>6. k \in S
      BY <3>2, <3>4
    <3>7. Max(S) >= k /\ Max(S) \in Int
      <4>1. S \in SUBSET Int
        BY <2>2
      <4> QED
        BY <2>3, <3>6, <4>1
    <3> QED
      BY <2>4, <3>4, <3>5, <3>7
  <2>8. ComputeLongestStreak(recent) >= m
    BY <2>6, <2>7
  <2>9. \E end \in Days : \A d \in (end - Max(S) + 1)..end : d \in Days /\ Practised(d)
    <3>1. CASE Max(S) = 0
      <4>1. (today - 0 + 1)..today = {}
        BY <1>1
      <4> QED
        BY <1>1, <3>1, <4>1
    <3>2. CASE Max(S) # 0
      <4>1. PICK first \in P : Max(S) = Length(P, first, 24)
        BY <2>3, <3>2
      <4>2. PICK k \in Nat : Max(S) = k /\ \A i \in 0..(k - 1) : first + i * 24 \in P
        <5>1. first \in Int /\ 24 \in {24, -24}
          BY <2>1, <4>1
        <5> QED
          BY <1>2, <4>1, <5>1, LengthIs
      <4>3. k - 1 \in Nat /\ k - 1 \in 0..(k - 1) /\ first \in Nat
        BY <2>1, <3>2, <4>1, <4>2
      <4>4. PICK end \in Days : first + (k - 1) * 24 = Midnight[end]
        BY <1>2, <4>2, <4>3
      <4>5. Midnight[end] \in Nat /\ end \in Nat
        BY <4>4, DaysAreNumbers
      <4>6. \A i \in 0..(k - 1) : Midnight[end] - 24 * i \in P
        <5> SUFFICES ASSUME NEW i \in 0..(k - 1) PROVE Midnight[end] - 24 * i \in P
          OBVIOUS
        <5>1. (k - 1) - i \in 0..(k - 1) /\ first + ((k - 1) - i) * 24 = Midnight[end] - 24 * i
          BY <4>3, <4>4, <4>5
        <5> QED
          BY <4>2, <5>1
      <4>7. \A i \in 0..(k - 1) : i < end /\ Midnight[end - i] = Midnight[end] - 24 * i
        <5>1. \A i \in 0..(k - 1) : \E d \in Days : Midnight[end] - 24 * i = Midnight[d]
          BY <1>2, <4>6
        <5> QED
          BY <4>3, <5>1, DaysInRow
      <4>8. ASSUME NEW d \in (end - k + 1)..end PROVE d \in Days /\ Practised(d)
        <5>1. PICK i : i = end - d
          OBVIOUS
        <5>2. i \in 0..(k - 1) /\ d = end - i /\ d \in Int /\ d <= end
          BY <4>3, <4>5, <5>1
        <5>3. d \in Days
          BY <4>4, <4>5, <4>7, <5>2, MidnightIs
        <5> QED
          BY <1>2, <4>6, <4>7, <5>2, <5>3
      <4> QED
        BY <4>2, <4>8
    <3> QED
      BY <3>1, <3>2
  <2> QED
    BY <2>4, <2>8, <2>9
<1> HIDE DEF inRow
<1>9. \A d : Practised(d) <=> PractisedOn(d)
  BY DEF Practised, PractisedOn
<1>10. m <= ComputeLongestStreak(recent)
  BY <1>8
<1>11. m = CalendarStreak \/ ClocksChanged
  BY <1>7 DEF ClocksChanged, today, Day
<1> QED
  BY <1>5, <1>7, <1>8, <1>9, <1>10, <1>11 DEF StreakCounted

\* What the attempts are, of which the cached ones are the latest.
Attempts(t) == [surah : Surahs, at : 0..t]
Averages == [Surahs -> Nat \cup {None}]
ProgressInv ==
  /\ now \in Nat /\ recent \in Seq(Nat)
  /\ attempts \subseteq Attempts(now) /\ bestOf \in Averages
  /\ DOMAIN request = {"avgs", "read", "rows"} /\ request.read \in BOOLEAN
  /\ request.rows \subseteq Attempts(now)
  /\ request.avgs # <<>> => request.avgs \in Averages

LEMMA PractiseStep ==
  ASSUME ProgressInv, NEW s \in Surahs, NEW score \in Scores \cup {None}, Practise(s, score)
  PROVE  ProgressInv'
<1>1. /\ now \in Nat /\ now' = now /\ request' = request /\ recent \in Seq(Nat)
      /\ attempts' = attempts \cup {[surah |-> s, at |-> now]}
      /\ bestOf' = [bestOf EXCEPT ![s] = Max({bestOf[s], score})]
      /\ recent' = SubSeq(<<now>> \o recent, 1, Min({Len(recent) + 1, MaxAttempts}))
  BY DEF Practise, ProgressInv
<1>2. attempts' \subseteq Attempts(now')
  BY <1>1 DEF ProgressInv, Attempts
<1>3. bestOf' \in Averages
  <2>1. bestOf[s] \in Nat \cup {None} /\ score \in Nat \cup {None}
    BY ProgressConstants DEF ProgressInv, Averages
  <2>2. Max({bestOf[s], score}) \in {bestOf[s], score}
    <3>1. {bestOf[s], score} \in SUBSET Int /\ {bestOf[s], score} # {}
      BY <2>1 DEF None
    <3>2. PICK b \in Int : \A x \in {bestOf[s], score} : x <= b
      <4>1. CASE bestOf[s] <= score
        BY <3>1, <4>1
      <4>2. CASE score <= bestOf[s]
        BY <3>1, <4>2
      <4> QED
        BY <3>1, <4>1, <4>2
    <3> QED
      BY <3>1, <3>2, MaxIs
  <2> QED
    BY <1>1, <2>1, <2>2 DEF ProgressInv, Averages
<1>4. recent' \in Seq(Nat)
  <2> DEFINE m == Min({Len(recent) + 1, MaxAttempts})
             all == <<now>> \o recent
  <2>1. /\ <<now>> \in Seq(Nat) /\ Len(<<now>>) = 1
        /\ Len(recent) \in Nat /\ MaxAttempts \in Nat
    BY <1>1, LenProperties, ProgressConstants
  <2>2. all \in Seq(Nat) /\ Len(all) = 1 + Len(recent)
    BY <1>1, <2>1, ConcatProperties
  <2>3. m \in Nat /\ m <= Len(recent) + 1
    <3>1. {Len(recent) + 1, MaxAttempts} \in SUBSET Nat /\ {Len(recent) + 1, MaxAttempts} # {}
      BY <2>1
    <3>2. m \in {Len(recent) + 1, MaxAttempts} /\ \A y \in {Len(recent) + 1, MaxAttempts} : m <= y
      BY <3>1, MinIs
    <3> QED
      BY <3>1, <3>2
  <2> HIDE DEF m, all
  <2>4. \A i \in 1..m : all[i] \in Nat
    <3>1. \A i \in 1..m : i \in 1..Len(all)
      BY <2>1, <2>2, <2>3
    <3> QED
      BY <2>2, <3>1, ElementOfSeq
  <2>5. SubSeq(all, 1, m) \in Seq(Nat)
    BY <2>3, <2>4, SubSeqProperties
  <2> QED
    BY <1>1, <2>5 DEF m, all
<1> QED
  BY <1>1, <1>2, <1>3, <1>4 DEF ProgressInv

LEMMA WaitStep == ProgressInv /\ Wait => ProgressInv'
<1> SUFFICES ASSUME ProgressInv, Wait PROVE ProgressInv'
  OBVIOUS
<1> DEFINE later == {t \in Moments : t > now}
<1>1. now \in Nat /\ UNCHANGED <<attempts, bestOf, recent, request>> /\ now' = Min(later) /\ later # {}
  BY DEF Wait, ProgressInv
<1>2. later \in SUBSET Nat
  <2>1. {1, Len(DayLengths)} \subseteq Days
    BY MidnightIs
  <2>2. \A d \in Days : Midnight[d] \in Nat /\ Midnight[d] + 12 \in Nat
    BY DaysAreNumbers
  <2> QED
    BY <2>1, <2>2 DEF Moments
<1>3. Min(later) \in later
  <2> HIDE DEF later
  <2> QED
    BY <1>1, <1>2, MinIs
<1>4. now' \in Nat /\ now <= now'
  BY <1>1, <1>2, <1>3
<1>5. Attempts(now) \subseteq Attempts(now')
  BY <1>1, <1>4 DEF Attempts
<1> QED
  BY <1>1, <1>4, <1>5 DEF ProgressInv

LEMMA ProgressSteps == ProgressInv /\ [Next]_vars => ProgressInv'
<1> SUFFICES ASSUME ProgressInv, [Next]_vars PROVE ProgressInv'
  OBVIOUS
<1>1. CASE UNCHANGED progressVars
  BY <1>1 DEF progressVars, ProgressInv
<1>2. CASE ReadAverages
  <2>1. /\ request' = [request EXCEPT !.avgs = bestOf]
        /\ UNCHANGED <<now, attempts, bestOf, recent>>
    BY <1>2 DEF ReadAverages
  <2> QED
    BY <2>1 DEF ProgressInv
<1>3. CASE ReadLastAttempts
  <2>1. /\ request' = [request EXCEPT !.read = TRUE, !.rows = attempts]
        /\ UNCHANGED <<now, attempts, bestOf, recent>>
    BY <1>3 DEF ReadLastAttempts
  <2> QED
    BY <2>1 DEF ProgressInv
<1>4. CASE GetSuggestion
  BY <1>4 DEF GetSuggestion, NoRequest, ProgressInv
<1> QED
  BY <1>1, <1>2, <1>3, <1>4, PractiseStep, WaitStep DEF Next, NextProgress, vars

LEMMA InitProgressInv == Init => ProgressInv
<1> SUFFICES ASSUME Init PROVE ProgressInv
  OBVIOUS
<1>1. /\ now = 0 /\ attempts = {} /\ bestOf = [s \in Surahs |-> None] /\ recent = <<>>
      /\ request = [avgs |-> <<>>, read |-> FALSE, rows |-> {}]
  BY DEF Init, InitProgress, NoRequest
<1>2. recent \in Seq(Nat)
  BY <1>1, EmptySeq
<1> QED
  BY <1>1, <1>2 DEF ProgressInv, Averages

\* The streak shown is that of the calendar unless the clocks changed within it, and
\* neither streak counts a day too many, however long the days are (computeStreak
\* and computeLongestStreak of historyStats.ts).
THEOREM StreaksAreCounted == Spec => []StreakCounted
<1>1. ProgressInv => StreakCounted
  <2> SUFFICES ASSUME ProgressInv PROVE StreakCounted
    OBVIOUS
  <2>1. now \in Nat /\ recent \in Seq(Nat)
    BY DEF ProgressInv
  <2>2. PICK t \in Nat, times \in Seq(Nat) : recent = times /\ now = t
    BY <2>1
  <2> QED
    BY <2>2, StreakIs
<1> QED
  BY <1>1, InitProgressInv, ProgressSteps, PTL DEF Spec

-----------------------------------------------------------------------------
(* The suggestion.                                                          *)

\* The last attempt at a surah is the latest, or None if there is none.
LEMMA LastIs ==
  ASSUME NEW t \in Nat, NEW taken, taken \subseteq Attempts(t), NEW s \in Surahs
  PROVE  /\ LastAttempts(taken)[s] \in 0..t \cup {None}
         /\ LastAttempts(taken)[s] # None => \E a \in taken : a.surah = s /\ a.at = LastAttempts(taken)[s]
         /\ \A a \in taken : a.surah = s => a.at <= LastAttempts(taken)[s] /\ LastAttempts(taken)[s] # None
<1> DEFINE times == {a.at : a \in {b \in taken : b.surah = s}}
           S == {None} \cup times
<1>1. times \subseteq 0..t
  BY DEF Attempts
<1>2. Max(S) \in S /\ \A y \in S : Max(S) >= y
  <2>1. S \in SUBSET Int /\ S # {} /\ t \in Int /\ \A x \in S : x <= t
    BY <1>1 DEF None
  <2> HIDE DEF S
  <2> QED
    BY <2>1, MaxIs
<1>3. LastAttempts(taken)[s] = Max(S)
  BY DEF LastAttempts
<1>4. PICK m : m = Max(S)
  OBVIOUS
<1>5. m \in {None} \cup times /\ m \in 0..t \cup {None}
  BY <1>1, <1>2, <1>4
<1>6. m # None => \E a \in taken : a.surah = s /\ a.at = m
  BY <1>5
<1>7. \A a \in taken : a.surah = s => a.at <= m /\ m # None
  <2> SUFFICES ASSUME NEW a \in taken, a.surah = s PROVE a.at <= m /\ m # None
    OBVIOUS
  <2>1. a.at \in S /\ a.at \in 0..t
    BY <1>1
  <2>2. m >= a.at
    BY <1>2, <1>4, <2>1
  <2> QED
    BY <1>5, <2>1, <2>2 DEF None
<1> QED
  BY <1>3, <1>4, <1>5, <1>6, <1>7

\* Of some surahs one is the weakest, though they need not be finitely many.
LEMMA WeakestIs ==
  ASSUME NEW surahs \in SUBSET Surahs, surahs # {}, NEW avgs \in Averages
  PROVE  Weakest(surahs, avgs) \in surahs
<1> DEFINE Weaker(s, r) == \/ avgs[s] # None /\ (avgs[r] = None \/ avgs[s] < avgs[r])
                           \/ avgs[s] = avgs[r] /\ s < r
           scored == {s \in surahs : avgs[s] # None}
<1>1. /\ surahs \in SUBSET Nat
      /\ \A s \in surahs : avgs[s] \in Nat \cup {None}
  BY ProgressConstants DEF Averages
<1>2. PICK low \in SUBSET surahs :
        /\ low # {}
        /\ \A s, r \in low : avgs[s] = avgs[r]
        /\ \A s \in low, r \in surahs \ low : avgs[s] # None /\ (avgs[r] = None \/ avgs[s] < avgs[r])
  <2>1. CASE scored = {}
    <3>1. \A s, r \in surahs : avgs[s] = avgs[r]
      BY <2>1
    <3> QED
      BY <3>1
  <2>2. CASE scored # {}
    <3> DEFINE marks == {avgs[s] : s \in scored}
    <3>1. marks \in SUBSET Nat /\ marks # {}
      BY <1>1, <2>2
    <3>2. PICK least \in marks : \A x \in marks : least <= x
      <4> HIDE DEF marks
      <4> QED
        BY <3>1, Least
    <3> DEFINE low == {s \in surahs : avgs[s] = least}
    <3>3. low # {} /\ low \in SUBSET surahs /\ \A s, r \in low : avgs[s] = avgs[r]
      BY <3>2
    <3>4. ASSUME NEW s \in low, NEW r \in surahs \ low, avgs[r] # None PROVE avgs[s] < avgs[r]
      <4>1. avgs[r] \in marks /\ avgs[r] # least /\ avgs[s] = least
        BY <3>4
      <4> QED
        BY <3>1, <3>2, <4>1
    <3>5. \A s \in low : avgs[s] # None
      BY <3>1, <3>2 DEF None
    <3> QED
      BY <3>3, <3>4, <3>5
  <2> QED
    BY <2>1, <2>2
<1>3. PICK s \in low : \A r \in low : s <= r
  <2>1. low \in SUBSET Nat /\ low # {}
    BY <1>1, <1>2
  <2> QED
    BY <2>1, Least
<1>4. \A r \in surahs \ {s} : Weaker(s, r)
  <2> SUFFICES ASSUME NEW r \in surahs \ {s} PROVE Weaker(s, r)
    OBVIOUS
  <2>1. CASE r \in low
    <3>1. s <= r /\ s # r /\ s \in Nat /\ r \in Nat /\ avgs[s] = avgs[r]
      BY <1>1, <1>2, <1>3, <2>1
    <3> QED
      BY <3>1
  <2>2. CASE r \notin low
    BY <1>2, <1>3, <2>2
  <2> QED
    BY <2>1, <2>2
<1>5. \E x \in surahs : \A r \in surahs \ {x} : Weaker(x, r)
  BY <1>2, <1>3, <1>4
<1> QED
  BY <1>5 DEF Weakest

\* The surahs that may be suggested are those that were not practised within the window.
LEMMA RestedIs ==
  ASSUME NEW t \in Nat, NEW taken, taken \subseteq Attempts(t)
  PROVE  Unpracticed(LastAttempts(taken)) \cup Lapsed(LastAttempts(taken), t)
         = {s \in ShortMeccan : \A a \in taken : a.surah = s => a.at < t - RecentWindow}
<1> DEFINE lasts == LastAttempts(taken)
<1>1. RecentWindow \in Nat /\ ShortMeccan \subseteq Surahs /\ \A a \in taken : a.at \in 0..t
  BY ProgressConstants DEF Attempts
<1>2. ASSUME NEW s \in ShortMeccan
      PROVE  (lasts[s] = None \/ lasts[s] < t - RecentWindow)
             <=> \A a \in taken : a.surah = s => a.at < t - RecentWindow
  <2>1. /\ lasts[s] \in 0..t \cup {None}
        /\ lasts[s] # None => \E a \in taken : a.surah = s /\ a.at = lasts[s]
        /\ \A a \in taken : a.surah = s => a.at <= lasts[s] /\ lasts[s] # None
    BY <1>1, LastIs
  <2> HIDE DEF lasts
  <2>2. CASE lasts[s] = None
    BY <2>1, <2>2
  <2>3. CASE lasts[s] # None
    <3>1. lasts[s] \in 0..t
      BY <2>1, <2>3
    <3>2. ASSUME lasts[s] < t - RecentWindow, NEW a \in taken, a.surah = s PROVE a.at < t - RecentWindow
      <4>1. a.at <= lasts[s] /\ a.at \in 0..t
        BY <1>1, <2>1, <3>2
      <4> QED
        BY <1>1, <3>1, <3>2, <4>1
    <3>3. ASSUME \A a \in taken : a.surah = s => a.at < t - RecentWindow PROVE lasts[s] < t - RecentWindow
      BY <2>1, <2>3, <3>3
    <3> QED
      BY <2>3, <3>2, <3>3
  <2> QED
    BY <2>2, <2>3
<1>3. \A s \in ShortMeccan : s \in Unpracticed(lasts) \cup Lapsed(lasts, t)
                             <=> lasts[s] = None \/ lasts[s] < t - RecentWindow
  BY DEF Unpracticed, Lapsed
<1>4. Unpracticed(lasts) \cup Lapsed(lasts, t) \subseteq ShortMeccan
  BY DEF Unpracticed, Lapsed
<1> HIDE DEF lasts
<1>5. Unpracticed(lasts) \cup Lapsed(lasts, t)
      = {s \in ShortMeccan : \A a \in taken : a.surah = s => a.at < t - RecentWindow}
  BY <1>2, <1>3, <1>4
<1> QED
  BY <1>5 DEF lasts

\* Whatever was practised and scored while the BFF read the two tables, it
\* suggests a surah that rested for the window, and another one only if none did
\* (getSuggestion and composeSuggestion of suggestions.ts).
THEOREM SuggestsRested == Spec => SuggestionRested
<1> DEFINE rested == {s \in ShortMeccan : \A a \in request.rows : a.surah = s => a.at < now - RecentWindow}
           Rests == request.read /\ ~request'.read =>
                      /\ suggestion'.reason # "fallback" => suggestion'.surah \in rested
                      /\ suggestion'.reason = "fallback" => rested = {}
<1>1. ProgressInv /\ [Next]_vars => [Rests]_progressVars
  <2> SUFFICES ASSUME ProgressInv, NextProgress, request.read, ~request'.read
               PROVE  /\ suggestion'.reason # "fallback" => suggestion'.surah \in rested
                      /\ suggestion'.reason = "fallback" => rested = {}
    BY DEF Next, vars
  <2>1. GetSuggestion
    <3>1. ~ReadAverages
      BY DEF ReadAverages, ProgressInv
    <3>2. ~ReadLastAttempts
      BY DEF ReadLastAttempts
    <3>3. request' # request
      OBVIOUS
    <3> QED
      BY <3>1, <3>2, <3>3 DEF NextProgress, Practise, Wait
  <2>2. PICK avgs, lasts : avgs = request.avgs /\ lasts = LastAttempts(request.rows)
    OBVIOUS
  <2>3. suggestion' = ComposeSuggestion(avgs, lasts, now) /\ avgs \in Averages
    BY <2>1, <2>2 DEF GetSuggestion, ProgressInv
  <2>4. Unpracticed(lasts) \cup Lapsed(lasts, now) = rested
    <3>1. now \in Nat /\ request.rows \subseteq Attempts(now)
      BY DEF ProgressInv
    <3> QED
      BY <2>2, <3>1, RestedIs
  <2>5. Unpracticed(lasts) \in SUBSET Nat /\ Lapsed(lasts, now) \in SUBSET Surahs
    BY ProgressConstants DEF Unpracticed, Lapsed
  <2> HIDE DEF rested
  <2>6. CASE Unpracticed(lasts) # {}
    <3>1. Min(Unpracticed(lasts)) \in Unpracticed(lasts)
      BY <2>5, <2>6, MinIs
    <3>2. suggestion' = [surah |-> Min(Unpracticed(lasts)), reason |-> "short_unpracticed"]
      BY <2>3, <2>6 DEF ComposeSuggestion
    <3> QED
      BY <2>4, <3>1, <3>2
  <2>7. CASE Unpracticed(lasts) = {} /\ Lapsed(lasts, now) # {}
    <3>1. Weakest(Lapsed(lasts, now), avgs) \in Lapsed(lasts, now)
      BY <2>3, <2>5, <2>7, WeakestIs
    <3>2. suggestion' = [surah |-> Weakest(Lapsed(lasts, now), avgs), reason |-> "short_low_score"]
      BY <2>3, <2>7 DEF ComposeSuggestion
    <3> QED
      BY <2>4, <3>1, <3>2
  <2>8. CASE Unpracticed(lasts) = {} /\ Lapsed(lasts, now) = {}
    <3>1. suggestion'.reason = "fallback"
      BY <2>3, <2>8 DEF ComposeSuggestion
    <3> QED
      BY <2>4, <2>8, <3>1
  <2> QED
    BY <2>6, <2>7, <2>8
<1> QED
  BY <1>1, InitProgressInv, ProgressSteps, PTL DEF Spec, SuggestionRested

-----------------------------------------------------------------------------
(* The cards of the home page.                                              *)

HomeInv == announced \in Nat /\ CardsAgree

\* A suggestion of the page's own is another surah than the one to continue.
LEMMA OwnSuggestion ==
  ASSUME NEW surah, ShortMeccan \ {surah} # {}
  PROVE  Min(ShortMeccan \ {surah}) # surah
<1>1. ShortMeccan \ {surah} \in SUBSET Nat
  BY ProgressConstants
<1>2. Min(ShortMeccan \ {surah}) \in ShortMeccan \ {surah}
  BY <1>1, MinIs
<1> QED
  BY <1>2

\* What is left of CardsAgree to be shown after a step.
LEMMA CardsAreOne ==
  ASSUME announced' \in Nat, NEW v,
         CardsShown' => /\ \A c \in Cards : cards'[c] = v
                        /\ announced' = 0 /\ silent' \cap Cards = {} => v = GetLastPracticed',
         announced' = 0 /\ "nav" \notin silent' => nav' = GetLastPracticed'
  PROVE  HomeInv'
<1>1. "continue" \in Cards /\ "suggested" \in Cards
  BY DEF Cards
<1>2. ShortMeccan \ {v} # {} /\ offered' = None => PickSuggestion(v)' # v
  BY OwnSuggestion DEF PickSuggestion
<1> QED
  BY <1>1, <1>2 DEF HomeInv, CardsAgree, PickSuggestion

LEMMA HomeSteps == HomeInv /\ [Next]_vars => HomeInv'
<1> SUFFICES ASSUME HomeInv, [Next]_vars PROVE HomeInv'
  OBVIOUS
<1>1. /\ announced \in Nat /\ "nav" \notin Cards /\ "nav" \in Readers /\ Cards \subseteq Readers
      /\ announced = 0 /\ "nav" \notin silent => nav = GetLastPracticed
  BY DEF HomeInv, CardsAgree, Cards, Readers
<1>2. PICK v : v = cards["continue"]
  OBVIOUS
<1>3. CardsShown => /\ \A c \in Cards : cards[c] = v
                    /\ announced = 0 /\ silent \cap Cards = {} => v = GetLastPracticed
  BY <1>2 DEF HomeInv, CardsAgree, Cards
<1>4. PICK w : w = GetLastPracticed'
  OBVIOUS
<1>5. CASE UNCHANGED homeVars
  BY <1>5 DEF homeVars, HomeInv, CardsAgree, CardsShown, GetLastPracticed, PickSuggestion
<1>6. CASE Visit \/ Retry
  <2>1. /\ cards' = [c \in Cards |-> w] /\ silent' = silent \ Cards
        /\ UNCHANGED <<gate, last, announced, nav>>
    BY <1>4, <1>6 DEF Visit, Retry, Mount, ReadBy, BuildSnapshot, GetLastPracticed
  <2> QED
    BY <1>1, <1>4, <2>1, CardsAreOne DEF GetLastPracticed
<1>7. CASE Leave
  <2>1. ~CardsShown' /\ UNCHANGED <<gate, last, announced, nav, silent>>
    BY <1>7 DEF Leave, CardsShown
  <2> QED
    BY <1>1, <2>1, CardsAreOne DEF GetLastPracticed
<1>8. CASE WriteHere
  <2>1. silent' = Readers /\ UNCHANGED <<announced, cards, page, loaded>>
    BY <1>8 DEF WriteHere
  <2>2. "nav" \in silent' /\ silent' \cap Cards # {}
    BY <1>1, <2>1 DEF Cards
  <2>3. CardsShown' => CardsShown
    BY <2>1 DEF CardsShown
  <2> QED
    BY <1>1, <1>3, <2>1, <2>2, <2>3, CardsAreOne
<1>9. CASE WriteElsewhere
  <2>1. announced' = announced + 1 /\ announced' \in Nat /\ announced' # 0 /\ UNCHANGED <<cards, page, loaded>>
    BY <1>1, <1>9 DEF WriteElsewhere
  <2>2. CardsShown' => CardsShown
    BY <2>1 DEF CardsShown
  <2> QED
    BY <1>3, <2>1, <2>2, CardsAreOne
<1>10. CASE OnStorage
  <2>1. announced' \in Nat /\ nav' = w /\ (CardsShown' => CardsShown)
    BY <1>1, <1>4, <1>10 DEF OnStorage, GetLastPracticed, CardsShown
  <2>2. CardsShown => \A c \in Cards : cards'[c] = w
    BY <1>4, <1>10 DEF OnStorage, Followers, ReadBy, BuildSnapshot, GetLastPracticed
  <2> QED
    BY <1>4, <2>1, <2>2, CardsAreOne
<1>11. CASE SignOutHere
  <2>1. announced' = announced /\ last' = None /\ w = None
    BY <1>4, <1>11 DEF SignOutHere, Write, GetLastPracticed
  <2>2. CASE page = "home"
    <3>1. silent' = Readers /\ UNCHANGED <<page, loaded, cards>>
      BY <1>11, <2>2 DEF SignOutHere
    <3>2. "nav" \in silent' /\ silent' \cap Cards # {}
      BY <1>1, <3>1 DEF Cards
    <3>3. CardsShown' => CardsShown
      BY <3>1 DEF CardsShown
    <3> QED
      BY <1>1, <1>3, <2>1, <3>1, <3>2, <3>3, CardsAreOne
  <2>3. CASE page # "home"
    <3>1. "nav" \in silent' /\ cards' = [c \in Cards |-> w]
      BY <1>11, <2>1, <2>3 DEF SignOutHere
    <3> QED
      BY <1>1, <1>4, <2>1, <3>1, CardsAreOne
  <2> QED
    BY <2>2, <2>3
<1>12. CASE SessionGone
  <2>1. /\ w = None /\ "nav" \in silent' /\ announced' = announced /\ page' = page
        /\ IF loaded THEN cards' = cards /\ silent' = Readers ELSE cards' = [c \in Cards |-> None]
    BY <1>1, <1>4, <1>12 DEF SessionGone, GetLastPracticed
  <2>2. CASE loaded
    <3>1. silent' \cap Cards # {} /\ (CardsShown' => CardsShown)
      BY <1>1, <2>1, <2>2 DEF Cards, CardsShown
    <3> QED
      BY <1>1, <1>3, <2>1, <2>2, <3>1, CardsAreOne
  <2>3. CASE ~loaded
    BY <1>1, <1>4, <2>1, <2>3, CardsAreOne
  <2> QED
    BY <2>2, <2>3
<1>13. CASE SignInHere
  <2>1. nav' = w /\ cards' = [c \in Cards |-> w] /\ announced' = announced
    BY <1>4, <1>13 DEF SignInHere, Write, GetLastPracticed
  <2> QED
    BY <1>1, <1>4, <2>1, CardsAreOne
<1> QED
  BY <1>5, <1>6, <1>7, <1>8, <1>9, <1>10, <1>11, <1>12, <1>13 DEF Next, NextHome, vars

LEMMA InitHomeInv == Init => HomeInv
<1> SUFFICES ASSUME Init PROVE HomeInv
  OBVIOUS
<1>1. announced = 0 /\ ~CardsShown /\ nav = GetLastPracticed
  BY DEF Init, InitHome, CardsShown
<1> QED
  BY <1>1 DEF HomeInv, CardsAgree

-----------------------------------------------------------------------------
(* The history list.                                                        *)

PastRow == [surah : Chapters, score : Nat, at : Nat]
Newest(list) == \A i, j \in 1..Len(list) : i < j => list[i].at >= list[j].at

\* Listed goes through the rows, and keeps the ones of the filter in their order.
ListedBy(first, list, chosen) ==
  /\ first \in [0..Len(list) -> Seq(PastRow)]
  /\ Listed(list, chosen) = first[Len(list)]
  /\ \A n \in 0..Len(list) :
       first[n] = IF n = 0 THEN <<>>
                  ELSE IF list[n].surah \in chosen THEN Append(first[n - 1], list[n]) ELSE first[n - 1]

LEMMA ListedSteps ==
  ASSUME NEW list \in Seq(PastRow), NEW chosen
  PROVE  \E first : ListedBy(first, list, chosen)
<1> DEFINE L == Len(list)
           Steps(f, n) == IF n = 0 THEN <<>>
                          ELSE IF list[n].surah \in chosen THEN Append(f[n - 1], list[n]) ELSE f[n - 1]
           Follows(f, m) == \A n \in 0..m : f[n] = Steps(f, n)
           Bad == {m \in 0..L : ~\E f \in [0..m -> Seq(PastRow)] : Follows(f, m)}
<1>1. L \in Nat /\ \A n \in 1..L : list[n] \in PastRow
  BY LenProperties, ElementOfSeq
<1> HIDE DEF L
<1>2. Bad = {}
  <2> SUFFICES ASSUME Bad # {} PROVE FALSE
    OBVIOUS
  <2>1. PICK m \in Bad : \A k \in Bad : m <= k
    <3>1. Bad \in SUBSET Nat
      BY <1>1
    <3> HIDE DEF Bad
    <3> QED
      BY <3>1, Least
  <2>2. m \in 0..L /\ ~\E f \in [0..m -> Seq(PastRow)] : Follows(f, m)
    BY <2>1
  <2>3. CASE m = 0
    <3> DEFINE g == [n \in 0..m |-> <<>>]
    <3>1. g \in [0..m -> Seq(PastRow)]
      BY EmptySeq
    <3>2. Follows(g, m)
      BY <2>3
    <3> QED
      BY <2>2, <3>1, <3>2
  <2>4. CASE m # 0
    <3>1. m \in 1..L /\ m - 1 \in 0..L /\ ~(m <= m - 1)
      BY <1>1, <2>2, <2>4
    <3>2. PICK f \in [0..(m - 1) -> Seq(PastRow)] : Follows(f, m - 1)
      <4>1. m - 1 \notin Bad
        BY <2>1, <3>1
      <4> QED
        BY <3>1, <4>1
    <3> DEFINE g == [n \in 0..m |-> IF n = m THEN Steps(f, m) ELSE f[n]]
    <3>3. Steps(f, m) \in Seq(PastRow)
      <4>1. f[m - 1] \in Seq(PastRow) /\ list[m] \in PastRow
        BY <1>1, <3>1, <3>2
      <4>2. Append(f[m - 1], list[m]) \in Seq(PastRow)
        BY <4>1, AppendProperties
      <4> QED
        BY <3>1, <4>1, <4>2
    <3>4. g \in [0..m -> Seq(PastRow)]
      <4>1. \A n \in 0..m : n = m \/ n \in 0..(m - 1)
        BY <3>1
      <4> HIDE DEF Steps
      <4> QED
        BY <3>2, <3>3, <4>1
    <3>5. Follows(g, m)
      <4> SUFFICES ASSUME NEW n \in 0..m PROVE g[n] = Steps(g, n)
        OBVIOUS
      <4>1. n # 0 => n - 1 \in 0..m /\ n - 1 # m /\ g[n - 1] = f[n - 1]
        BY <3>1
      <4>2. Steps(g, n) = Steps(f, n)
        BY <4>1
      <4>3. CASE n = m
        <5> HIDE DEF Steps
        <5> QED
          BY <4>2, <4>3
      <4>4. CASE n # m
        <5>1. n \in 0..(m - 1)
          BY <3>1, <4>4
        <5>2. f[n] = Steps(f, n)
          BY <3>2, <5>1
        <5> HIDE DEF Steps
        <5> QED
          BY <4>2, <4>4, <5>2
      <4> QED
        BY <4>3, <4>4
    <3> QED
      BY <2>2, <3>4, <3>5
  <2> QED
    BY <2>3, <2>4
<1>3. PICK f \in [0..L -> Seq(PastRow)] : Follows(f, L)
  <2> SUFFICES ASSUME ~\E f \in [0..L -> Seq(PastRow)] : Follows(f, L) PROVE FALSE
    OBVIOUS
  <2>1. L \in Bad
    BY <1>1
  <2> QED
    BY <1>2, <2>1
<1>4. f = [n \in 0..L |-> Steps(f, n)]
  <2> HIDE DEF Steps
  <2> QED
    BY <1>3
<1> DEFINE F == CHOOSE h : h = [n \in 0..L |-> Steps(h, n)]
<1>5. F = [n \in 0..L |-> Steps(F, n)]
  <2>1. \E h : h = [n \in 0..L |-> Steps(h, n)]
    BY <1>4
  <2> HIDE DEF Steps
  <2> QED
    BY <2>1, Zenon
<1>6. Listed(list, chosen) = F[L]
  BY Zenon DEF Listed, L
<1> HIDE DEF F
<1>7. \A n \in 0..L : F[n] = f[n]
  <2> DEFINE Differ == {n \in 0..L : F[n] # f[n]}
  <2> SUFFICES ASSUME Differ # {} PROVE FALSE
    OBVIOUS
  <2>1. PICK n \in Differ : \A k \in Differ : n <= k
    <3>1. Differ \in SUBSET Nat
      BY <1>1
    <3> HIDE DEF Differ
    <3> QED
      BY <3>1, Least
  <2>2. n \in 0..L /\ F[n] # f[n]
    BY <2>1
  <2>3. F[n] = Steps(F, n) /\ f[n] = Steps(f, n)
    <3> HIDE DEF Steps
    <3> QED
      BY <1>3, <1>5, <2>2
  <2>4. n # 0 => F[n - 1] = f[n - 1]
    <3>1. n # 0 => n - 1 \in 0..L /\ ~(n <= n - 1)
      BY <1>1, <2>2
    <3> QED
      BY <2>1, <3>1
  <2> QED
    BY <2>2, <2>3, <2>4
<1>8. L \in 0..L
  BY <1>1
<1> QED
  BY <1>3, <1>6, <1>7, <1>8 DEF L, ListedBy

LEMMA ListedIs ==
  ASSUME NEW list \in Seq(PastRow), Newest(list), NEW chosen
  PROVE  /\ Listed(list, chosen) \in Seq(PastRow) /\ Newest(Listed(list, chosen))
         /\ (\A i \in 1..Len(list) : list[i].surah \in chosen) => Listed(list, chosen) = list
         /\ (\E i \in 1..Len(list) : list[i].surah \in chosen) => Listed(list, chosen) # <<>>
<1> DEFINE L == Len(list)
<1> DEFINE kept(i) == list[i].surah \in chosen
<1>1. PICK first : ListedBy(first, list, chosen)
  BY ListedSteps
<1>2. /\ first \in [0..L -> Seq(PastRow)] /\ Listed(list, chosen) = first[L]
      /\ \A n \in 0..L : first[n] = IF n = 0 THEN <<>>
                                    ELSE IF kept(n) THEN Append(first[n - 1], list[n]) ELSE first[n - 1]
  BY <1>1 DEF ListedBy
<1>3. L \in Nat /\ \A n \in 1..L : list[n] \in PastRow /\ list[n].at \in Nat
  <2>1. L \in Nat /\ \A n \in 1..L : list[n] \in PastRow
    BY LenProperties, ElementOfSeq
  <2> QED
    BY <2>1 DEF PastRow
<1>4. \A i, j \in 1..L : i < j => list[i].at >= list[j].at
  BY DEF Newest
<1>5. \A n \in 0..L : first[n] \in Seq(PastRow) /\ Len(first[n]) \in Nat
  <2>1. \A n \in 0..L : first[n] \in Seq(PastRow)
    BY <1>2
  <2> QED
    BY <2>1, LenProperties
<1> HIDE DEF L
<1> DEFINE
      Good(n) == /\ Newest(first[n])
                 /\ \A k \in 1..Len(first[n]), j \in (n + 1)..L : first[n][k].at >= list[j].at
                 /\ (\A i \in 1..n : kept(i)) => Len(first[n]) = n /\ \A k \in 1..n : first[n][k] = list[k]
                 /\ (\E i \in 1..n : kept(i)) => Len(first[n]) # 0
      Bad == {n \in 0..L : ~Good(n)}
<1>6. Bad = {}
  <2> SUFFICES ASSUME Bad # {} PROVE FALSE
    OBVIOUS
  <2>1. PICK n \in Bad : \A k \in Bad : n <= k
    <3>1. Bad \in SUBSET Nat
      BY <1>3
    <3> HIDE DEF Bad
    <3> QED
      BY <3>1, Least
  <2>2. n \in 0..L /\ ~Good(n)
    BY <2>1
  <2>3. CASE n = 0
    <3>1. Len(first[n]) = 0
      BY <1>2, <2>2, <2>3, EmptySeq
    <3> QED
      BY <2>2, <2>3, <3>1 DEF Newest
  <2>4. CASE n # 0
    <3>1. n \in 1..L /\ n - 1 \in 0..L /\ ~(n <= n - 1)
      BY <1>3, <2>2, <2>4
    <3>2. Good(n - 1)
      BY <2>1, <3>1
    <3> PICK p, q : p = first[n - 1] /\ q = first[n]
      OBVIOUS
    <3>3. /\ p \in Seq(PastRow) /\ Len(p) \in Nat /\ Newest(p)
          /\ \A k \in 1..Len(p), j \in ((n - 1) + 1)..L : p[k].at >= list[j].at
          /\ (\A i \in 1..(n - 1) : kept(i)) => Len(p) = n - 1 /\ \A k \in 1..(n - 1) : p[k] = list[k]
          /\ (\E i \in 1..(n - 1) : kept(i)) => Len(p) # 0
      BY <1>5, <3>1, <3>2
    <3>4. q = IF kept(n) THEN Append(p, list[n]) ELSE p
      <4>1. first[n] = IF n = 0 THEN <<>>
                       ELSE IF kept(n) THEN Append(first[n - 1], list[n]) ELSE first[n - 1]
        BY <1>2, <2>2
      <4> QED
        BY <2>4, <4>1
    <3>5. \A k \in 1..Len(p) : \A j \in n..L : p[k].at >= list[j].at
      <4>1. (n - 1) + 1 = n
        BY <1>3, <3>1
      <4>2. \A k \in 1..Len(p), j \in ((n - 1) + 1)..L : p[k].at >= list[j].at
        BY <3>3
      <4> QED
        BY <4>1, <4>2
    <3>6. \A i \in 1..n : i = n \/ i \in 1..(n - 1)
      BY <3>1
    <3>7. CASE kept(n)
      <4>1. /\ Len(q) = Len(p) + 1 /\ q[Len(p) + 1] = list[n]
            /\ \A k \in 1..Len(p) : q[k] = p[k]
        BY <1>3, <3>1, <3>3, <3>4, <3>7, AppendProperties
      <4>2. \A k \in 1..Len(q) : k \in 1..Len(p) \/ k = Len(p) + 1
        BY <3>3, <4>1
      <4>3. Newest(q)
        <5> SUFFICES ASSUME NEW i \in 1..Len(q), NEW j \in 1..Len(q), i < j PROVE q[i].at >= q[j].at
          BY DEF Newest
        <5>1. i \in 1..Len(p)
          BY <3>3, <4>1, <4>2
        <5>2. CASE j \in 1..Len(p)
          BY <3>3, <4>1, <5>1, <5>2 DEF Newest
        <5>3. CASE j = Len(p) + 1
          <6>1. n \in n..L
            BY <3>1
          <6>2. p[i].at >= list[n].at
            BY <3>5, <5>1, <6>1
          <6> QED
            BY <4>1, <5>1, <5>3, <6>2
        <5> QED
          BY <4>2, <5>2, <5>3
      <4>4. ASSUME NEW k \in 1..Len(q), NEW j \in (n + 1)..L PROVE q[k].at >= list[j].at
        <5>1. j \in n..L /\ j \in 1..L /\ n < j
          BY <3>1
        <5>2. CASE k \in 1..Len(p)
          BY <3>5, <4>1, <5>1, <5>2
        <5>3. CASE k = Len(p) + 1
          BY <1>4, <3>1, <4>1, <5>1, <5>3
        <5> QED
          BY <4>2, <5>2, <5>3
      <4>5. ASSUME \A i \in 1..n : kept(i) PROVE Len(q) = n /\ \A k \in 1..n : q[k] = list[k]
        <5>1. \A i \in 1..(n - 1) : kept(i)
          BY <3>1, <4>5
        <5>2. Len(p) = n - 1 /\ \A k \in 1..(n - 1) : p[k] = list[k]
          BY <3>3, <5>1
        <5>3. Len(q) = n /\ q[n] = list[n]
          BY <3>1, <4>1, <5>2
        <5> QED
          BY <3>6, <4>1, <5>2, <5>3
      <4>6. Len(q) # 0
        BY <3>3, <4>1
      <4> QED
        BY <2>2, <4>3, <4>4, <4>5, <4>6
    <3>8. CASE ~kept(n)
      <4>1. q = p
        BY <3>4, <3>8
      <4>2. \A k \in 1..Len(p), j \in (n + 1)..L : p[k].at >= list[j].at
        <5>1. \A j \in (n + 1)..L : j \in n..L
          BY <3>1
        <5> QED
          BY <3>5, <5>1
      <4>3. ~\A i \in 1..n : kept(i)
        BY <3>1, <3>8
      <4>4. (\E i \in 1..n : kept(i)) => Len(p) # 0
        BY <3>3, <3>6, <3>8
      <4> QED
        BY <2>2, <3>3, <4>1, <4>2, <4>3, <4>4
    <3> QED
      BY <3>7, <3>8
  <2> QED
    BY <2>3, <2>4
<1>7. Good(L)
  <2>1. L \in 0..L
    BY <1>3
  <2> QED
    BY <1>6, <2>1
<1> PICK q : q = first[L]
  OBVIOUS
<1>8. /\ q \in Seq(PastRow) /\ Listed(list, chosen) = q /\ Newest(q)
      /\ (\A i \in 1..L : kept(i)) => Len(q) = L /\ \A k \in 1..L : q[k] = list[k]
      /\ (\E i \in 1..L : kept(i)) => Len(q) # 0
  <2>1. L \in 0..L
    BY <1>3
  <2> QED
    BY <1>2, <1>5, <1>7, <2>1
<1>9. (\A i \in 1..L : kept(i)) => q = list
  BY <1>8, SeqEqual DEF L
<1>10. (\E i \in 1..L : kept(i)) => q # <<>>
  BY <1>8, EmptySeq
<1> QED
  BY <1>8, <1>9, <1>10 DEF L

\* The order by score starts with the attempt of the Best tile.
LEMMA ByScoreIs ==
  ASSUME NEW list \in Seq(PastRow)
  PROVE  /\ BestAttempt(list) = {ByScore(list)[i] : i \in {k \in DOMAIN ByScore(list) : k = 1 /\ ByScore(list)[k].score > 0}}
         /\ DOMAIN ByScore(list) = DOMAIN list
<1> DEFINE n == Len(list)
           Before(i, j) == list[i].score > list[j].score \/ (list[i].score = list[j].score /\ i < j)
           Rank(i) == 1 + Cardinality({j \in DOMAIN list : Before(j, i)})
           First(i) == \A j \in 1..n : ~Before(j, i)
           sorted == ByScore(list)
<1>1. n \in Nat /\ DOMAIN list = 1..n /\ \A i \in 1..n : list[i].score \in Nat
  <2>1. n \in Nat /\ DOMAIN list = 1..n /\ \A i \in 1..n : list[i] \in PastRow
    BY LenProperties, ElementOfSeq
  <2> QED
    BY <2>1 DEF PastRow
<1>2. sorted = [k \in DOMAIN list |-> list[CHOOSE i \in DOMAIN list : Rank(i) = k]]
  BY DEF ByScore
<1>3. BestAttempt(list) = {list[k] : k \in {i \in 1..n : list[i].score > 0 /\ First(i)}}
  <2>1. \A i, j \in 1..n : ~Before(j, i) <=> list[i].score > list[j].score \/ (list[i].score = list[j].score /\ i <= j)
    BY <1>1
  <2>2. {i \in DOMAIN list : /\ list[i].score > 0
                             /\ \A j \in DOMAIN list : \/ list[i].score > list[j].score
                                                       \/ list[i].score = list[j].score /\ i <= j}
        = {i \in 1..n : list[i].score > 0 /\ First(i)}
    BY <1>1, <2>1
  <2> QED
    BY <2>2 DEF BestAttempt
<1>4. \A i \in 1..n : Rank(i) = 1 <=> First(i)
  <2> SUFFICES ASSUME NEW i \in 1..n PROVE Rank(i) = 1 <=> First(i)
    OBVIOUS
  <2> DEFINE ahead == {j \in DOMAIN list : Before(j, i)}
  <2>1. IsFiniteSet(1..n) /\ ahead \in SUBSET (1..n)
    BY <1>1, FS_Interval
  <2>2. IsFiniteSet(ahead)
    <3> HIDE DEF ahead
    <3> QED
      BY <2>1, FS_Subset
  <2>3. Cardinality(ahead) \in Nat /\ (Cardinality(ahead) = 0 <=> ahead = {})
    <3> HIDE DEF ahead
    <3> QED
      BY <2>2, FS_EmptySet, FS_CardinalityType
  <2>4. ahead = {} <=> First(i)
    BY <1>1
  <2>5. Rank(i) = 1 + Cardinality(ahead)
    OBVIOUS
  <2> HIDE DEF ahead, Rank, First
  <2> QED
    BY <2>3, <2>4, <2>5
<1>5. \A i, j \in 1..n : First(i) /\ First(j) => i = j
  BY <1>1
<1> HIDE DEF n
<1>6. n # 0 => \E i \in 1..n : First(i)
  <2> DEFINE Leads(m) == \E i \in 1..m : \A j \in 1..m : ~Before(j, i)
             Bad == {m \in 1..n : ~Leads(m)}
  <2>1. Bad = {}
    <3> SUFFICES ASSUME Bad # {} PROVE FALSE
      OBVIOUS
    <3>1. PICK m \in Bad : \A k \in Bad : m <= k
      <4>1. Bad \in SUBSET Nat
        BY <1>1
      <4> HIDE DEF Bad
      <4> QED
        BY <4>1, Least
    <3>2. m \in 1..n /\ ~Leads(m)
      BY <3>1
    <3>3. CASE m = 1
      <4>1. 1 \in 1..m /\ \A j \in 1..m : ~Before(j, 1)
        BY <1>1, <3>2, <3>3
      <4> QED
        BY <3>2, <4>1
    <3>4. CASE m # 1
      <4>1. m \in Nat /\ m > 1 /\ m - 1 \in 1..n /\ ~(m <= m - 1)
        <5>1. m \in 1..n /\ n \in Nat
          BY <1>1, <3>2
        <5> HIDE DEF Leads, Bad
        <5> QED
          BY <3>4, <5>1
      <4>2. PICK i \in 1..(m - 1) : \A j \in 1..(m - 1) : ~Before(j, i)
        BY <3>1, <4>1
      <4>3. i \in 1..m /\ m \in 1..m /\ i \in 1..n /\ i < m /\ i \in Nat
        <5>1. i \in 1..(m - 1)
          BY <4>2
        <5>2. i \in 1..m /\ m \in 1..m /\ i < m /\ i \in Nat
          BY <4>1, <5>1
        <5>3. i \in 1..n
          <6>1. m \in 1..n /\ n \in Nat
            BY <1>1, <3>2
          <6> QED
            BY <5>1, <6>1
        <5> QED
          BY <5>2, <5>3
      <4>4. \A j \in 1..m : j = m \/ j \in 1..(m - 1)
        BY <4>1
      <4>5. list[i].score \in Nat /\ list[m].score \in Nat
        BY <1>1, <3>2, <4>3
      <4> HIDE DEF Leads, Bad
      <4>6. CASE Before(m, i)
        <5>1. ASSUME NEW j \in 1..(m - 1) PROVE ~Before(j, m)
          <6>1. list[j].score \in Nat /\ ~Before(j, i) /\ j \in Nat /\ j < m
            BY <1>1, <3>2, <4>1, <4>2
          <6> QED
            BY <4>1, <4>3, <4>5, <4>6, <6>1
        <5>2. ~Before(m, m)
          BY <4>1, <4>5
        <5> QED
          BY <3>2, <4>3, <4>4, <5>1, <5>2 DEF Leads
      <4>7. CASE ~Before(m, i)
        BY <3>2, <4>2, <4>3, <4>4, <4>7 DEF Leads
      <4> QED
        BY <3>2, <4>6, <4>7
    <3> QED
      BY <3>3, <3>4
  <2>2. n # 0 => n \in 1..n
    BY <1>1
  <2>3. n # 0 => Leads(n)
    BY <2>1, <2>2
  <2> QED
    BY <2>3
<1> HIDE DEF Rank, First, sorted
<1>7. CASE n = 0
  BY <1>1, <1>2, <1>3, <1>7 DEF sorted
<1>8. CASE n # 0
  <2>1. PICK i \in 1..n : First(i)
    BY <1>6, <1>8
  <2>2. \A j \in 1..n : First(j) <=> j = i
    BY <1>5, <2>1
  <2>3. \A j \in 1..n : Rank(j) = 1 <=> j = i
    BY <1>4, <2>2
  <2>4. (CHOOSE j \in 1..n : Rank(j) = 1) = i
    BY <2>3
  <2>5. 1 \in 1..n /\ DOMAIN sorted = 1..n
    BY <1>1, <1>2, <1>8
  <2>6. sorted[1] = list[i]
    BY <1>1, <1>2, <2>4, <2>5
  <2>7. BestAttempt(list) = {list[k] : k \in {j \in 1..n : list[j].score > 0 /\ j = i}}
    BY <1>3, <2>2
  <2>8. {sorted[k] : k \in {j \in 1..n : j = 1 /\ sorted[j].score > 0}}
        = {list[k] : k \in {j \in 1..n : list[j].score > 0 /\ j = i}}
    BY <2>5, <2>6
  <2> QED
    BY <1>1, <2>5, <2>7, <2>8 DEF sorted
<1> QED
  BY <1>7, <1>8

\* The attempts the page has read by a time.
PastList(list, time) ==
  list \in Seq(PastRow) /\ Newest(list) /\ \A i \in 1..Len(list) : list[i].at <= time

LEMMA PastListIs ==
  ASSUME NEW list, NEW time, PastList(list, time)
  PROVE  /\ Len(list) \in Nat
         /\ \A i \in 1..Len(list) : list[i] \in PastRow /\ list[i].at \in Nat /\ list[i].at <= time
         /\ \A i, j \in 1..Len(list) : i < j => list[i].at >= list[j].at
<1>1. list \in Seq(PastRow)
  BY DEF PastList
<1>2. Len(list) \in Nat /\ \A i \in 1..Len(list) : list[i] \in PastRow
  BY <1>1, LenProperties, ElementOfSeq
<1> QED
  BY <1>2 DEF PastList, PastRow, Newest

LEMMA LaterList ==
  ASSUME NEW list, NEW time \in Nat, NEW later \in Nat, time <= later, PastList(list, time)
  PROVE  PastList(list, later)
<1>1. \A i \in 1..Len(list) : list[i].at \in Nat /\ list[i].at <= time
  BY PastListIs
<1> QED
  BY <1>1 DEF PastList

LEMMA NewerFirst ==
  ASSUME NEW list, NEW time \in Nat, NEW later \in Nat, time <= later, PastList(list, time),
         NEW a \in PastRow, a.at >= time, a.at <= later
  PROVE  PastList(<<a>> \o list, later)
<1> PICK n, q, one : n = Len(list) /\ q = <<a>> \o list /\ one = <<a>>
  OBVIOUS
<1>1. /\ n \in Nat
      /\ \A i \in 1..n : list[i] \in PastRow /\ list[i].at \in Nat /\ list[i].at <= time
      /\ \A i, j \in 1..n : i < j => list[i].at >= list[j].at
  BY PastListIs
<1>2. one \in Seq(PastRow) /\ Len(one) = 1 /\ one[1] = a /\ a.at \in Nat
  BY DEF PastRow
<1>3. list \in Seq(PastRow)
  BY DEF PastList
<1>4. /\ one \o list \in Seq(PastRow) /\ Len(one \o list) = Len(one) + Len(list)
      /\ \A i \in 1..(Len(one) + Len(list)) :
           (one \o list)[i] = IF i <= Len(one) THEN one[i] ELSE list[i - Len(one)]
  BY <1>2, <1>3, ConcatProperties
<1>5. one \o list = q
  OBVIOUS
<1>6. /\ q \in Seq(PastRow) /\ Len(q) = 1 + n
      /\ \A i \in 1..(1 + n) : q[i] = IF i <= 1 THEN one[i] ELSE list[i - 1]
  BY <1>2, <1>4, <1>5
<1>7. \A i \in 1..(1 + n) : \/ i = 1 /\ q[i] = a
                            \/ i # 1 /\ i - 1 \in 1..n /\ q[i] = list[i - 1]
  BY <1>1, <1>2, <1>6
<1>8. \A i \in 1..(1 + n) : q[i].at <= later
  BY <1>1, <1>7
<1>9. ASSUME NEW i \in 1..(1 + n), NEW j \in 1..(1 + n), i < j PROVE q[i].at >= q[j].at
  <2>1. j - 1 \in 1..n /\ q[j] = list[j - 1]
    BY <1>1, <1>7, <1>9
  <2>2. CASE i = 1
    BY <1>1, <1>2, <1>7, <2>1, <2>2
  <2>3. CASE i # 1
    <3>1. i - 1 \in 1..n /\ i - 1 < j - 1 /\ q[i] = list[i - 1]
      BY <1>1, <1>7, <1>9, <2>3
    <3> QED
      BY <1>1, <2>1, <3>1
  <2> QED
    BY <2>2, <2>3
<1> QED
  BY <1>6, <1>8, <1>9 DEF Newest, PastList

LEMMA FirstOnes ==
  ASSUME NEW list, NEW time, PastList(list, time), NEW size \in Nat, size <= Len(list)
  PROVE  PastList(SubSeq(list, 1, size), time)
<1> PICK p : p = SubSeq(list, 1, size)
  OBVIOUS
<1>1. /\ Len(list) \in Nat
      /\ \A i \in 1..Len(list) : list[i] \in PastRow /\ list[i].at \in Nat /\ list[i].at <= time
      /\ \A i, j \in 1..Len(list) : i < j => list[i].at >= list[j].at
  BY PastListIs
<1>2. \A i \in 1..size : i \in 1..Len(list) /\ list[i] \in PastRow
  BY <1>1
<1>3. /\ p \in Seq(PastRow) /\ Len(p) = IF 1 <= size THEN size - 1 + 1 ELSE 0
      /\ \A i \in 1..(size - 1 + 1) : p[i] = list[1 + i - 1]
  BY <1>2, SubSeqProperties
<1>4. Len(p) = size /\ \A i \in 1..size : p[i] = list[i]
  BY <1>3
<1> QED
  BY <1>1, <1>2, <1>3, <1>4 DEF Newest, PastList

PastInv ==
  /\ week \in Nat /\ snapshot \in [rows : Seq(PastRow), readAt : 0..week]
  /\ PastList(snapshot.rows, snapshot.readAt)
  /\ order \in {"recent", "score"}
  /\ filter # All /\ ~reread => filter \in FilterOptions

LEMMA InitPastInv == Init => PastInv
<1> SUFFICES ASSUME Init PROVE PastInv
  OBVIOUS
<1>1. /\ week = 0 /\ snapshot = [rows |-> <<>>, readAt |-> 0]
      /\ filter = All /\ order = "recent"
  BY DEF Init, InitPast
<1>2. PastList(<<>>, 0)
  BY EmptySeq DEF PastList, Newest
<1> QED
  BY <1>1, <1>2, EmptySeq DEF PastInv

LEMMA PastSteps == PastInv /\ [Next]_vars => PastInv'
<1> SUFFICES ASSUME PastInv, [Next]_vars PROVE PastInv'
  OBVIOUS
<1>1. /\ week \in Nat /\ snapshot.readAt \in Nat /\ snapshot.readAt <= week
      /\ snapshot.rows \in Seq(PastRow)
  <2>1. week \in Nat /\ snapshot.readAt \in 0..week /\ snapshot.rows \in Seq(PastRow)
    BY DEF PastInv
  <2> QED
    BY <2>1
<1>2. CASE UNCHANGED pastVars
  <2>1. UNCHANGED <<week, snapshot, filter, order, reread>>
    BY <1>2 DEF pastVars
  <2>2. FilterOptions' = FilterOptions
    BY <2>1 DEF FilterOptions, Recency
  <2> QED
    BY <2>1, <2>2 DEF PastInv
<1>3. CASE Refresh
  <2> PICK past, low : past = snapshot.rows /\ low = snapshot.readAt
    OBVIOUS
  <2>1. PICK newer, joined, size, read :
          /\ newer = <<>> \/ \E a \in PastRow : newer = <<a>> /\ a.at >= low /\ a.at <= week
          /\ joined = newer \o past
          /\ size = IF Len(joined) < MaxCached THEN Len(joined) ELSE MaxCached
          /\ read = SubSeq(joined, 1, size) \/ read = <<>>
          /\ snapshot' = [rows |-> read, readAt |-> week]
    <3>1. \A score \in Grades \cup {0} : score \in Nat
      BY HistoryPageConstants
    <3> DEFINE Cut(l) == SubSeq(l, 1, IF Len(l) < MaxCached THEN Len(l) ELSE MaxCached)
    <3>2. PICK newer \in Newer :
            \E read \in {Cut(newer \o past), <<>>} : snapshot' = [rows |-> read, readAt |-> week]
      BY <1>3 DEF Refresh
    <3>3. PICK read : /\ read = Cut(newer \o past) \/ read = <<>>
                      /\ snapshot' = [rows |-> read, readAt |-> week]
      <4> HIDE DEF Cut
      <4> QED
        BY <3>2
    <3>4. newer = <<>> \/ \E a \in PastRow : newer = <<a>> /\ a.at >= low /\ a.at <= week
      <4> SUFFICES ASSUME NEW s \in Chapters, NEW score \in Grades \cup {0}, NEW when \in snapshot.readAt..week,
                          newer = <<[surah |-> s, score |-> score, at |-> when]>>
                   PROVE  \E a \in PastRow : newer = <<a>> /\ a.at >= low /\ a.at <= week
        BY <3>2 DEF Newer
      <4> PICK a : a = [surah |-> s, score |-> score, at |-> when]
        OBVIOUS
      <4>1. when \in Nat /\ when >= low /\ when <= week
        BY <1>1
      <4>2. score \in Nat
        BY <3>1
      <4>3. a \in PastRow /\ a.at = when
        BY <4>1, <4>2 DEF PastRow
      <4> QED
        BY <4>1, <4>3
    <3> QED
      BY <3>3, <3>4
  <2>2. UNCHANGED <<week, order, filter>> /\ reread' = (filter # All)
    BY <1>3, Zenon DEF Refresh
  <2>3. PastList(joined, week)
    <3>1. CASE newer = <<>>
      <4>1. joined = past
        BY <1>1, <2>1, <3>1, ConcatEmptySeq
      <4> QED
        BY <1>1, <4>1, LaterList DEF PastInv
    <3>2. CASE newer # <<>>
      <4>1. PICK a \in PastRow : newer = <<a>> /\ a.at >= low /\ a.at <= week
        BY <2>1, <3>2
      <4>2. joined = <<a>> \o past
        BY <2>1, <4>1
      <4> QED
        BY <1>1, <4>1, <4>2, NewerFirst DEF PastInv
    <3> QED
      BY <3>1, <3>2
  <2>4. PastList(read, week)
    <3>1. PastList(<<>>, week)
      BY EmptySeq DEF PastList, Newest
    <3>2. Len(joined) \in Nat
      BY <2>3, PastListIs
    <3>3. size \in Nat /\ size <= Len(joined)
      BY <2>1, <3>2, HistoryPageConstants
    <3>4. PastList(SubSeq(joined, 1, size), week)
      BY <2>3, <3>3, FirstOnes
    <3> QED
      BY <2>1, <3>1, <3>4
  <2>5. read \in Seq(PastRow)
    BY <2>4 DEF PastList
  <2>6. week \in 0..week
    BY <1>1
  <2>7. snapshot' \in [rows : Seq(PastRow), readAt : 0..week']
    BY <2>1, <2>2, <2>5, <2>6
  <2>8. PastList(snapshot'.rows, snapshot'.readAt)
    BY <2>1, <2>4
  <2>9. order' \in {"recent", "score"} /\ ~(filter' # All' /\ ~reread')
    BY <2>2 DEF PastInv, All
  <2> QED
    BY <1>1, <2>2, <2>7, <2>8, <2>9 DEF PastInv
<1>4. CASE Select
  <2>1. filter' \in {All} \cup FilterOptions /\ UNCHANGED <<week, snapshot, order>>
    BY <1>4 DEF Select
  <2>2. FilterOptions' = FilterOptions
    BY <2>1 DEF FilterOptions, Recency
  <2> QED
    BY <2>1, <2>2 DEF PastInv, All
<1>5. CASE Sort
  <2>1. order' \in {"recent", "score"} /\ UNCHANGED <<week, filter, reread>>
    BY <1>5 DEF Sort
  <2>2. snapshot' = snapshot
    BY <1>5 DEF Sort, Sorted, PastInv
  <2>3. FilterOptions' = FilterOptions
    BY <2>2 DEF FilterOptions, Recency
  <2> QED
    BY <2>1, <2>2, <2>3 DEF PastInv
<1>6. CASE ScopeChange
  <2>1. UNCHANGED <<week, snapshot, filter, order, reread>>
    BY <1>6 DEF ScopeChange
  <2>2. FilterOptions' = FilterOptions
    BY <2>1 DEF FilterOptions, Recency
  <2> QED
    BY <2>1, <2>2 DEF PastInv
<1>7. CASE WeekPasses
  <2>1. week' = week + 1 /\ UNCHANGED <<snapshot, filter, order, reread>>
    BY <1>7 DEF WeekPasses
  <2>2. FilterOptions' = FilterOptions
    BY <2>1 DEF FilterOptions, Recency
  <2>3. week' \in Nat /\ snapshot' \in [rows : Seq(PastRow), readAt : 0..week']
    BY <1>1, <2>1 DEF PastInv
  <2> QED
    BY <2>1, <2>2, <2>3 DEF PastInv
<1> QED
  BY <1>2, <1>3, <1>4, <1>5, <1>6, <1>7 DEF Next, NextPast, vars

\* The list is the rows of the filter in the order that was chosen.
LEMMA AllAgrees == PastInv => HistoryAgrees
<1> SUFFICES ASSUME PastInv PROVE HistoryAgrees
  OBVIOUS
<1> PICK list, part, seen :
      list = snapshot.rows /\ part = Listed(list, filter) /\ seen = VisibleAttempts
  OBVIOUS
<1>1. list \in Seq(PastRow) /\ Newest(list) /\ Len(list) \in Nat
  BY PastListIs DEF PastInv, PastList
<1>2. \A i \in 1..Len(list) : list[i].surah \in All
  <2>1. \A i \in 1..Len(list) : list[i] \in PastRow
    BY <1>1, ElementOfSeq
  <2> QED
    BY <2>1 DEF PastRow, All
<1>3. part \in Seq(PastRow) /\ Newest(part) /\ DOMAIN part = 1..Len(part)
  <2>1. part \in Seq(PastRow) /\ Newest(part)
    BY <1>1, ListedIs
  <2> QED
    BY <2>1, LenProperties
<1>4. seen = IF order = "score" THEN ByScore(part) ELSE part
  BY DEF VisibleAttempts
<1>5. order = "recent" => \A i, j \in DOMAIN seen : i < j => seen[i].at >= seen[j].at
  BY <1>3, <1>4 DEF Newest
<1>6. order = "score" /\ filter = All /\ scope = "lifetime" =>
        BestAttempt(ScopedAttempts) = {seen[i] : i \in {k \in DOMAIN seen : k = 1 /\ seen[k].score > 0}}
  <2> SUFFICES ASSUME order = "score", filter = All, scope = "lifetime"
               PROVE  BestAttempt(ScopedAttempts) = {seen[i] : i \in {k \in DOMAIN seen : k = 1 /\ seen[k].score > 0}}
    OBVIOUS
  <2>1. part = list
    BY <1>1, <1>2, ListedIs
  <2>2. ScopedAttempts = list
    BY Zenon DEF ScopedAttempts
  <2>3. seen = ByScore(list)
    BY <1>4, <2>1
  <2>4. BestAttempt(list) = {ByScore(list)[i] : i \in {k \in DOMAIN ByScore(list) : k = 1 /\ ByScore(list)[k].score > 0}}
    BY <1>1, ByScoreIs
  <2> QED
    BY <2>2, <2>3, <2>4, Zenon
<1>7. filter # All /\ ~reread => filter \in FilterOptions /\ seen # <<>>
  <2> SUFFICES ASSUME filter # All, ~reread PROVE filter \in FilterOptions /\ seen # <<>>
    OBVIOUS
  <2>1. filter \in FilterOptions
    BY DEF PastInv
  <2>2. PICK i \in DOMAIN list : filter = {list[i].surah}
    BY <2>1 DEF FilterOptions
  <2>3. \E k \in 1..Len(list) : list[k].surah \in filter
    BY <1>1, <2>2, LenProperties
  <2>4. part # <<>>
    BY <1>1, <2>3, ListedIs
  <2>5. DOMAIN part # {}
    <3>1. Len(part) \in Nat /\ Len(part) # 0
      BY <1>3, <2>4, EmptySeq, LenProperties
    <3>2. 1 \in DOMAIN part
      BY <1>3, <3>1
    <3> QED
      BY <3>2
  <2>6. DOMAIN ByScore(part) = DOMAIN part
    BY <1>3, ByScoreIs
  <2>7. DOMAIN <<>> = {}
    OBVIOUS
  <2>8. seen # <<>>
    BY <1>4, <2>5, <2>6, <2>7
  <2> QED
    BY <2>1, <2>8
<1> QED
  BY <1>5, <1>6, <1>7 DEF HistoryAgrees

\* The cards of the home page show one surah, what localStorage says of it, and
\* not the one they suggest; the recent order is newest first, the Best tile is
\* the first row by score, and a list narrowed by a chip has a row (HomePage and
\* HistoryPage: ContinueCard, SuggestionCard, HistoryList, historyStats).
THEOREM ListsAlwaysAgree == Spec => []ListsAgree
<1>1. HomeInv => CardsAgree
  BY DEF HomeInv
<1> QED
  BY <1>1, InitHomeInv, HomeSteps, InitPastInv, PastSteps, AllAgrees, PTL DEF Spec, ListsAgree
=============================================================================

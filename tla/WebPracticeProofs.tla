-------------------------- MODULE WebPracticeProofs --------------------------
(***************************************************************************)
(* For any number of recordings, queued calls and failures: which          *)
(* microphone stays open, whose job the panel shows, and how often a job   *)
(* is recorded as an attempt.                                              *)
(***************************************************************************)
EXTENDS WebPractice, SequenceTheorems, TLAPS

-----------------------------------------------------------------------------
(* The microphone.                                                          *)

MicInv ==
  /\ 0 \notin streams /\ streams \ leaked \subseteq {held}
  /\ streams \subseteq leaked \/ (mounted /\ (isRecording \/ held \in finishing))

LEMMA MicStep == MicInv /\ [Next]_vars => MicInv'
<1> SUFFICES ASSUME MicInv, [Next]_vars PROVE MicInv'
  OBVIOUS
<1>1. CASE UNCHANGED vars
  BY <1>1 DEF vars, mic, MicInv
<1>2. CASE Start
  BY <1>2 DEF Start, MicInv
<1>3. ASSUME NEW n \in Takes, Granted(n) PROVE MicInv'
  BY <1>3 DEF Granted, MicInv, Takes
<1>4. ASSUME NEW n \in Takes, NotGranted(n) PROVE MicInv'
  BY <1>4 DEF NotGranted, MicInv
<1>5. CASE Stop
  BY <1>5 DEF Stop, MicInv, Cleanup, history, MicButton
<1>6. ASSUME NEW n \in Takes, Stopped(n) PROVE MicInv'
  BY <1>6 DEF Stopped, MicInv, Cleanup
<1>7. CASE CancelScoring \/ Unmount
  BY <1>7 DEF CancelScoring, Unmount, MicInv, Cleanup
<1>8. CASE UNCHANGED <<mounted, mic>>
  BY <1>8 DEF mic, MicInv
<1>9. Server \/ ServeFails \/ Tick \/ (\E n \in Takes : Uploaded(n) \/ UploadFails(n) \/ JobEnds(n))
        => UNCHANGED <<mounted, mic>>
  BY DEF Server, ServeSign, ServeCreate, ServePoll, AnswerSign, AnswerCreate, AnswerPoll,
    ServeFails, Tick, Uploaded, UploadFails, JobEnds
<1> QED
  BY <1>1, <1>2, <1>3, <1>4, <1>5, <1>6, <1>7, <1>8, <1>9 DEF Next

\* However many recordings are started, granted late, stopped, cancelled or left:
\* only the streams that useRecorder loses sight of stay open when the panel does
\* not record.
THEOREM MicrophoneReleased == Spec => []MicReleased
<1>1. Init => MicInv
  BY DEF Init, MicInv
<1>2. MicInv => MicReleased
  BY DEF MicInv, MicReleased
<1> QED
  BY <1>1, <1>2, MicStep, PTL DEF Spec

-----------------------------------------------------------------------------
(* What is known of submissions.                                            *)

Typed ==
  /\ mounted \in BOOLEAN /\ takes \in 0..MaxTakes
  /\ asking \subseteq 1..takes /\ {held, resolver} \subseteq (0..takes) \ asking
  /\ panel \in [stage: {"idle", "done", "error"} \cup Busy, job: 0..MaxTakes, status: Status]
  /\ uploads \subseteq Takes /\ calls \in Seq(CallSet)
  /\ {poller, submitted} \subseteq 0..MaxTakes
  /\ jobs \in [Takes -> Status]
  /\ attempts \in [Takes -> [Terminal -> 0..2]]

Queued == 1..Len(calls)

\* What has been served is the head, and it tells the truth about its job.
QueueTrue ==
  \A i \in Queued :
    /\ i > 1 => ~calls[i].served
    /\ calls[i].served /\ calls[i].ok /\ calls[i].status \in Terminal =>
         jobs[calls[i].take] = calls[i].status

Untried(n) == \A s \in Terminal : attempts[n][s] = 0

\* A take that may still be submitted is not the one that was.
Unsubmitted(n) == n \in asking \cup {held, resolver} \/ n > takes
UnsubmittedFresh == \A n \in Takes : Unsubmitted(n) => n # submitted /\ Untried(n)

\* Before its job exists, a take has no attempt.
Early == uploads # {} \/ \E i \in Queued : calls[i].kind # "poll"
EarlyUntried ==
  /\ \A n \in uploads : Untried(n)
  /\ \A i \in Queued : calls[i].kind # "poll" => Untried(calls[i].take)

\* All that is under way is of the take submitted last.
Current ==
  /\ {panel.job, poller} \subseteq {0, submitted} /\ uploads \subseteq {submitted}
  /\ \A i \in Queued : calls[i].take = submitted

\* It is signed, uploaded and created one after the other, before it is polled.
OneAtATime ==
  Early => /\ calls = <<>> \/ (uploads = {} /\ Len(calls) = 1)
           /\ poller = 0 /\ resolver = 0 /\ panel.job = 0 /\ panel.stage \in Busy

PollerScoring == poller # 0 => panel.stage = "scoring" /\ resolver = 0

\* Its one attempt ends it.
Spent ==
  submitted \in Takes \ overlapped =>
    /\ Len(calls) <= 1
    /\ ~Untried(submitted) => calls = <<>> /\ poller = 0

PanelTrue == panel.job # 0 /\ panel.status \in Terminal => jobs[panel.job] = panel.status

AttemptsTrue ==
  \A n \in Takes \ overlapped :
    /\ attempts[n]["COMPLETED"] + attempts[n]["FAILED"] <= 1
    /\ \A s \in Terminal : attempts[n][s] > 0 => jobs[n] = s \/ (s = "FAILED" /\ n \in missed)

Shown == Current /\ OneAtATime /\ PollerScoring /\ Spent /\ PanelTrue
Kept == UnsubmittedFresh /\ EarlyUntried /\ AttemptsTrue /\ (mounted => Shown)

PanelInv == Typed /\ QueueTrue /\ (abandoned = {} => Kept)

LEMMA PanelHolds == PanelInv => ShownIsCurrent /\ OneAttemptPerJob
BY DEF PanelInv, Kept, Shown, Current, AttemptsTrue, ShownIsCurrent, OneAttemptPerJob

LEMMA InitPanel == Init => PanelInv
<1> SUFFICES ASSUME Init PROVE PanelInv
  OBVIOUS
<1>1. <<>> \in Seq(CallSet) /\ Len(<<>>) = 0
  BY EmptySeq
<1>2. NoPanel("idle") \in [stage: {"idle", "done", "error"} \cup Busy, job: 0..MaxTakes, status: Status]
  BY PracticeAssumption DEF NoPanel, Status
<1>3. attempts \in [Takes -> [Terminal -> 0..2]] /\ \A n \in Takes : Untried(n)
  BY DEF Init, Untried
<1>4. Typed
  BY <1>1, <1>2, <1>3, PracticeAssumption DEF Init, Typed, Status, Takes
<1>5. Queued = {}
  BY <1>1 DEF Queued, Init
<1>6. panel.job = 0 /\ panel.stage = "idle"
  BY DEF Init, NoPanel
<1>7. \A n \in Takes : n # submitted
  BY DEF Init, Takes
<1>8. AttemptsTrue
  BY <1>3 DEF AttemptsTrue, Untried, Terminal
<1>9. UnsubmittedFresh /\ EarlyUntried
  BY <1>3, <1>5, <1>7 DEF UnsubmittedFresh, EarlyUntried, Init
<1>10. Shown
  BY <1>1, <1>5, <1>6, <1>7 DEF Shown, Current, OneAtATime, Early, PollerScoring, Spent, PanelTrue, Init
<1> QED
  BY <1>4, <1>5, <1>8, <1>9, <1>10 DEF PanelInv, Kept, QueueTrue

-----------------------------------------------------------------------------
(* The recorder alone: nothing is submitted.                                *)

LEMMA RecorderQuiet ==
  ASSUME PanelInv,
         UNCHANGED <<mounted, takes, panel, uploads, calls, poller, jobs, attempts, submitted,
                     abandoned, overlapped, missed>>,
         asking' \subseteq asking, {held', resolver'} \subseteq (0..takes) \ asking',
         \A n \in {held', resolver'} : n = 0 \/ n \in asking \cup {held, resolver},
         resolver' = 0 \/ resolver' = resolver \/ (mounted => panel.stage \notin Busy)
  PROVE  PanelInv'
<1>1. Typed'
  BY DEF PanelInv, Typed
<1>2. QueueTrue'
  BY DEF PanelInv, QueueTrue, Queued
<1>3. ASSUME abandoned = {} PROVE Kept'
  <2>1. Kept
    BY <1>3 DEF PanelInv
  <2>2. UnsubmittedFresh'
    BY <2>1 DEF Kept, UnsubmittedFresh, Unsubmitted, Untried, Takes
  <2>3. EarlyUntried' /\ AttemptsTrue'
    BY <2>1 DEF Kept, EarlyUntried, AttemptsTrue, Untried, Queued
  <2>4. ASSUME mounted PROVE Shown'
    <3>1. Shown
      BY <2>1, <2>4 DEF Kept
    <3>2. Current' /\ Spent' /\ PanelTrue'
      BY <3>1 DEF Shown, Current, Spent, PanelTrue, Untried, Queued
    <3>3. (Early' <=> Early) /\ (Early => panel.stage \in Busy) /\ (poller # 0 => panel.stage \in Busy)
      BY <3>1 DEF Shown, OneAtATime, PollerScoring, Early, Queued, Busy
    <3>4. OneAtATime' /\ PollerScoring'
      BY <2>4, <3>1, <3>3 DEF Shown, OneAtATime, PollerScoring
    <3> QED
      BY <3>2, <3>4 DEF Shown
  <2> QED
    BY <2>2, <2>3, <2>4 DEF Kept
<1> QED
  BY <1>1, <1>2, <1>3 DEF PanelInv

LEMMA RecorderStep ==
  ASSUME PanelInv,
         Stop \/ \E n \in Takes : Granted(n) \/ NotGranted(n)
                                  \/ (Stopped(n) /\ UNCHANGED <<panel, calls, submitted, abandoned>>)
  PROVE  PanelInv'
<1>0. Typed
  BY DEF PanelInv
<1>1. ASSUME NEW n \in Takes, Granted(n) PROVE PanelInv'
  <2>1. n \in asking /\ asking' = asking \ {n} /\ held' = n /\ resolver' = resolver
    BY <1>1 DEF Granted
  <2>2. n \in 0..takes
    BY <1>0, <2>1 DEF Typed
  <2> QED
    BY <1>0, <1>1, <2>1, <2>2, RecorderQuiet DEF Granted, Typed
<1>2. ASSUME NEW n \in Takes, NotGranted(n) PROVE PanelInv'
  <2>1. asking' = asking \ {n} /\ held' \in {held, 0} /\ resolver' = resolver
    BY <1>2 DEF NotGranted
  <2>2. 0 \in (0..takes) \ asking
    BY <1>0 DEF Typed
  <2> QED
    BY <1>0, <1>2, <2>1, <2>2, RecorderQuiet DEF NotGranted, Typed
<1>3. CASE Stop
  <2>1. asking' = asking /\ held' \in {held, 0} /\ resolver' \in {held, resolver}
    BY <1>3 DEF Stop, Cleanup
  <2>2. 0 \in (0..takes) \ asking
    BY <1>0 DEF Typed
  <2>3. panel.stage \notin Busy
    BY <1>3 DEF Stop, MicButton, Analysing
  <2> QED
    BY <1>0, <1>3, <2>1, <2>2, <2>3, RecorderQuiet DEF Stop, history, Typed
<1>4. ASSUME NEW n \in Takes, Stopped(n), UNCHANGED <<panel, calls, submitted, abandoned>>
      PROVE  PanelInv'
  <2>1. asking' = asking /\ held' = 0 /\ resolver' = 0
    BY <1>4 DEF Stopped, Cleanup
  <2>2. 0 \in (0..takes) \ asking
    BY <1>0 DEF Typed
  <2> QED
    BY <1>0, <1>4, <2>1, <2>2, RecorderQuiet DEF Stopped, Typed
<1> QED
  BY <1>1, <1>2, <1>3, <1>4

-----------------------------------------------------------------------------
(* The queue.                                                               *)

LEMMA QueueHead ==
  ASSUME Typed, calls # <<>>
  PROVE  /\ Head(calls) = calls[1] /\ calls[1] \in CallSet /\ 1 \in Queued
         /\ Len(calls) \in Nat \ {0}
BY HeadTailProperties, EmptySeq, LenProperties, ElementOfSeq DEF Typed, Queued

LEMMA QueueDropped ==
  ASSUME Typed, calls # <<>>, calls' = Tail(calls)
  PROVE  /\ calls' \in Seq(CallSet) /\ Len(calls') = Len(calls) - 1
         /\ \A i \in Queued' : i + 1 \in Queued /\ i + 1 > 1 /\ calls'[i] = calls[i + 1]
BY HeadTailProperties, LenProperties DEF Typed, Queued

LEMMA QueueGrown ==
  ASSUME Typed, NEW call \in CallSet, calls' = Append(calls, call)
  PROVE  /\ calls' \in Seq(CallSet) /\ Len(calls') = Len(calls) + 1 /\ Len(calls) \in Nat
         /\ \A i \in Queued' : (i \in Queued /\ calls'[i] = calls[i]) \/ (i = Len(calls) + 1 /\ calls'[i] = call)
<1>1. /\ calls' \in Seq(CallSet) /\ Len(calls') = Len(calls) + 1 /\ Len(calls) \in Nat
      /\ \A i \in 1..Len(calls) : calls'[i] = calls[i]
      /\ calls'[Len(calls) + 1] = call
  BY AppendProperties, LenProperties DEF Typed
<1> QED
  BY <1>1 DEF Queued

LEMMA QueueEmpty ==
  ASSUME Typed
  PROVE  calls = <<>> <=> Len(calls) = 0
BY EmptySeq DEF Typed

\* The BFF serves the head of the queue, and may create its job.
LEMMA Serves ==
  ASSUME PanelInv, calls # <<>>, NEW call \in CallSet,
         call.kind = calls[1].kind, call.take = calls[1].take,
         calls' = [calls EXCEPT ![1] = call], jobs' \in [Takes -> Status],
         \A n \in Takes : jobs'[n] # jobs[n] => n = call.take /\ call.kind # "poll",
         call.served /\ call.ok /\ call.status \in Terminal => jobs'[call.take] = call.status,
         UNCHANGED <<mounted, takes, asking, held, resolver, panel, uploads, poller, attempts,
                     submitted, abandoned, overlapped, missed>>
  PROVE  PanelInv'
<1>0. Typed /\ QueueTrue
  BY DEF PanelInv
<1>1. 1 \in Queued /\ calls \in Seq(CallSet) /\ 1 \in 1..Len(calls)
  BY <1>0, QueueHead DEF Typed, Queued
<1>2. /\ calls' \in Seq(CallSet) /\ Len(calls') = Len(calls) /\ Queued' = Queued
      /\ calls'[1] = call /\ \A i \in Queued : i # 1 => calls'[i] = calls[i]
  BY <1>1, ExceptSeq DEF Queued
<1>3. \A i \in Queued : calls'[i].kind = calls[i].kind /\ calls'[i].take = calls[i].take
  BY <1>2
<1>4. Typed'
  BY <1>0, <1>2 DEF Typed
<1>5. QueueTrue'
  <2>1. ASSUME NEW i \in Queued, i > 1 PROVE ~calls'[i].served
    BY <1>0, <1>2, <2>1 DEF QueueTrue
  <2>2. ASSUME NEW i \in Queued, calls'[i].served, calls'[i].ok, calls'[i].status \in Terminal
        PROVE  jobs'[calls'[i].take] = calls'[i].status
    <3>1. i = 1
      BY <2>1, <2>2 DEF Queued
    <3> QED
      BY <1>2, <2>2, <3>1
  <2> QED
    BY <1>2, <2>1, <2>2 DEF QueueTrue
<1>6. ASSUME abandoned = {} PROVE Kept'
  <2>1. Kept
    BY <1>6 DEF PanelInv
  <2>2. UnsubmittedFresh'
    BY <2>1 DEF Kept, UnsubmittedFresh, Unsubmitted, Untried
  <2>3. EarlyUntried' /\ (Early' <=> Early)
    BY <1>2, <1>3, <2>1 DEF Kept, EarlyUntried, Untried, Early
  <2>4. \A n \in Takes : jobs'[n] # jobs[n] => Untried(n) /\ Early
    BY <1>1, <2>1 DEF Kept, EarlyUntried, Early
  <2>5. AttemptsTrue'
    <3>1. \A n \in Takes, s \in Terminal : attempts[n][s] > 0 => jobs'[n] = jobs[n]
      BY <2>4 DEF Untried
    <3> QED
      BY <2>1, <3>1 DEF Kept, AttemptsTrue
  <2>6. ASSUME mounted PROVE Shown'
    <3>1. Shown
      BY <2>1, <2>6 DEF Kept
    <3>2. Current' /\ Spent' /\ PollerScoring'
      <4>1. calls # <<>> /\ calls' # <<>>
        BY <1>1, <1>2, EmptySeq
      <4> QED
        BY <1>2, <1>3, <3>1, <4>1 DEF Shown, Current, Spent, PollerScoring, Untried
    <3>3. OneAtATime'
      BY <1>2, <2>3, <3>1 DEF Shown, OneAtATime
    <3>4. PanelTrue'
      <4>1. panel.job # 0 => panel.job \in Takes /\ ~Early
        BY <1>0, <3>1 DEF Shown, OneAtATime, Typed, Takes
      <4> QED
        BY <2>4, <3>1, <4>1 DEF Shown, PanelTrue
    <3> QED
      BY <3>2, <3>3, <3>4 DEF Shown
  <2> QED
    BY <2>2, <2>3, <2>5, <2>6 DEF Kept
<1> QED
  BY <1>4, <1>5, <1>6 DEF PanelInv

LEMMA ServeStep ==
  ASSUME PanelInv, ServeSign \/ ServeCreate \/ ServePoll \/ ServeFails
  PROVE  PanelInv'
<1> DEFINE head == calls[1]
<1>0. Typed /\ calls # <<>> /\ ~head.served
  BY QueueHead DEF PanelInv, ServeSign, ServeCreate, ServePoll, ServeFails, Waiting
<1>1. head = Head(calls) /\ head \in CallSet /\ head.take \in Takes
  BY <1>0, QueueHead DEF CallSet
<1>2. ASSUME NEW s \in Status, Serve(s), jobs' \in [Takes -> Status],
             \A n \in Takes : jobs'[n] # jobs[n] => n = head.take /\ head.kind # "poll",
             s \in Terminal => jobs'[head.take] = s,
             UNCHANGED <<mounted, takes, asking, held, resolver, panel, uploads, poller, attempts,
                         submitted, abandoned, overlapped, missed>>
      PROVE  PanelInv'
  <2> DEFINE call == [head EXCEPT !.served = TRUE, !.status = s]
  <2>1. /\ call \in CallSet /\ call.kind = head.kind /\ call.take = head.take /\ call.status = s
    BY <1>1, <1>2 DEF CallSet
  <2>2. calls' = [calls EXCEPT ![1] = call]
    BY <1>0, <1>1, <1>2 DEF Serve, CallSet, Typed
  <2> HIDE DEF call
  <2> QED
    BY <1>0, <1>2, <2>1, <2>2, Serves
<1>3. CASE ServeSign
  BY <1>0, <1>2, <1>3 DEF ServeSign, mic, Status, Terminal, Typed
<1>4. CASE ServeCreate
  <2>1. PICK s \in Status \ {"none"} : Serve(s) /\ jobs' = [jobs EXCEPT ![head.take] = s]
    BY <1>1, <1>4 DEF ServeCreate
  <2>2. /\ jobs' \in [Takes -> Status] /\ jobs'[head.take] = s
        /\ \A n \in Takes : jobs'[n] # jobs[n] => n = head.take
    BY <1>0, <1>1, <2>1 DEF Typed
  <2>3. head.kind = "create"
    BY <1>1, <1>4 DEF ServeCreate, Waiting
  <2> QED
    BY <1>2, <1>4, <2>1, <2>2, <2>3 DEF ServeCreate, mic
<1>5. CASE ServePoll
  <2>1. Serve(jobs[head.take]) /\ jobs' = jobs /\ jobs[head.take] \in Status
    BY <1>0, <1>1, <1>5 DEF ServePoll, Typed
  <2> QED
    BY <1>0, <1>2, <1>5, <2>1 DEF ServePoll, mic, Typed
<1>6. CASE ServeFails
  <2> DEFINE call == [head EXCEPT !.served = TRUE, !.ok = FALSE]
  <2>1. call \in CallSet /\ call.kind = head.kind /\ call.take = head.take /\ ~call.ok
    BY <1>1 DEF CallSet
  <2>2. calls' = [calls EXCEPT ![1] = call]
    BY <1>0, <1>1, <1>6 DEF ServeFails, CallSet, Typed
  <2> HIDE DEF call
  <2> QED
    BY <1>0, <1>6, <2>1, <2>2, Serves DEF ServeFails, mic, Typed
<1> QED
  BY <1>3, <1>4, <1>5, <1>6

-----------------------------------------------------------------------------
(* What the state of the submission records.                                *)

PanelSet == [stage: {"idle", "done", "error"} \cup Busy, job: 0..MaxTakes, status: Status]

\* One attempt of the job on the panel, with the end that is taken for its own.
Recorded(j, s) ==
  /\ attempts' \in [Takes -> [Terminal -> 0..2]]
  /\ \A n \in Takes, e \in Terminal : attempts'[n][e] # attempts[n][e] => n = j /\ e = s
  /\ attempts'[j][s] <= attempts[j][s] + 1

EndOf(new) == IF new.status = "COMPLETED" THEN "COMPLETED" ELSE "FAILED"

LEMMA CommitQuiet ==
  ASSUME NEW new, NEW fresh, Commit(new, fresh),
         ~mounted \/ new.job = 0 \/ new.stage \notin {"done", "error"}
  PROVE  attempts' = attempts /\ panel' = IF mounted THEN new ELSE panel
BY DEF Commit, EffectRuns

LEMMA CommitRecords ==
  ASSUME Typed, NEW new \in PanelSet, NEW fresh, Commit(new, fresh), new.job \in Takes
  PROVE  /\ Recorded(new.job, EndOf(new))
         /\ panel' = IF mounted THEN new ELSE panel
<1> DEFINE s == EndOf(new)
           j == new.job
<1>1. s \in Terminal /\ j \in Takes
  BY DEF EndOf, Terminal
<1>2. attempts[j][s] \in 0..2 /\ attempts \in [Takes -> [Terminal -> 0..2]]
  BY <1>1 DEF Typed
<1>3. \/ attempts' = attempts
      \/ attempts' = [attempts EXCEPT ![j][s] = IF @ < 2 THEN @ + 1 ELSE @]
  BY DEF Commit, EndOf
<1> HIDE DEF s, j
<1>4. ASSUME attempts' = attempts
      PROVE  Recorded(j, s)
  BY <1>1, <1>2, <1>4 DEF Recorded
<1>5. ASSUME attempts' = [attempts EXCEPT ![j][s] = IF @ < 2 THEN @ + 1 ELSE @]
      PROVE  Recorded(j, s)
  <2> DEFINE v == IF attempts[j][s] < 2 THEN attempts[j][s] + 1 ELSE attempts[j][s]
  <2>1. v \in 0..2 /\ v <= attempts[j][s] + 1
    BY <1>2
  <2>2. attempts' = [attempts EXCEPT ![j] = [attempts[j] EXCEPT ![s] = v]]
    BY <1>5
  <2> HIDE DEF v
  <2> QED
    BY <1>1, <1>2, <2>1, <2>2 DEF Recorded
<1>6. Recorded(j, s)
  BY <1>3, <1>4, <1>5
<1> QED
  BY <1>6 DEF Commit, s, j

-----------------------------------------------------------------------------
(* Answers and uploads.                                                     *)

LEMMA Proceeds ==
  ASSUME PanelInv, UNCHANGED <<mounted, takes, asking, held, resolver, submitted, abandoned>>,
         Typed', QueueTrue',
         abandoned = {} => /\ EarlyUntried' /\ AttemptsTrue' /\ (mounted => Shown')
                           /\ \A n \in Takes, e \in Terminal :
                                attempts'[n][e] # attempts[n][e] => n = submitted
  PROVE  PanelInv'
<1>1. ASSUME abandoned = {} PROVE UnsubmittedFresh'
  BY <1>1 DEF PanelInv, Kept, UnsubmittedFresh, Unsubmitted, Untried
<1> QED
  BY <1>1 DEF PanelInv, Kept

LEMMA DroppedTrue ==
  ASSUME PanelInv, calls # <<>>, calls' = Tail(calls), jobs' = jobs
  PROVE  /\ QueueTrue' /\ calls' \in Seq(CallSet)
         /\ \A i \in Queued' : \E k \in Queued : k > 1 /\ calls'[i] = calls[k]
         /\ Len(calls') = Len(calls) - 1
<1>1. /\ calls' \in Seq(CallSet) /\ Len(calls') = Len(calls) - 1
      /\ \A i \in Queued' : i + 1 \in Queued /\ i + 1 > 1 /\ calls'[i] = calls[i + 1]
  BY QueueDropped DEF PanelInv
<1>2. \A i \in Queued' : ~calls'[i].served
  BY <1>1 DEF PanelInv, QueueTrue
<1> QED
  BY <1>1, <1>2 DEF QueueTrue

\* A call is answered that asked for no poll: nothing else is queued.
LEMMA EarlyHead ==
  ASSUME PanelInv, calls # <<>>, abandoned = {}, calls[1].kind # "poll"
  PROVE  /\ Untried(calls[1].take)
         /\ mounted => /\ uploads = {} /\ Len(calls) = 1 /\ poller = 0 /\ resolver = 0
                       /\ panel.job = 0 /\ panel.stage \in Busy /\ calls[1].take = submitted
<1>1. 1 \in Queued /\ Kept
  BY QueueHead DEF PanelInv
<1>2. Early /\ Untried(calls[1].take)
  BY <1>1 DEF Early, Kept, EarlyUntried
<1> QED
  BY <1>1, <1>2 DEF Kept, Shown, OneAtATime, Current

\* No poll is queued beside a call or upload that comes before the job.
LEMMA PollHead ==
  ASSUME PanelInv, calls # <<>>, abandoned = {}, mounted, calls[1].kind = "poll"
  PROVE  ~Early /\ calls[1].take = submitted
<1>1. 1 \in Queued /\ Shown
  BY QueueHead DEF PanelInv, Kept
<1>2. ASSUME Early PROVE FALSE
  <2>1. uploads = {} /\ Len(calls) = 1
    BY <1>1, <1>2 DEF Shown, OneAtATime
  <2>2. \A i \in Queued : i = 1
    BY <2>1 DEF Queued
  <2> QED
    BY <1>2, <2>1, <2>2 DEF Early
<1> QED
  BY <1>1, <1>2 DEF Shown, Current

\* The submission ends with an error before it has a job.
LEMMA FailsEarly ==
  ASSUME PanelInv, Commit(NoPanel("error"), FALSE),
         \/ /\ calls # <<>> /\ calls[1].kind # "poll" /\ calls' = Tail(calls) /\ UNCHANGED uploads
         \/ \E n \in uploads : uploads' = uploads \ {n} /\ UNCHANGED calls,
         UNCHANGED <<mounted, takes, asking, held, resolver, poller, jobs, submitted, abandoned,
                     overlapped, missed>>
  PROVE  PanelInv'
<1>0. Typed /\ QueueTrue
  BY DEF PanelInv
<1>1. NoPanel("error") \in PanelSet /\ NoPanel("error").job = 0 /\ NoPanel("error").stage = "error"
  BY PracticeAssumption DEF NoPanel, PanelSet, Status
<1>2. attempts' = attempts /\ panel' = IF mounted THEN NoPanel("error") ELSE panel
  BY <1>1, CommitQuiet
<1>3. /\ QueueTrue' /\ calls' \in Seq(CallSet) /\ uploads' \subseteq uploads
      /\ \A i \in Queued' : \E k \in Queued : calls'[i] = calls[k]
  <2>1. CASE calls # <<>> /\ calls' = Tail(calls) /\ UNCHANGED uploads
    BY <2>1, DroppedTrue
  <2>2. CASE uploads' \subseteq uploads /\ UNCHANGED calls
    BY <1>0, <2>2 DEF QueueTrue, Queued, Typed
  <2> QED
    BY <2>1, <2>2
<1>4. Typed'
  BY <1>0, <1>1, <1>2, <1>3 DEF Typed, PanelSet
<1>5. ASSUME abandoned = {} PROVE EarlyUntried' /\ AttemptsTrue'
  <2>1. EarlyUntried /\ AttemptsTrue
    BY <1>5 DEF PanelInv, Kept
  <2>2. EarlyUntried'
    BY <1>2, <1>3, <2>1 DEF EarlyUntried, Untried
  <2> QED
    BY <1>2, <2>1, <2>2 DEF AttemptsTrue
<1>6. ASSUME abandoned = {}, mounted PROVE Shown'
  <2>1. Shown
    BY <1>6 DEF PanelInv, Kept
  <2>2. Len(calls') = 0 /\ uploads' = {} /\ poller = 0
    <3>1. CASE calls # <<>> /\ calls[1].kind # "poll" /\ calls' = Tail(calls) /\ UNCHANGED uploads
      BY <1>6, <3>1, EarlyHead, DroppedTrue
    <3>2. CASE \E n \in uploads : uploads' = uploads \ {n} /\ UNCHANGED calls
      <4>1. uploads # {} /\ uploads \subseteq {submitted} /\ Early
        BY <2>1, <3>2 DEF Shown, Current, Early
      <4>2. calls = <<>> /\ poller = 0
        BY <2>1, <4>1 DEF Shown, OneAtATime
      <4> QED
        BY <1>0, <3>2, <4>1, <4>2, QueueEmpty
    <3> QED
      BY <3>1, <3>2
  <2>3. Queued' = {} /\ calls' = <<>>
    BY <1>3, <2>2, EmptySeq DEF Queued
  <2>4. panel'.job = 0 /\ panel'.stage = "error"
    BY <1>1, <1>2, <1>6
  <2> QED
    BY <2>1, <2>2, <2>3, <2>4
       DEF Shown, Current, OneAtATime, Early, PollerScoring, Spent, PanelTrue
<1> QED
  BY <1>2, <1>3, <1>4, <1>5, <1>6, Proceeds

LEMMA SignedStep ==
  ASSUME PanelInv, AnswerSign
  PROVE  PanelInv'
<1> DEFINE n == calls[1].take
<1>0. Typed /\ calls # <<>> /\ calls' = Tail(calls) /\ Head(calls) = calls[1] /\ calls[1] \in CallSet
      /\ 1 \in Queued /\ calls[1].kind = "sign" /\ n \in Takes
  BY QueueHead DEF PanelInv, AnswerSign, Answered, CallSet
<1>1. CASE ~calls[1].ok
  BY <1>0, <1>1, FailsEarly DEF AnswerSign, mic, SubmitFailed
<1>2. CASE calls[1].ok
  <2>1. /\ uploads' = uploads \cup {n}
        /\ UNCHANGED <<panel, attempts, mounted, takes, asking, held, resolver, poller, jobs,
                       submitted, abandoned, overlapped, missed>>
    BY <1>0, <1>2 DEF AnswerSign, mic, TakeOf
  <2>2. /\ QueueTrue' /\ calls' \in Seq(CallSet) /\ Len(calls') = Len(calls) - 1
        /\ \A i \in Queued' : \E k \in Queued : calls'[i] = calls[k]
    BY <1>0, <2>1, DroppedTrue
  <2>3. Typed'
    BY <1>0, <2>1, <2>2 DEF Typed
  <2>4. ASSUME abandoned = {} PROVE EarlyUntried' /\ AttemptsTrue'
    <3>1. EarlyUntried /\ AttemptsTrue /\ Untried(n)
      BY <1>0, <2>4, EarlyHead DEF PanelInv, Kept
    <3>2. EarlyUntried'
      BY <2>1, <2>2, <3>1 DEF EarlyUntried, Untried
    <3> QED
      BY <2>1, <3>1, <3>2 DEF AttemptsTrue
  <2>5. ASSUME abandoned = {}, mounted PROVE Shown'
    <3>1. Shown /\ Untried(n)
      BY <1>0, <2>5, EarlyHead DEF PanelInv, Kept
    <3>2. /\ uploads = {} /\ Len(calls) = 1 /\ poller = 0 /\ resolver = 0
          /\ panel.job = 0 /\ panel.stage \in Busy /\ n = submitted
      BY <1>0, <2>5, EarlyHead
    <3>3. Queued' = {} /\ calls' = <<>> /\ Len(calls') = 0
      BY <2>2, <3>2, EmptySeq DEF Queued
    <3> QED
      BY <2>1, <3>1, <3>2, <3>3
         DEF Shown, Current, OneAtATime, Early, PollerScoring, Spent, PanelTrue, Untried
  <2> QED
    BY <2>1, <2>2, <2>3, <2>4, <2>5, Proceeds
<1> QED
  BY <1>1, <1>2

LEMMA UploadStep ==
  ASSUME PanelInv, NEW n \in Takes, Uploaded(n) \/ UploadFails(n)
  PROVE  PanelInv'
<1>0. Typed /\ n \in uploads /\ uploads' = uploads \ {n}
  BY DEF PanelInv, Uploaded, UploadFails
<1>1. CASE UploadFails(n)
  BY <1>0, <1>1, FailsEarly DEF UploadFails, mic, SubmitFailed
<1>2. CASE Uploaded(n)
  <2> DEFINE new == [panel EXCEPT !.stage = "scoring"]
  <2>1. new \in PanelSet /\ new.stage = "scoring" /\ new.job = panel.job /\ new.status = panel.status
    BY <1>0 DEF Typed, PanelSet, Busy
  <2>2. Commit(new, FALSE)
    BY <1>2 DEF Uploaded
  <2> HIDE DEF new
  <2>3. attempts' = attempts /\ panel' = IF mounted THEN new ELSE panel
    BY <2>1, <2>2, CommitQuiet
  <2>4. /\ calls' = Append(calls, Call("create", n))
        /\ UNCHANGED <<mounted, takes, asking, held, resolver, poller, jobs, submitted, abandoned,
                       overlapped, missed>>
    BY <1>2 DEF Uploaded, mic
  <2>5. /\ Call("create", n) \in CallSet /\ ~Call("create", n).served
        /\ Call("create", n).kind = "create" /\ Call("create", n).take = n
    BY DEF Call, CallSet, Status
  <2>6. /\ calls' \in Seq(CallSet) /\ Len(calls') = Len(calls) + 1
        /\ \A i \in Queued' : (i \in Queued /\ calls'[i] = calls[i])
                                \/ (i = Len(calls) + 1 /\ calls'[i] = Call("create", n))
    BY <1>0, <2>4, <2>5, QueueGrown
  <2>7. QueueTrue'
    BY <2>4, <2>5, <2>6 DEF PanelInv, QueueTrue
  <2>8. Typed'
    BY <1>0, <2>1, <2>3, <2>4, <2>6 DEF Typed, PanelSet
  <2>9. ASSUME abandoned = {} PROVE EarlyUntried' /\ AttemptsTrue'
    <3>1. EarlyUntried /\ AttemptsTrue /\ Untried(n)
      BY <1>0, <2>9 DEF PanelInv, Kept, EarlyUntried
    <3>2. EarlyUntried'
      BY <1>0, <2>3, <2>5, <2>6, <3>1 DEF EarlyUntried, Untried
    <3> QED
      BY <2>3, <2>4, <3>1, <3>2 DEF AttemptsTrue
  <2>10. ASSUME abandoned = {}, mounted PROVE Shown'
    <3>1. Shown /\ EarlyUntried
      BY <2>10 DEF PanelInv, Kept
    <3>2. Early /\ uploads = {n} /\ n = submitted /\ Untried(n)
      BY <1>0, <3>1 DEF Early, Shown, Current, EarlyUntried
    <3>3. calls = <<>> /\ poller = 0 /\ resolver = 0 /\ panel.job = 0
      BY <3>1, <3>2 DEF Shown, OneAtATime
    <3>4. Len(calls') = 1 /\ uploads' = {} /\ \A i \in Queued' : calls'[i].take = n
      BY <1>0, <2>5, <2>6, <3>2, <3>3, EmptySeq DEF Queued
    <3>5. panel'.job = 0 /\ panel'.stage = "scoring" /\ panel'.stage \in Busy
      BY <2>1, <2>3, <2>10, <3>3 DEF Busy
    <3> QED
      BY <2>3, <2>4, <3>2, <3>3, <3>4, <3>5
         DEF Shown, Current, OneAtATime, PollerScoring, Spent, PanelTrue, Untried
  <2> QED
    BY <2>3, <2>4, <2>7, <2>8, <2>9, <2>10, Proceeds
<1> QED
  BY <1>1, <1>2

\* A job's one attempt is recorded with the end that is the job's.
LEMMA AttemptRecorded ==
  ASSUME PanelInv, abandoned = {}, NEW j \in Takes, NEW s \in Terminal, Recorded(j, s),
         j \in overlapped \/ Untried(j),
         jobs[j] = s \/ (s = "FAILED" /\ j \in missed'),
         jobs' = jobs, overlapped' = overlapped, missed \subseteq missed'
  PROVE  AttemptsTrue'
<1>0. Typed /\ AttemptsTrue /\ Terminal = {"COMPLETED", "FAILED"}
  BY DEF PanelInv, Kept, Terminal
<1>1. ASSUME NEW n \in Takes, n # j PROVE \A e \in Terminal : attempts'[n][e] = attempts[n][e]
  BY <1>1 DEF Recorded
<1>2. ASSUME j \notin overlapped
      PROVE  attempts'[j][s] <= 1 /\ \A e \in Terminal : e # s => attempts'[j][e] = 0
  BY <1>2 DEF Recorded, Untried
<1>3. \A n \in Takes, e \in Terminal : attempts'[n][e] \in 0..2
  BY DEF Recorded
<1>4. ASSUME NEW n \in Takes \ overlapped
      PROVE  /\ attempts'[n]["COMPLETED"] + attempts'[n]["FAILED"] <= 1
             /\ \A e \in Terminal : attempts'[n][e] > 0 => jobs[n] = e \/ (e = "FAILED" /\ n \in missed')
  <2>1. CASE n # j
    BY <1>0, <1>1, <2>1 DEF AttemptsTrue
  <2>2. CASE n = j
    <3>1. attempts'[j][s] \in 0..1 /\ \A e \in Terminal : e # s => attempts'[j][e] = 0
      BY <1>2, <1>3, <1>4, <2>2
    <3> QED
      BY <1>0, <2>2, <3>1
  <2> QED
    BY <2>1, <2>2
<1> QED
  BY <1>4 DEF AttemptsTrue

\* What is left once an answer to a poll is handled.
LEMMA PollDropped ==
  ASSUME PanelInv, calls # <<>>, abandoned = {}, mounted, calls[1].kind = "poll",
         calls' = Tail(calls), poller' \in {0, poller},
         UNCHANGED <<mounted, uploads, jobs, submitted, overlapped, resolver>>
  PROVE  /\ calls[1].take = submitted /\ submitted \in Takes
         /\ uploads = {} /\ ~Early'
         /\ \A i \in Queued' : calls'[i].take = submitted
         /\ submitted \notin overlapped => Untried(submitted) /\ calls' = <<>> /\ Len(calls') <= 1
<1>1. Shown /\ ~Early /\ calls[1].take = submitted /\ Typed
  BY PollHead DEF PanelInv, Kept
<1>2. calls[1] \in CallSet /\ Len(calls) \in Nat \ {0}
  BY <1>1, QueueHead
<1>3. submitted \in Takes
  BY <1>1, <1>2 DEF CallSet
<1>4. /\ calls' \in Seq(CallSet) /\ Len(calls') = Len(calls) - 1
      /\ \A i \in Queued' : \E k \in Queued : k > 1 /\ calls'[i] = calls[k]
  BY DroppedTrue
<1>5. uploads = {} /\ \A i \in Queued : calls[i].kind = "poll"
  BY <1>1 DEF Early
<1>6. ~Early' /\ \A i \in Queued' : calls'[i].take = submitted
  BY <1>1, <1>4, <1>5 DEF Early, Shown, Current
<1>7. ASSUME submitted \notin overlapped
      PROVE  Untried(submitted) /\ calls' = <<>> /\ Len(calls') <= 1
  <2>1. Len(calls) <= 1 /\ Untried(submitted)
    BY <1>1, <1>3, <1>7 DEF Shown, Spent
  <2>2. Len(calls') = 0
    BY <1>2, <1>4, <2>1
  <2> QED
    BY <1>4, <2>1, <2>2, EmptySeq
<1> QED
  BY <1>1, <1>3, <1>5, <1>6, <1>7

AnswerPanel(n, s) == [stage |-> StageOf(s), job |-> n, status |-> s]

LEMMA AnswerPanels ==
  ASSUME NEW n \in Takes, NEW s \in Status
  PROVE  /\ AnswerPanel(n, s) \in PanelSet
         /\ AnswerPanel(n, s).job = n /\ AnswerPanel(n, s).status = s
         /\ AnswerPanel(n, s).stage = StageOf(s)
         /\ s \in Terminal => EndOf(AnswerPanel(n, s)) = s
         /\ s \notin Terminal => StageOf(s) = "scoring"
<1>1. StageOf(s) \in {"done", "error", "scoring"} /\ n \in 0..MaxTakes
  BY DEF StageOf, Takes
<1>2. AnswerPanel(n, s) \in PanelSet
  BY <1>1 DEF AnswerPanel, PanelSet, Busy
<1>3. s \notin Terminal => StageOf(s) = "scoring"
  BY DEF StageOf, Terminal
<1>4. s \in Terminal => EndOf(AnswerPanel(n, s)) = s
  BY DEF EndOf, AnswerPanel, Terminal
<1> QED
  BY <1>2, <1>3, <1>4 DEF AnswerPanel

\* The answer that says how the job ended.
LEMMA EndAnswered ==
  ASSUME PanelInv, calls # <<>>, calls[1].served, calls[1].ok, calls[1].status \in Terminal,
         calls[1].kind # "sign", Commit(AnswerPanel(calls[1].take, calls[1].status), TRUE),
         calls' = Tail(calls), poller' = IF calls[1].kind = "poll" THEN 0 ELSE poller,
         UNCHANGED <<mounted, takes, asking, held, resolver, uploads, jobs, submitted, abandoned,
                     overlapped, missed>>
  PROVE  PanelInv'
<1> DEFINE n == calls[1].take
           s == calls[1].status
<1>0. Typed /\ QueueTrue /\ 1 \in Queued /\ n \in Takes /\ s \in Terminal /\ s \in Status
  BY QueueHead DEF PanelInv, CallSet
<1>1. jobs[n] = s
  BY <1>0 DEF QueueTrue
<1>2. /\ AnswerPanel(n, s) \in PanelSet /\ AnswerPanel(n, s).job = n
      /\ AnswerPanel(n, s).status = s /\ EndOf(AnswerPanel(n, s)) = s
  BY <1>0, AnswerPanels
<1> HIDE DEF n, s
<1>3. Recorded(n, s) /\ panel' = IF mounted THEN AnswerPanel(n, s) ELSE panel
  <2>1. Commit(AnswerPanel(n, s), TRUE)
    BY DEF n, s
  <2> QED
    BY <1>0, <1>2, <2>1, CommitRecords
<1>4. /\ QueueTrue' /\ calls' \in Seq(CallSet) /\ Len(calls') = Len(calls) - 1
      /\ \A i \in Queued' : \E k \in Queued : calls'[i] = calls[k]
  BY DroppedTrue
<1>5. Typed'
  <2>1. attempts' \in [Takes -> [Terminal -> 0..2]] /\ panel' \in PanelSet
    BY <1>0, <1>2, <1>3 DEF Recorded, Typed, PanelSet
  <2>2. poller' \in 0..MaxTakes
    BY <1>0, PracticeAssumption DEF Typed
  <2> QED
    BY <1>0, <1>4, <2>1, <2>2 DEF Typed, PanelSet
<1>6. ASSUME abandoned = {}, mounted
      PROVE  /\ n = submitted /\ ~Early' /\ poller' = 0
             /\ \A i \in Queued' : calls'[i].take = submitted
             /\ n \in overlapped \/ (Untried(n) /\ calls' = <<>> /\ Len(calls') <= 1)
             /\ uploads = {}
  <2>1. CASE calls[1].kind = "poll"
    BY <1>6, <2>1, PollDropped DEF n
  <2>2. CASE calls[1].kind # "poll"
    <3>1. Untried(n) /\ uploads = {} /\ Len(calls) = 1 /\ poller = 0 /\ n = submitted
      BY <1>6, <2>2, EarlyHead DEF n
    <3>2. Len(calls') = 0 /\ calls' = <<>> /\ Queued' = {}
      BY <1>4, <3>1, EmptySeq DEF Queued
    <3>3. ~Early' /\ poller' = 0 /\ Len(calls') <= 1
      BY <2>2, <3>1, <3>2 DEF Early
    <3>4. \A i \in Queued' : calls'[i].take = submitted
      BY <3>2
    <3> QED
      BY <3>1, <3>2, <3>3, <3>4, ZenonT(30)
  <2> QED
    BY <2>1, <2>2
<1>7. ASSUME abandoned = {}, ~mounted
      PROVE  EarlyUntried' /\ AttemptsTrue' /\ attempts' = attempts
  <2>1. EarlyUntried /\ AttemptsTrue
    BY <1>7 DEF PanelInv, Kept
  <2>2. attempts' = attempts
    BY <1>7, CommitQuiet
  <2>3. \A k : Untried(k)' <=> Untried(k)
    BY <2>2 DEF Untried
  <2>4. \A k \in Queued : calls[k].kind # "poll" => Untried(calls[k].take)
    BY <2>1 DEF EarlyUntried
  <2>5. EarlyUntried'
    <3>1. \A k \in uploads' : Untried(k)'
      BY <2>1, <2>3 DEF EarlyUntried
    <3>2. ASSUME NEW i \in Queued', calls'[i].kind # "poll"
          PROVE  \A e \in Terminal : attempts'[calls'[i].take][e] = 0
      <4>1. PICK k \in Queued : calls'[i] = calls[k]
        BY <1>4
      <4>2. Untried(calls[k].take)
        BY <2>4, <3>2, <4>1
      <4>3. \A e \in Terminal : attempts[calls'[i].take][e] = 0
        BY <4>1, <4>2 DEF Untried
      <4> QED
        BY <2>2, <4>3
    <3> QED
      BY <3>1, <3>2 DEF EarlyUntried, Untried
  <2>6. AttemptsTrue'
    BY <2>1, <2>2 DEF AttemptsTrue
  <2> QED
    BY <2>2, <2>5, <2>6
<1>8. ASSUME abandoned = {}, mounted PROVE EarlyUntried' /\ AttemptsTrue' /\ Shown'
  <2>1. EarlyUntried'
    BY <1>6, <1>8 DEF EarlyUntried, Early
  <2>2. AttemptsTrue'
    BY <1>0, <1>1, <1>3, <1>6, <1>8, AttemptRecorded
  <2>3. panel'.job = n /\ panel'.status = s
    BY <1>2, <1>3, <1>8
  <2>4. Spent' /\ PanelTrue'
    BY <1>1, <1>6, <1>8, <2>3 DEF Spent, PanelTrue
  <2>5. Current' /\ OneAtATime' /\ PollerScoring'
    BY <1>6, <1>8, <2>3 DEF Current, OneAtATime, PollerScoring
  <2> QED
    BY <2>1, <2>2, <2>4, <2>5 DEF Shown
<1>9. ASSUME abandoned = {}
      PROVE \A k \in Takes, e \in Terminal : attempts'[k][e] # attempts[k][e] => k = submitted
  BY <1>3, <1>6, <1>7, <1>9 DEF Recorded
<1> QED
  BY <1>4, <1>5, <1>7, <1>8, <1>9, Proceeds

LEMMA PollCall ==
  ASSUME NEW n \in Takes
  PROVE  /\ Call("poll", n) \in CallSet /\ ~Call("poll", n).served
         /\ Call("poll", n).kind = "poll" /\ Call("poll", n).take = n
BY DEF Call, CallSet, Status

\* The answer that says the job is not done: the first of them starts the polls.
LEMMA PollingStarts ==
  ASSUME PanelInv, calls # <<>>, calls[1].kind = "create", calls[1].status \notin Terminal,
         Commit(AnswerPanel(calls[1].take, calls[1].status), TRUE),
         StartPolling(calls[1].take),
         UNCHANGED <<mounted, takes, asking, held, resolver, uploads, jobs, submitted, abandoned,
                     overlapped, missed>>
  PROVE  PanelInv'
<1> DEFINE n == calls[1].take
           s == calls[1].status
           new == AnswerPanel(n, s)
           rest == Tail(calls)
<1>0. Typed /\ QueueTrue /\ n \in Takes /\ s \in Status /\ calls[1].kind # "poll"
  BY QueueHead DEF PanelInv, CallSet
<1>1. new \in PanelSet /\ new.job = n /\ new.status = s /\ new.stage = "scoring"
  BY <1>0, AnswerPanels
<1>2. Commit(new, TRUE) /\ poller' = n /\ calls' = Append(rest, Call("poll", n)) /\ s \notin Terminal
  BY DEF StartPolling
<1>3. /\ rest \in Seq(CallSet) /\ Len(rest) = Len(calls) - 1 /\ Len(calls) \in Nat \ {0}
      /\ \A i \in 1..Len(rest) : i + 1 \in Queued /\ i + 1 > 1 /\ rest[i] = calls[i + 1]
  BY <1>0, HeadTailProperties, LenProperties, QueueHead DEF Typed, Queued
<1> HIDE DEF new, rest, s
<1>4. attempts' = attempts /\ panel' = IF mounted THEN new ELSE panel
  BY <1>1, <1>2, CommitQuiet
<1>5. Call("poll", n) \in CallSet /\ ~Call("poll", n).served
      /\ Call("poll", n).kind = "poll" /\ Call("poll", n).take = n
  BY <1>0, PollCall
<1>6. /\ calls' \in Seq(CallSet) /\ Len(calls') = Len(calls)
      /\ \A i \in Queued' : \/ calls'[i] = Call("poll", n)
                            \/ i + 1 \in Queued /\ i + 1 > 1 /\ calls'[i] = calls[i + 1]
  <2>1. /\ calls' \in Seq(CallSet) /\ Len(calls') = Len(rest) + 1
        /\ \A i \in 1..Len(rest) : calls'[i] = rest[i]
        /\ calls'[Len(rest) + 1] = Call("poll", n)
    BY <1>2, <1>3, <1>5, AppendProperties
  <2> QED
    BY <1>3, <2>1 DEF Queued
<1> HIDE DEF n
<1>7. QueueTrue'
  <2>1. \A i \in Queued' : ~calls'[i].served
    BY <1>0, <1>5, <1>6 DEF QueueTrue
  <2> QED
    BY <2>1 DEF QueueTrue
<1>8. Typed'
  <2>1. panel' \in PanelSet /\ poller' \in 0..MaxTakes
    BY <1>0, <1>1, <1>2, <1>4 DEF Typed, PanelSet, Takes
  <2> QED
    BY <1>0, <1>4, <1>6, <2>1 DEF Typed, PanelSet
<1>9. ASSUME abandoned = {} PROVE EarlyUntried' /\ AttemptsTrue'
  <2>1. EarlyUntried /\ AttemptsTrue
    BY <1>9 DEF PanelInv, Kept
  <2>2. \A k : Untried(k)' <=> Untried(k)
    BY <1>4 DEF Untried
  <2>3. \A k \in uploads' : Untried(k)'
    BY <2>1, <2>2 DEF EarlyUntried
  <2>4. ASSUME NEW i \in Queued', calls'[i].kind # "poll"
        PROVE  \A e \in Terminal : attempts'[calls'[i].take][e] = 0
    <3>1. i + 1 \in Queued /\ calls'[i] = calls[i + 1]
      BY <1>5, <1>6, <2>4
    <3>2. Untried(calls[i + 1].take)
      BY <2>1, <2>4, <3>1 DEF EarlyUntried
    <3>3. \A e \in Terminal : attempts[calls'[i].take][e] = 0
      BY <3>1, <3>2 DEF Untried
    <3> QED
      BY <1>4, <3>3
  <2>5. AttemptsTrue'
    BY <1>4, <2>1 DEF AttemptsTrue
  <2> QED
    BY <2>3, <2>4, <2>5 DEF EarlyUntried, Untried
<1>10. ASSUME abandoned = {}, mounted PROVE Shown'
  <2>1. /\ Untried(n) /\ uploads = {} /\ Len(calls) = 1 /\ resolver = 0 /\ n = submitted
    BY <1>0, <1>10, EarlyHead DEF n
  <2>2. \A i \in Queued' : calls'[i].kind = "poll" /\ calls'[i].take = n
    BY <1>5, <1>6, <2>1 DEF Queued
  <2>3. ~Early' /\ OneAtATime'
    BY <2>1, <2>2 DEF Early, OneAtATime
  <2>4. panel'.job = n /\ panel'.stage = "scoring" /\ panel'.status = s
    BY <1>1, <1>4, <1>10
  <2>5. Untried(submitted)' /\ Len(calls') <= 1
    BY <1>4, <1>6, <2>1 DEF Untried
  <2>6. Current'
    BY <1>2, <2>1, <2>2, <2>4 DEF Current
  <2>7. PollerScoring' /\ Spent' /\ PanelTrue'
    BY <1>2, <2>1, <2>4, <2>5 DEF PollerScoring, Spent, PanelTrue
  <2> QED
    BY <2>3, <2>6, <2>7 DEF Shown
<1> QED
  BY <1>4, <1>7, <1>8, <1>9, <1>10, Proceeds

\* Without an attempt, dropping the answered call keeps what is known of attempts.
LEMMA DroppedUntried ==
  ASSUME PanelInv, calls # <<>>, abandoned = {}, calls' = Tail(calls), attempts' = attempts,
         missed \subseteq missed', UNCHANGED <<uploads, jobs, overlapped>>
  PROVE  EarlyUntried' /\ AttemptsTrue'
<1>1. EarlyUntried /\ AttemptsTrue /\ \A i \in Queued' : \E k \in Queued : calls'[i] = calls[k]
  BY DroppedTrue DEF PanelInv, Kept
<1>2. \A k \in uploads' : Untried(k)'
  BY <1>1 DEF EarlyUntried, Untried
<1>3. ASSUME NEW i \in Queued', calls'[i].kind # "poll"
      PROVE  \A e \in Terminal : attempts'[calls'[i].take][e] = 0
  <2>1. PICK k \in Queued : calls'[i] = calls[k]
    BY <1>1
  <2>2. Untried(calls[k].take)
    BY <1>1, <1>3, <2>1 DEF EarlyUntried
  <2>3. \A e \in Terminal : attempts[calls'[i].take][e] = 0
    BY <2>1, <2>2 DEF Untried
  <2> QED
    BY <2>3
<1>4. ASSUME NEW k \in Takes \ overlapped, NEW e \in Terminal, attempts[k][e] > 0
      PROVE  jobs[k] = e \/ (e = "FAILED" /\ k \in missed')
  BY <1>1, <1>4 DEF AttemptsTrue
<1>5. AttemptsTrue'
  BY <1>1, <1>4 DEF AttemptsTrue
<1> QED
  BY <1>2, <1>3, <1>5 DEF EarlyUntried, Untried

LEMMA PollingGoesOn ==
  ASSUME PanelInv, calls # <<>>, calls[1].kind = "poll", calls[1].status \notin Terminal,
         Commit(AnswerPanel(calls[1].take, calls[1].status), TRUE), calls' = Tail(calls),
         UNCHANGED <<mounted, takes, asking, held, resolver, uploads, poller, jobs, submitted,
                     abandoned, overlapped, missed>>
  PROVE  PanelInv'
<1> DEFINE n == calls[1].take
           s == calls[1].status
           new == AnswerPanel(n, s)
<1>0. Typed /\ n \in Takes /\ s \in Status /\ s \notin Terminal /\ Commit(new, TRUE)
  BY QueueHead DEF PanelInv, CallSet
<1>1. new \in PanelSet /\ new.job = n /\ new.status = s /\ new.stage = "scoring"
  BY <1>0, AnswerPanels
<1> HIDE DEF new, s
<1>2. attempts' = attempts /\ panel' = IF mounted THEN new ELSE panel
  BY <1>0, <1>1, CommitQuiet
<1>3. QueueTrue' /\ calls' \in Seq(CallSet)
  BY DroppedTrue
<1>4. Typed'
  BY <1>0, <1>1, <1>2, <1>3 DEF Typed, PanelSet
<1>5. ASSUME abandoned = {}, mounted PROVE Shown'
  <2>1. Shown
    BY <1>5 DEF PanelInv, Kept
  <2>2. /\ n = submitted /\ uploads = {} /\ ~Early'
        /\ \A i \in Queued' : calls'[i].take = submitted
        /\ submitted \notin overlapped => Untried(submitted) /\ calls' = <<>> /\ Len(calls') <= 1
    BY <1>5, PollDropped DEF n
  <2> HIDE DEF n
  <2>3. panel'.job = n /\ panel'.stage = "scoring" /\ panel'.status = s
    BY <1>1, <1>2, <1>5
  <2>4. Untried(submitted)' <=> Untried(submitted)
    BY <1>2 DEF Untried
  <2>5. Spent'
    BY <2>2, <2>4 DEF Spent
  <2>6. Current' /\ OneAtATime'
    BY <2>1, <2>2, <2>3 DEF Shown, Current, OneAtATime
  <2>7. PollerScoring' /\ PanelTrue'
    BY <1>0, <2>1, <2>3 DEF Shown, PollerScoring, PanelTrue
  <2> QED
    BY <2>5, <2>6, <2>7 DEF Shown
<1>6. abandoned = {} => EarlyUntried' /\ AttemptsTrue'
  BY <1>2, DroppedUntried
<1> QED
  BY <1>2, <1>3, <1>4, <1>5, <1>6, Proceeds

\* A poll that failed ends the panel's job as one that failed, but for a job
\* that the panel already knew to be completed.
LEMMA PollMissed ==
  ASSUME PanelInv, calls # <<>>, calls[1].kind = "poll",
         Commit([panel EXCEPT !.stage = "error"], FALSE), calls' = Tail(calls), poller' = 0,
         missed' = missed \cup {calls[1].take},
         UNCHANGED <<mounted, takes, asking, held, resolver, uploads, jobs, submitted,
                     abandoned, overlapped>>
  PROVE  PanelInv'
<1> DEFINE new == [panel EXCEPT !.stage = "error"]
           n == calls[1].take
<1>0. Typed /\ missed \subseteq missed' /\ n \in missed' /\ Commit(new, FALSE)
  BY DEF PanelInv
<1>1. new \in PanelSet /\ new.job = panel.job /\ new.status = panel.status /\ new.stage = "error"
  BY <1>0 DEF Typed, PanelSet
<1> HIDE DEF new
<1>2. panel' = IF mounted THEN new ELSE panel
  BY <1>0 DEF Commit
<1>3. QueueTrue' /\ calls' \in Seq(CallSet)
  BY DroppedTrue
<1>4. ASSUME ~mounted \/ panel.job = 0 PROVE attempts' = attempts
  BY <1>0, <1>1, <1>4, CommitQuiet
<1>5. ASSUME panel.job # 0 PROVE Recorded(panel.job, EndOf(new))
  <2>1. new.job \in Takes
    BY <1>1, <1>5 DEF PanelSet, Takes
  <2> QED
    BY <1>0, <1>1, <2>1, CommitRecords
<1>6. Typed'
  <2>1. attempts' \in [Takes -> [Terminal -> 0..2]]
    BY <1>0, <1>4, <1>5 DEF Recorded, Typed
  <2>2. panel' \in PanelSet
    BY <1>0, <1>1, <1>2 DEF Typed, PanelSet
  <2>3. poller' \in 0..MaxTakes
    BY PracticeAssumption
  <2> QED
    BY <1>0, <1>3, <2>1, <2>2, <2>3 DEF Typed, PanelSet
<1>7. ASSUME abandoned = {}, mounted
      PROVE  /\ n = submitted /\ n \in Takes /\ uploads = {} /\ ~Early'
             /\ \A i \in Queued' : calls'[i].take = submitted
             /\ submitted \notin overlapped => Untried(submitted) /\ calls' = <<>> /\ Len(calls') <= 1
             /\ panel.job \in {0, n} /\ PanelTrue
  BY <1>7, PollDropped DEF PanelInv, Kept, Shown, Current
<1> HIDE DEF n
<1>8. ASSUME abandoned = {}, mounted PROVE EarlyUntried' /\ AttemptsTrue' /\ Shown'
  <2>1. EarlyUntried'
    BY <1>7, <1>8 DEF EarlyUntried, Early
  <2>2. AttemptsTrue'
    <3>1. CASE panel.job = 0
      BY <1>0, <1>4, <1>8, <3>1, DroppedUntried
    <3>2. ASSUME panel.job # 0 PROVE AttemptsTrue'
      <4>1. panel.job = n
        BY <1>7, <1>8, <3>2
      <4>2. EndOf(new) \in Terminal
        BY DEF EndOf, Terminal
      <4>3. jobs[n] = EndOf(new) \/ (EndOf(new) = "FAILED" /\ n \in missed')
        BY <1>0, <1>1, <1>7, <1>8, <3>2, <4>1 DEF EndOf, PanelTrue, Terminal
      <4>4. Recorded(n, EndOf(new)) /\ (n \in overlapped \/ Untried(n))
        BY <1>5, <1>7, <1>8, <3>2, <4>1
      <4> QED
        BY <1>0, <1>7, <1>8, <4>2, <4>3, <4>4, AttemptRecorded
    <3> QED
      BY <3>1, <3>2
  <2>3. panel'.job = panel.job /\ panel'.status = panel.status
    BY <1>1, <1>2, <1>8
  <2>4. Current' /\ OneAtATime' /\ PollerScoring'
    BY <1>7, <1>8, <2>3 DEF Current, OneAtATime, PollerScoring
  <2>5. Spent' /\ PanelTrue'
    BY <1>7, <1>8, <2>3 DEF Spent, PanelTrue
  <2> QED
    BY <2>1, <2>2, <2>4, <2>5 DEF Shown
<1>9. ASSUME abandoned = {}, ~mounted PROVE EarlyUntried' /\ AttemptsTrue'
  BY <1>0, <1>4, <1>9, DroppedUntried
<1>10. ASSUME abandoned = {}
       PROVE \A k \in Takes, e \in Terminal : attempts'[k][e] # attempts[k][e] => k = submitted
  BY <1>4, <1>5, <1>7, <1>10 DEF Recorded
<1> QED
  BY <1>3, <1>6, <1>8, <1>9, <1>10, Proceeds

LEMMA AnswerStep ==
  ASSUME PanelInv, AnswerCreate \/ AnswerPoll
  PROVE  PanelInv'
<1> DEFINE n == calls[1].take
           s == calls[1].status
<1>0. calls # <<>> /\ Head(calls) = calls[1] /\ calls[1].served
  BY QueueHead DEF PanelInv, AnswerCreate, AnswerPoll, Answered
<1>1. CASE AnswerCreate
  <2>1. calls[1].kind = "create"
    BY <1>0, <1>1 DEF AnswerCreate, Answered
  <2>2. CASE ~calls[1].ok
    BY <1>0, <1>1, <2>1, <2>2, FailsEarly DEF AnswerCreate, SubmitFailed, mic
  <2>3. CASE calls[1].ok /\ s \in Terminal
    BY <1>0, <1>1, <2>1, <2>3, EndAnswered DEF AnswerCreate, TakeOf, AnswerPanel, mic
  <2>4. CASE calls[1].ok /\ s \notin Terminal
    BY <1>0, <1>1, <2>1, <2>4, PollingStarts DEF AnswerCreate, TakeOf, AnswerPanel, mic
  <2> QED
    BY <2>2, <2>3, <2>4
<1>2. CASE AnswerPoll
  <2>1. calls[1].kind = "poll"
    BY <1>0, <1>2 DEF AnswerPoll, Answered
  <2>2. CASE ~calls[1].ok
    BY <1>0, <1>2, <2>1, <2>2, PollMissed DEF AnswerPoll, TakeOf, mic
  <2>3. CASE calls[1].ok /\ s \in Terminal
    BY <1>0, <1>2, <2>1, <2>3, EndAnswered DEF AnswerPoll, TakeOf, AnswerPanel, mic
  <2>4. CASE calls[1].ok /\ s \notin Terminal
    BY <1>0, <1>2, <2>1, <2>4, PollingGoesOn DEF AnswerPoll, TakeOf, AnswerPanel, mic
  <2> QED
    BY <2>2, <2>3, <2>4
<1> QED
  BY <1>1, <1>2

-----------------------------------------------------------------------------
(* The interval, the backend, and what the user does to a submission.       *)

LEMMA TickStep ==
  ASSUME PanelInv, Tick
  PROVE  PanelInv'
<1>0. /\ Typed /\ QueueTrue /\ poller \in Takes
      /\ calls' = Append(calls, Call("poll", poller))
      /\ overlapped' = overlapped \cup (IF PollsOf(poller) # {} THEN {poller} ELSE {})
      /\ UNCHANGED <<mounted, takes, asking, held, resolver, panel, uploads, poller, jobs, attempts,
                     submitted, abandoned, missed>>
  BY DEF PanelInv, Tick, Typed, Takes, mic
<1>1. Call("poll", poller) \in CallSet /\ ~Call("poll", poller).served
      /\ Call("poll", poller).kind = "poll" /\ Call("poll", poller).take = poller
  BY <1>0, PollCall
<1>2. /\ calls' \in Seq(CallSet) /\ Len(calls') = Len(calls) + 1 /\ Len(calls) \in Nat
      /\ \A i \in Queued' : (i \in Queued /\ calls'[i] = calls[i])
                              \/ (i = Len(calls) + 1 /\ calls'[i] = Call("poll", poller))
  BY <1>0, <1>1, QueueGrown
<1>3. QueueTrue'
  BY <1>0, <1>1, <1>2 DEF QueueTrue
<1>4. Typed'
  BY <1>0, <1>2 DEF Typed
<1>5. ASSUME abandoned = {} PROVE EarlyUntried' /\ AttemptsTrue'
  <2>1. EarlyUntried /\ AttemptsTrue
    BY <1>5 DEF PanelInv, Kept
  <2>2. EarlyUntried'
    BY <1>0, <1>1, <1>2, <2>1 DEF EarlyUntried, Untried
  <2>3. overlapped \subseteq overlapped'
    BY <1>0
  <2> QED
    BY <1>0, <2>1, <2>2, <2>3 DEF AttemptsTrue
<1>6. ASSUME abandoned = {}, mounted PROVE Shown'
  <2>1. Shown /\ Current /\ poller = submitted /\ poller # 0
    BY <1>0, <1>6 DEF PanelInv, Kept, Shown, Current, Takes
  <2>2. ~Early
    BY <2>1 DEF Shown, OneAtATime
  <2>3. \A i \in Queued' : calls'[i].kind = "poll" /\ calls'[i].take = submitted
    BY <1>1, <1>2, <2>1, <2>2 DEF Current, Early
  <2>4. Current' /\ OneAtATime' /\ PollerScoring' /\ PanelTrue'
    BY <1>0, <2>1, <2>2, <2>3 DEF Shown, Current, OneAtATime, PollerScoring, PanelTrue, Early
  <2>5. ASSUME submitted \in Takes \ overlapped'
        PROVE  Len(calls') <= 1 /\ Untried(submitted)
    <3>1. PollsOf(submitted) = {} /\ submitted \notin overlapped
      BY <1>0, <2>1, <2>5
    <3>2. DOMAIN calls = Queued
      BY <1>0, LenProperties DEF Typed, Queued
    <3>3. Queued = {}
      BY <2>1, <2>2, <3>1, <3>2 DEF PollsOf, Early, Current
    <3>4. Len(calls) = 0
      BY <1>2, <3>3 DEF Queued
    <3>5. Untried(submitted)
      BY <2>1, <2>5, <3>1 DEF Shown, Spent
    <3> QED
      BY <1>2, <3>4, <3>5
  <2>6. Spent'
    BY <1>0, <2>5 DEF Spent, Untried
  <2> QED
    BY <2>4, <2>6 DEF Shown
<1> QED
  BY <1>0, <1>3, <1>4, <1>5, <1>6, Proceeds

LEMMA JobStep ==
  ASSUME PanelInv, NEW n \in Takes, JobEnds(n)
  PROVE  PanelInv'
<1>0. /\ Typed /\ QueueTrue /\ jobs[n] = "RUNNING" /\ jobs' \in [Takes -> Status]
      /\ \A k \in Takes : k # n => jobs'[k] = jobs[k]
      /\ UNCHANGED <<mounted, takes, asking, held, resolver, panel, uploads, calls, poller, attempts,
                     submitted, abandoned, overlapped, missed>>
  BY DEF PanelInv, JobEnds, Typed, Status, mic
<1>1. \A k \in Takes, s \in Terminal : jobs[k] = s => jobs'[k] = s
  BY <1>0 DEF Terminal
<1>2. \A i \in Queued : calls[i].take \in Takes
  <2>1. \A i \in 1..Len(calls) : calls[i] \in CallSet
    BY <1>0, ElementOfSeq DEF Typed
  <2> QED
    BY <2>1 DEF Queued, CallSet
<1>3. QueueTrue'
  BY <1>0, <1>1, <1>2 DEF QueueTrue, Queued
<1>4. Typed'
  BY <1>0 DEF Typed
<1>5. ASSUME abandoned = {} PROVE EarlyUntried' /\ AttemptsTrue'
  <2>1. EarlyUntried /\ AttemptsTrue
    BY <1>5 DEF PanelInv, Kept
  <2>2. EarlyUntried'
    BY <1>0, <2>1 DEF EarlyUntried, Untried, Queued
  <2> QED
    BY <1>0, <1>1, <2>1, <2>2 DEF AttemptsTrue
<1>6. ASSUME abandoned = {}, mounted PROVE Shown'
  <2>1. Shown
    BY <1>6 DEF PanelInv, Kept
  <2>2. Current' /\ OneAtATime' /\ PollerScoring' /\ Spent'
    BY <1>0, <2>1 DEF Shown, Current, OneAtATime, PollerScoring, Spent, Early, Queued, Untried
  <2>3. panel.job # 0 => panel.job \in Takes
    BY <1>0 DEF Typed, Takes
  <2>4. PanelTrue'
    BY <1>0, <1>1, <2>1, <2>3 DEF Shown, PanelTrue
  <2> QED
    BY <2>2, <2>4 DEF Shown
<1> QED
  BY <1>0, <1>3, <1>4, <1>5, <1>6, Proceeds

LEMMA NothingUnderWay ==
  ASSUME Typed, UnderWay = {}
  PROVE  calls = <<>> /\ Len(calls) = 0 /\ Queued = {} /\ uploads = {} /\ ~Early
<1>1. uploads = {} /\ DOMAIN calls = {}
  BY DEF UnderWay
<1>2. DOMAIN calls = 1..Len(calls) /\ Len(calls) \in Nat
  BY LenProperties DEF Typed
<1>3. Len(calls) = 0
  BY <1>1, <1>2
<1> QED
  BY <1>1, <1>3, QueueEmpty DEF Queued, Early

\* A new recording, a cancel or the way out: the panel lets go of what it showed.
LEMMA LetGo ==
  ASSUME PanelInv, Typed', UNCHANGED <<uploads, calls, jobs, attempts, submitted, overlapped, missed>>,
         \A n \in Takes : Unsubmitted(n)' => Unsubmitted(n),
         abandoned' = {} => abandoned = {},
         mounted' => /\ panel' = NoPanel("idle") /\ poller' = 0
                     /\ abandoned' = {} => UnderWay = {}
  PROVE  PanelInv'
<1>0. Typed /\ QueueTrue
  BY DEF PanelInv
<1>1. QueueTrue'
  BY <1>0 DEF QueueTrue, Queued
<1>2. ASSUME abandoned' = {} PROVE UnsubmittedFresh' /\ EarlyUntried' /\ AttemptsTrue'
  <2>1. UnsubmittedFresh /\ EarlyUntried /\ AttemptsTrue
    BY <1>2 DEF PanelInv, Kept
  <2>2. \A k : Untried(k)' <=> Untried(k)
    BY DEF Untried
  <2>3. UnsubmittedFresh'
    BY <2>1, <2>2 DEF UnsubmittedFresh
  <2>4. EarlyUntried' /\ AttemptsTrue'
    BY <2>1 DEF EarlyUntried, AttemptsTrue, Untried, Queued
  <2> QED
    BY <2>3, <2>4
<1>3. ASSUME abandoned' = {}, mounted' PROVE Shown'
  <2>1. calls' = <<>> /\ Len(calls') = 0 /\ Queued' = {} /\ uploads' = {} /\ ~Early'
    <3>1. UnderWay = {} /\ Queued' = Queued /\ (Early' <=> Early)
      BY <1>3 DEF Queued, Early
    <3> QED
      BY <1>0, <3>1, NothingUnderWay
  <2>2. panel'.job = 0 /\ panel'.stage = "idle" /\ poller' = 0
    BY <1>3 DEF NoPanel
  <2> QED
    BY <2>1, <2>2 DEF Shown, Current, OneAtATime, PollerScoring, Spent, PanelTrue
<1> QED
  BY <1>1, <1>2, <1>3 DEF PanelInv, Kept

LEMMA IdlePanel == NoPanel("idle") \in PanelSet /\ NoPanel("uploading") \in PanelSet
BY PracticeAssumption DEF NoPanel, PanelSet, Status, Busy

LEMMA LetGoStep ==
  ASSUME PanelInv, Start \/ CancelScoring \/ Unmount
  PROVE  PanelInv'
<1>0. Typed /\ takes \in Nat /\ MaxTakes \in Nat
  BY PracticeAssumption DEF PanelInv, Typed
<1>1. CASE Start
  <2>1. /\ takes < MaxTakes /\ takes' = takes + 1 /\ asking' = asking \cup {takes + 1}
        /\ panel' = NoPanel("idle") /\ poller' = 0 /\ abandoned' = abandoned \cup UnderWay
        /\ UNCHANGED <<mounted, held, resolver, uploads, calls, jobs, attempts, submitted,
                       overlapped, missed>>
    BY <1>1 DEF Start, Abandon
  <2>2. takes' \in 0..MaxTakes /\ asking' \subseteq 1..takes'
    BY <1>0, <2>1 DEF Typed
  <2>3. {held, resolver} \subseteq (0..takes') \ asking'
    BY <1>0, <2>1 DEF Typed
  <2>4. Typed'
    BY <1>0, <2>1, <2>2, <2>3, IdlePanel DEF Typed, PanelSet
  <2>5. \A n \in Takes : Unsubmitted(n)' => Unsubmitted(n)
    BY <1>0, <2>1 DEF Unsubmitted, Takes
  <2> QED
    BY <2>1, <2>4, <2>5, LetGo
<1>2. CASE CancelScoring
  <2>1. /\ panel' = NoPanel("idle") /\ poller' = 0 /\ abandoned' = abandoned \cup UnderWay
        /\ held' = 0 /\ resolver' = 0
        /\ UNCHANGED <<mounted, takes, asking, uploads, calls, jobs, attempts, submitted,
                       overlapped, missed>>
    BY <1>2 DEF CancelScoring, Abandon, Cleanup
  <2>2. 0 \in (0..takes) \ asking /\ 0 \in 0..MaxTakes
    BY <1>0 DEF Typed
  <2>3. Typed'
    BY <1>0, <2>1, <2>2, IdlePanel DEF Typed, PanelSet
  <2>4. \A n \in Takes : Unsubmitted(n)' => Unsubmitted(n)
    BY <2>1 DEF Unsubmitted, Takes
  <2> QED
    BY <2>1, <2>3, <2>4, LetGo
<1>3. CASE Unmount
  <2>1. /\ ~mounted' /\ mounted' \in BOOLEAN /\ poller' = 0 /\ held' = 0
        /\ abandoned \subseteq abandoned'
        /\ UNCHANGED <<takes, asking, resolver, panel, uploads, calls, jobs, attempts, submitted,
                       overlapped, missed>>
    BY <1>3 DEF Unmount, Abandon, Cleanup
  <2>2. 0 \in (0..takes) \ asking /\ 0 \in 0..MaxTakes
    BY <1>0 DEF Typed
  <2>3. Typed'
    BY <1>0, <2>1, <2>2 DEF Typed
  <2>4. \A n \in Takes : Unsubmitted(n)' => Unsubmitted(n)
    BY <2>1 DEF Unsubmitted, Takes
  <2> QED
    BY <2>1, <2>3, <2>4, LetGo
<1> QED
  BY <1>1, <1>2, <1>3

\* onstop submits the recording that handleStop waits for: it was not tried before.
LEMMA SubmitStep ==
  ASSUME PanelInv, NEW n \in Takes, Stopped(n), ~UNCHANGED <<panel, calls, submitted, abandoned>>
  PROVE  PanelInv'
<1> DEFINE call == Call("sign", resolver)
<1>0. /\ Typed /\ QueueTrue /\ resolver # 0
      /\ panel' = IF mounted THEN NoPanel("uploading") ELSE panel
      /\ calls' = Append(calls, call) /\ submitted' = resolver
      /\ abandoned' = abandoned \cup UnderWay /\ held' = 0 /\ resolver' = 0
      /\ UNCHANGED <<mounted, takes, asking, uploads, poller, jobs, attempts, overlapped, missed>>
  BY DEF PanelInv, Stopped, Abandon, Cleanup
<1>1. resolver \in Takes /\ 0 \in (0..takes) \ asking /\ takes \in 0..MaxTakes
  BY <1>0, PracticeAssumption DEF Typed, Takes
<1>2. call \in CallSet /\ ~call.served /\ call.kind = "sign" /\ call.take = resolver
  BY <1>1 DEF Call, CallSet, Status
<1> HIDE DEF call
<1>3. /\ calls' \in Seq(CallSet) /\ Len(calls') = Len(calls) + 1
      /\ \A i \in Queued' : (i \in Queued /\ calls'[i] = calls[i])
                              \/ (i = Len(calls) + 1 /\ calls'[i] = call)
  BY <1>0, <1>2, QueueGrown
<1>4. QueueTrue'
  BY <1>0, <1>2, <1>3 DEF QueueTrue
<1>5. Typed'
  <2>1. panel' \in PanelSet /\ resolver \in 0..MaxTakes
    BY <1>0, <1>1, IdlePanel DEF Typed, PanelSet, Takes
  <2> QED
    BY <1>0, <1>1, <1>3, <2>1 DEF Typed, PanelSet
<1>6. ASSUME abandoned' = {} PROVE Kept'
  <2>1. /\ abandoned = {} /\ Kept /\ calls = <<>> /\ Len(calls) = 0 /\ Queued = {}
        /\ uploads = {} /\ ~Early
    BY <1>0, <1>6, NothingUnderWay DEF PanelInv
  <2>2. Untried(resolver) /\ \A k : Untried(k)' <=> Untried(k)
    BY <1>0, <1>1, <2>1 DEF Kept, UnsubmittedFresh, Unsubmitted, Untried
  <2>3. UnsubmittedFresh'
    <3>1. \A k \in Takes : Unsubmitted(k)' => Unsubmitted(k) /\ k # resolver
      BY <1>0, <1>1 DEF Unsubmitted, Takes, Typed
    <3> QED
      BY <1>0, <2>1, <2>2, <3>1 DEF Kept, UnsubmittedFresh
  <2>4. Len(calls') = 1 /\ \A i \in Queued' : calls'[i].take = resolver
    BY <1>2, <1>3, <2>1
  <2>5. EarlyUntried' /\ AttemptsTrue'
    BY <1>0, <2>1, <2>2, <2>4 DEF Kept, EarlyUntried, AttemptsTrue
  <2>6. ASSUME mounted PROVE Shown'
    <3>1. poller = 0
      BY <1>0, <2>1, <2>6 DEF Kept, Shown, PollerScoring
    <3>2. panel'.job = 0 /\ panel'.stage = "uploading" /\ panel'.stage \in Busy
      BY <1>0, <2>6 DEF NoPanel, Busy
    <3>3. Current' /\ OneAtATime' /\ PollerScoring' /\ PanelTrue'
      BY <1>0, <2>1, <2>4, <3>1, <3>2 DEF Current, OneAtATime, PollerScoring, PanelTrue
    <3>4. Spent'
      BY <1>0, <2>2, <2>4 DEF Spent
    <3> QED
      BY <3>3, <3>4 DEF Shown
  <2> QED
    BY <1>0, <2>3, <2>5, <2>6 DEF Kept
<1> QED
  BY <1>4, <1>5, <1>6 DEF PanelInv

LEMMA PanelStep == PanelInv /\ [Next]_vars => PanelInv'
<1> SUFFICES ASSUME PanelInv, [Next]_vars PROVE PanelInv'
  OBVIOUS
<1>1. CASE UNCHANGED vars
  BY <1>1 DEF vars, mic, PanelInv, Typed, QueueTrue, Queued, Kept, UnsubmittedFresh, Unsubmitted,
    Untried, EarlyUntried, AttemptsTrue, Shown, Current, OneAtATime, Early, PollerScoring, Spent,
    PanelTrue
<1>2. ASSUME NEW n \in Takes, Stopped(n) PROVE PanelInv'
  BY <1>2, RecorderStep, SubmitStep
<1>3. CASE Stop \/ \E n \in Takes : Granted(n) \/ NotGranted(n)
  BY <1>3, RecorderStep
<1>4. CASE Server \/ ServeFails
  BY <1>4, ServeStep, SignedStep, AnswerStep DEF Server
<1>5. CASE Tick \/ Start \/ CancelScoring \/ Unmount
  BY <1>5, TickStep, LetGoStep
<1>6. CASE \E n \in Takes : Uploaded(n) \/ UploadFails(n) \/ JobEnds(n)
  BY <1>6, UploadStep, JobStep
<1> QED
  BY <1>1, <1>2, <1>3, <1>4, <1>5, <1>6 DEF Next

\* useScoringJob: whatever is recorded, answered late or fails, a panel that
\* gave nothing up shows the job of the recording that was submitted last.
THEOREM PanelShowsCurrent == Spec => []ShownIsCurrent
  BY InitPanel, PanelStep, PanelHolds, PTL DEF Spec

\* RecorderPanel's effect: a job whose polls did not overlap is one attempt, with
\* the status the job has or, after a failed poll, FAILED.
THEOREM AttemptsOnce == Spec => []OneAttemptPerJob
  BY InitPanel, PanelStep, PanelHolds, PTL DEF Spec
=============================================================================

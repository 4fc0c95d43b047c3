---------------------------- MODULE WebPractice -----------------------------
(***************************************************************************)
(* The practice panel of the web app, for one mount of it: RecorderPanel   *)
(* with useRecorder (the microphone) and useScoringJob (upload, scoring    *)
(* and polling).                                                           *)
(*                                                                         *)
(* Take n is the n-th start of a recording, and the submission it may      *)
(* become.  calls is the tab's queue of server actions, which Next.js runs *)
(* one at a time: the head is served by the BFF, then answered, when the   *)
(* code after the await runs, be the panel mounted or not.                 *)
(***************************************************************************)
EXTENDS Naturals, Sequences, FiniteSets

CONSTANTS
  MaxTakes,  \* bound on the recordings started
  MaxCalls,  \* bound on the queue when the poller's interval fires
  MaxFaults  \* bound on the calls and uploads that fail

ASSUME PracticeAssumption == MaxTakes \in Nat \ {0} /\ MaxCalls \in Nat /\ MaxFaults \in Nat

Takes == 1..MaxTakes
Terminal == {"COMPLETED", "FAILED"}
Status == {"none", "RUNNING"} \cup Terminal
Busy == {"uploading", "scoring"}

VARIABLES
  mounted,
  takes,       \* how many recordings were started
  asking,      \* takes whose getUserMedia has not answered
  streams,     \* takes whose microphone stream is open
  held,        \* streamRef and recorderRef: the take cleanup() would stop, or 0
  isRecording,
  finishing,   \* takes whose recorder has stopped and whose onstop has not run
  resolver,    \* stopResolverRef: the take whose handleStop awaits, or 0
  errors,      \* of the recording: tooShort, device (recorder.error)
  panel,       \* useScoringJob's state: stage, the job's take, the job's status
  uploads,     \* takes whose PUT to the storage is under way
  calls,
  poller,      \* pollerRef: the take whose job the interval asks for, or 0
  jobs,        \* the BFF: the status of the job of each take
  leaving,     \* navigatedJobIdRef: the take whose result page is being opened
  attempts,    \* the attempts recorded, per take and status, at most 2 each
  faults,
  \* History, read by no guard:
  submitted,   \* the take submitted last
  leaked,      \* takes whose stream was replaced or restarted, or came too late
  abandoned,   \* takes cancelled, left or followed by another while under way
  overlapped,  \* takes that had two polls queued at once
  missed       \* takes that had a poll that failed

mic == <<asking, streams, held, isRecording, finishing, resolver, errors, leaked>>
history == <<submitted, leaked, abandoned, overlapped, missed>>
vars == <<mounted, takes, mic, panel, uploads, calls, poller, jobs, leaving,
          attempts, faults, submitted, abandoned, overlapped, missed>>

NoPanel(stage) == [stage |-> stage, job |-> 0, status |-> "none"]
Call(kind, n) == [kind |-> kind, take |-> n, served |-> FALSE, status |-> "none", ok |-> TRUE]
CallSet == [kind: {"sign", "create", "poll"}, take: Takes, served: BOOLEAN,
            status: Status, ok: BOOLEAN]
PollsOf(n) == {i \in DOMAIN calls : calls[i].kind = "poll" /\ calls[i].take = n}
UnderWay == uploads \cup {calls[i].take : i \in DOMAIN calls}

Init ==
  /\ mounted = TRUE /\ takes = 0
  /\ asking = {} /\ streams = {} /\ held = 0 /\ isRecording = FALSE
  /\ finishing = {} /\ resolver = 0 /\ errors = {}
  /\ panel = NoPanel("idle")
  /\ uploads = {} /\ calls = <<>> /\ poller = 0
  /\ jobs = [n \in Takes |-> "none"]
  /\ leaving = 0
  /\ attempts = [n \in Takes |-> [s \in Terminal |-> 0]]
  /\ faults = 0
  /\ submitted = 0 /\ leaked = {} /\ abandoned = {} /\ overlapped = {} /\ missed = {}

Fault == faults < MaxFaults /\ faults' = faults + 1

-----------------------------------------------------------------------------
(* Variants with a plausible mistake; no action of Next uses them.          *)

\* Cleaning up as if onstop alone released the microphone
CleanupKeepsStream(done) ==
  /\ held' = 0 /\ UNCHANGED streams
  /\ finishing' = ((finishing \cup {held}) \ done) \ {0}

\* The effect of RecorderPanel without its first return
EffectAlways(new, fresh) == mounted /\ new.job # 0 /\ fresh

\* A failed call leaves the panel as it is.
SubmitFailedSilently(stage) == panel

\* An answer is taken for the recording that was started last.
TakeOfNow(call) == takes

-----------------------------------------------------------------------------
(* State updates of useScoringJob and the effect of RecorderPanel on them.  *)

StageOf(status) ==
  CASE status = "COMPLETED" -> "done" [] status = "FAILED" -> "error" [] OTHER -> "scoring"

\* The effect runs when the stage or the job object changes.
EffectRuns(new, fresh) ==
  mounted /\ new.job # 0 /\ new.stage \in {"done", "error"} /\ (fresh \/ new.stage # panel.stage)

\* Whatever is not completed is logged as failed; a completed job is opened.
Commit(new, fresh) ==
  LET s == IF new.status = "COMPLETED" THEN "COMPLETED" ELSE "FAILED" IN
  /\ panel' = IF mounted THEN new ELSE panel
  /\ IF EffectRuns(new, fresh)
     THEN /\ attempts' = [attempts EXCEPT ![new.job][s] = IF @ < 2 THEN @ + 1 ELSE @]
          /\ leaving' = IF s = "COMPLETED" THEN new.job ELSE leaving
     ELSE UNCHANGED <<attempts, leaving>>

-----------------------------------------------------------------------------
(* What the panel shows, and so what the user can press.                    *)

Analysing == panel.stage \in Busy \cup {"done"}
ScoringError == "device" \notin errors /\ (panel.stage = "error" \/ "tooShort" \in errors)
MicButton == mounted /\ ~Analysing /\ ~ScoringError

Abandon(n) == abandoned' = abandoned \cup n

-----------------------------------------------------------------------------
(* The microphone.                                                          *)

\* useRecorder's cleanup.  A recorder whose stream ends stops too, and its
\* onstop is still to come, but for those of done.
Cleanup(done) ==
  /\ streams' = streams \ {held} /\ held' = 0
  /\ finishing' = ((finishing \cup {held}) \ done) \ {0}

\* handleStart: the microphone button, or Record again on the error card,
\* whatever is recording then.  A getUserMedia that waits for the user's
\* permission shows nowhere.
Start ==
  /\ (MicButton /\ ~isRecording) \/ (mounted /\ ~Analysing /\ ScoringError)
  /\ takes < MaxTakes
  /\ takes' = takes + 1
  /\ asking' = asking \cup {takes + 1}
  /\ isRecording' = FALSE /\ errors' = {}
  /\ panel' = NoPanel("idle") /\ poller' = 0 /\ leaving' = 0
  /\ leaked' = leaked \cup ({held} \ {0})
  /\ Abandon(UnderWay)
  /\ UNCHANGED <<mounted, streams, held, finishing, resolver, uploads, calls, jobs, attempts,
                 faults, submitted, overlapped, missed>>

Granted(n) ==
  /\ n \in asking
  /\ asking' = asking \ {n}
  /\ streams' = streams \cup {n} /\ held' = n /\ isRecording' = mounted
  /\ leaked' = leaked \cup (IF mounted THEN {held} \ {0} ELSE {n})
  /\ UNCHANGED <<mounted, takes, finishing, resolver, errors, panel, uploads, calls, poller,
                 jobs, leaving, attempts, faults, submitted, abandoned, overlapped, missed>>

\* Permission denied; or the recorder cannot be built, and only the stream
\* that was opened for it is stopped.
NotGranted(n) ==
  /\ n \in asking
  /\ asking' = asking \ {n}
  /\ errors' = errors \cup {"device"}
  /\ \/ UNCHANGED <<held, isRecording, leaked>>
     \/ /\ held' = 0 /\ isRecording' = FALSE
        /\ leaked' = leaked \cup ({held} \ {0})
  /\ UNCHANGED <<mounted, takes, streams, finishing, resolver, panel, uploads, calls, poller,
                 jobs, leaving, attempts, faults, submitted, abandoned, overlapped, missed>>

\* handleStop, up to its await; a second click finds the recorder inactive.
Stop ==
  /\ MicButton /\ isRecording
  /\ IF held = 0 \/ held \in finishing
     THEN Cleanup({}) /\ isRecording' = FALSE /\ UNCHANGED resolver
     ELSE /\ finishing' = finishing \cup {held} /\ resolver' = held
          /\ UNCHANGED <<streams, held, isRecording>>
  /\ UNCHANGED <<mounted, takes, asking, errors, panel, uploads, calls, poller, jobs,
                 leaving, attempts, faults, history>>

\* onstop, and the rest of the handleStop that waits: an empty recording ends
\* there, a short one on the error card, any other is submitted.
Stopped(n) ==
  /\ n \in finishing
  /\ Cleanup({n})
  /\ isRecording' = FALSE /\ resolver' = 0
  /\ errors' = errors \ {"device"} \/ (resolver # 0 /\ errors' = {"tooShort"})
  /\ \/ UNCHANGED <<panel, calls, submitted, abandoned>>
     \/ /\ resolver # 0 /\ errors' = errors \ {"device"}
        /\ panel' = IF mounted THEN NoPanel("uploading") ELSE panel
        /\ calls' = Append(calls, Call("sign", resolver))
        /\ submitted' = resolver
        /\ Abandon(UnderWay)
  /\ UNCHANGED <<mounted, takes, asking, uploads, poller, jobs, leaving, attempts, faults,
                 leaked, overlapped, missed>>

-----------------------------------------------------------------------------
(* The submission.                                                          *)

Waiting(kind) == calls # <<>> /\ ~Head(calls).served /\ Head(calls).kind = kind
Answered(kind) == calls # <<>> /\ Head(calls).served /\ Head(calls).kind = kind
Serve(status) == calls' = [calls EXCEPT ![1].served = TRUE, ![1].status = status]
TakeOf(call) == call.take

ServeSign ==
  /\ Waiting("sign") /\ Serve("none")
  /\ UNCHANGED <<mounted, takes, mic, panel, uploads, poller, jobs, leaving, attempts, faults,
                 abandoned, overlapped, submitted, missed>>

\* createScoringJobFromUpload: the backend may answer before or after the end.
ServeCreate ==
  /\ Waiting("create")
  /\ \E s \in Status \ {"none"} : Serve(s) /\ jobs' = [jobs EXCEPT ![Head(calls).take] = s]
  /\ UNCHANGED <<mounted, takes, mic, panel, uploads, poller, leaving, attempts, faults,
                 abandoned, overlapped, submitted, missed>>

ServePoll ==
  /\ Waiting("poll") /\ Serve(jobs[Head(calls).take])
  /\ UNCHANGED <<mounted, takes, mic, panel, uploads, poller, jobs, leaving, attempts, faults,
                 abandoned, overlapped, submitted, missed>>

ServeFails ==
  /\ calls # <<>> /\ ~Head(calls).served /\ Fault
  /\ calls' = [calls EXCEPT ![1].served = TRUE, ![1].ok = FALSE]
  /\ UNCHANGED <<mounted, takes, mic, panel, uploads, poller, jobs, leaving, attempts,
                 abandoned, overlapped, submitted, missed>>

\* The catch of submit
SubmitFailed(stage) == NoPanel("error")

AnswerSign ==
  LET n == TakeOf(Head(calls)) IN
  /\ Answered("sign")
  /\ calls' = Tail(calls)
  /\ IF Head(calls).ok
     THEN uploads' = uploads \cup {n} /\ UNCHANGED <<panel, leaving, attempts>>
     ELSE Commit(SubmitFailed(panel.stage), FALSE) /\ UNCHANGED uploads
  /\ UNCHANGED <<mounted, takes, mic, poller, jobs, faults, abandoned, overlapped, submitted, missed>>

\* The PUT went through, and the scoring job is asked for.
Uploaded(n) ==
  /\ n \in uploads
  /\ uploads' = uploads \ {n}
  /\ calls' = Append(calls, Call("create", n))
  /\ Commit([panel EXCEPT !.stage = "scoring"], FALSE)
  /\ UNCHANGED <<mounted, takes, mic, poller, jobs, faults, abandoned, overlapped, submitted, missed>>

UploadFails(n) ==
  /\ n \in uploads /\ Fault
  /\ uploads' = uploads \ {n}
  /\ Commit(SubmitFailed(panel.stage), FALSE)
  /\ UNCHANGED <<mounted, takes, mic, calls, poller, jobs, abandoned, overlapped, submitted, missed>>

\* clearPolling, one poll at once, and one every POLL_INTERVAL_MS
StartPolling(n) == poller' = n /\ calls' = Append(Tail(calls), Call("poll", n))

AnswerCreate ==
  LET n == TakeOf(Head(calls)) s == Head(calls).status IN
  /\ Answered("create")
  /\ IF Head(calls).ok
     THEN Commit([stage |-> StageOf(s), job |-> n, status |-> s], TRUE)
     ELSE Commit(SubmitFailed(panel.stage), FALSE)
  /\ IF Head(calls).ok /\ s \notin Terminal
     THEN StartPolling(n)
     ELSE calls' = Tail(calls) /\ UNCHANGED poller
  /\ UNCHANGED <<mounted, takes, mic, uploads, jobs, faults, abandoned, overlapped, submitted, missed>>

Tick ==
  /\ poller # 0 /\ Len(calls) < MaxCalls
  /\ calls' = Append(calls, Call("poll", poller))
  /\ overlapped' = overlapped \cup (IF PollsOf(poller) # {} THEN {poller} ELSE {})
  /\ UNCHANGED <<mounted, takes, mic, panel, uploads, poller, jobs, leaving, attempts, faults,
                 abandoned, submitted, missed>>

\* An end, or an error, stops whatever interval is running.
AnswerPoll ==
  LET n == TakeOf(Head(calls)) s == Head(calls).status IN
  /\ Answered("poll")
  /\ calls' = Tail(calls)
  /\ IF Head(calls).ok
     THEN /\ Commit([stage |-> StageOf(s), job |-> n, status |-> s], TRUE)
          /\ poller' = IF s \in Terminal THEN 0 ELSE poller
          /\ UNCHANGED missed
     ELSE /\ Commit([panel EXCEPT !.stage = "error"], FALSE)
          /\ poller' = 0
          /\ missed' = missed \cup {n}
  /\ UNCHANGED <<mounted, takes, mic, uploads, jobs, faults, abandoned, submitted, overlapped>>

\* The backend ends the job.
JobEnds(n) ==
  /\ jobs[n] = "RUNNING"
  /\ \E s \in Terminal : jobs' = [jobs EXCEPT ![n] = s]
  /\ UNCHANGED <<mounted, takes, mic, panel, uploads, calls, poller, leaving, attempts,
                 faults, abandoned, overlapped, submitted, missed>>

\* handleCancelScoring, offered 30 seconds after the last change of stage
CancelScoring ==
  /\ mounted /\ Analysing
  /\ panel' = NoPanel("idle") /\ poller' = 0 /\ leaving' = 0
  /\ Cleanup({})
  /\ resolver' = 0 /\ isRecording' = FALSE /\ errors' = {}
  /\ Abandon(UnderWay)
  /\ UNCHANGED <<mounted, takes, asking, uploads, calls, jobs, attempts, faults, submitted,
                 leaked, overlapped, missed>>

\* The result page opens, or the user goes elsewhere.
Unmount ==
  /\ mounted
  /\ mounted' = FALSE
  /\ Cleanup({}) /\ poller' = 0
  /\ isRecording' = FALSE
  /\ Abandon(IF leaving # 0 THEN {} ELSE UnderWay)
  /\ UNCHANGED <<takes, asking, resolver, errors, panel, uploads, calls, jobs, leaving, attempts,
                 faults, submitted, leaked, overlapped, missed>>

Server == ServeSign \/ ServeCreate \/ ServePoll \/ AnswerSign \/ AnswerCreate \/ AnswerPoll

Next ==
  \/ Start \/ Stop \/ CancelScoring \/ Unmount
  \/ Server \/ ServeFails \/ Tick
  \/ \E n \in Takes : Granted(n) \/ NotGranted(n) \/ Stopped(n) \/ Uploaded(n) \/ UploadFails(n) \/ JobEnds(n)

Spec == Init /\ [][Next]_vars

\* The server runs the queue, the upload ends, the interval fires, and the
\* backend ends its jobs (ScoringJobs says when it does).
FairSpec ==
  /\ Spec
  /\ WF_vars(Server) /\ WF_vars(Tick)
  /\ \A n \in Takes : WF_vars(Uploaded(n)) /\ WF_vars(JobEnds(n))

-----------------------------------------------------------------------------
(* Properties.                                                              *)

TypeOK ==
  /\ mounted \in BOOLEAN /\ isRecording \in BOOLEAN
  /\ {takes, held, resolver, poller, leaving, submitted} \subseteq 0..MaxTakes
  /\ UNION {asking, streams, finishing, uploads, leaked, abandoned, overlapped, missed} \subseteq Takes
  /\ errors \subseteq {"tooShort", "device"}
  /\ panel \in [stage: {"idle", "done", "error"} \cup Busy, job: 0..MaxTakes, status: Status]
  /\ calls \in Seq(CallSet)
  /\ jobs \in [Takes -> Status]
  /\ attempts \in [Takes -> [Terminal -> 0..2]]
  /\ faults \in 0..MaxFaults

\* A microphone is open only while the panel records or its recorder is about
\* to stop; the streams that escape are those that were replaced, restarted
\* over, or granted to a panel that was left (useRecorder).
MicReleased ==
  \/ streams \subseteq leaked
  \/ mounted /\ (isRecording \/ held \in finishing) /\ streams \ leaked = {held}

\* The job on the panel is that of the recording submitted last, unless an
\* earlier one was given up while it was under way.
ShownIsCurrent == mounted /\ panel.job # 0 /\ abandoned = {} => panel.job = submitted

\* A job is one attempt of the history, with the status it ended with, unless
\* polls of it overlapped or an earlier recording was given up; a job whose
\* poll failed is an attempt that FAILED, whatever becomes of it.
OneAttemptPerJob ==
  \A n \in Takes \ overlapped : abandoned = {} =>
    /\ attempts[n]["COMPLETED"] + attempts[n]["FAILED"] <= 1
    /\ \A s \in Terminal : attempts[n][s] > 0 => jobs[n] = s \/ (s = "FAILED" /\ n \in missed)

\* Whoever waits for a score gets it or an error, or has given up, unless
\* polls of the job overlapped.
PanelSettles ==
  panel.stage \in Busy ~> (panel.stage \notin Busy \/ ~mounted \/ abandoned \cup overlapped # {})

\* RecorderPanel.tsx: after a cancel the panel is idle so that the user can
\* record again; only a recording makes it busy again.
CancelReturnsToIdle ==
  [][panel.stage = "idle" /\ panel'.stage # "idle" => resolver # 0]_vars
=============================================================================

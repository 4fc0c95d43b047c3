---------------------------- MODULE ScoringJobs ----------------------------
(***************************************************************************)
(* Uploads and scoring: createSignedUploadUrl, createScoringJob and        *)
(* deleteUserData of the BFF, JobService.Create of the Go backend, and the *)
(* tables user_data_objects and scoring_jobs and the object store they     *)
(* share.                                                                  *)
(*                                                                         *)
(* A scoring request r is first a BFF handler and then the Go handler it   *)
(* waits for; every SQL statement and every read of the store is an        *)
(* action.  What changes no state (a refused request, a read of a job) has *)
(* no action.  The hourly limit is the subject of ScoringQuota.            *)
(***************************************************************************)
EXTENDS Naturals

CONSTANTS
  Users,
  Sessions,   \* the UUIDs randomUUID() may return
  Names,      \* file names clients choose
  Verses,
  Requests,   \* POST /scoring-jobs, one slot each
  Deletions,  \* DELETE /user-data/:sessionId, one slot each
  MaxTick,    \* bound on Date.now()
  MaxFaults,  \* bound on failed writes and restarts
  None

ASSUME TickAssumption == MaxTick \in Nat
ASSUME JobFaultsAssumption == MaxFaults \in Nat

VARIABLES
  now,      \* Date.now() of the BFF
  uploads,  \* table user_data_objects, by session_id
  objects,  \* the object store: audio key -> who recorded the audio
  jobs,     \* table scoring_jobs, by session_id
  reqs,     \* the scoring requests
  dels,     \* the deletions
  faults,
  slots     \* what the client of a session was given; late is history: the
            \* client uploaded after its user_data_objects row was deleted

vars == <<now, uploads, objects, jobs, reqs, dels, faults, slots>>

-----------------------------------------------------------------------------
(* Rows.                                                                    *)

\* An audio key is the upload prefix, the millisecond and the file name.
Keys == (0..MaxTick) \X Names

Upload == [user: Users, key: Keys]
Slot == [user: Users, key: Keys, late: BOOLEAN]

\* The score and evaluation columns: whose audio was compared with which
\* verse, and by which request.
Score == [clip: Users, verse: Verses, by: Requests]
Statuses == {"RUNNING", "COMPLETED", "FAILED"}
Job == [user: Users, key: Keys, verse: Verses, status: Statuses,
        score: Score \cup {None}]

Pcs == {"idle", "owned", "scoring", "fetched", "failing", "ended"}
\* How a request ended: "unsaved" means that its last write of the job row was
\* lost.  alone is history: no other request of its session was in the backend
\* between its start and its end.
Outcomes == {"none", "ok", "error", "unsaved"}
Request == [pc: Pcs, user: Users \cup {None}, session: Sessions \cup {None},
            key: Keys \cup {None}, verse: Verses \cup {None},
            clip: Users \cup {None}, alone: BOOLEAN, outcome: Outcomes]
IdleRequest == [pc |-> "idle", user |-> None, session |-> None, key |-> None,
                verse |-> None, clip |-> None, alone |-> TRUE, outcome |-> "none"]

Deletion == [pc: {"idle", "found", "rowGone", "deleted", "failed"},
             session: Sessions \cup {None}, key: Keys \cup {None}]
IdleDeletion == [pc |-> "idle", session |-> None, key |-> None]

ASSUME JobNoneAssumption ==
  /\ None \notin Users \cup Sessions \cup Verses \cup Requests
  /\ None \notin Keys /\ None \notin Upload /\ None \notin Slot
  /\ None \notin Score /\ None \notin Job

Issued(s) == slots[s] # None
\* The requests that hold session s in the backend.
Working(s) == {r \in Requests : reqs[r].session = s
                                /\ reqs[r].pc \in {"scoring", "fetched", "failing"}}

Init ==
  /\ now = 0
  /\ uploads = [s \in Sessions |-> None]
  /\ objects = [k \in Keys |-> None]
  /\ jobs = [s \in Sessions |-> None]
  /\ reqs = [r \in Requests |-> IdleRequest]
  /\ dels = [d \in Deletions |-> IdleDeletion]
  /\ faults = 0
  /\ slots = [s \in Sessions |-> None]

Fault == faults < MaxFaults /\ faults' = faults + 1
End(r, outcome) == reqs' = [reqs EXCEPT ![r].pc = "ended", ![r].outcome = outcome]
SetStatus(s, status) == jobs' = [jobs EXCEPT ![s].status = status]

-----------------------------------------------------------------------------
(* Variants with a plausible mistake; no action of Next uses them.          *)

\* findSessionIdForUploadKey without AND user_id = $2.
OwnedByAnyone(user, key) == {s \in Sessions : uploads[s] # None /\ uploads[s].key = key}

\* The session id of the request is taken as it is when there is one.
ResolvedTrusting(s, given, user, key) ==
  /\ \E o \in Sessions : uploads[o] = [user |-> user, key |-> key]
  /\ IF given = None THEN uploads[s] = [user |-> user, key |-> key] ELSE s = given

\* ON CONFLICT leaves the status of the row as it is.
StartedKeepingStatus(r) ==
  LET s == reqs[r].session IN
  [user |-> reqs[r].user, key |-> reqs[r].key, verse |-> reqs[r].verse,
   status |-> IF jobs[s] = None THEN "RUNNING" ELSE jobs[s].status,
   score |-> IF jobs[s] = None THEN None ELSE jobs[s].score]

\* markFailed on the context that has just run out: the write never happens.
MarkFailedTimedOut(r) ==
  /\ reqs[r].pc = "failing"
  /\ End(r, "error")
  /\ UNCHANGED <<now, uploads, objects, jobs, dels, faults, slots>>

\* An error of the store or of the recogniser is returned at once.
ScoreFailsUnmarked(r) ==
  /\ reqs[r].pc \in {"scoring", "fetched"}
  /\ End(r, "error")
  /\ UNCHANGED <<now, uploads, objects, jobs, dels, faults, slots>>

\* markFailed deferred whatever the outcome.
CompleteThenFail(r) ==
  /\ reqs[r].pc = "fetched"
  /\ jobs' = [jobs EXCEPT ![reqs[r].session].status = "COMPLETED",
                          ![reqs[r].session].score =
                            [clip |-> reqs[r].clip, verse |-> reqs[r].verse, by |-> r]]
  /\ reqs' = [reqs EXCEPT ![r].pc = "failing"]
  /\ UNCHANGED <<now, uploads, objects, dels, faults, slots>>

\* The answer is sent without removing the audio.
RemoveObjectSkipped(d) ==
  /\ dels[d].pc = "rowGone"
  /\ dels' = [dels EXCEPT ![d].pc = "deleted"]
  /\ UNCHANGED <<now, uploads, objects, jobs, reqs, faults, slots>>

-----------------------------------------------------------------------------
(* Clients and the BFF.                                                     *)

Tick == /\ now < MaxTick
        /\ now' = now + 1
        /\ UNCHANGED <<uploads, objects, jobs, reqs, dels, faults, slots>>

\* createSignedUploadUrl, recordUploadKey.
CreateSignedUploadUrl(u, s, n) ==
  /\ ~Issued(s)
  /\ uploads' = [uploads EXCEPT ![s] = [user |-> u, key |-> <<now, n>>]]
  /\ slots' = [slots EXCEPT ![s] = [user |-> u, key |-> <<now, n>>, late |-> FALSE]]
  /\ UNCHANGED <<now, objects, jobs, reqs, dels, faults>>

\* The client's PUT to its presigned URL (the URL is taken not to expire).
PutAudio(s) ==
  /\ Issued(s)
  /\ objects' = [objects EXCEPT ![slots[s].key] = slots[s].user]
  /\ slots' = [slots EXCEPT ![s].late = @ \/ uploads[s] = None]
  /\ UNCHANGED <<now, uploads, jobs, reqs, dels, faults>>

\* findSessionIdForUploadKey may return any row of the user with this key.
OwnedSessions(user, key) == {s \in Sessions : uploads[s] = [user |-> user, key |-> key]}

\* resolveOwnedSessionId: s is the session of the request when the given
\* session id, if any, is the owned one.
Resolved(s, given, user, key) ==
  s \in OwnedSessions(user, key) /\ given \in {None, s}

\* createScoringJob up to its await of the reference audio.
ResolveOwnedSession(r) ==
  /\ reqs[r].pc = "idle"
  /\ \E s, uploader \in Sessions, given \in Sessions \cup {None}, u \in Users, v \in Verses :
       /\ Issued(uploader)
       /\ given # None => Issued(given)
       /\ Resolved(s, given, u, slots[uploader].key)
       /\ reqs' = [reqs EXCEPT ![r] = [IdleRequest EXCEPT
                     !.pc = "owned", !.user = u, !.session = s,
                     !.key = slots[uploader].key, !.verse = v]]
  /\ UNCHANGED <<now, uploads, objects, jobs, dels, faults, slots>>

\* ensureReferenceAudio, GetAyahByNumber or Jobs.Start fails before any write.
RefuseBeforeStart(r) ==
  /\ reqs[r].pc = "owned"
  /\ End(r, "error")
  /\ UNCHANGED <<now, uploads, objects, jobs, dels, faults, slots>>

-----------------------------------------------------------------------------
(* The backend's JobService.Create.                                         *)

\* The row Start leaves: score and evaluation of an earlier job are kept.
Started(r) ==
  LET s == reqs[r].session IN
  [user |-> reqs[r].user, key |-> reqs[r].key, verse |-> reqs[r].verse,
   status |-> "RUNNING", score |-> IF jobs[s] = None THEN None ELSE jobs[s].score]

\* r becomes the given request, and those it finds at work are not alone.
Joins(r, request) ==
  LET others == Working(reqs[r].session) IN
  reqs' = [q \in Requests |->
             IF q = r THEN [request EXCEPT !.alone = others = {}]
             ELSE [reqs[q] EXCEPT !.alone = @ /\ q \notin others]]

Start(r) ==
  /\ reqs[r].pc = "owned"
  /\ jobs' = [jobs EXCEPT ![reqs[r].session] = Started(r)]
  /\ Joins(r, [reqs[r] EXCEPT !.pc = "scoring"])
  /\ UNCHANGED <<now, uploads, objects, dels, faults, slots>>

\* The deadline or the connection takes the answer of a committed Start.
StartLost(r) ==
  /\ reqs[r].pc = "owned"
  /\ Fault
  /\ jobs' = [jobs EXCEPT ![reqs[r].session] = Started(r)]
  /\ Joins(r, [reqs[r] EXCEPT !.pc = "ended", !.outcome = "unsaved"])
  /\ UNCHANGED <<now, uploads, objects, dels, slots>>

\* Engine.Score opens the audio ...
FetchAudio(r) ==
  /\ reqs[r].pc = "scoring"
  /\ objects[reqs[r].key] # None
  /\ reqs' = [reqs EXCEPT ![r].pc = "fetched", ![r].clip = objects[reqs[r].key]]
  /\ UNCHANGED <<now, uploads, objects, jobs, dels, faults, slots>>

\* ... and the store, the recogniser, the caller or the 30 s deadline gives up.
ScoreFails(r) ==
  /\ reqs[r].pc \in {"scoring", "fetched"}
  /\ reqs' = [reqs EXCEPT ![r].pc = "failing"]
  /\ UNCHANGED <<now, uploads, objects, jobs, dels, faults, slots>>

Completed(r) ==
  [jobs EXCEPT ![reqs[r].session].status = "COMPLETED",
               ![reqs[r].session].score =
                  [clip |-> reqs[r].clip, verse |-> reqs[r].verse, by |-> r]]

Complete(r) ==
  /\ reqs[r].pc = "fetched"
  /\ jobs' = Completed(r)
  /\ End(r, "ok")
  /\ UNCHANGED <<now, uploads, objects, dels, faults, slots>>

\* Jobs.Complete returns an error, its UPDATE applied or not: no markFailed.
CompleteErrs(r) ==
  /\ reqs[r].pc = "fetched"
  /\ Fault
  /\ \/ jobs' = Completed(r) /\ End(r, "error")
     \/ jobs' = jobs /\ End(r, "unsaved")
  /\ UNCHANGED <<now, uploads, objects, dels, slots>>

\* markFailed runs on a context of its own ...
MarkFailed(r) ==
  /\ reqs[r].pc = "failing"
  /\ SetStatus(reqs[r].session, "FAILED")
  /\ End(r, "error")
  /\ UNCHANGED <<now, uploads, objects, dels, faults, slots>>

\* ... and ignores an error.
MarkFailedLost(r) ==
  /\ reqs[r].pc = "failing"
  /\ Fault
  /\ End(r, "unsaved")
  /\ UNCHANGED <<now, uploads, objects, jobs, dels, slots>>

\* The backend process is replaced: nothing resumes the jobs it was running.
Restart ==
  /\ Fault
  /\ reqs' = [r \in Requests |->
       IF reqs[r].pc \in {"scoring", "fetched", "failing"}
       THEN [reqs[r] EXCEPT !.pc = "ended", !.outcome = "unsaved"] ELSE reqs[r]]
  /\ UNCHANGED <<now, uploads, objects, jobs, dels, slots>>

-----------------------------------------------------------------------------
(* deleteUserData.                                                          *)

DeleteFind(d) ==
  /\ dels[d].pc = "idle"
  /\ \E s \in Sessions :
       /\ uploads[s] # None
       /\ dels' = [dels EXCEPT ![d] = [pc |-> "found", session |-> s, key |-> uploads[s].key]]
  /\ UNCHANGED <<now, uploads, objects, jobs, reqs, faults, slots>>

DeleteRow(d) ==
  /\ dels[d].pc = "found"
  /\ uploads' = [uploads EXCEPT ![dels[d].session] = None]
  /\ dels' = [dels EXCEPT ![d].pc = "rowGone"]
  /\ UNCHANGED <<now, objects, jobs, reqs, faults, slots>>

RemoveObject(d) ==
  /\ dels[d].pc = "rowGone"
  /\ objects' = [objects EXCEPT ![dels[d].key] = None]
  /\ dels' = [dels EXCEPT ![d].pc = "deleted"]
  /\ UNCHANGED <<now, uploads, jobs, reqs, faults, slots>>

\* The DELETE or removeObject throws, or the BFF dies.
DeleteFails(d) ==
  /\ dels[d].pc \in {"found", "rowGone"}
  /\ Fault
  /\ dels' = [dels EXCEPT ![d].pc = "failed"]
  /\ UNCHANGED <<now, uploads, objects, jobs, reqs, slots>>

-----------------------------------------------------------------------------
Client == \/ Tick
          \/ \E u \in Users, s \in Sessions, n \in Names : CreateSignedUploadUrl(u, s, n)
          \/ \E s \in Sessions : PutAudio(s)

\* Steps the backend takes by itself once it has a job.
Backend(r) == FetchAudio(r) \/ ScoreFails(r) \/ Complete(r) \/ MarkFailed(r)
Scoring(r) == \/ ResolveOwnedSession(r) \/ RefuseBeforeStart(r) \/ Start(r) \/ StartLost(r)
              \/ Backend(r) \/ CompleteErrs(r) \/ MarkFailedLost(r)
Deleting(d) == DeleteFind(d) \/ DeleteRow(d) \/ RemoveObject(d) \/ DeleteFails(d)

Next == \/ Client
        \/ \E r \in Requests : Scoring(r)
        \/ Restart
        \/ \E d \in Deletions : Deleting(d)

Spec == Init /\ [][Next]_vars

\* Every call of the backend runs under a deadline, so a job it holds moves on.
FairSpec == Spec /\ \A r \in Requests : WF_vars(Backend(r))

-----------------------------------------------------------------------------
(* Properties.                                                              *)

\* Rows, requests and deletions have the shape the code gives them.
TypeOK ==
  /\ now \in 0..MaxTick
  /\ uploads \in [Sessions -> Upload \cup {None}]
  /\ objects \in [Keys -> Users \cup {None}]
  /\ jobs \in [Sessions -> Job \cup {None}]
  /\ reqs \in [Requests -> Request]
  /\ dels \in [Deletions -> Deletion]
  /\ faults \in 0..MaxFaults
  /\ slots \in [Sessions -> Slot \cup {None}]

\* The job of a session is scored from the upload that session was issued for
\* and belongs to the user it was issued to (resolveOwnedSessionId), whatever
\* keys and session ids clients combine and whatever is deleted meanwhile.
JobsBelongToUploader ==
  \A s \in Sessions : jobs[s] # None =>
    slots[s] # None /\ jobs[s].user = slots[s].user /\ jobs[s].key = slots[s].key

\* Two users were given the same key (same millisecond, same file name).
Shared(key) ==
  \E s, t \in Sessions : /\ Issued(s) /\ Issued(t) /\ slots[s].user # slots[t].user
                         /\ slots[s].key = key /\ slots[t].key = key

\* A score is of audio its owner recorded, unless the key was handed to two
\* users (createSignedUploadUrl builds it from Date.now() and the file name).
ScoresOwnRecording ==
  \A s \in Sessions : jobs[s] # None /\ jobs[s].score # None =>
    jobs[s].score.clip = jobs[s].user \/ Shared(jobs[s].key)

\* A COMPLETED row holds a score, and one that compares the audio with the
\* verse of the row unless the request that wrote it overlapped another one of
\* the session (Start and Complete are separate statements).
CompletedScoreAgrees ==
  \A s \in Sessions : jobs[s] # None /\ jobs[s].status = "COMPLETED" =>
    /\ jobs[s].score # None
    /\ reqs[jobs[s].score.by].alone => jobs[s].score.verse = jobs[s].verse

\* A row is RUNNING only while a request works on it or after one whose last
\* write was lost (JobService.Create, markFailed).
RunningExplained ==
  \A s \in Sessions : jobs[s] # None /\ jobs[s].status = "RUNNING" =>
    \/ Working(s) # {}
    \/ \E r \in Requests : reqs[r].session = s /\ reqs[r].outcome = "unsaved"

\* Only a request that overlapped another one of its session turns a
\* COMPLETED job into a FAILED one (MarkFailed has no condition on status).
CompletionKept ==
  [][\A s \in Sessions :
       jobs[s] # None /\ jobs[s].status = "COMPLETED" /\ jobs'[s].status = "FAILED"
         => \E r \in Working(s) : ~reqs[r].alone]_vars

\* Audio without a user_data_objects row is there because a deletion has not
\* reached removeObject, or because it was uploaded after the deletion.
AudioAccounted ==
  \A k \in Keys : objects[k] # None =>
    \/ \E s \in Sessions : uploads[s] # None /\ uploads[s].key = k
    \/ \E s \in Sessions : slots[s] # None /\ slots[s].key = k /\ slots[s].late
    \/ \E d \in Deletions : dels[d].key = k /\ dels[d].pc \in {"rowGone", "failed"}

\* A RUNNING job is COMPLETED or FAILED in the end, unless a write was lost.
RunningSettles ==
  \A s \in Sessions :
    (jobs[s] # None /\ jobs[s].status = "RUNNING")
      ~> \/ jobs[s] # None /\ jobs[s].status # "RUNNING"
         \/ \E r \in Requests : reqs[r].session = s /\ reqs[r].outcome = "unsaved"

\* docs/adr/0019-backend-inline-asr-supersedes-worker.md: "a synchronous
\* handler either writes COMPLETED or FAILED".
CompletedOrFailed ==
  \A s \in Sessions : jobs[s] # None /\ Working(s) = {} => jobs[s].status # "RUNNING"
=============================================================================

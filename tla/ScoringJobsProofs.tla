------------------------- MODULE ScoringJobsProofs -------------------------
(***************************************************************************)
(* Proofs about ScoringJobs.                                               *)
(*                                                                         *)
(* Shape says what a request or a deletion holds at each of its steps;     *)
(* Ownership ties every table to what the session was issued for; Solo     *)
(* says what the row looks like to a request that is alone.  Each is       *)
(* inductive relative to the ones before it.                               *)
(***************************************************************************)
EXTENDS ScoringJobs, TLAPS

AtWork(r) == reqs[r].pc \in {"scoring", "fetched", "failing"}

RequestHolds(r) ==
  /\ reqs[r].pc # "idle" => /\ reqs[r].user \in Users
                            /\ reqs[r].session \in Sessions
                            /\ reqs[r].key \in Keys
                            /\ reqs[r].verse \in Verses
  /\ reqs[r].pc = "fetched" => reqs[r].clip \in Users
  /\ reqs[r].outcome # "none" => reqs[r].pc = "ended"
  /\ AtWork(r) => jobs[reqs[r].session] # None

DeletionHolds(d) ==
  dels[d].pc \in {"found", "rowGone"} => dels[d].session \in Sessions /\ dels[d].key \in Keys

Shape == /\ TypeOK
         /\ \A r \in Requests : RequestHolds(r)
         /\ \A d \in Deletions : DeletionHolds(d)

LEMMA ShapeInit == Init => Shape
BY TickAssumption, JobFaultsAssumption
   DEF Init, Shape, TypeOK, RequestHolds, DeletionHolds, AtWork, IdleRequest, IdleDeletion,
       Request, Deletion, Pcs, Outcomes

\* Requests that agree on everything but alone.
SameButAlone(x, y) ==
  /\ x.pc = y.pc /\ x.user = y.user /\ x.session = y.session /\ x.key = y.key
  /\ x.verse = y.verse /\ x.clip = y.clip /\ x.outcome = y.outcome

LEMMA SetAlone ==
  ASSUME NEW x \in Request, NEW b \in BOOLEAN
  PROVE  /\ [x EXCEPT !.alone = b] \in Request
         /\ SameButAlone([x EXCEPT !.alone = b], x)
         /\ [x EXCEPT !.alone = b].alone = b
BY DEF Request, SameButAlone

\* What a request keeps when Start succeeds, and when its answer is lost.
LEMMA ScoringRequest ==
  ASSUME NEW x \in Request, NEW y, y = [x EXCEPT !.pc = "scoring"]
  PROVE  /\ y \in Request /\ y.pc = "scoring" /\ y.outcome = x.outcome
         /\ y.user = x.user /\ y.session = x.session /\ y.key = x.key /\ y.verse = x.verse
BY DEF Request, Pcs

LEMMA UnsavedRequest ==
  ASSUME NEW x \in Request, NEW y, y = [x EXCEPT !.pc = "ended", !.outcome = "unsaved"]
  PROVE  /\ y \in Request /\ y.pc = "ended" /\ y.outcome = "unsaved"
         /\ y.user = x.user /\ y.session = x.session /\ y.key = x.key /\ y.verse = x.verse
BY DEF Request, Pcs, Outcomes

\* Joining changes alone only: of the joining request, and of those at work on
\* the session, which are no longer alone.
LEMMA JoinsEffect ==
  ASSUME reqs \in [Requests -> Request], NEW r \in Requests, NEW request \in Request,
         Joins(r, request)
  PROVE  /\ reqs' \in [Requests -> Request]
         /\ SameButAlone(reqs'[r], request)
         /\ reqs'[r].alone = (Working(reqs[r].session) = {})
         /\ \A q \in Requests \ {r} :
              /\ SameButAlone(reqs'[q], reqs[q])
              /\ q \in Working(reqs[r].session) => ~reqs'[q].alone
              /\ q \notin Working(reqs[r].session) => reqs'[q].alone = reqs[q].alone
<1> DEFINE others == Working(reqs[r].session)
           new(q) == IF q = r THEN [request EXCEPT !.alone = others = {}]
                     ELSE [reqs[q] EXCEPT !.alone = @ /\ q \notin others]
<1>1. reqs' = [q \in Requests |-> new(q)]
  BY DEF Joins
<1>2. /\ new(r) \in Request
      /\ SameButAlone(new(r), request)
      /\ new(r).alone = (others = {})
  <2> (others = {}) \in BOOLEAN
    OBVIOUS
  <2> HIDE DEF others
  <2> QED
    BY SetAlone
<1>3. ASSUME NEW q \in Requests \ {r}
      PROVE  /\ new(q) \in Request
             /\ SameButAlone(new(q), reqs[q])
             /\ q \in others => ~new(q).alone
             /\ q \notin others => new(q).alone = reqs[q].alone
  <2> DEFINE b == reqs[q].alone /\ q \notin others
  <2>1. reqs[q] \in Request /\ reqs[q].alone \in BOOLEAN
    BY <1>3 DEF Request
  <2>2. b \in BOOLEAN /\ (q \in others => b = FALSE) /\ (q \notin others => b = reqs[q].alone)
    BY <2>1
  <2>3. new(q) = [reqs[q] EXCEPT !.alone = b]
    BY <1>3
  <2> HIDE DEF b, new, others
  <2>4. new(q) \in Request /\ SameButAlone(new(q), reqs[q]) /\ new(q).alone = b
    BY <2>1, <2>2, <2>3, SetAlone
  <2> QED
    BY <2>2, <2>4
<1> HIDE DEF new
<1> QED
  BY <1>1, <1>2, <1>3

\* Every step keeps the shape.
LEMMA ShapeStep == Shape /\ [Next]_vars => Shape'
<1> SUFFICES ASSUME Shape, [Next]_vars PROVE Shape'
  OBVIOUS
<1> USE JobNoneAssumption, TickAssumption, JobFaultsAssumption
<1> USE DEF Shape, TypeOK, RequestHolds, DeletionHolds, AtWork
<1>1. CASE Tick
  BY <1>1 DEF Tick
<1>2. ASSUME NEW u \in Users, NEW s \in Sessions, NEW n \in Names,
             CreateSignedUploadUrl(u, s, n)
      PROVE  Shape'
  <2> <<now, n>> \in Keys
    BY DEF Keys
  <2> QED
    BY <1>2 DEF CreateSignedUploadUrl, Upload, Slot
<1>3. ASSUME NEW s \in Sessions, PutAudio(s) PROVE Shape'
  <2> DEFINE b == slots[s].late \/ uploads[s] = None
  <2>1. slots[s] \in Slot
    BY <1>3 DEF PutAudio, Issued
  <2>2. b \in BOOLEAN
    BY <2>1 DEF Slot
  <2>3. slots' = [slots EXCEPT ![s] = [slots[s] EXCEPT !.late = b]]
    BY <1>3 DEF PutAudio
  <2> HIDE DEF b
  <2>4. [slots[s] EXCEPT !.late = b] \in Slot /\ slots[s].key \in Keys /\ slots[s].user \in Users
    BY <2>1, <2>2 DEF Slot
  <2> QED
    BY <1>3, <2>3, <2>4 DEF PutAudio
<1>4. ASSUME NEW r \in Requests, ResolveOwnedSession(r) PROVE Shape'
  <2>0. PICK s \in Sessions, uploader \in Sessions, u \in Users, v \in Verses :
        /\ Issued(uploader)
        /\ reqs' = [reqs EXCEPT ![r] = [IdleRequest EXCEPT
                     !.pc = "owned", !.user = u, !.session = s,
                     !.key = slots[uploader].key, !.verse = v]]
    <3> HIDE DEF Shape
    <3> QED
      BY <1>4, Zenon DEF ResolveOwnedSession
  <2> DEFINE new == [IdleRequest EXCEPT !.pc = "owned", !.user = u, !.session = s,
                                        !.key = slots[uploader].key, !.verse = v]
  <2>1. slots[uploader].key \in Keys
    BY <2>0 DEF Issued, Slot
  <2>2. /\ new \in Request /\ new.pc = "owned" /\ new.user = u /\ new.session = s
        /\ new.key \in Keys /\ new.verse = v /\ new.outcome = "none"
    BY <2>1 DEF IdleRequest, Request, Pcs, Outcomes
  <2> HIDE DEF new
  <2>3. reqs' = [reqs EXCEPT ![r] = new]
    BY <2>0 DEF new
  <2> QED
    BY <1>4, <2>2, <2>3 DEF ResolveOwnedSession
<1>5. ASSUME NEW r \in Requests, RefuseBeforeStart(r) PROVE Shape'
  BY <1>5 DEF RefuseBeforeStart, End, Request, Pcs, Outcomes
<1>6. ASSUME NEW r \in Requests, reqs[r].pc = "owned" PROVE Started(r) \in Job
  BY <1>6 DEF Started, Job, Statuses
<1>7. ASSUME NEW r \in Requests, Start(r) PROVE Shape'
  <2> DEFINE new == [reqs[r] EXCEPT !.pc = "scoring"]
  <2>1. /\ new \in Request /\ new.pc = "scoring" /\ new.outcome = "none"
        /\ new.user = reqs[r].user /\ new.session = reqs[r].session
        /\ new.key = reqs[r].key /\ new.verse = reqs[r].verse
    <3>1. reqs[r] \in Request
      OBVIOUS
    <3>2. reqs[r].outcome = "none"
      BY <1>7 DEF Start
    <3>3. new = [reqs[r] EXCEPT !.pc = "scoring"]
      OBVIOUS
    <3> HIDE DEF new, Shape, TypeOK
    <3> QED
      BY <3>1, <3>2, <3>3, ScoringRequest
  <2>2. Joins(r, new)
    BY <1>7 DEF Start
  <2> HIDE DEF new
  <2>3. /\ reqs' \in [Requests -> Request]
        /\ SameButAlone(reqs'[r], new)
        /\ \A q \in Requests \ {r} : SameButAlone(reqs'[q], reqs[q])
    BY <2>1, <2>2, JoinsEffect
  <2>4. /\ jobs' \in [Sessions -> Job \cup {None}]
        /\ \A s \in Sessions : jobs[s] # None => jobs'[s] # None
        /\ jobs'[reqs[r].session] # None
    BY <1>6, <1>7 DEF Start
  <2>5. \A q \in Requests : RequestHolds(q)'
    BY <1>7, <2>1, <2>3, <2>4 DEF SameButAlone, Start
  <2> QED
    BY <1>7, <2>3, <2>4, <2>5 DEF Start
<1>8. ASSUME NEW r \in Requests, StartLost(r) PROVE Shape'
  <2> DEFINE new == [reqs[r] EXCEPT !.pc = "ended", !.outcome = "unsaved"]
  <2>1. /\ new \in Request /\ new.pc = "ended"
        /\ new.user = reqs[r].user /\ new.session = reqs[r].session
        /\ new.key = reqs[r].key /\ new.verse = reqs[r].verse
    <3>1. reqs[r] \in Request
      OBVIOUS
    <3>2. new = [reqs[r] EXCEPT !.pc = "ended", !.outcome = "unsaved"]
      OBVIOUS
    <3> HIDE DEF new, Shape, TypeOK
    <3> QED
      BY <3>1, <3>2, UnsavedRequest
  <2>2. Joins(r, new)
    BY <1>8 DEF StartLost
  <2> HIDE DEF new
  <2>3. /\ reqs' \in [Requests -> Request]
        /\ SameButAlone(reqs'[r], new)
        /\ \A q \in Requests \ {r} : SameButAlone(reqs'[q], reqs[q])
    BY <2>1, <2>2, JoinsEffect
  <2>4. /\ jobs' \in [Sessions -> Job \cup {None}]
        /\ \A s \in Sessions : jobs[s] # None => jobs'[s] # None
    BY <1>6, <1>8 DEF StartLost
  <2>5. \A q \in Requests : RequestHolds(q)'
    BY <1>8, <2>1, <2>3, <2>4 DEF SameButAlone, StartLost
  <2> QED
    BY <1>8, <2>3, <2>4, <2>5 DEF StartLost, Fault
<1>9. ASSUME NEW r \in Requests, FetchAudio(r) PROVE Shape'
  <2>1. reqs[r].pc = "scoring" /\ objects[reqs[r].key] # None /\ reqs[r].key \in Keys
    BY <1>9 DEF FetchAudio
  <2>2. PICK c \in Users :
          reqs' = [reqs EXCEPT ![r] = [reqs[r] EXCEPT !.pc = "fetched", !.clip = c]]
    <3>1. objects[reqs[r].key] \in Users
      BY <2>1
    <3> QED
      BY <1>9, <3>1 DEF FetchAudio
  <2> DEFINE new == [reqs[r] EXCEPT !.pc = "fetched", !.clip = c]
  <2>3. /\ new \in Request /\ new.pc = "fetched" /\ new.clip = c
        /\ new.user = reqs[r].user /\ new.session = reqs[r].session
        /\ new.key = reqs[r].key /\ new.verse = reqs[r].verse
        /\ new.outcome = reqs[r].outcome
    <3>1. reqs[r] \in Request
      OBVIOUS
    <3> HIDE DEF Shape, TypeOK
    <3> QED
      BY <3>1 DEF Request, Pcs
  <2>4. reqs' = [reqs EXCEPT ![r] = new]
    BY <2>2
  <2> HIDE DEF new
  <2>5. reqs' \in [Requests -> Request] /\ \A q \in Requests : RequestHolds(q)'
    <3>1. reqs' \in [Requests -> Request]
      BY <2>3, <2>4
    <3>2. RequestHolds(r)'
      <4>1. reqs'[r] = new /\ jobs' = jobs
        BY <1>9, <2>4 DEF FetchAudio
      <4>2. RequestHolds(r)
        OBVIOUS
      <4> QED
        BY <2>1, <2>3, <4>1, <4>2
    <3>3. \A q \in Requests \ {r} : RequestHolds(q)'
      BY <1>9, <2>4 DEF FetchAudio
    <3> QED
      BY <3>1, <3>2, <3>3
  <2> QED
    BY <1>9, <2>5 DEF FetchAudio
<1>10. ASSUME NEW r \in Requests, ScoreFails(r) PROVE Shape'
  <2> DEFINE new == [reqs[r] EXCEPT !.pc = "failing"]
  <2>1. /\ reqs[r].pc \in {"scoring", "fetched"} /\ reqs' = [reqs EXCEPT ![r] = new]
    BY <1>10 DEF ScoreFails
  <2>2. /\ new \in Request /\ new.pc = "failing"
        /\ new.user = reqs[r].user /\ new.session = reqs[r].session
        /\ new.key = reqs[r].key /\ new.verse = reqs[r].verse /\ new.outcome = "none"
    BY <2>1 DEF Request, Pcs, Outcomes
  <2> HIDE DEF new
  <2> QED
    BY <1>10, <2>1, <2>2 DEF ScoreFails
<1>11. ASSUME NEW r \in Requests, reqs[r].pc = "fetched"
       PROVE  /\ Completed(r) \in [Sessions -> Job \cup {None}]
              /\ \A s \in Sessions : jobs[s] # None => Completed(r)[s] # None
  BY <1>11 DEF Completed, Job, Statuses, Score
<1>12. ASSUME NEW r \in Requests, Complete(r) PROVE Shape'
  BY <1>12, <1>11 DEF Complete, End, Request, Pcs, Outcomes
<1>13. ASSUME NEW r \in Requests, CompleteErrs(r) PROVE Shape'
  BY <1>13, <1>11 DEF CompleteErrs, Fault, End, Request, Pcs, Outcomes
<1>14. ASSUME NEW r \in Requests, MarkFailed(r) PROVE Shape'
  BY <1>14 DEF MarkFailed, SetStatus, End, Request, Pcs, Outcomes, Job, Statuses
<1>15. ASSUME NEW r \in Requests, MarkFailedLost(r) PROVE Shape'
  BY <1>15 DEF MarkFailedLost, Fault, End, Request, Pcs, Outcomes
<1>16. CASE Restart
  <2>1. ASSUME NEW q \in Requests
        PROVE  reqs'[q] \in Request /\ RequestHolds(q)'
    <3>1. CASE AtWork(q)
      <4> DEFINE new == [reqs[q] EXCEPT !.pc = "ended", !.outcome = "unsaved"]
      <4>1. reqs'[q] = new
        BY <1>16, <3>1 DEF Restart
      <4>2. /\ new \in Request /\ new.pc = "ended"
            /\ new.user = reqs[q].user /\ new.session = reqs[q].session
            /\ new.key = reqs[q].key /\ new.verse = reqs[q].verse
        <5>1. reqs[q] \in Request
          OBVIOUS
        <5> HIDE DEF Shape, TypeOK
        <5> QED
          BY <5>1 DEF Request, Pcs, Outcomes
      <4> HIDE DEF new
      <4> QED
        BY <3>1, <4>1, <4>2
    <3>2. CASE ~AtWork(q)
      BY <1>16, <3>2 DEF Restart
    <3> QED
      BY <3>1, <3>2
  <2>2. reqs' \in [Requests -> Request]
    BY <1>16, <2>1 DEF Restart
  <2>3. /\ faults' \in 0..MaxFaults
        /\ now' = now /\ uploads' = uploads /\ objects' = objects /\ jobs' = jobs
        /\ dels' = dels /\ slots' = slots
    <3>1. faults \in 0..MaxFaults /\ faults < MaxFaults /\ faults' = faults + 1
      BY <1>16 DEF Restart, Fault
    <3>2. faults' \in 0..MaxFaults
      <4> HIDE DEF Shape, TypeOK
      <4> QED
        BY <3>1
    <3> QED
      BY <1>16, <3>2 DEF Restart
  <2>4. TypeOK'
    BY <2>2, <2>3
  <2>5. \A q \in Requests : RequestHolds(q)'
    BY <2>1
  <2> QED
    BY <2>3, <2>4, <2>5
<1>17. ASSUME NEW d \in Deletions, DeleteFind(d) PROVE Shape'
  BY <1>17 DEF DeleteFind, Deletion, Upload
<1>18. ASSUME NEW d \in Deletions, DeleteRow(d) PROVE Shape'
  BY <1>18 DEF DeleteRow, Deletion
<1>19. ASSUME NEW d \in Deletions, RemoveObject(d) PROVE Shape'
  BY <1>19 DEF RemoveObject, Deletion
<1>20. ASSUME NEW d \in Deletions, DeleteFails(d) PROVE Shape'
  BY <1>20 DEF DeleteFails, Fault, Deletion
<1>21. CASE UNCHANGED vars
  BY <1>21 DEF vars
<1> QED
  BY <1>1, <1>2, <1>3, <1>4, <1>5, <1>7, <1>8, <1>9, <1>10, <1>12, <1>13, <1>14, <1>15,
     <1>16, <1>17, <1>18, <1>19, <1>20, <1>21
     DEF Next, Client, Scoring, Backend, Deleting

\* In every reachable state of any instance, tables, requests and deletions
\* have the shape the code gives them.
THEOREM JobsTypeCorrect == Spec => []TypeOK
<1>1. Shape => TypeOK
  BY DEF Shape
<1> QED
  BY ShapeInit, ShapeStep, <1>1, PTL DEF Spec

-----------------------------------------------------------------------------
(* Ownership.                                                               *)

\* Session s was issued to u for key k.
IssuedFor(s, u, k) == slots[s] # None /\ slots[s].user = u /\ slots[s].key = k

Ownership ==
  /\ \A s \in Sessions : uploads[s] # None => IssuedFor(s, uploads[s].user, uploads[s].key)
  /\ \A r \in Requests : reqs[r].pc # "idle" =>
       IssuedFor(reqs[r].session, reqs[r].user, reqs[r].key)
  /\ \A s \in Sessions : jobs[s] # None => IssuedFor(s, jobs[s].user, jobs[s].key)

LEMMA OwnershipInit == Init => Ownership
BY DEF Init, Ownership, IdleRequest

LEMMA OwnershipStep == Shape /\ Ownership /\ [Next]_vars => Ownership'
<1> SUFFICES ASSUME Shape, Ownership, [Next]_vars PROVE Ownership'
  OBVIOUS
<1> USE JobNoneAssumption DEF Ownership, IssuedFor
<1>0. /\ uploads \in [Sessions -> Upload \cup {None}]
      /\ jobs \in [Sessions -> Job \cup {None}]
      /\ reqs \in [Requests -> Request]
      /\ slots \in [Sessions -> Slot \cup {None}]
      /\ \A r \in Requests : reqs[r].pc # "idle" => reqs[r].session \in Sessions
      /\ \A r \in Requests : AtWork(r) => jobs[reqs[r].session] # None
  BY DEF Shape, TypeOK, RequestHolds
<1>1. ASSUME UNCHANGED <<uploads, jobs, reqs, slots>> PROVE Ownership'
  BY <1>1
<1>2. ASSUME NEW u \in Users, NEW s \in Sessions, NEW n \in Names,
             CreateSignedUploadUrl(u, s, n)
      PROVE  Ownership'
  <2>1. <<now, n>> \in Keys
    BY DEF Keys, Shape, TypeOK
  <2>2. [user |-> u, key |-> <<now, n>>, late |-> FALSE] # None
    <3>1. [user |-> u, key |-> <<now, n>>, late |-> FALSE] \in Slot
      BY <2>1 DEF Slot
    <3> QED
      BY <3>1
  <2>3. /\ slots[s] = None
        /\ uploads' = [uploads EXCEPT ![s] = [user |-> u, key |-> <<now, n>>]]
        /\ slots' = [slots EXCEPT ![s] = [user |-> u, key |-> <<now, n>>, late |-> FALSE]]
        /\ jobs' = jobs /\ reqs' = reqs
    BY <1>2 DEF CreateSignedUploadUrl, Issued
  <2> QED
    BY <1>0, <2>2, <2>3
<1>3. ASSUME NEW s \in Sessions, PutAudio(s) PROVE Ownership'
  <2> DEFINE b == slots[s].late \/ uploads[s] = None
             new == [slots[s] EXCEPT !.late = b]
  <2>1. slots[s] \in Slot
    BY <1>0, <1>3 DEF PutAudio, Issued
  <2>2. b \in BOOLEAN
    BY <2>1 DEF Slot
  <2>3. slots' = [slots EXCEPT ![s] = new] /\ UNCHANGED <<uploads, jobs, reqs>>
    BY <1>3 DEF PutAudio
  <2> HIDE DEF b
  <2>4. new \in Slot /\ new.user = slots[s].user /\ new.key = slots[s].key
    BY <2>1, <2>2 DEF Slot
  <2>5. new # None
    BY <2>4
  <2> HIDE DEF new
  <2> QED
    BY <1>0, <2>1, <2>3, <2>4, <2>5
<1>4. ASSUME NEW r \in Requests, ResolveOwnedSession(r) PROVE Ownership'
  <2>1. PICK s \in Sessions, uploader \in Sessions, given \in Sessions \cup {None},
             u \in Users, v \in Verses :
          /\ Issued(uploader)
          /\ Resolved(s, given, u, slots[uploader].key)
          /\ reqs' = [reqs EXCEPT ![r] = [IdleRequest EXCEPT
                       !.pc = "owned", !.user = u, !.session = s,
                       !.key = slots[uploader].key, !.verse = v]]
    <3> HIDE DEF Ownership
    <3> QED
      BY <1>4, Zenon DEF ResolveOwnedSession
  <2>2. uploads[s] = [user |-> u, key |-> slots[uploader].key]
    BY <2>1 DEF Resolved, OwnedSessions
  <2>3. slots[uploader].key \in Keys
    BY <1>0, <2>1 DEF Issued, Slot
  <2>4. uploads[s] # None
    BY <2>2, <2>3 DEF Upload
  <2>5. IssuedFor(s, u, slots[uploader].key)
    BY <2>2, <2>4
  <2>6. /\ reqs'[r].session = s /\ reqs'[r].user = u /\ reqs'[r].key = slots[uploader].key
        /\ \A q \in Requests \ {r} : reqs'[q] = reqs[q]
    BY <1>0, <2>1 DEF IdleRequest
  <2> QED
    BY <1>4, <2>5, <2>6 DEF ResolveOwnedSession
\* Steps that leave the tables and what a request is about alone.
<1>5. ASSUME UNCHANGED <<uploads, slots>>,
             \A s \in Sessions : jobs'[s] # None =>
               IssuedFor(s, jobs'[s].user, jobs'[s].key),
             \A q \in Requests :
               /\ reqs'[q].pc = "idle" <=> reqs[q].pc = "idle"
               /\ reqs'[q].session = reqs[q].session /\ reqs'[q].user = reqs[q].user
               /\ reqs'[q].key = reqs[q].key
      PROVE  Ownership'
  BY <1>5
<1>6. ASSUME NEW r \in Requests, \/ RefuseBeforeStart(r) \/ FetchAudio(r)
                                 \/ ScoreFails(r) \/ MarkFailedLost(r)
      PROVE  Ownership'
  <2>1. UNCHANGED <<uploads, slots, jobs>>
    BY <1>6 DEF RefuseBeforeStart, FetchAudio, ScoreFails, MarkFailedLost
  <2>2. \A q \in Requests :
          /\ reqs'[q].pc = "idle" <=> reqs[q].pc = "idle"
          /\ reqs'[q].session = reqs[q].session /\ reqs'[q].user = reqs[q].user
          /\ reqs'[q].key = reqs[q].key
    <3> HIDE DEF Ownership
    <3> QED
      BY <1>0, <1>6 DEF RefuseBeforeStart, FetchAudio, ScoreFails, MarkFailedLost, End, Request
  <2> QED
    BY <1>5, <2>1, <2>2
<1>7. ASSUME NEW r \in Requests, Start(r) \/ StartLost(r) PROVE Ownership'
  <2>1. /\ reqs[r].pc = "owned" /\ UNCHANGED <<uploads, slots>>
        /\ jobs' = [jobs EXCEPT ![reqs[r].session] = Started(r)]
    BY <1>7 DEF Start, StartLost
  <2>2. \A s \in Sessions : jobs'[s] # None => IssuedFor(s, jobs'[s].user, jobs'[s].key)
    BY <1>0, <2>1 DEF Started
  <2>3. PICK new \in Request : /\ Joins(r, new) /\ new.pc # "idle"
                               /\ new.session = reqs[r].session
                               /\ new.user = reqs[r].user /\ new.key = reqs[r].key
    <3>1. CASE Start(r)
      <4>1. [reqs[r] EXCEPT !.pc = "scoring"] \in Request
        BY <1>0 DEF Request, Pcs
      <4> QED
        BY <3>1, <4>1 DEF Start, Request
    <3>2. CASE StartLost(r)
      <4>1. [reqs[r] EXCEPT !.pc = "ended", !.outcome = "unsaved"] \in Request
        <5>1. reqs[r] \in Request
          BY <1>0
        <5> HIDE DEF Ownership
        <5> QED
          BY <5>1 DEF Request, Pcs, Outcomes
      <4> QED
        BY <3>2, <4>1 DEF StartLost, Request
    <3> QED
      BY <1>7, <3>1, <3>2
  <2>4. /\ SameButAlone(reqs'[r], new)
        /\ \A q \in Requests \ {r} : SameButAlone(reqs'[q], reqs[q])
    BY <1>0, <2>3, JoinsEffect
  <2> QED
    BY <1>5, <2>1, <2>2, <2>3, <2>4 DEF SameButAlone
<1>8. ASSUME NEW r \in Requests, Complete(r) \/ CompleteErrs(r) \/ MarkFailed(r)
      PROVE  Ownership'
  <2>1. /\ AtWork(r) /\ UNCHANGED <<uploads, slots>>
        /\ \A s \in Sessions : jobs'[s] # None =>
             jobs[s] # None /\ jobs'[s].user = jobs[s].user /\ jobs'[s].key = jobs[s].key
    <3>1. AtWork(r) /\ reqs[r].session \in Sessions /\ jobs[reqs[r].session] \in Job
      BY <1>0, <1>8 DEF AtWork, Complete, CompleteErrs, MarkFailed
    <3> HIDE DEF Ownership
    <3> QED
      BY <1>0, <1>8, <3>1 DEF Complete, CompleteErrs, MarkFailed, Completed, SetStatus, Job
  <2>2. \A q \in Requests :
          /\ reqs'[q].pc = "idle" <=> reqs[q].pc = "idle"
          /\ reqs'[q].session = reqs[q].session /\ reqs'[q].user = reqs[q].user
          /\ reqs'[q].key = reqs[q].key
    <3> HIDE DEF Ownership
    <3> QED
      BY <1>0, <1>8 DEF Complete, CompleteErrs, MarkFailed, End, Request
  <2> QED
    BY <1>5, <2>1, <2>2
<1>9. CASE Restart
  <2>1. \A q \in Requests :
          /\ reqs'[q].pc = "idle" <=> reqs[q].pc = "idle"
          /\ reqs'[q].session = reqs[q].session /\ reqs'[q].user = reqs[q].user
          /\ reqs'[q].key = reqs[q].key
    <3> HIDE DEF Ownership
    <3>1. SUFFICES ASSUME NEW q \in Requests
                   PROVE  /\ reqs'[q].pc = "idle" <=> reqs[q].pc = "idle"
                          /\ reqs'[q].session = reqs[q].session
                          /\ reqs'[q].user = reqs[q].user /\ reqs'[q].key = reqs[q].key
      OBVIOUS
    <3>2. reqs[q] \in Request
      BY <1>0
    <3>3. reqs'[q] = IF AtWork(q)
                     THEN [reqs[q] EXCEPT !.pc = "ended", !.outcome = "unsaved"] ELSE reqs[q]
      BY <1>9 DEF Restart, AtWork
    <3> QED
      BY <3>2, <3>3 DEF Request, AtWork
  <2> QED
    BY <1>5, <1>9, <2>1 DEF Restart
<1>10. ASSUME NEW d \in Deletions, DeleteRow(d) PROVE Ownership'
  BY <1>0, <1>10 DEF DeleteRow
<1> HIDE DEF Ownership
<1> QED
  BY <1>1, <1>2, <1>3, <1>4, <1>6, <1>7, <1>8, <1>9, <1>10
     DEF Next, Client, Scoring, Backend, Deleting, Tick, DeleteFind, RemoveObject,
         DeleteFails, vars

\* Whatever keys and session ids users combine, and whatever is deleted while
\* they do, the job of a session is that of the user and the upload the session
\* was issued for (resolveOwnedSessionId).
THEOREM JobsOwned == Spec => []JobsBelongToUploader
<1>1. Shape /\ Ownership => JobsBelongToUploader
  BY DEF Ownership, IssuedFor, JobsBelongToUploader
<1> QED
  BY ShapeInit, ShapeStep, OwnershipInit, OwnershipStep, <1>1, PTL DEF Spec

-----------------------------------------------------------------------------
(* The status column.                                                       *)

Holds(r, s) == AtWork(r) /\ reqs[r].session = s

\* What a request that is alone on its session knows of the row, although
\* nothing locks it between Start and Complete.
Solo(r) ==
  AtWork(r) /\ reqs[r].alone =>
    /\ jobs[reqs[r].session].status = "RUNNING"
    /\ jobs[reqs[r].session].verse = reqs[r].verse
    /\ \A q \in Requests : Holds(q, reqs[r].session) => q = r

Explained(s) ==
  jobs[s] # None /\ jobs[s].status = "RUNNING" =>
    \/ \E r \in Requests : Holds(r, s)
    \/ \E r \in Requests : reqs[r].session = s /\ reqs[r].outcome = "unsaved"

ScoreEnded(s) ==
  jobs[s] # None /\ jobs[s].score # None => reqs[jobs[s].score.by].pc = "ended"

Agrees(s) ==
  jobs[s] # None /\ jobs[s].status = "COMPLETED" =>
    /\ jobs[s].score # None
    /\ reqs[jobs[s].score.by].alone => jobs[s].score.verse = jobs[s].verse

StatusInv == /\ \A r \in Requests : Solo(r)
             /\ \A s \in Sessions : Explained(s) /\ ScoreEnded(s) /\ Agrees(s)

LEMMA StatusInit == Init => StatusInv
BY DEF Init, StatusInv, Solo, Explained, ScoreEnded, Agrees, AtWork, IdleRequest

LEMMA StatusStep == Shape /\ StatusInv /\ [Next]_vars => StatusInv'
<1> SUFFICES ASSUME Shape, StatusInv, [Next]_vars PROVE StatusInv'
  OBVIOUS
<1> USE JobNoneAssumption DEF StatusInv, Solo, Explained, ScoreEnded, Agrees, Holds, AtWork
<1>0. /\ jobs \in [Sessions -> Job \cup {None}]
      /\ reqs \in [Requests -> Request]
      /\ \A r \in Requests : RequestHolds(r)
      /\ \A s \in Sessions : jobs[s] # None /\ jobs[s].score # None =>
           jobs[s].score.by \in Requests
  BY DEF Shape, TypeOK, Job, Score
\* Steps that write no row: no request starts work, one that stops has lost
\* its write, and one that has ended stays as it is.
<1>1. ASSUME jobs' = jobs,
             \A q \in Requests :
               /\ AtWork(q)' => /\ AtWork(q) /\ reqs'[q].session = reqs[q].session
                                /\ reqs'[q].verse = reqs[q].verse
                                /\ reqs'[q].alone = reqs[q].alone
               /\ AtWork(q) => /\ reqs'[q].session = reqs[q].session
                               /\ AtWork(q)' \/ reqs'[q].outcome = "unsaved"
               /\ reqs[q].pc = "ended" => reqs'[q] = reqs[q]
      PROVE  StatusInv'
  <2>1. \A q \in Requests : Solo(q)'
    BY <1>0, <1>1
  <2>2. ASSUME NEW s \in Sessions PROVE Explained(s)'
    BY <1>0, <1>1 DEF RequestHolds
  <2>3. ASSUME NEW s \in Sessions PROVE ScoreEnded(s)' /\ Agrees(s)'
    BY <1>0, <1>1
  <2> QED
    BY <2>1, <2>2, <2>3
<1>2. ASSUME NEW r \in Requests,
             \/ ResolveOwnedSession(r) \/ RefuseBeforeStart(r) \/ FetchAudio(r)
             \/ ScoreFails(r) \/ MarkFailedLost(r)
      PROVE  StatusInv'
  <2>1. jobs' = jobs /\ \A q \in Requests \ {r} : reqs'[q] = reqs[q]
    <3> HIDE DEF StatusInv
    <3>1. CASE ResolveOwnedSession(r)
      <4>1. \E request : reqs' = [reqs EXCEPT ![r] = request]
        BY <3>1, Zenon DEF ResolveOwnedSession
      <4> QED
        BY <1>0, <3>1, <4>1 DEF ResolveOwnedSession
    <3>2. CASE ~ResolveOwnedSession(r)
      BY <1>0, <1>2, <3>2 DEF RefuseBeforeStart, FetchAudio, ScoreFails, MarkFailedLost, End
    <3> QED
      BY <3>1, <3>2
  <2>2. /\ AtWork(r)' => /\ AtWork(r) /\ reqs'[r].session = reqs[r].session
                         /\ reqs'[r].verse = reqs[r].verse /\ reqs'[r].alone = reqs[r].alone
        /\ AtWork(r) => /\ reqs'[r].session = reqs[r].session
                        /\ AtWork(r)' \/ reqs'[r].outcome = "unsaved"
        /\ reqs[r].pc # "ended"
    <3>1. CASE ResolveOwnedSession(r)
      <4>1. reqs[r].pc = "idle" /\ reqs'[r].pc = "owned"
        BY <1>0, <3>1 DEF ResolveOwnedSession, IdleRequest
      <4> QED
        BY <4>1
    <3>2. CASE RefuseBeforeStart(r)
      <4>1. reqs[r].pc = "owned" /\ reqs'[r].pc = "ended"
        BY <1>0, <3>2 DEF RefuseBeforeStart, End, Request
      <4> QED
        BY <4>1
    <3>3. CASE FetchAudio(r)
      BY <1>0, <3>3 DEF FetchAudio, Request
    <3>4. CASE ScoreFails(r)
      BY <1>0, <3>4 DEF ScoreFails, Request
    <3>5. CASE MarkFailedLost(r)
      BY <1>0, <3>5 DEF MarkFailedLost, End, Request
    <3> QED
      BY <1>2, <3>1, <3>2, <3>3, <3>4, <3>5
  <2> HIDE DEF StatusInv, Solo, Explained, ScoreEnded, Agrees
  <2>3. \A q \in Requests \ {r} : AtWork(q)' = AtWork(q)
    BY <2>1
  <2> HIDE DEF AtWork
  <2> QED
    BY <1>1, <2>1, <2>2, <2>3
<1>3. CASE Restart
  <2>1. jobs' = jobs
    BY <1>3 DEF Restart
  <2>2. ASSUME NEW q \in Requests
        PROVE  /\ ~AtWork(q)'
               /\ AtWork(q) => reqs'[q].session = reqs[q].session /\ reqs'[q].outcome = "unsaved"
               /\ reqs[q].pc = "ended" => reqs'[q] = reqs[q]
    <3>1. reqs[q] \in Request
      BY <1>0
    <3>2. reqs'[q] = IF AtWork(q)
                     THEN [reqs[q] EXCEPT !.pc = "ended", !.outcome = "unsaved"] ELSE reqs[q]
      BY <1>3 DEF Restart
    <3> QED
      BY <3>1, <3>2 DEF Request
  <2> HIDE DEF StatusInv, Solo, Explained, ScoreEnded, Agrees, AtWork
  <2> QED
    BY <1>1, <2>1, <2>2
<1>4. ASSUME NEW r \in Requests, NEW new \in Request,
             reqs[r].pc = "owned", Joins(r, new),
             jobs' = [jobs EXCEPT ![reqs[r].session] = Started(r)],
             new.session = reqs[r].session, new.verse = reqs[r].verse,
             \/ new.pc = "scoring"
             \/ new.pc = "ended" /\ new.outcome = "unsaved"
      PROVE  StatusInv'
  <2> DEFINE s == reqs[r].session
  <2>1. s \in Sessions /\ ~AtWork(r) /\ reqs[r].outcome = "none"
    BY <1>0, <1>4 DEF RequestHolds
  <2>2. /\ SameButAlone(reqs'[r], new)
        /\ reqs'[r].alone = (Working(s) = {})
        /\ \A q \in Requests \ {r} :
             /\ SameButAlone(reqs'[q], reqs[q])
             /\ q \in Working(s) => ~reqs'[q].alone
             /\ q \notin Working(s) => reqs'[q].alone = reqs[q].alone
    BY <1>0, <1>4, JoinsEffect
  <2>3. \A q \in Requests : q \in Working(s) <=> Holds(q, s)
    BY DEF Working
  <2>4. /\ jobs'[s].status = "RUNNING" /\ jobs'[s].verse = reqs[r].verse
        /\ jobs'[s].score = IF jobs[s] = None THEN None ELSE jobs[s].score
        /\ \A t \in Sessions \ {s} : jobs'[t] = jobs[t]
    BY <1>0, <1>4, <2>1 DEF Started
  <2>5. ASSUME NEW q \in Requests PROVE Solo(q)'
    <3>1. CASE q = r
      <4>1. ASSUME AtWork(r)', reqs'[r].alone
            PROVE  \A p \in Requests : Holds(p, s)' => p = r
        <5>1. Working(s) = {}
          BY <2>2, <4>1
        <5>2. ASSUME NEW p \in Requests \ {r}, Holds(p, s)' PROVE Holds(p, s)
          BY <1>4, <2>2, <5>2 DEF SameButAlone
        <5> QED
          BY <2>3, <5>1, <5>2
      <4> QED
        BY <1>4, <2>2, <2>4, <3>1, <4>1 DEF SameButAlone
    <3>2. CASE q # r /\ reqs[q].session = s
      BY <2>2, <2>3, <3>2 DEF SameButAlone
    <3>3. CASE q # r /\ reqs[q].session # s
      <4>1. ASSUME AtWork(q)', reqs'[q].alone PROVE AtWork(q) /\ reqs[q].alone
        BY <2>2, <2>3, <3>3, <4>1 DEF SameButAlone
      <4>2. ASSUME AtWork(q) PROVE reqs[q].session \in Sessions \ {s}
        BY <1>0, <3>3, <4>2 DEF RequestHolds
      <4>3. reqs'[q].session = reqs[q].session /\ reqs'[q].verse = reqs[q].verse
        BY <2>2, <3>3 DEF SameButAlone
      <4>4. \A p \in Requests : Holds(p, reqs[q].session)' => Holds(p, reqs[q].session)
        BY <1>4, <2>2, <3>3 DEF SameButAlone
      <4> QED
        BY <2>4, <4>1, <4>2, <4>3, <4>4
    <3> QED
      BY <3>1, <3>2, <3>3
  <2>6. ASSUME NEW t \in Sessions PROVE Explained(t)'
    <3>1. CASE t = s
      BY <1>4, <2>2, <3>1 DEF SameButAlone
    <3>2. CASE t # s
      <4>1. \A q \in Requests : Holds(q, t) => Holds(q, t)'
        BY <2>1, <2>2 DEF SameButAlone
      <4>2. \A q \in Requests : reqs[q].session = t /\ reqs[q].outcome = "unsaved"
              => reqs'[q].session = t /\ reqs'[q].outcome = "unsaved"
        BY <2>1, <2>2, <3>2 DEF SameButAlone
      <4> QED
        BY <2>4, <3>2, <4>1, <4>2
    <3> QED
      BY <3>1, <3>2
  <2>7. ASSUME NEW q \in Requests, reqs[q].pc = "ended"
        PROVE  reqs'[q].pc = "ended" /\ reqs'[q].alone = reqs[q].alone
    BY <1>4, <2>2, <2>3, <2>7 DEF SameButAlone
  <2>8. ASSUME NEW t \in Sessions PROVE ScoreEnded(t)' /\ Agrees(t)'
    BY <1>0, <2>4, <2>7
  <2> QED
    BY <2>5, <2>6, <2>8
<1>5. ASSUME NEW r \in Requests, Start(r) PROVE StatusInv'
  <2> DEFINE new == [reqs[r] EXCEPT !.pc = "scoring"]
  <2>1. /\ new \in Request /\ new.pc = "scoring"
        /\ new.session = reqs[r].session /\ new.verse = reqs[r].verse
    <3>1. reqs[r] \in Request
      BY <1>0
    <3> QED
      BY <3>1 DEF Request, Pcs
  <2>2. /\ reqs[r].pc = "owned" /\ Joins(r, new)
        /\ jobs' = [jobs EXCEPT ![reqs[r].session] = Started(r)]
    BY <1>5 DEF Start
  <2> HIDE DEF new, StatusInv, Solo, Explained, ScoreEnded, Agrees, AtWork
  <2> QED
    BY <1>4, <2>1, <2>2
<1>6. ASSUME NEW r \in Requests, StartLost(r) PROVE StatusInv'
  <2> DEFINE new == [reqs[r] EXCEPT !.pc = "ended", !.outcome = "unsaved"]
  <2>1. /\ new \in Request /\ new.pc = "ended" /\ new.outcome = "unsaved"
        /\ new.session = reqs[r].session /\ new.verse = reqs[r].verse
    <3>1. reqs[r] \in Request
      BY <1>0
    <3> HIDE DEF StatusInv
    <3> QED
      BY <3>1 DEF Request, Pcs, Outcomes
  <2>2. /\ reqs[r].pc = "owned" /\ Joins(r, new)
        /\ jobs' = [jobs EXCEPT ![reqs[r].session] = Started(r)]
    BY <1>6 DEF StartLost
  <2> HIDE DEF new, StatusInv, Solo, Explained, ScoreEnded, Agrees, AtWork
  <2> QED
    BY <1>4, <2>1, <2>2
\* Steps in which r ends and writes the row: FAILED, or COMPLETED with a score.
<1>7. ASSUME NEW r \in Requests, NEW row \in Job,
             AtWork(r),
             jobs' = [jobs EXCEPT ![reqs[r].session] = row],
             reqs'[r].pc = "ended", reqs'[r].session = reqs[r].session,
             reqs'[r].alone = reqs[r].alone,
             \A q \in Requests \ {r} : reqs'[q] = reqs[q],
             row.verse = jobs[reqs[r].session].verse,
             \/ row.status = "FAILED" /\ row.score = jobs[reqs[r].session].score
             \/ /\ row.status = "COMPLETED" /\ row.score \in Score
                /\ row.score.by = r /\ row.score.verse = reqs[r].verse
      PROVE  StatusInv'
  <2> DEFINE s == reqs[r].session
  <2>1. /\ s \in Sessions /\ jobs[s] # None /\ reqs[r].outcome = "none"
        /\ jobs'[s] = row /\ \A t \in Sessions \ {s} : jobs'[t] = jobs[t]
    BY <1>0, <1>7 DEF RequestHolds
  <2>2. ASSUME NEW q \in Requests PROVE Solo(q)'
    <3>1. CASE q = r
      BY <1>7, <3>1
    <3>2. CASE q # r
      <4>1. ASSUME AtWork(q), reqs[q].alone PROVE reqs[q].session \in Sessions \ {s}
        BY <1>0, <1>7, <3>2, <4>1 DEF RequestHolds
      <4>2. \A p \in Requests, t \in Sessions : Holds(p, t)' => Holds(p, t)
        BY <1>7
      <4> QED
        BY <1>7, <2>1, <3>2, <4>1, <4>2
    <3> QED
      BY <3>1, <3>2
  <2>3. ASSUME NEW t \in Sessions PROVE Explained(t)'
    <3>1. CASE t = s
      BY <1>7, <2>1, <3>1
    <3>2. CASE t # s
      <4>1. \A q \in Requests : Holds(q, t) => Holds(q, t)'
        BY <1>7, <3>2
      <4>2. \A q \in Requests : reqs[q].session = t => reqs'[q] = reqs[q]
        BY <1>7, <3>2
      <4> QED
        BY <2>1, <3>2, <4>1, <4>2
    <3> QED
      BY <3>1, <3>2
  <2>4. \A q \in Requests : reqs[q].pc = "ended" => reqs'[q] = reqs[q]
    BY <1>7
  <2>5. ASSUME NEW t \in Sessions PROVE ScoreEnded(t)'
    BY <1>0, <1>7, <2>1, <2>4
  <2>6. ASSUME NEW t \in Sessions PROVE Agrees(t)'
    <3>1. CASE t = s
      BY <1>0, <1>7, <2>1, <3>1
    <3>2. CASE t # s
      BY <1>0, <2>1, <2>4, <3>2
    <3> QED
      BY <3>1, <3>2
  <2> QED
    BY <2>2, <2>3, <2>5, <2>6
<1>8. ASSUME NEW r \in Requests, reqs[r].pc \in {"fetched", "failing"}
      PROVE  /\ reqs[r] \in Request /\ reqs[r].session \in Sessions
             /\ jobs[reqs[r].session] \in Job
             /\ reqs[r].verse \in Verses
             /\ reqs[r].pc = "fetched" => reqs[r].clip \in Users
  BY <1>0, <1>8 DEF RequestHolds
<1>9. ASSUME NEW r \in Requests, reqs[r].pc = "fetched", jobs' = Completed(r),
             \E outcome \in Outcomes : End(r, outcome)
      PROVE  StatusInv'
  <2> DEFINE score == [clip |-> reqs[r].clip, verse |-> reqs[r].verse, by |-> r]
             row == [jobs[reqs[r].session] EXCEPT !.status = "COMPLETED", !.score = score]
  <2>1. score \in Score /\ score.by = r /\ score.verse = reqs[r].verse
    <3> HIDE DEF StatusInv
    <3>1. reqs[r].clip \in Users /\ reqs[r].verse \in Verses
      BY <1>8, <1>9
    <3> QED
      BY <3>1 DEF Score
  <2>2. jobs' = [jobs EXCEPT ![reqs[r].session] = row]
    BY <1>8, <1>9, <1>0 DEF Completed
  <2> HIDE DEF score, StatusInv
  <2>3. /\ row \in Job /\ row.status = "COMPLETED" /\ row.score = score
        /\ row.verse = jobs[reqs[r].session].verse
    BY <1>8, <1>9, <2>1 DEF Job, Statuses
  <2>4. /\ reqs'[r].pc = "ended" /\ reqs'[r].session = reqs[r].session
        /\ reqs'[r].alone = reqs[r].alone
        /\ \A q \in Requests \ {r} : reqs'[q] = reqs[q]
    BY <1>0, <1>8, <1>9 DEF End, Request
  <2> HIDE DEF row
  <2> QED
    BY <1>7, <1>9, <2>1, <2>2, <2>3, <2>4
<1>10. ASSUME NEW r \in Requests, MarkFailed(r) PROVE StatusInv'
  <2> DEFINE row == [jobs[reqs[r].session] EXCEPT !.status = "FAILED"]
  <2>1. reqs[r].pc = "failing" /\ jobs' = [jobs EXCEPT ![reqs[r].session] = row]
    BY <1>0, <1>10 DEF MarkFailed, SetStatus
  <2> HIDE DEF StatusInv
  <2>2. /\ row \in Job /\ row.status = "FAILED" /\ row.score = jobs[reqs[r].session].score
        /\ row.verse = jobs[reqs[r].session].verse
    BY <1>8, <2>1 DEF Job, Statuses
  <2>3. /\ reqs'[r].pc = "ended" /\ reqs'[r].session = reqs[r].session
        /\ reqs'[r].alone = reqs[r].alone
        /\ \A q \in Requests \ {r} : reqs'[q] = reqs[q]
    BY <1>0, <1>8, <1>10, <2>1 DEF MarkFailed, End, Request
  <2> HIDE DEF row
  <2> QED
    BY <1>7, <2>1, <2>2, <2>3
<1>11. ASSUME NEW r \in Requests, Complete(r) PROVE StatusInv'
  BY <1>9, <1>11 DEF Complete, Outcomes
<1>12. ASSUME NEW r \in Requests, CompleteErrs(r) PROVE StatusInv'
  <2>1. CASE jobs' = Completed(r) /\ End(r, "error")
    BY <1>9, <1>12, <2>1 DEF CompleteErrs, Outcomes
  <2>2. CASE jobs' = jobs /\ End(r, "unsaved")
    <3>1. /\ reqs[r].pc = "fetched" /\ reqs'[r].pc = "ended" /\ reqs'[r].outcome = "unsaved"
          /\ reqs'[r].session = reqs[r].session
          /\ \A q \in Requests \ {r} : reqs'[q] = reqs[q]
      BY <1>0, <1>12, <2>2 DEF CompleteErrs, End, Request
    <3>2. \A q \in Requests \ {r} : AtWork(q)' = AtWork(q)
      BY <3>1
    <3> QED
      BY <1>1, <2>2, <3>1, <3>2
  <2> QED
    BY <1>12, <2>1, <2>2 DEF CompleteErrs
<1>13. ASSUME UNCHANGED <<jobs, reqs>> PROVE StatusInv'
  BY <1>13
<1> HIDE DEF StatusInv
<1> QED
  BY <1>2, <1>3, <1>5, <1>6, <1>10, <1>11, <1>12, <1>13
     DEF Next, Client, Scoring, Backend, Deleting, Tick, CreateSignedUploadUrl, PutAudio,
         DeleteFind, DeleteRow, RemoveObject, DeleteFails, vars

\* A job is RUNNING only while a request works on it or after a lost write:
\* every other way out of JobService.Create writes COMPLETED or FAILED.
THEOREM RunningAccountedFor == Spec => []RunningExplained
<1>1. StatusInv => RunningExplained
  BY DEF StatusInv, Explained, Holds, AtWork, RunningExplained, Working
<1> QED
  BY ShapeInit, ShapeStep, StatusInit, StatusStep, <1>1, PTL DEF Spec

\* A COMPLETED row has a score, of the verse it names unless two requests of
\* the session overlapped.
THEOREM ScoresAgree == Spec => []CompletedScoreAgrees
<1>1. StatusInv => CompletedScoreAgrees
  BY DEF StatusInv, Agrees, CompletedScoreAgrees
<1> QED
  BY ShapeInit, ShapeStep, StatusInit, StatusStep, <1>1, PTL DEF Spec

\* Only markFailed writes FAILED, and a request that is alone on its session
\* finds the row RUNNING there.
LEMMA CompletionStep ==
  ASSUME Shape, StatusInv, [Next]_vars, NEW s \in Sessions,
         jobs[s] # None, jobs[s].status = "COMPLETED", jobs'[s].status = "FAILED"
  PROVE  \E r \in Working(s) : ~reqs[r].alone
<1>0. /\ jobs \in [Sessions -> Job \cup {None}]
      /\ \A r \in Requests : RequestHolds(r)
  BY DEF Shape, TypeOK
<1>1. jobs'[s] # jobs[s]
  OBVIOUS
<1>2. \A r \in Requests : ~Start(r) /\ ~StartLost(r)
  BY <1>0, <1>1 DEF Start, StartLost, Started, RequestHolds
<1>3. \A r \in Requests : ~Complete(r) /\ ~CompleteErrs(r)
  <2>1. ASSUME NEW r \in Requests, reqs[r].pc = "fetched" PROVE jobs' # Completed(r)
    <3>1. jobs[s] \in Job /\ reqs[r].session \in Sessions
      BY <1>0, <2>1 DEF RequestHolds
    <3> QED
      BY <1>0, <1>1, <3>1 DEF Completed, Job
  <2> QED
    BY <1>1, <2>1 DEF Complete, CompleteErrs
<1>4. PICK r \in Requests : MarkFailed(r)
  BY <1>1, <1>2, <1>3
     DEF Next, Client, Scoring, Backend, Deleting, Tick, CreateSignedUploadUrl, PutAudio,
         ResolveOwnedSession, RefuseBeforeStart, FetchAudio, ScoreFails, MarkFailedLost,
         Restart, DeleteFind, DeleteRow, RemoveObject, DeleteFails, vars
<1>5. reqs[r].session = s /\ AtWork(r)
  BY <1>0, <1>1, <1>4 DEF MarkFailed, SetStatus, AtWork, RequestHolds
<1>6. ~reqs[r].alone
  BY <1>5 DEF StatusInv, Solo
<1> QED
  BY <1>5, <1>6 DEF Working, AtWork

\* A completed job fails only when two requests of its session overlap.
THEOREM CompletionsKept == Spec => CompletionKept
<1>1. Shape /\ StatusInv /\ [Next]_vars
        => [\A s \in Sessions :
              jobs[s] # None /\ jobs[s].status = "COMPLETED" /\ jobs'[s].status = "FAILED"
                => \E r \in Working(s) : ~reqs[r].alone]_vars
  BY CompletionStep
<1> QED
  BY ShapeInit, ShapeStep, StatusInit, StatusStep, <1>1, PTL DEF Spec, CompletionKept

-----------------------------------------------------------------------------
(***************************************************************************)
(* The audio: whose recording a score is of, and what stays in the object  *)
(* store.  This rests on Shape and Ownership.                              *)
(***************************************************************************)

\* What a client was given stays: only late may still become true.
LEMMA SlotsStay ==
  ASSUME Shape, [Next]_vars, NEW s \in Sessions, slots[s] # None
  PROVE  /\ slots'[s] # None /\ slots'[s].user = slots[s].user /\ slots'[s].key = slots[s].key
         /\ slots[s].late => slots'[s].late
<1>0. slots \in [Sessions -> Slot \cup {None}] /\ slots[s] \in Slot
  BY DEF Shape, TypeOK
<1>1. CASE slots' = slots
  BY <1>1
<1>2. ASSUME NEW u \in Users, NEW t \in Sessions, NEW n \in Names, CreateSignedUploadUrl(u, t, n)
      PROVE  slots'[s] = slots[s]
  BY <1>0, <1>2 DEF CreateSignedUploadUrl, Issued
<1>3. ASSUME NEW t \in Sessions, PutAudio(t)
      PROVE  /\ slots'[s] # None /\ slots'[s].user = slots[s].user /\ slots'[s].key = slots[s].key
             /\ slots[s].late => slots'[s].late
  <2> DEFINE b == slots[t].late \/ uploads[t] = None
  <2>1. CASE t # s
    BY <1>0, <1>3, <2>1 DEF PutAudio
  <2>2. CASE t = s
    <3>1. slots'[s] = [slots[s] EXCEPT !.late = b]
      BY <1>0, <1>3, <2>2 DEF PutAudio
    <3>2. b \in BOOLEAN /\ (slots[s].late => b)
      BY <1>0, <2>2 DEF Slot
    <3> HIDE DEF b
    <3>3. slots'[s] \in Slot /\ slots'[s].late = b
      BY <1>0, <3>1, <3>2 DEF Slot
    <3> QED
      BY <1>0, <3>1, <3>2, <3>3, JobNoneAssumption DEF Slot
  <2> QED
    BY <2>1, <2>2
<1> QED
  BY <1>1, <1>2, <1>3
  DEF Next, Client, Scoring, Backend, Deleting, Tick, ResolveOwnedSession, RefuseBeforeStart,
      Start, StartLost, FetchAudio, ScoreFails, Complete, MarkFailed, CompleteErrs,
      MarkFailedLost, Restart, DeleteFind, DeleteRow, RemoveObject, DeleteFails, vars

-----------------------------------------------------------------------------
(* Whose recording a score is of.                                           *)

\* Somebody was given key k for user c.
GivenTo(c, k) == \E t \in Sessions : IssuedFor(t, c, k)

\* Audio is traced from the store through the request to the score.
Traced ==
  /\ \A k \in Keys : objects[k] # None => GivenTo(objects[k], k)
  /\ \A r \in Requests : reqs[r].pc = "fetched" => GivenTo(reqs[r].clip, reqs[r].key)
  /\ \A s \in Sessions : jobs[s] # None /\ jobs[s].score # None =>
       GivenTo(jobs[s].score.clip, jobs[s].key)

LEMMA GivenStays ==
  ASSUME Shape, [Next]_vars, NEW c, NEW k, GivenTo(c, k)
  PROVE  GivenTo(c, k)'
BY SlotsStay DEF GivenTo, IssuedFor

LEMMA TracedStep == Shape /\ Ownership /\ Traced /\ [Next]_vars => Traced'
<1> SUFFICES ASSUME Shape, Ownership, Traced, [Next]_vars PROVE Traced'
  OBVIOUS
<1>0. /\ objects \in [Keys -> Users \cup {None}]
      /\ jobs \in [Sessions -> Job \cup {None}]
      /\ reqs \in [Requests -> Request]
      /\ slots \in [Sessions -> Slot \cup {None}]
      /\ \A r \in Requests : reqs[r].pc # "idle" => reqs[r].session \in Sessions /\ reqs[r].key \in Keys
  BY DEF Shape, TypeOK, RequestHolds
\* The three parts, each from what a step may do to its table.
<1>1. \A k \in Keys : objects'[k] # None => objects'[k] = objects[k] \/ GivenTo(objects[k], k)'
  <2>1. CASE objects' = objects
    BY <2>1
  <2>2. ASSUME NEW s \in Sessions, PutAudio(s), NEW k \in Keys, objects'[k] # objects[k]
        PROVE  GivenTo(objects[k], k)'
    <3>1. slots[s] # None /\ k = slots[s].key /\ objects'[k] = slots[s].user
      BY <1>0, <2>2 DEF PutAudio, Issued
    <3> QED
      BY <3>1, SlotsStay DEF GivenTo, IssuedFor
  <2>3. ASSUME NEW d \in Deletions, RemoveObject(d), NEW k \in Keys
        PROVE  objects'[k] = objects[k] \/ objects'[k] = None
    BY <1>0, <2>3 DEF RemoveObject
  <2> QED
    BY <2>1, <2>2, <2>3
    DEF Next, Client, Scoring, Backend, Deleting, Tick, CreateSignedUploadUrl,
        ResolveOwnedSession, RefuseBeforeStart, Start, StartLost, FetchAudio, ScoreFails,
        Complete, MarkFailed, CompleteErrs, MarkFailedLost, Restart, DeleteFind, DeleteRow,
        DeleteFails, vars
<1>2. \A r \in Requests : reqs'[r].pc = "fetched" =>
        \/ reqs[r].pc = "fetched" /\ reqs'[r].clip = reqs[r].clip /\ reqs'[r].key = reqs[r].key
        \/ /\ reqs'[r].key = reqs[r].key /\ reqs[r].key \in Keys
           /\ reqs'[r].clip = objects[reqs[r].key] /\ objects[reqs[r].key] # None
  <2> DEFINE Stays(r) == reqs'[r].pc = "fetched" =>
               reqs[r].pc = "fetched" /\ reqs'[r].clip = reqs[r].clip /\ reqs'[r].key = reqs[r].key
  <2>1. ASSUME NEW q \in Requests, NEW r \in Requests, FetchAudio(q)
        PROVE  \/ Stays(r)
               \/ /\ reqs'[r].key = reqs[r].key /\ reqs[r].key \in Keys
                  /\ reqs'[r].clip = objects[reqs[r].key] /\ objects[reqs[r].key] # None
    BY <1>0, <2>1 DEF FetchAudio, Request
  <2>2. ASSUME NEW q \in Requests, NEW r \in Requests, ResolveOwnedSession(q) PROVE Stays(r)
    BY <1>0, <2>2 DEF ResolveOwnedSession, IdleRequest
  <2>3. ASSUME NEW q \in Requests, NEW r \in Requests, Start(q) PROVE Stays(r)
    <3> DEFINE new == [reqs[q] EXCEPT !.pc = "scoring"]
    <3>1. reqs[q] \in Request /\ Joins(q, new)
      BY <1>0, <2>3 DEF Start
    <3>2. new \in Request /\ new.pc = "scoring"
      BY <3>1, ScoringRequest
    <3> HIDE DEF new
    <3>3. SameButAlone(reqs'[q], new) /\ \A p \in Requests \ {q} : SameButAlone(reqs'[p], reqs[p])
      BY <1>0, <3>1, <3>2, JoinsEffect
    <3> QED
      BY <3>2, <3>3 DEF SameButAlone
  <2>4. ASSUME NEW q \in Requests, NEW r \in Requests, StartLost(q) PROVE Stays(r)
    <3> DEFINE new == [reqs[q] EXCEPT !.pc = "ended", !.outcome = "unsaved"]
    <3>1. reqs[q] \in Request /\ Joins(q, new)
      BY <1>0, <2>4 DEF StartLost
    <3>2. new \in Request /\ new.pc = "ended"
      BY <3>1, UnsavedRequest
    <3> HIDE DEF new
    <3>3. SameButAlone(reqs'[q], new) /\ \A p \in Requests \ {q} : SameButAlone(reqs'[p], reqs[p])
      BY <1>0, <3>1, <3>2, JoinsEffect
    <3> QED
      BY <3>2, <3>3 DEF SameButAlone
  <2>5. ASSUME NEW q \in Requests, NEW r \in Requests,
               RefuseBeforeStart(q) \/ ScoreFails(q) \/ Complete(q) \/ MarkFailed(q)
                 \/ CompleteErrs(q) \/ MarkFailedLost(q)
        PROVE  Stays(r)
    BY <1>0, <2>5 DEF RefuseBeforeStart, ScoreFails, Complete, MarkFailed, CompleteErrs,
       MarkFailedLost, End, Request
  <2>6. ASSUME Restart, NEW r \in Requests PROVE Stays(r)
    BY <1>0, <2>6 DEF Restart, Request
  <2>7. ASSUME reqs' = reqs, NEW r \in Requests PROVE Stays(r)
    BY <2>7
  <2> HIDE DEF Stays
  <2>8. ASSUME NEW r \in Requests
        PROVE  \/ Stays(r)
               \/ /\ reqs'[r].key = reqs[r].key /\ reqs[r].key \in Keys
                  /\ reqs'[r].clip = objects[reqs[r].key] /\ objects[reqs[r].key] # None
    BY <2>1, <2>2, <2>3, <2>4, <2>5, <2>6, <2>7
    DEF Next, Client, Scoring, Backend, Deleting, Tick, CreateSignedUploadUrl, PutAudio,
        DeleteFind, DeleteRow, RemoveObject, DeleteFails, vars
  <2> QED
    BY <2>8 DEF Stays
<1>3. \A s \in Sessions : jobs'[s] # None /\ jobs'[s].score # None =>
        \/ /\ jobs[s] # None /\ jobs[s].score # None /\ jobs'[s].score = jobs[s].score
           /\ jobs'[s].key = jobs[s].key
        \/ \E r \in Requests :
             /\ reqs[r].pc = "fetched" /\ jobs'[s].score.clip = reqs[r].clip
             /\ jobs'[s].key = reqs[r].key
  <2> DEFINE Old(s) == /\ jobs[s] # None /\ jobs[s].score # None
                       /\ jobs'[s].score = jobs[s].score /\ jobs'[s].key = jobs[s].key
  <2>1. ASSUME NEW s \in Sessions, NEW r \in Requests, Start(r) \/ StartLost(r),
               jobs'[s] # None, jobs'[s].score # None
        PROVE  Old(s)
    <3>1. reqs[r].pc = "owned" /\ jobs' = [jobs EXCEPT ![reqs[r].session] = Started(r)]
      BY <2>1 DEF Start, StartLost
    <3>2. CASE s = reqs[r].session
      <4>1. jobs'[s] = Started(r)
        BY <1>0, <3>1, <3>2
      <4>2. jobs[s] # None /\ jobs'[s].score = jobs[s].score /\ jobs'[s].key = reqs[r].key
        BY <2>1, <3>2, <4>1 DEF Started
      <4>3. slots[s].key = reqs[r].key /\ slots[s].key = jobs[s].key
        BY <3>1, <3>2, <4>2 DEF Ownership, IssuedFor
      <4> QED
        BY <2>1, <4>2, <4>3
    <3> QED
      BY <1>0, <2>1, <3>1, <3>2
  <2>2. ASSUME NEW s \in Sessions, NEW r \in Requests, reqs[r].pc = "fetched",
               jobs' = Completed(r), jobs'[s] # None, jobs'[s].score # None
        PROVE  Old(s) \/ (jobs'[s].score.clip = reqs[r].clip /\ jobs'[s].key = reqs[r].key)
    <3>1. CASE s = reqs[r].session
      <4>1. jobs[s] \in Job
        BY <1>0, <2>2, <3>1 DEF Shape, RequestHolds, AtWork
      <4>2. slots[s].key = reqs[r].key /\ slots[s].key = jobs[s].key
        BY <2>2, <3>1, <4>1, JobNoneAssumption DEF Ownership, IssuedFor
      <4>3. jobs'[s].score.clip = reqs[r].clip /\ jobs'[s].key = jobs[s].key
        BY <1>0, <2>2, <3>1, <4>1 DEF Completed, Job
      <4> QED
        BY <4>2, <4>3
    <3> QED
      BY <1>0, <2>2, <3>1 DEF Completed
  <2>3. ASSUME NEW s \in Sessions, NEW r \in Requests, MarkFailed(r),
               jobs'[s] # None, jobs'[s].score # None
        PROVE  Old(s)
    <3>1. jobs[reqs[r].session] \in Job /\ reqs[r].session \in Sessions
      BY <1>0, <2>3 DEF MarkFailed, Shape, RequestHolds, AtWork
    <3> QED
      BY <1>0, <2>3, <3>1, JobNoneAssumption DEF MarkFailed, SetStatus, Job
  <2>4. ASSUME NEW s \in Sessions, jobs' = jobs, jobs'[s] # None, jobs'[s].score # None
        PROVE  Old(s)
    BY <2>4
  <2> HIDE DEF Old
  <2>5. ASSUME NEW s \in Sessions, jobs'[s] # None, jobs'[s].score # None
        PROVE  \/ Old(s)
               \/ \E r \in Requests :
                    /\ reqs[r].pc = "fetched" /\ jobs'[s].score.clip = reqs[r].clip
                    /\ jobs'[s].key = reqs[r].key
    BY <2>1, <2>2, <2>3, <2>4, <2>5
    DEF Next, Client, Scoring, Backend, Deleting, Tick, CreateSignedUploadUrl, PutAudio,
        ResolveOwnedSession, RefuseBeforeStart, FetchAudio, ScoreFails, Complete, CompleteErrs,
        MarkFailedLost, Restart, DeleteFind, DeleteRow, RemoveObject, DeleteFails, vars
  <2> QED
    BY <2>5 DEF Old
<1> QED
  BY <1>1, <1>2, <1>3, GivenStays DEF Traced

\* A score is of audio its owner recorded, unless two users were given the same
\* key, for any number of sessions, requests and deletions.
THEOREM OwnRecordings == Spec => []ScoresOwnRecording
<1>1. Init => Traced
  BY DEF Init, Traced, IdleRequest
<1>2. Ownership /\ Traced => ScoresOwnRecording
  BY DEF Ownership, Traced, ScoresOwnRecording, GivenTo, IssuedFor, Shared, Issued
<1> QED
  BY <1>1, <1>2, ShapeInit, ShapeStep, OwnershipInit, OwnershipStep, TracedStep, PTL DEF Spec

-----------------------------------------------------------------------------
(* What stays in the object store.                                          *)

\* A deletion holds the key its session was given.
Finders ==
  \A d \in Deletions : dels[d].pc = "found" =>
    slots[dels[d].session] # None /\ slots[dels[d].session].key = dels[d].key

\* The three ways in which audio under k is accounted for.
RowOf(k) == \E s \in Sessions : uploads[s] # None /\ uploads[s].key = k
LateFor(k) == \E s \in Sessions : slots[s] # None /\ slots[s].key = k /\ slots[s].late
Unfinished(k) == \E d \in Deletions : dels[d].key = k /\ dels[d].pc \in {"rowGone", "failed"}

LEMMA FindersStep == Shape /\ Ownership /\ Finders /\ [Next]_vars => Finders'
<1> SUFFICES ASSUME Shape, Ownership, Finders, [Next]_vars,
                    NEW d \in Deletions, dels'[d].pc = "found"
             PROVE  slots'[dels'[d].session] # None
                    /\ slots'[dels'[d].session].key = dels'[d].key
  BY DEF Finders
<1>0. dels \in [Deletions -> Deletion] /\ uploads \in [Sessions -> Upload \cup {None}]
  BY DEF Shape, TypeOK
<1>1. CASE dels'[d] = dels[d]
  <2>1. dels[d].session \in Sessions /\ slots[dels[d].session] # None
        /\ slots[dels[d].session].key = dels[d].key
    BY <1>1 DEF Shape, DeletionHolds, Finders
  <2> QED
    BY <1>1, <2>1, SlotsStay
<1>2. ASSUME NEW e \in Deletions, DeleteFind(e), dels'[d] # dels[d]
      PROVE  slots'[dels'[d].session] # None
             /\ slots'[dels'[d].session].key = dels'[d].key
  <2>1. PICK s \in Sessions :
          /\ uploads[s] # None
          /\ dels'[d] = [pc |-> "found", session |-> s, key |-> uploads[s].key]
    BY <1>0, <1>2 DEF DeleteFind
  <2> QED
    BY <1>2, <2>1 DEF DeleteFind, Ownership, IssuedFor
<1>3. ASSUME NEW e \in Deletions, DeleteRow(e) \/ RemoveObject(e) \/ DeleteFails(e)
      PROVE  dels'[d] = dels[d]
  BY <1>0, <1>3 DEF DeleteRow, RemoveObject, DeleteFails, Deletion
<1> QED
  BY <1>1, <1>2, <1>3
  DEF Next, Client, Scoring, Backend, Deleting, Tick, CreateSignedUploadUrl, PutAudio,
      ResolveOwnedSession, RefuseBeforeStart, Start, StartLost, FetchAudio, ScoreFails,
      Complete, MarkFailed, CompleteErrs, MarkFailedLost, Restart, vars

LEMMA AccountedStep ==
  Shape /\ Ownership /\ Finders /\ AudioAccounted /\ [Next]_vars => AudioAccounted'
<1> SUFFICES ASSUME Shape, Ownership, Finders, AudioAccounted, [Next]_vars,
                    NEW k \in Keys, objects'[k] # None
             PROVE  RowOf(k)' \/ LateFor(k)' \/ Unfinished(k)'
  BY DEF AudioAccounted, RowOf, LateFor, Unfinished
<1>0. /\ objects \in [Keys -> Users \cup {None}] /\ dels \in [Deletions -> Deletion]
      /\ uploads \in [Sessions -> Upload \cup {None}]
      /\ slots \in [Sessions -> Slot \cup {None}]
  BY DEF Shape, TypeOK
<1>1. objects[k] # None => RowOf(k) \/ LateFor(k) \/ Unfinished(k)
  BY DEF AudioAccounted, RowOf, LateFor, Unfinished
<1>2. LateFor(k) => LateFor(k)'
  BY SlotsStay DEF LateFor
\* A recording that has just arrived.
<1>3. ASSUME NEW s \in Sessions, PutAudio(s) PROVE RowOf(k)' \/ LateFor(k)' \/ Unfinished(k)'
  <2>1. slots[s] \in Slot /\ uploads' = uploads /\ dels' = dels
    BY <1>0, <1>3 DEF PutAudio, Issued
  <2>2. CASE k # slots[s].key
    <3>1. objects[k] # None
      BY <1>0, <1>3, <2>2 DEF PutAudio
    <3> QED
      BY <1>1, <1>2, <2>1, <3>1 DEF RowOf, Unfinished
  <2>3. CASE k = slots[s].key /\ uploads[s] # None
    BY <2>1, <2>3 DEF RowOf, Ownership, IssuedFor
  <2>4. CASE k = slots[s].key /\ uploads[s] = None
    <3> DEFINE new == [slots[s] EXCEPT !.late = TRUE]
    <3>1. slots' = [slots EXCEPT ![s] = new]
      BY <1>0, <1>3, <2>4 DEF PutAudio
    <3>2. slots'[s] \in Slot /\ slots'[s].key = k /\ slots'[s].late
      BY <1>0, <2>1, <2>4, <3>1 DEF Slot
    <3> QED
      BY <3>2, JobNoneAssumption DEF LateFor
  <2> QED
    BY <2>2, <2>3, <2>4
\* A row that goes leaves its key with the deletion.
<1>4. ASSUME NEW d \in Deletions, DeleteRow(d)
      PROVE  RowOf(k)' \/ LateFor(k)' \/ Unfinished(k)'
  <2>1. objects' = objects /\ slots' = slots
    BY <1>4 DEF DeleteRow
  <2>2. \A e \in Deletions : dels[e].pc \in {"rowGone", "failed"} => dels'[e] = dels[e]
    BY <1>0, <1>4 DEF DeleteRow
  <2>3. Unfinished(k) => Unfinished(k)'
    BY <2>2 DEF Unfinished
  <2>4. ASSUME NEW s \in Sessions, uploads[s] # None, uploads[s].key = k
        PROVE  RowOf(k)' \/ Unfinished(k)'
    <3>1. CASE s # dels[d].session
      BY <1>0, <1>4, <2>4, <3>1 DEF DeleteRow, RowOf
    <3>2. CASE s = dels[d].session
      <4>1. dels[d].key = k
        BY <1>4, <2>4, <3>2 DEF DeleteRow, Finders, Ownership, IssuedFor
      <4>2. dels'[d].pc = "rowGone" /\ dels'[d].key = k
        BY <1>0, <1>4, <4>1 DEF DeleteRow, Deletion
      <4> QED
        BY <4>2 DEF Unfinished
    <3> QED
      BY <3>1, <3>2
  <2> QED
    BY <1>1, <1>2, <2>1, <2>3, <2>4 DEF RowOf
<1>5. ASSUME NEW d \in Deletions, RemoveObject(d)
      PROVE  RowOf(k)' \/ LateFor(k)' \/ Unfinished(k)'
  <2>1. objects[k] # None /\ k # dels[d].key /\ uploads' = uploads
    <3>1. k # dels[d].key
      BY <1>0, <1>5 DEF RemoveObject
    <3> QED
      BY <1>0, <1>5, <3>1 DEF RemoveObject
  <2>2. Unfinished(k) => Unfinished(k)'
    BY <1>0, <1>5, <2>1 DEF RemoveObject, Unfinished
  <2> QED
    BY <1>1, <1>2, <2>1, <2>2 DEF RowOf
<1>6. ASSUME NEW d \in Deletions, DeleteFind(d) \/ DeleteFails(d)
      PROVE  RowOf(k)' \/ LateFor(k)' \/ Unfinished(k)'
  <2>1. objects' = objects /\ uploads' = uploads
    BY <1>6 DEF DeleteFind, DeleteFails
  <2>2. \A e \in Deletions : dels[e].pc \in {"rowGone", "failed"} =>
          dels'[e].key = dels[e].key /\ dels'[e].pc \in {"rowGone", "failed"}
    BY <1>0, <1>6 DEF DeleteFind, DeleteFails, Deletion
  <2>3. Unfinished(k) => Unfinished(k)'
    BY <2>2 DEF Unfinished
  <2> QED
    BY <1>1, <1>2, <2>1, <2>3 DEF RowOf
<1>7. ASSUME NEW u \in Users, NEW s \in Sessions, NEW n \in Names, CreateSignedUploadUrl(u, s, n)
      PROVE  RowOf(k)' \/ LateFor(k)' \/ Unfinished(k)'
  <2>1. uploads[s] = None /\ objects' = objects /\ dels' = dels
    BY <1>7 DEF CreateSignedUploadUrl, Issued, Ownership, IssuedFor
  <2>2. \A t \in Sessions : uploads[t] # None => uploads'[t] = uploads[t]
    BY <1>0, <1>7, <2>1 DEF CreateSignedUploadUrl
  <2> QED
    BY <1>1, <1>2, <2>1, <2>2 DEF RowOf, Unfinished
<1>8. ASSUME UNCHANGED <<uploads, objects, dels>>
      PROVE  RowOf(k)' \/ LateFor(k)' \/ Unfinished(k)'
  BY <1>1, <1>2, <1>8 DEF RowOf, Unfinished
<1> QED
  BY <1>3, <1>4, <1>5, <1>6, <1>7, <1>8
  DEF Next, Client, Scoring, Backend, Deleting, Tick, ResolveOwnedSession, RefuseBeforeStart,
      Start, StartLost, FetchAudio, ScoreFails, Complete, MarkFailed, CompleteErrs,
      MarkFailedLost, Restart, vars

\* No audio is left behind unaccounted for: it has its row, was uploaded after
\* the deletion of its row, or a deletion has not come to it or has died.
THEOREM AudioStaysAccounted == Spec => []AudioAccounted
<1>1. Init => Finders /\ AudioAccounted
  BY DEF Init, Finders, AudioAccounted, IdleDeletion
<1> QED
  BY <1>1, ShapeInit, ShapeStep, OwnershipInit, OwnershipStep, FindersStep, AccountedStep,
     PTL DEF Spec
=============================================================================

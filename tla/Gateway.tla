------------------------------ MODULE Gateway ------------------------------
(***************************************************************************)
(* The request path: pages and server actions of the web client and        *)
(* queries of the GraphQL API, the BFF that answers them, the Go backend   *)
(* behind it over gRPC or REST (BACKEND_GRPC_ADDR decides), and the cache  *)
(* of reference clips a scoring request fills on its way.                  *)
(*                                                                         *)
(* Read-only lookups are one step: nothing they read changes.  What writes *)
(* (the clip cache, the job row) is a step per await.  There is one        *)
(* session, whose upload is in place; ScoringJobs has the others.          *)
(***************************************************************************)
EXTENDS Naturals, FiniteSets

CONSTANTS
  Surahs, Ayahs,            \* the catalogue: every surah has the ayahs Ayahs
  AskedSurahs, AskedAyahs,  \* what clients ask for, the unknown included
  Voiced,                   \* verses EveryAyah serves a clip of
  Visits,                   \* page renders, actions and queries, one slot each
  MaxRetries,               \* MAX_RETRIES of downloadFromEveryAyah
  None

ASSUME RetryAssumption == MaxRetries \in Nat \ {0}

VARIABLES
  via,     \* the transport to the backend: "grpc" or "rest"
  clips,   \* verses whose reference clip is in the object store
  job,     \* the row of scoring_jobs
  visits

vars == <<via, clips, job, visits>>

Verses == AskedSurahs \X AskedAyahs
Kinds == {"practice", "result", "surah", "ayah", "clip", "score", "mutation"}
Scores == {"score", "mutation"}     \* POST /scoring-jobs and its GraphQL twin
\* A visit that is left has its answer, and the backend is still at work for it.
Pcs == {"idle", "stat", "download", "put", "sign", "asking", "waiting", "left", "ended"}
Told == {"none", "page", "home", "value", "null", "noAyahs", "throws", "detail", "failed", "polling",
         "notFound", "200", "201", "404", "429", "502", "503", "200 with errors"}
Replies == {"OK", "NOT_FOUND", "UNAVAILABLE", "INTERNAL", "lost"}

\* hurt is history: a call of this visit failed or lost its answer.  row is
\* what the visit read of the job, by whose scoring its score is.
Row == [verse: Verses, status: {"RUNNING", "COMPLETED", "FAILED"}, by: Visits \cup {None}]
Visit == [kind: Kinds \cup {None}, verse: Verses \cup {None}, pc: Pcs, tries: 0..MaxRetries,
          row: Row \cup {None}, reply: Replies \cup {None}, hurt: BOOLEAN, answer: Told]
Fresh == [kind |-> None, verse |-> None, pc |-> "idle", tries |-> 0, row |-> None,
          reply |-> None, hurt |-> FALSE, answer |-> "none"]

\* No reply yet is none of the replies, nobody no visit and no row none of the rows.
ASSUME NoneAssumption == None \notin Replies \cup Visits \cup Row

Init == /\ via \in {"grpc", "rest"}
        /\ clips = {} /\ job = None
        /\ visits = [v \in Visits |-> Fresh]

-----------------------------------------------------------------------------
(* The backend.  h is how one call fares: "up", "db" when its query fails, *)
(* "net" when no answer comes (no connection, or the read deadline).       *)
Health == {"up", "db", "net"}

\* The repositories: sql.ErrNoRows is an error of its own.
GetSurah(s, h) == IF h = "db" THEN "dbError" ELSE IF s \in Surahs THEN "nil" ELSE "ErrSurahNotFound"
GetByNumber(s, a, h) == IF h = "db" THEN "dbError"
                        ELSE IF s \in Surahs /\ a \in Ayahs THEN "nil" ELSE "ErrAyahNotFound"
ListBySurah(h) == IF h = "db" THEN "dbError" ELSE "nil"
ListSurahs(h) == IF h = "db" THEN "dbError" ELSE "nil"

\* A variant with a plausible mistake (any error is NOT_FOUND, as over REST); no
\* action of Next uses it.
GrpcNotFoundOnly(s, h) ==
  CASE h = "net" -> "DEADLINE_EXCEEDED" [] GetSurah(s, h) = "nil" -> "OK" [] OTHER -> "NOT_FOUND"

\* The gRPC handlers tell a missing row from every other error ...
GrpcGetSurah(s, h) ==
  CASE h = "net" -> "DEADLINE_EXCEEDED"
    [] GetSurah(s, h) = "nil" -> "OK"
    [] GetSurah(s, h) = "ErrSurahNotFound" -> "NOT_FOUND"
    [] OTHER -> "INTERNAL"
GrpcGetAyah(s, a, h) ==
  CASE h = "net" -> "DEADLINE_EXCEEDED"
    [] GetByNumber(s, a, h) = "nil" -> "OK"
    [] GetByNumber(s, a, h) = "ErrAyahNotFound" -> "NOT_FOUND"
    [] OTHER -> "INTERNAL"
GrpcListAyahs(h) == CASE h = "net" -> "DEADLINE_EXCEEDED"
                      [] ListBySurah(h) = "nil" -> "OK" [] OTHER -> "INTERNAL"
GrpcListSurahs(h) == CASE h = "net" -> "DEADLINE_EXCEEDED"
                       [] ListSurahs(h) = "nil" -> "OK" [] OTHER -> "INTERNAL"

\* ... the REST handler of a surah answers every error with 404.
RestGetSurah(s, h) == CASE h = "net" -> "rejected" [] GetSurah(s, h) = "nil" -> "200" [] OTHER -> "404"
RestListAyahs(h) == CASE h = "net" -> "rejected" [] ListBySurah(h) = "nil" -> "200" [] OTHER -> "500"
RestListSurahs(h) == CASE h = "net" -> "rejected" [] ListSurahs(h) = "nil" -> "200" [] OTHER -> "500"

(* The client of the backend in the BFF: a value, null, or an exception.    *)

NullIfNotFound(code) == CASE code = "OK" -> "value" [] code = "NOT_FOUND" -> "null" [] OTHER -> "throws"

FetchSurahs(h) == IF (IF via = "grpc" THEN GrpcListSurahs(h) = "OK" ELSE RestListSurahs(h) = "200")
                  THEN "value" ELSE "throws"

\* Promise.all over gRPC; over REST the ayahs come second, and only a refused
\* connection throws: without them the surah has none.
FetchSurah(s, h, hAyahs) ==
  IF via = "grpc"
  THEN IF GrpcListAyahs(hAyahs) = "OK" THEN NullIfNotFound(GrpcGetSurah(s, h)) ELSE "throws"
  ELSE CASE RestGetSurah(s, h) = "404" -> "null"
         [] RestGetSurah(s, h) = "rejected" \/ RestListAyahs(hAyahs) = "rejected" -> "throws"
         [] RestListAyahs(hAyahs) = "500" -> "noAyahs"
         [] OTHER -> "value"

FetchAyahs(h) == IF RestListAyahs(h) = "200" THEN "value" ELSE "throws"

FetchAyah(s, a, h) ==
  IF via = "grpc" THEN NullIfNotFound(GrpcGetAyah(s, a, h))
  ELSE IF FetchAyahs(h) = "value" /\ ~(s \in Surahs /\ a \in Ayahs) THEN "null" ELSE FetchAyahs(h)

-----------------------------------------------------------------------------
(* Routes, resolvers, server actions and pages.                             *)

RscSurahs(got) == IF got = "value" THEN "200" ELSE "502"
RscSurahAyahs(got) == CASE got = "null" -> "404" [] got = "throws" -> "502" [] OTHER -> got

\* parseJson throws for every status that is not ok.
ParseJson(status) == IF status \in {"404", "502", "503", "429"} THEN "throws" ELSE status
ActionSurahs(h) == ParseJson(RscSurahs(FetchSurahs(h)))
ActionSurahAyahs(s, h, hAyahs) == ParseJson(RscSurahAyahs(FetchSurah(s, h, hAyahs)))

\* The practice page goes home for an error as for a surah it cannot find, and
\* shows the first ayah for a number it cannot find.
PracticePage(s, h, hSurah, hAyahs) ==
  LET ayahs == ActionSurahAyahs(s, hSurah, hAyahs)
  IN IF ActionSurahs(h) = "throws" \/ s \notin Surahs \/ ayahs \in {"throws", "noAyahs"}
     THEN "home" ELSE "page"

\* The three loads of the result page; row is what getScoringJob found.
ResultLoads(s, a, row, h, hSurah, hAyahs) ==
  /\ row # None
  /\ ActionSurahs(h) # "throws"
  /\ s \in Surahs
  /\ ActionSurahAyahs(s, hSurah, hAyahs) = "value"
  /\ a \in Ayahs

ResultView(row) == CASE row.status = "COMPLETED" -> "detail"
                     [] row.status = "FAILED" -> "failed" [] OTHER -> "polling"

\* What a failed scoring request answers; errors of a GraphQL mutation keep
\* HTTP 200 unless their code is one the plugin maps.
ScoringStatus(kind, error) ==
  CASE error = "quota" -> "429"
    [] error = "upload" /\ kind = "score" -> "404"
    [] error = "backend" /\ kind = "score" -> "502"
    [] OTHER -> "200 with errors"

-----------------------------------------------------------------------------
(* Steps.                                                                   *)

Goes(v, pc) == visits' = [visits EXCEPT ![v].pc = pc]
HurtTo(v, pc) == visits' = [visits EXCEPT ![v].pc = pc, ![v].hurt = TRUE]
Answers(v, answer, hurt) ==
  visits' = [visits EXCEPT ![v].pc = "ended", ![v].answer = answer, ![v].hurt = @ \/ hurt]
Opens(v, kind, verse, visit) ==
  /\ visits[v].pc = "idle"
  /\ visits' = [visits EXCEPT ![v] = [visit EXCEPT !.kind = kind, !.verse = verse]]

\* Variants with a plausible mistake; no action of Next uses them.
\* The deadline stops with the backend's reply, received or not.
DeadlineOfWork(v) ==
  /\ via = "grpc" /\ visits[v].pc = "waiting" /\ visits[v].reply = None
  /\ visits' = [visits EXCEPT ![v].pc = "left", ![v].hurt = TRUE,
                              ![v].answer = ScoringStatus(visits[v].kind, "backend")]
  /\ UNCHANGED <<via, clips, job>>
\* markFailed whatever Complete returned.
CompleteThenFails(v) ==
  /\ visits[v].pc \in {"waiting", "left"} /\ visits[v].reply = None
  /\ job' = [job EXCEPT !.status = "COMPLETED", !.by = v]
  /\ visits' = [visits EXCEPT ![v].reply = "INTERNAL"]
  /\ UNCHANGED <<via, clips>>

\* Lookups, each one step whatever its calls meet.
OpenPractice(v, s, a) == \E h, hs, ha \in Health :
  /\ Opens(v, "practice", <<s, a>>, [Fresh EXCEPT !.pc = "ended", !.hurt = {h, hs, ha} # {"up"},
                                                  !.answer = PracticePage(s, h, hs, ha)])
  /\ UNCHANGED <<via, clips, job>>

QuerySurah(v, s, a) == \E h, ha \in Health :
  /\ Opens(v, "surah", <<s, a>>, [Fresh EXCEPT !.pc = "ended", !.hurt = {h, ha} # {"up"},
                                               !.answer = FetchSurah(s, h, ha)])
  /\ UNCHANGED <<via, clips, job>>

QueryAyah(v, s, a) == \E h \in Health :
  /\ Opens(v, "ayah", <<s, a>>, [Fresh EXCEPT !.pc = "ended", !.hurt = h # "up",
                                              !.answer = FetchAyah(s, a, h)])
  /\ UNCHANGED <<via, clips, job>>

\* The result page loads the job with the surahs, then wants the clip.
OpenResult(v, s, a) == \E hj, h, hs, ha \in Health :
  LET loads == hj = "up" /\ ResultLoads(s, a, job, h, hs, ha)
  IN /\ Opens(v, "result", <<s, a>>, [Fresh EXCEPT !.pc = IF loads THEN "stat" ELSE "ended", !.row = job,
                 !.hurt = {hj, h, hs, ha} # {"up"}, !.answer = IF loads THEN "none" ELSE "notFound"])
     /\ UNCHANGED <<via, clips, job>>

\* The schemas of both take the surahs there are, and any plausible ayah.
OpenClip(v, s, a) == /\ s \in Surahs
                     /\ Opens(v, "clip", <<s, a>>, [Fresh EXCEPT !.pc = "stat"])
                     /\ UNCHANGED <<via, clips, job>>

\* createScoringJob: the quota and the owner of the upload come first.
OpenScore(v, kind, s, a) ==
  /\ s \in Surahs
  /\ \/ Opens(v, kind, <<s, a>>, [Fresh EXCEPT !.pc = "stat"])
     \/ \E error \in {"quota", "upload"} :
          Opens(v, kind, <<s, a>>, [Fresh EXCEPT !.pc = "ended", !.answer = ScoringStatus(kind, error)])
  /\ UNCHANGED <<via, clips, job>>

-----------------------------------------------------------------------------
(* ensureReferenceAudio.                                                    *)

ClipReady(v) ==
  CASE visits[v].kind \in Scores -> Goes(v, "asking")
    [] visits[v].kind = "result" -> Answers(v, ResultView(visits[v].row), FALSE)
    [] OTHER -> Answers(v, "200", FALSE)

\* Only the result page goes on without a clip.
ClipFails(v, why) ==
  CASE visits[v].kind \in Scores -> Answers(v, ScoringStatus(visits[v].kind, "backend"), TRUE)
    [] visits[v].kind = "result" -> Answers(v, ResultView(visits[v].row), TRUE)
    [] OTHER -> Answers(v, IF why = "ReferenceUnavailableError" THEN "503" ELSE "502", TRUE)

StatClip(v) ==
  /\ visits[v].pc = "stat"
  /\ \/ Goes(v, IF visits[v].verse \in clips THEN "sign" ELSE "download")
     \/ ClipFails(v, "ReferenceFetchError")
  /\ UNCHANGED <<via, clips, job>>

Tried(v) == visits[v].tries + 1

DownloadFromEveryAyah(v) ==
  /\ visits[v].pc = "download"
  /\ \/ visits[v].verse \in Voiced /\ Goes(v, "put")
     \/ visits[v].verse \notin Voiced /\ ClipFails(v, "ReferenceUnavailableError")
     \/ Tried(v) < MaxRetries /\ visits' = [visits EXCEPT ![v].tries = Tried(v), ![v].hurt = TRUE]
     \/ Tried(v) = MaxRetries /\ ClipFails(v, "ReferenceFetchError")
  /\ UNCHANGED <<via, clips, job>>

PutClip(v) ==
  /\ visits[v].pc = "put"
  /\ \/ clips' = clips \cup {visits[v].verse} /\ Goes(v, "sign")
     \/ clips' = clips /\ ClipFails(v, "put")
  /\ UNCHANGED <<via, job>>

SignClip(v) ==
  /\ visits[v].pc = "sign"
  /\ ClipReady(v) \/ ClipFails(v, "sign")
  /\ UNCHANGED <<via, clips, job>>

-----------------------------------------------------------------------------
(* CreateScoringJob of the backend, over either transport.                  *)

\* findScoringFailure and what is left to each transport, as gRPC codes.
ScoringError(err) == CASE err \in {"ErrAyahNotFound", "ErrObjectNotFound"} -> "NOT_FOUND"
                       [] err = "ErrUnavailable" -> "UNAVAILABLE"
                       [] OTHER -> "INTERNAL"

\* GetByNumber fails, or the query of Start; the row is as it was.
Refuse(v) ==
  /\ visits[v].pc = "asking"
  /\ \E h \in {"up", "db"} :
       LET err == GetByNumber(visits[v].verse[1], visits[v].verse[2], h)
       IN /\ err # "nil"
          /\ visits' = [visits EXCEPT ![v].pc = "waiting", ![v].reply = ScoringError(err),
                                      ![v].hurt = @ \/ h = "db"]
  /\ UNCHANGED <<via, clips, job>>

Start(v) ==
  /\ visits[v].pc = "asking"
  /\ GetByNumber(visits[v].verse[1], visits[v].verse[2], "up") = "nil"
  /\ job' = [verse |-> visits[v].verse, status |-> "RUNNING", by |-> IF job = None THEN None ELSE job.by]
  /\ Goes(v, "waiting")
  /\ UNCHANGED <<via, clips>>

Working(v) == visits[v].reply = None /\ visits[v].pc \in {"waiting", "left"}

Complete(v) ==
  /\ Working(v)
  /\ job' = [job EXCEPT !.status = "COMPLETED", !.by = v]
  /\ visits' = [visits EXCEPT ![v].reply = "OK"]
  /\ UNCHANGED <<via, clips>>

\* The engine fails and marks the job, or Complete fails and does not.
ScoreFails(v) ==
  /\ Working(v)
  /\ \E err \in {"ErrObjectNotFound", "ErrUnavailable", "error"}, marked \in BOOLEAN :
       /\ ~marked => err = "error"
       /\ job' = [job EXCEPT !.status = IF marked THEN "FAILED" ELSE @]
       /\ visits' = [visits EXCEPT ![v].reply = ScoringError(err), ![v].hurt = TRUE]
  /\ UNCHANGED <<via, clips>>

\* The connection breaks and nobody is told.
LoseReply(v) ==
  /\ visits[v].pc = "waiting" /\ visits[v].reply \notin {None, "lost"}
  /\ visits' = [visits EXCEPT ![v].reply = "lost", ![v].hurt = TRUE]
  /\ UNCHANGED <<via, clips, job>>

\* The job reaches the client once its URLs are signed; any failure is one.
Receive(v) ==
  /\ visits[v].pc = "waiting" /\ visits[v].reply \notin {None, "lost"}
  /\ \/ visits[v].reply = "OK" /\ Answers(v, "201", FALSE)
     \/ visits[v].reply = "OK" /\ Answers(v, ScoringStatus(visits[v].kind, "backend"), TRUE)
     \/ visits[v].reply # "OK" /\ Answers(v, ScoringStatus(visits[v].kind, "backend"), FALSE)
  /\ UNCHANGED <<via, clips, job>>

\* The scoring deadline, which only gRPC has; the backend may still be at it.
DeadlineExceeded(v) ==
  /\ via = "grpc" /\ visits[v].pc = "waiting" /\ visits[v].reply \in {None, "lost"}
  /\ visits' = [visits EXCEPT ![v].pc = "left", ![v].hurt = TRUE,
                              ![v].answer = ScoringStatus(visits[v].kind, "backend")]
  /\ UNCHANGED <<via, clips, job>>

-----------------------------------------------------------------------------
Clip(v) == StatClip(v) \/ DownloadFromEveryAyah(v) \/ PutClip(v) \/ SignClip(v)
Backend(v) == Refuse(v) \/ Start(v) \/ Complete(v) \/ ScoreFails(v)
Open(v) == \E s \in AskedSurahs, a \in AskedAyahs :
  \/ OpenPractice(v, s, a) \/ QuerySurah(v, s, a) \/ QueryAyah(v, s, a)
  \/ OpenResult(v, s, a) \/ OpenClip(v, s, a)
  \/ \E kind \in Scores : OpenScore(v, kind, s, a)

Next == \E v \in Visits : \/ Open(v) \/ Clip(v) \/ Backend(v) \/ LoseReply(v)
                          \/ Receive(v) \/ DeadlineExceeded(v)

Spec == Init /\ [][Next]_vars

\* Every await of the BFF and of the backend ends, well or not; the scoring
\* deadline runs only over gRPC.
FairSpec == Spec /\ \A v \in Visits : /\ WF_vars(Clip(v)) /\ WF_vars(Backend(v))
                                      /\ WF_vars(Receive(v)) /\ WF_vars(DeadlineExceeded(v))

-----------------------------------------------------------------------------
(* Properties.                                                              *)

\* Visits and the row have the shape the code gives them.
TypeOK == /\ via \in {"grpc", "rest"}
          /\ clips \subseteq Verses
          /\ job \in Row \cup {None}
          /\ visits \in [Visits -> Visit]

Ended(v) == visits[v].pc \in {"left", "ended"}
Known(verse) == verse[1] \in Surahs /\ verse[2] \in Ayahs

\* What exists is reported missing only after a call failed, and by the API
\* only over REST, whose handler of a surah answers 404 for every error and
\* whose client takes a failed listing of ayahs for a surah without any; an
\* ayah is never reported missing when it exists.
AbsenceExplained ==
  \A v \in Visits : Ended(v) /\ Known(visits[v].verse) =>
    CASE visits[v].answer = "null" -> visits[v].kind = "surah" /\ via = "rest" /\ visits[v].hurt
      [] visits[v].answer = "noAyahs" -> via = "rest" /\ visits[v].hurt
      [] visits[v].answer = "home" -> visits[v].hurt
      [] visits[v].answer = "notFound" -> visits[v].hurt \/ visits[v].row = None
      [] OTHER -> TRUE

\* A job has its verse's reference clip in the store, whichever of the clip
\* requests of that moment put it there (createScoringJob awaits
\* ensureReferenceAudio before it asks the backend).
JobsHaveClips == job # None => job.verse \in clips

\* A scoring request whose score was stored is answered with it, unless a call
\* of it failed: an error then does not mean that nothing was scored, and the
\* backend may store the score after the answer.
FailureExplained ==
  \A v \in Visits : Ended(v) /\ job # None /\ job.by = v =>
    visits[v].answer = "201" \/ visits[v].hurt

\* Nothing is scored without its clip or lost unexplained: both of the above.
ScoringExplained == JobsHaveClips /\ FailureExplained

\* Every visit is answered, but for a scoring request over REST whose reply
\* was lost: docs/adr/0025 says that client has no deadline.
VisitsEnd ==
  \A v \in Visits :
    visits[v].pc # "idle" ~> Ended(v) \/ (via = "rest" /\ visits[v].reply = "lost")
=============================================================================

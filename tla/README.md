# Tilawah: models and proofs

Tilawah is a recitation practice application. A client records a verse, uploads the audio, asks the
BFF for a score, and keeps the learner's history. This directory holds TLA+ models of its parts, TLC
runs that check them on small instances, and TLAPS proofs of what matters most for every instance.

Paths below are relative to `src/` of the repository, and most often to `src/apps/`.

## The system

| component | code | state | operations | what is hard |
|---|---|---|---|---|
| BFF accounts and sessions | `bff/src/auth`, `/auth/refresh` in `bff/src/rest/rest.ts` | tables `users`, `oauth_identities`, `refresh_tokens` | sign-up, login, Google sign-in, refresh, delete, edits, daily purge | several statements per request without a transaction; soft deletion against sign-in, rotation and purge; replay |
| BFF scoring jobs and uploads | `bff/src/jobs`, `bff/src/infra/storage.ts` | tables `user_data_objects`, `scoring_jobs`; object store; quota map | signed upload URL, create and read a job, delete user data | ownership, a deletion that fails half way, concurrent deletions and scoring, the quota's window |
| backend scoring | `backend/internal/scoring`, `internal/repo/postgres`, `internal/handler` | `scoring_jobs` | create (score inline), get | timeout, crash and failed write leave a job RUNNING; two creates of one session |
| backend Arabic algorithms | `backend/internal/arabic`, `internal/transcribe` | none | normalise, align, WER, CER, pronunciation | boundaries (empty texts), ties, two tables that must agree |
| gateway | `bff/src/infra/backendClient.ts`, `backendGrpc.ts`, `referenceAudio.ts`, `graphql/resolvers.ts`, the backend's handlers | clip cache, job row, deadlines | catalogue lookups, scoring requests, fill of a reference clip | failures reported as absence; an answer lost after its effect; chains without deadlines |
| BFF practice state and web history | `bff/src/me`, `web/app/lib/storage.ts`, `web/app/actions.ts` | `last_practiced`, `best_scores`, `practice_attempts`; localStorage and its gate | upserts, inserts, refreshes | several tabs, reordering, answers that land after an account change |
| suggestions, streaks | `bff/src/me/suggestions.ts`, `web/.../history/historyStats.ts` | none of their own | suggest a surah, count a streak | edges of windows, days of 23 and 25 hours |
| web session | `web/app/lib/bff-fetch.ts`, `auth-cookies.ts`, `session.ts` | two cookies | bearer fetch with exchange, sign-in, sign-out, deletion | exchanges that are not coalesced; renders that cannot set cookies |
| web practice flow | `web/.../practice/RecorderPanel.tsx`, `hooks/useRecorder.ts`, `useScoringJob.ts` | recorder, submission, poller | record, submit, poll, cancel | permission that comes late, overlapping polls, answers for what was given up |
| web pages | profile, history, result, practice, home, sign-in | dialogs, players, cards, toasts | see `WebPages` | optimistic updates, late answers over one audio element, stale reads, navigation races |
| native client sessions | `TokenRefresher`, `AuthHTTPClient` / `AuthedHttpClient`, `SessionStore` / `DataStoreAuthSession` of `ios` and `android` | tokens and profile, the refresh under way | authenticated call, coalesced refresh, sign-in, sign-out, profile edit | refresh against sign-out, cancelled callers, lost answers, relaunch |
| not modelled | Google nonces, native practice history and screens, object storage and process of the backend, GraphQL schema and server of the BFF, database helper, shared packages, generated code, ops | | | see the end |

Clients call the BFF over HTTP with a bearer access token (15 minutes) and exchange refresh tokens
(30 days) at `/auth/refresh`. The web client does so from Next.js: pages call server actions, which
Next.js runs one at a time and in order for each tab, and `bffFetch` runs on the server with the
cookies of the browser. The BFF reads and writes Postgres directly for accounts, practice state and
upload ownership, hands out presigned URLs of the object store for the audio, and calls the Go
backend (gRPC or REST) for the catalogue and for scores. The backend reads the audio, has it
transcribed, scores it, and writes `scoring_jobs`, which the BFF and the clients poll.

What makes each part correct:

* accounts and sessions: one account per address and Google subject; a token is exchanged once; a
  deleted account is signed out, frozen until restored, and purged with its tokens and identities;
* scoring jobs: only the owner of an upload has it scored; a job ends; a deletion leaves nothing;
* gateway: what is reported absent is absent, a failure has a cause, and a visit ends;
* algorithms: edit distances are minimal, and the score shown agrees with the words shown;
* practice state: in whatever order tabs and devices send, best scores only rise, nothing of one
  account shows in the session of the next;
* clients: one refresh per expiry, no live session dropped without a reason, no microphone left open;
* pages: what a page shows is what is stored, is heard, and was asked for.

## Modules

Each component has a module with its state, one action per statement, handler, call or event, and
its properties at the end. `MC...` modules add symmetry and constants for TLC. Definitions named as
variants under the heading "Plausible mistakes" are used by no action; each stands for a bug that a
property is known to notice.

### `Auth`, `AccountLifecycle` (`MCAuth`, `AuthProofs`)

One action per SQL statement. A handler of `routes.ts` or `rest.ts` awaits the database between
statements, so other requests run there; the JavaScript between two awaits is folded into the
statement before it. `req[r]` is the handler in slot `r`: the statement it will run next (`pc`) and
what it has read.

| state | code |
|---|---|
| `users[u]` | a row of `users`; `status` folds `deleted_at` with the clock: `live` is NULL, `grace` is younger than 30 days, `expired` older; `unused` and `purged` mean no row |
| `identities[s]` | the `oauth_identities` row of Google subject `s` |
| `tokens[t]` | a row of `refresh_tokens` (`used_at`, `revoked_at` as booleans) |
| `req[r]` | a running handler |
| `faults` | how often a statement failed or a process died (bounded by `MaxFaults`) |
| `parent`, `overtaken`, `escaped` | history, read by no guard: what a token was exchanged for; requests whose reads are older than a revocation; tokens they inserted afterwards |

Answers that change nothing (400, 401, 404, 409, 422) have no action. The database's constraints are
guards: UNIQUE on `users.email` and on the identity's subject, and the foreign keys with their
cascade. The age of tokens is left out: a refresh token may be presented for ever and an access
token as long as its user has a refresh token, which only adds behaviours. `display_name` and
`level` are one `profile` column. `AccountLifecycle` is what ADR 0024 promises of an account, with
no request, table or token: open, closed, lapsed, erased. `Auth` implements it, liveness included.

### `ScoringJobs`, `ScoringQuota` (`MCScoringJobs`, `ScoringJobsProofs`, `GatewayProofs`)

A scoring request is first a BFF handler (`createScoringJob`) and then the Go handler it waits for
(`JobService.Create`); every SQL statement and every read of the store is an action. `uploads` are
the rows of `user_data_objects`, `objects` the audio by key (as the user who recorded it), `jobs`
the rows of `scoring_jobs` with the score as whose audio against which verse, `reqs` and `dels` the
requests, `slots` what a client was given, and `now` the clock that is part of a key, so that two
keys can be the same. `alone`, `late`, `outcome` and `score.by` are history. Left out: the mode
without a database and the expiry of presigned URLs. A fault is a write that is lost or a backend
that is replaced. `ScoringQuota` is `consumeScoringQuota`: the recent calls of each user in one
process, filtered by the window on each call. The code keeps their times in an array and asks only
for its length, so the model keeps a set of numbered calls.

### `Recitation`, `ResultPage`, `ScoringRules` (`MCScoringRules`, `GatewayProofs`)

`Recitation` is what the backend makes of a recitation: the recogniser's answer is flattened,
stripped of marks, cut into words, aligned, and measured three ways. The tables are recursive
functions over indices; the references they are checked against are minima over all alignments.
Fractions are pairs. `ResultPage` follows a score on its way to the reader: stored as NUMERIC(6,3),
read again through the BFF, and shown as a dial, three cards, tiles and a personal best that was
recorded from the answer instead. `ScoringRules` puts both beside the quota for one run.

### `Gateway` (`MCGateway`, `GatewayProofs`)

A visit is a page render, a server action or a GraphQL query: the hops it takes (client, BFF,
backend over gRPC or REST), how each maps the errors of the next, and what it is told. Lookups that
only read are one step. What writes is a step per await: the object store's clip of a verse (with
the retries of `downloadFromEveryAyah`) and the row of the job. Deadlines fire on gRPC; the REST
client has none.

### `PracticeSync`, `BestScores` (`MCPracticeSync`, `PracticeSyncProofs`)

The localStorage cache all tabs of a browser share, the gate of each tab, the queue of server
actions of each tab and the rows of the BFF. The head of a queue is first served, by whoever the
cookies name at that moment, and then answered. `BestScores` is the abstract specification: a
register per user that can only rise.

### `WebSession` (`MCWebSession`, `WebSessionProofs`)

The cookies of one browser and the requests of its tabs. A request works on the cookies it was sent
with; an action's changes come back with its answer, a render's are refused by Next.js. Token pairs
are numbered; the BFF's side of a refresh is one step here, because `Auth` looks inside it.

### `WebPractice` (`WebPracticeProofs`)

One mount of the practice panel: takes (a recording and the submission it may become), the tab's
queue of server actions, `useScoringJob`'s state, and the poller's interval. Whatever the panel is
told after it was unmounted or reset is an action too.

### `WebPages` (`MCWebPages`, `WebPagesProofs`) and the modules it composes

A tab on one of the pages below. They share nothing but the tab, so the composition is one `Next`
with a disjunct per page.

| module | page and code | state and actions |
|---|---|---|
| `ProfilePage` | `profile/*.tsx`, `me/preferences.ts`, `PATCH /auth/me` | four dialogs, the preference card with its optimistic update, the queue of actions, the rows and what another device does to them |
| `Progress` | `me/suggestions.ts`, `historyStats.ts` | attempts over hours and days of 23 to 25 hours, the suggestion with its two reads, both streaks against those of the calendar |
| `Listening` | `HistoryList.tsx` (playback), `ResultPolling.tsx` | one audio element for all rows, whose recordings may fail to load or break off, cached URLs, polls with a failed one |
| `Playback` | `useTeacherAudio.ts`, `TeacherPanel.tsx`, `ListenBack.tsx` | players that may reject `play()` or break off (`paused` and `broken` of `speaker`), their events, which are delivered later, change of verse, loop, start of a recording, the tiles and "play both" |
| `Toasts` | `WelcomeBackToast.tsx`, `CompletionToast.tsx`, `Toast.tsx`, `ActionRow.tsx` | the tab's history, a navigation under way, the toast that shows |
| `SignIn` | `AuthForm.tsx`, `GoogleSignInButton.tsx`, `OAuthButtons.tsx` | a password attempt and a Google popup at once, the calls they queue, the cache that is cleared; extends `Toasts` for where they lead |
| `HomePage` | `LibraryClient.tsx` and its cards, `TopNav.tsx`, `useLocalStorageState.ts` | localStorage, the gate, and what each card has read; extends `Progress` |
| `HistoryPage` | `HistoryList.tsx` (list), `historyFilters.ts`, `HistoryFilterChips.tsx`, `HistoryStatsGrid.tsx` | attempts as last read, filter, order, scope, tiles |

Modelled as the environment, and marked external in the map: the audio element and its events, the
router and history of the browser, localStorage, another tab, another device, passing time, and what
Next.js does with actions, renders and cookies.

### `ClientSession` (`MCClientSession`, `ClientSessionProofs`)

A device on either platform. A call is an authenticated request, a flight is a `POST /auth/refresh`
with the task that awaits it; the exchange itself is one step. `pairs[p]` is what the BFF knows of a
token pair, `wire` the refresh requests nobody waits for any more, `tokens` and `user` what is
stored, `calls` and `flights` what is under way, and `crossed`, `loose`, `unshared`, `tainted` are
history. `SaveRotated` and `UpdateUser` differ by platform: the keychain is written whatever is
there, DataStore only while there is a session. `CallerCancelled` is Android's alone, because
`Task.value` on iOS does not end with its caller. Left out: the reactivation banner, storage errors,
the expiry of refresh tokens, and that the GraphQL interceptor of iOS reads the stored pair again
for its second attempt.

## Runs

| run | question | bounds |
|---|---|---|
| `auth_sessions` | Is a deleted account signed out everywhere, except for what the deletion overtook? Is an exchanged token used up before it has a successor? Do edits stay away from deleted rows? | 1 account, 2 addresses, 2 passwords, 2 profiles, 4 tokens, 2 requests, 1 fault |
| `auth_lifecycle` | Do the handlers keep addresses, subjects and references intact, implement `AccountLifecycle`, keep unverified addresses out, and answer every request? | 2 accounts, 2 addresses, 1 password, 1 subject, 2 tokens, 2 requests, 1 fault |
| `client_session` | Does the app replay a token, mix two accounts, or sign out a live session? | both platforms, 2 accounts, 4 pairs, 2 calls, 2 refreshes, 1 fault |
| `gateway` | Is what is reported absent absent, does an unscored or unanswered job have a reason, and does every visit end? | surah 1 (asked for 1 and 115), verses 1 and 2 (asked for 1, 2 and 9), clips of 1 and of a verse nobody has, 2 visits, 2 retries |
| `job_uploads` | Whose audio is scored for whom, and what audio stays behind? | 2 users, 2 sessions, 1 file name, 1 verse, 2 requests, 1 deletion, 2 milliseconds, 1 fault |
| `job_status` | What does the status say of the score and of the requests, and does a RUNNING job settle? | 1 session, 2 verses, 3 requests, 1 fault |
| `scoring_rules` | Does the quota admit neither more nor less than its limit? Are the distances minimal? Does what is shown agree with what was scored? | limit 2, window 3, 6 calls in 7 ticks, 1 restart; verses of up to 3 words and answers of up to 2 results; 2 recitals of a verse of 11 words |
| `practice_sync` | Does history bleed from one account to the next, does a better score always get to the server, and do best scores only rise? | 2 users, 2 tabs, 3 keys, 2 scores, a history of 1, 2 results or starts, 2 queued calls, 1 fault, 1 change of account |
| `web_session` | Has a session that died a reason, does a sign-out last, and are cookies kept while the session lives? | 2 users, 2 tabs, 3 pairs, 1 fault |
| `web_practice` | Is the microphone released, is what is shown current, is an attempt recorded once, and does the panel settle? | 2 takes, 2 calls waiting when the interval fires, 1 fault |
| `web_pages` | One question or two for each page: does the card show what is stored, does "saved" mean stored, is a streak that of the calendar while the clocks do not change, is a suggestion rested, is what plays what was asked for, does a result settle, do the toasts and the form enter cleanly, do list, tiles and chips agree? | 1 preference, 4 days of 25, 24, 23 and 24 hours, 2 surahs, 3 rows, 2 verses, 1 job, 2 arrivals, 2 attempts to sign in, 2 cached attempts, 1 filter |
| `auth_delete_race` | a finding, below; it is violated | the smallest that shows it |

Why these bounds are enough to be of interest. Each race here is between two actors, or between one
and a deletion, a purge, a sign-out or a fault, and slots are used over and over, so long histories
of two at a time are covered. `job_status` has three requests because a third is needed to come
after an overlap. Four tokens allow a sign-up, a rotation, a replay and a login after it; four pairs
two accounts with a refresh each. Two milliseconds and one file name make keys collide and differ. A
verse of 11 words is the shortest of which the stored score rounds to another percentage than the
score in the answer. Two takes are a submission that was given up and its successor. Four days of
25, 24, 23 and 24 hours have a streak over each change of the clocks and one without; noon of each
day and two of the midnights put attempts 23, 24 and 25 hours apart, the edges of the window. Three
events of the teacher's element wait at a time: its end is two of them, a pause and the end. One fault
at a time is what the code claims to survive. The theorems below hold for all bounds.

Deadlock is not checked: rows, tokens, sessions, takes and pairs are never reused, so every instance
runs out of them. Symmetry is used only in runs without liveness. `practice_sync` has a constraint,
`Whole`: once an account has been changed under another tab (which the properties except) the state
is checked and its successors are not visited, nor are those of a state in which more than three
calls wait in both tabs together. `web_pages` composes pages that share nothing but the tab, so its
`Next` is a disjunct per page, and a page is on the tab for the whole behaviour.

### Fairness

* `auth_lifecycle`: every statement of a request in progress runs or fails in the end (an Express
  handler that awaits a pool with timeouts), an account's 30 days pass, and the purge runs (at
  startup and every 24 hours, `purge-job.ts`). It does not assume that anybody signs in.
* `job_status`: a request inside the backend moves: the engine ends under its 30-second deadline and
  `markFailed` has one of 5 seconds.
* `gateway`: the store and the backend answer or fail, an answer is received, and a gRPC deadline
  fires. REST has no deadline; there the answer of the backend is what is assumed.
* `web_practice`: the server serves the head of the queue, the interval fires, an upload ends, and
  the backend ends a job. Nobody has to press a button.
* `web_pages`: the poll interval of the result page fires, its calls are answered, and the job is
  served.

## Findings

`auth_delete_race` is the one that is run with the others: a refresh that read its token before a
deletion inserts a new one after the revocation, and no later check looks at `deleted_at`
(`routes.ts:364`). The same is left when the process dies between the two statements of the deletion
(`routes.ts:356`), since a second DELETE answers 404.

These are kept with a configuration of their own, to be run by hand
(`tlc -config X.cfg <module>`); each claim of the repository in it is violated (`WebClaims` has
two, to be checked one at a time):

| configuration (module) | what happens |
|---|---|
| `AuthRedeemedOnce` (`MCAuth`) | two refreshes of one token that both read it unused both get a successor: the row count of `markRefreshTokenUsed` is not looked at (`rest.ts:255`, against the migration `20260515235901`) |
| `AuthRacedLink` (`MCAuth`) | the branch of Google sign-in that lost the race to link issues tokens for an account that was deleted meanwhile, and does not restore it (`routes.ts:499`, against 455-456) |
| `JobStuck` (`MCScoringJobs`) | a job whose last write is lost stays RUNNING; nothing looks for such rows (`job_service.go:120`, against ADR 0019:69) |
| `ClientCancelled` (`MCClientSession`) | on Android, a caller that goes away empties the slot of a refresh still running, and the next 401 presents the same token again (`TokenRefresher.kt:66`, against 46-47) |
| `SyncLastPracticed` (`MCPracticeSync`) | an earlier practice that arrives later replaces a later one (`me/storage.ts:103`, against ADR 0021) |
| `WebCancel` (`WebPractice`) | the answers of a submission that was cancelled take the panel out of idle (`RecorderPanel.tsx:205-206`) |
| `WebRender` (`WebSession`) | a render that exchanges the refresh cookie cannot store the new pair (`bff-fetch.ts:60-62`) |
| `WebClaims` (`MCWebPages`), `SignedOutShowsNothing` | after a sign-out the cards of the home page keep the verse and the scores of the user who left (`storage.ts:143-145`: writes of the same tab are not announced) |
| `WebClaims`, `StreakIsCalendar` | a streak is cut at a day of 23 or 25 hours, because the step back is 24 hours from midnight (`historyStats.ts:94-97`, and 112-121 for the longest); the file calls itself the twin of the iOS code (27-31), which steps by calendar days (`StatsGrid.swift:114`), and the longest streak a run of consecutive practised days (15-16, 101) |

The passing properties are stated around these: `SignedOutUnlessOvertaken` excuses the tokens of
requests a deletion overtook, `UsedBeforeSuccessor` says nothing of how many successors there are,
`RunningExplained` names the lost write, `NoReplay` the refresh that is not shared,
`DeadSessionExplained` the render and the second exchange. `StreakCounted` asks for the streak of
the calendar unless a day of that streak before today has 23 or 25 hours (`ClocksChanged`), and even
then for no day too many. `TeacherIsHeard` names when the panel says it plays in silence (`Silenced`),
and `PlayingIsHeard` the row whose recording broke off.

Other things the models say of the code, without a claim to hold them against:

* Web session. A home page that renders twice after the access token expired exchanges the cookie
  twice; the second is a replay, and all refresh tokens of the user are revoked. `signOutAction`
  does not revoke at the BFF.
* Practice panel. A second start while `getUserMedia` is pending loses the first stream
  (`useRecorder.ts:82-90`). Of two polls that overlap, one that fails and a RUNNING answer after it
  leave "scoring" for ever, and one that saw the end may be followed by one that had not
  (`useScoringJob.ts:53`). A poll that fails is recorded as a FAILED attempt, and failed attempts
  count as practised. A failed poll of a submission that was given up turns a completed panel into
  an error.
* Scores. They are stored as NUMERIC(6,3), so the dial may be one point above the personal best that
  was recorded from the answer (11 words: best 95, dial 96); from 101 words on, a dial of 100 can
  hide a wrong word. The tie-break of the alignment (`align.go:21-23`) can prefer more deletions,
  and a recitation with all words wrong but as many of them has completeness 1.
* Players. The panel of the teacher goes on saying that it plays, in silence, when the browser rejects
  the `play()` of the loop (`useTeacherAudio.ts:108-111` catches that and sets `isPlaying` anyway) and
  when the clip breaks off while it plays, since `error` has no listener (117-121); the row of the
  history list does the same (`HistoryList.tsx:417`). A rejected click on play changes nothing (136-138).
  With the teacher panel still mounted the old verse sounds on after a change of verse; the
  loop can start the teacher after a recording began; `ListenBack` can start the user's recording by
  itself on a late `ended`. In the history list, of two rows that load the later answer takes over,
  and a rejected `play()` clears the mark of the row that sounds (`HistoryList.tsx:259`). A cached
  presigned URL expires after an hour.
* Dialogs. A dialog closed while its call is pending and opened again is closed by the earlier
  answer; a failed deletion of the account is not seen after Esc; the preference card rolls back to
  the old value when only the answer was lost.
* Toasts. A toast parameter stays in a history entry when the page is left first, so Back shows it
  again; a second address with the same parameter that overtakes the stripping is neither shown nor
  stripped; the dismissal can discard a navigation under way. A Google popup that answers after the
  form is gone replaces account and page.
* Progress. Streaks are computed from the cached attempts, of which there are 50 at most. A surah chosen as a filter can lose
  its chip after a new read; a row can be filtered out while it sounds.
* Gateway. An outage over REST is reported as absence (ADR 0025:66-67 accepts it); the backend may
  store a score after the BFF has answered 502; `backendGrpc.ts:32` leaves no slack for the five
  seconds of `markFailed`.

## Proofs

All are about every value of the constants. The assumptions are those the modules name: bounds are
naturals, and `None` is no value of the sets it joins. `RecitationConstants` says what texts and the
recogniser's answers consist of, `ResultPageConstants` that a verse has at least one word.

`AuthProofs`, for any accounts, tokens, requests and number of faults:

* `TypeCorrect`: `TypeOK` is inductive by itself.
* `SignedOut`: `SignedOutUnlessOvertaken` alone is not inductive, because a handler between its read
  and its insert carries a user whose tokens may have been revoked meanwhile. The invariant adds
  `IssuersCovered`: every such handler whose account has finished its deletion is recorded as
  overtaken. Statements that touch neither go through one lemma (`QuietStatement`); revocations,
  insertions and sign-ins are separate cases.
* `RotationSafe`: a token with a successor is used, from `PresentedSpent` (a handler about to insert
  presents a token already marked) and `SpentStays` (no statement unmarks one).

The second half of the module builds on it with `RowsInv`: addresses are distinct, what the tables refer to is
stored (`Held`), and what a handler has read was true when it read it (`HandlersKnow`).

* `AccountsStayIntact`: `AccountsIntact` for any instance. The purge is the hard case: a handler may
  hold an account that is gone, and only the foreign keys stop its insert.
* `DeletedStayFrozen` and `UnverifiedStaysOut`: two action properties from the same invariant.
* `LifecycleImplemented`: the safety part of the implementation of `AccountLifecycle`. A statement is
  a step of one account or a stutter; the lemmas `RowSteps` and `StatusSteps` say what each
  statement may do to a row.

`ScoringJobsProofs`, for any users, sessions, requests, deletions and faults, in three layers:
`Shape` (types, and that a request past its start has its session and its row), `Ownership`
(requests and jobs carry the key and user their session was issued with; a deletion cannot break
this because history, not the row, is what they are compared with), and `StatusInv` (what a lone
request knows of its row). They give `JobsTypeCorrect`, `JobsOwned`, `RunningAccountedFor`,
`ScoresAgree` and `CompletionsKept`. Its last part adds `Traced`, which follows audio from the store
through the request that fetched it to the score, for `OwnRecordings`, and `Finders`, that a deletion
past its first statement holds the key it will remove, for `AudioStaysAccounted`.

`GatewayProofs` follows a scoring request. The quota, for any users, limit, window and number of calls:

* `QuotaStaysExact`: `QuotaExact` needs `Listed`, that the map holds calls this process admitted and all
  of those still in the window. Then what the filter keeps is the window that ends now
  (`WindowIsAdmitted`), an older window has what it had, and the filter may forget the rest.

The gateway, for any catalogue, clips, visits, retries and either transport, from `GatewayInv`, one
conjunct per visit and one on the row:

* `GatewayTyped`: the answers of every hop are among those the next one tells apart.
* `AbsenceIsExplained`: for each lookup a lemma says what it can answer for a verse that exists, along
  the hops (`Explained`); a visit that left its page with an answer under way is hurt (`LeftHurt`).
* `ScoringIsExplained`: a visit that signs or asks has its clip and one the backend works for its row
  (`HasClip`, `HasRow`), clips are never removed, and the visit whose score the row holds has an answer under way or
  has lost it (`ScoreTold`).

The score, for any texts, alphabet, marks and answers:

* `ScoresAreExact`: `DistancesExact` compares three tables with minima over all pairings of the words. The
  minima obey the recurrence of the tables (`DistSteps`): an optimal pairing pairs the two last words
  or leaves one of them out (`DistanceFrom`), and the k-th of a set of positions is the k-th without
  its last one (`KthLast`). So each entry of each table is the minimum (`TableIs`, `LevenshteinIs`,
  `CerIs`), the operation of a cell leads to the cell its cost comes from (`Leads`), and the rows
  collected on the way back spell the words up to the cell and have as many corrections as its cost
  (`RowsTo`, `RowsAre`).
* `ScoresAreFair`: a distance is 0 only between equal texts (`NoneWrong`), and a row that leaves a word out
  is a correction, so accuracy is at most completeness. For the page, `PageInv` says that the row and
  the page are of some recital; `RowCounts` counts its rows by kind. With n words, of which the score
  is the share z / 2n, the database is off by half a thousandth and the dial by half a point more
  (`Rounded`, `StoredIs`), which leaves them within a point of the mean and of each other (`Near`),
  whichever halves the floating point rounds down (`BelowHalf`). `RulesInv` carries both to the
  specification of the run.

`PracticeSyncProofs`, for any users, tabs and bounds. The first invariant, `RegisterInv`, says that a
user has one best score at most and that queues hold well-formed calls, since what arrives is what a
tab queued some time ago.

* `BestScoresRise`: the rows of `best_scores` implement `BestScores`. Only `ServePut` writes rows.
* `HistoryStaysPrivate`: `NoBleed` speaks of a page at rest, so `PrivateInv` follows a change of account
  through its stages: while the cookies are those of a sign-in whose code has not run, no other tab
  shows a page (`SigningAlone`); what is about to be written was answered for whoever is signed in
  (`AnswersCurrent`); pages show that user or none (`GatesCurrent`); and another's history is in the
  cache only until the sign-in clears it (`ClearedSoon`). Only a head has been served (`HeadsOnly`).
* `NoScoreKeptBack`: `ScoresReachServer` excuses a score by one that is pending, and what a page compares
  with came from an answer, so `CoverInv` says more (`Covers`): what a refresh was answered is no
  better than the row, and what is cached or was recorded is matched by the row or by a put in some
  queue that will reach it or be refused. Puts do not
  get lost on the way because a queue is served from its head and nothing is queued behind a sign-in
  (`QueuesWell`), and all that is queued or stored is of one user while no account is changed
  (`OneSession`).

`WebSessionProofs`, for any users, tabs, pairs and faults: `DeadSessionsExplained`, `SignOutLasts` and
`SessionsKept`, from `BrowserInv`: as long as no two actions overlap, there is one at most and the
browser still has the cookies it was sent with (`Alone`), a signed-out browser has no request that
holds a cookie (`OutClean`), and while nothing has happened to the session what is about to be
answered is a good pair, or none for a reason (`AnswersGood`). One lemma, `StepKeeps`, says what a
request may do in any step; the actions are shown to be one of three kinds of it.

`WebPracticeProofs`, for any number of recordings, queued calls and failures:

* `MicrophoneReleased`, from `MicInv`: a stream that was not lost is the one `cleanup()` would stop.
* `PanelShowsCurrent` and `AttemptsOnce`, from `PanelInv`. While nothing was given up, all that is under
  way is of the recording submitted last (`Current`), one call or upload at a time until its job exists
  (`OneAtATime`); what may still be submitted is another recording (`UnsubmittedFresh`); an attempt
  leaves no poll behind that could record a second one (`Spent`); and an answer, or the status on the
  panel, that says how a job ended stays true (`QueueTrue`, `PanelTrue`). A submission can follow
  another that is still under way when a device error brings the microphone button back, which takes
  three recordings: the run has two, the proof has no such bound.

`ClientSessionProofs`, for any accounts, calls, flights, pairs and faults on both platforms:

* `ClientTypeCorrect`, from `Shape`. `Issued` is proved with it: a pair the client holds or has sent
  is one the BFF issued, without which a refresh could be answered with a pair already in use.
* `ClientNeverReplays`: `NoReplay` says nothing of the flight that has yet to load its tokens, so the
  invariant adds four facts: a flight that is not loose is the one in the slot (`Coalesced`), a pair
  that two flights present, or one whose answer went astray, is known as such (`UnsharedKnown`), a
  stored pair that is used up is about to be replaced by an answer under way (`StoredSpent`), and
  only that flight has the new pair (`AnswersNew`).
* `ClientStaysConsistent` and `ClientKeepsLive`, from `SessionInv`: whatever began in the current
  session holds pairs of its account, and if one of those is revoked all of them have ended
  (`AllMine`); a refusal means the pair presented is revoked (`Refused`). The second needs that
  revocation takes every pair of an account at once (`TakesAll`).

`WebPagesProofs`, for any rows, verses, days, attempts, queued calls, toasts and other devices. The
pages share only the tab, so each has an invariant, and the steps of the other pages leave it alone.

* `PlaybackIsHeard`, from `PlaybackInv`. `TeacherIsHeard` is about events that have been delivered;
  `EventsTell` adds that of those that wait the last says what the element does, `OneClip` that at
  most one clip the panel still wants is under way, `ResetTells` what a change of verse leaves, and
  `RefusedTells` that only a panel that says it plays was refused a `play()`. A rejected `play()` and a
  clip that breaks off send no event, so `EventsTell` speaks of `paused`, and whether the element
  sounds is `paused` and `broken` together. The tiles take turns unless the user played one over the
  other, which the theorem excepts.
* `CardStaysTrue` and `SavedIsStored`, from `ProfileInv`: only the head of the queue has been served, and
  at most one edit and one save wait in it (`Queue`); a save, an edit or a refresh that was served
  knows what is stored, and an edit that was not yet served what it does not send (`KnowsPrefs`,
  `KnowsRow`); and the page shows the row unless an answer that says so is under way (`PropsShown`).
* `EntersAsOwner`, from `ToastsInv` (an arrival is in the history once, not stripped, and not also under
  way; the form is alone in it) and `SignInInv` (only the head of the queue is answered; the cache is
  of whoever has the session, or they have come in and the tab has not noticed; while there is a
  session the form is being left).
* `StreaksAreCounted`: what matters here is the calendar. Midnights are sums over the days before, so
  days are 23 hours apart at least (`MidnightLater`), an hour has one day (`DayOfIs`), and a walk back
  in steps of 24 hours stays on the calendar exactly as long as the days have 24 (`RunIs`,
  `DaysInRow`, `RowOfDays`). So what is counted is the row of days back to a missed day or to one of
  another length: never more than the calendar has, and as many unless `ClocksChanged`. The proof found a condition the model had left out: at least one day is followed.
* `SuggestsRested`, from `ProgressInv`: what was read is no later than now, so a surah without an
  attempt since the window began is among the candidates (`RestedIs`), and the candidates have a
  least or a weakest member.
* `ListsAlwaysAgree`, from `HomeInv` and `PastInv`: the attempts are kept newest first whatever is read,
  a filter keeps the order of the rows (`ListedIs`), and the first row by score is the one of the tile
  (`ByScoreIs`).

The prover cannot instantiate the library's induction theorems. Where a recursive function has to be
reasoned about (`Midnight`, `Listed`, the tables of `Recitation`), `Least` takes their place: a set of
numbers that is not empty has a least member, so the least counterexample has a predecessor that is
none. `Recursion` gets from it that a function defined by recursion on a rank exists, which the prover
must know before it can use the equation of one. `Listed`, `Without` and `Joined` are written as
recursive functions for this, since the prover knows nothing of what `SelectSeq` and `FlattenSeq` return.

Only model-checked: liveness (`RequestsEnd`, `VisitsEnd`, `RunningSettles`, `PanelSettles`, `ResultSettles`
and that part of `AccountLifecycle`), because fairness and ENABLED are outside the prover.

## Not modelled

* `bff/src/auth/auth-nonces.ts`: a map with an expiry; a lost answer costs the user a second attempt.
* Practice screens and local history of the native apps. Their stores are of the kind of
  `PracticeSync`'s cache; the differences (DataStore flows, SwiftData) are listed as hazards.
* Object storage and transcription of the backend, and its process: outside services that succeed,
  fail or time out in `ScoringJobs` and `Gateway`.
* GraphQL schema, server and telemetry of the BFF, database helper: plumbing without state of its
  own. Migrations appear as the guards their constraints are.
* Search and difficulty filters of the library: a pure filter over a constant list.
* Shared packages, generated code, styling, scripts and operations.
* The text of messages, layout, and the age of tokens.

## What could come next

A composition of accounts and uploads, for what a purge leaves behind; the native practice screens; an
abstract specification of a job.

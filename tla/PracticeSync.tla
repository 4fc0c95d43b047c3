---------------------------- MODULE PracticeSync ----------------------------
(***************************************************************************)
(* Practice history of the web app: the localStorage cache that all tabs   *)
(* of a browser share (apps/web/app/lib/storage.ts), the server actions    *)
(* that carry it, and the rows of the BFF (apps/bff/src/me/).              *)
(*                                                                         *)
(* Next.js runs the server actions of a tab one at a time, in the order of *)
(* the calls: calls[t] is that queue.  Its head is first served (the BFF   *)
(* runs it for whoever the cookies name at that moment) and then answered  *)
(* (the code after the await runs).  Nothing orders two tabs.  One verse   *)
(* is followed; an entry is [at, score], and score 0 means a FAILED job.   *)
(***************************************************************************)
EXTENDS Naturals, Sequences, FiniteSets

CONSTANTS
  Users, Tabs,
  Keys,          \* the cache keys followed, of AllKeys
  MaxScore,
  HistoryLimit,  \* HISTORY_LIMIT
  MaxNow,        \* bound on the clock, which each result or start advances
  MaxQueue,      \* bound on the calls a tab has queued when it adds one
  MaxFaults,     \* bound on failed calls and reloads
  MaxSwitches,   \* bound on sign-ins and sign-outs
  None

AllKeys == {"last", "best", "hist"}

ASSUME SyncAssumption ==
  /\ Keys \subseteq AllKeys /\ None \notin Users
  /\ MaxScore \in Nat /\ HistoryLimit \in Nat \ {0} /\ MaxNow \in Nat

VARIABLES
  jar,       \* the user the auth cookies sign in, or None
  gate,      \* per tab: whose signed-in page it shows (None: _signedIn is false)
  cache,     \* localStorage, by key; owner names whose rows these are
  calls,     \* per tab: the queue of server actions
  rows,      \* the BFF's rows, by key and user
  now, faults, switches,
  \* History variables, read by no guard:
  recorded,  \* per user: the scores the page of that user recorded
  lost,      \* keys of which a write did not reach the BFF
  split      \* an account changed under another tab, or before a reload

browser == <<jar, gate, cache, calls>>
vars == <<browser, rows, now, faults, switches, recorded, lost, split>>

Entry == [at: 1..MaxNow, score: 0..MaxScore]
Calls(ops, keys, users) ==
  [op: ops, key: keys, user: users, rows: SUBSET Entry, served: BOOLEAN]
Call == Calls({"fetch", "put"}, Keys, Users \cup {None})
        \cup Calls({"signIn"}, {None}, Users) \cup Calls({"signOut"}, {None}, {None})

Fetch(k) == [op |-> "fetch", key |-> k, user |-> None, rows |-> {}, served |-> FALSE]
Put(k, entry) == [Fetch(k) EXCEPT !.op = "put", !.rows = {entry}]
Account(op, u) == [Fetch(None) EXCEPT !.op = op, !.user = u]

Empty == [owner |-> None, rows |-> {}]
Cleared == [k \in Keys |-> Empty]
ChangesAccount(call) == call.op \in {"signIn", "signOut"}
Changing(t) == \E i \in DOMAIN calls[t] : ChangesAccount(calls[t][i])
ChangedElsewhere(t) == \E other \in Tabs \ {t} : Changing(other)

\* .slice(0, HISTORY_LIMIT) and ORDER BY created_at DESC LIMIT
Newest(entries) ==
  {e \in entries : Cardinality({f \in entries : f.at > e.at}) < HistoryLimit}

\* A browser without history, signed in or not
Init ==
  /\ jar \in Users \cup {None}
  /\ gate = [t \in Tabs |-> None]
  /\ cache = Cleared
  /\ calls = [t \in Tabs |-> <<>>]
  /\ rows = [k \in Keys |-> [u \in Users |-> {}]]
  /\ now = 0 /\ faults = 0 /\ switches = 0
  /\ recorded = [u \in Users |-> {}]
  /\ lost = {}
  /\ split = FALSE

-----------------------------------------------------------------------------
(* Variants with a plausible mistake; no action of Next uses them.          *)

\* The newer upload replaces the row, as before the handler took the maximum.
UpsertBestReplaces(old, entry) == {entry}

\* A sign-in that keeps what the cache holds.
SignedInKeeping(t, u) ==
  /\ gate' = [gate EXCEPT ![t] = u]
  /\ UNCHANGED cache

\* A score that improves on the cached one by a single point is kept back.
NearlyKnownBest(s) == \E e \in cache["best"].rows : e.score + 1 >= s

-----------------------------------------------------------------------------
(* The BFF's rows.                                                          *)

UpsertLastPracticed(old, entry) == {entry}

\* GREATEST, with the achieved_at of the winner; of two equal scores the one
\* that is stored stays.
UpsertBestScore(old, entry) ==
  IF \E e \in old : e.score >= entry.score THEN old ELSE {entry}

RecordPracticeAttempt(old, entry) == old \cup {entry}

Upserted(k, old, entry) ==
  CASE k = "last" -> UpsertLastPracticed(old, entry)
    [] k = "best" -> UpsertBestScore(old, entry)
    [] k = "hist" -> RecordPracticeAttempt(old, entry)

GetLastPracticed(u) == rows["last"][u]
GetBestScores(u) == rows["best"][u]
GetRecentAttempts(u) == Newest(rows["hist"][u])

Selected(k, u) ==
  CASE k = "last" -> GetLastPracticed(u)
    [] k = "best" -> GetBestScores(u)
    [] k = "hist" -> GetRecentAttempts(u)

-----------------------------------------------------------------------------
(* What a page does with its cache.                                         *)

Only(k, ks) == IF k \in ks THEN <<k>> ELSE <<>>
InOrder(ks) == Only("last", ks) \o Only("best", ks) \o Only("hist", ks)
Enqueue(t, new) == calls' = [calls EXCEPT ![t] = @ \o new]

\* Writes that pass the gate: the cache now, the BFF whenever the queue gets
\* there.
Write(t, ks, entry) ==
  /\ cache' = [k \in Keys |->
       IF k \notin ks THEN cache[k]
       ELSE [owner |-> gate[t],
             rows |-> IF k = "hist" THEN Newest(cache[k].rows \cup {entry}) ELSE {entry}]]
  /\ Enqueue(t, [i \in DOMAIN InOrder(ks) |-> Put(InOrder(ks)[i], entry)])

\* The page is in front of its user and its session allows it to write.
Active(t) == gate[t] # None /\ ~\E i \in DOMAIN calls[t] : calls[t][i].op = "signIn"
Room(t) == Len(calls[t]) < MaxQueue

\* handleStart of the recorder: setLastPracticed
StartPractice(t) ==
  /\ Active(t) /\ Room(t) /\ now < MaxNow
  /\ "last" \in Keys
  /\ Write(t, {"last"}, [at |-> now + 1, score |-> 0])
  /\ now' = now + 1
  /\ UNCHANGED <<jar, gate, rows, faults, switches, recorded, lost, split>>

KnownBest(s) == \E e \in cache["best"].rows : e.score >= s

\* A job ended: recordBestScore, if it scored and the cache knows no better
\* score, and recordAttempt.
RecordResult(t, s) ==
  /\ Active(t) /\ Room(t) /\ now < MaxNow
  /\ {"best", "hist"} \subseteq Keys
  /\ Write(t, IF s = 0 \/ KnownBest(s) THEN {"hist"} ELSE {"best", "hist"},
           [at |-> now + 1, score |-> s])
  /\ now' = now + 1
  /\ recorded' = [recorded EXCEPT ![gate[t]] = @ \cup {s}]
  /\ UNCHANGED <<jar, gate, rows, faults, switches, lost, split>>

\* A component reads a key, and the read also starts a refresh.  It does so
\* at most every REFRESH_INTERVAL_MS; as that time may pass between any two
\* steps, the throttle excludes no order of steps and is left out.
Read(t, k) ==
  /\ Active(t) /\ Room(t)
  /\ Enqueue(t, <<Fetch(k)>>)
  /\ UNCHANGED <<jar, gate, cache, rows, now, faults, switches, recorded, lost, split>>

\* AuthForm.onSubmit, and the Sign out button
ChangeAccount(t) ==
  /\ Room(t) /\ ~Changing(t) /\ switches < MaxSwitches
  /\ \/ \E u \in Users : Enqueue(t, <<Account("signIn", u)>>)
     \/ gate[t] # None /\ Enqueue(t, <<Account("signOut", None)>>)
  /\ switches' = switches + 1
  /\ UNCHANGED <<jar, gate, cache, rows, now, faults, recorded, lost, split>>

\* The layout is rendered for whoever the cookies sign in: setSignedInGate.
Render(t) ==
  /\ gate[t] # jar
  /\ gate' = [gate EXCEPT ![t] = jar]
  /\ split' = (split \/ ChangedElsewhere(t))
  /\ UNCHANGED <<jar, cache, calls, rows, now, faults, switches, recorded, lost>>

-----------------------------------------------------------------------------
(* Server actions.                                                          *)

Dequeue(t) == calls' = [calls EXCEPT ![t] = Tail(@)]
Waiting(t) == calls[t] # <<>> /\ ~Head(calls[t]).served
Served(t) == calls[t] # <<>> /\ Head(calls[t]).served

ServeFetch(t) ==
  LET call == Head(calls[t]) IN
  /\ Waiting(t) /\ call.op = "fetch" /\ jar # None
  /\ calls' = [calls EXCEPT ![t][1] =
       [@ EXCEPT !.user = jar, !.rows = Selected(call.key, jar), !.served = TRUE]]
  /\ UNCHANGED <<jar, gate, cache, rows, now, faults, switches, recorded, lost, split>>

\* Only a failure of the answer would be noticed, and it is only logged.
ServePut(t) ==
  LET call == Head(calls[t]) IN
  /\ Waiting(t) /\ call.op = "put" /\ jar # None
  /\ \E entry \in call.rows :
       rows' = [rows EXCEPT ![call.key][jar] = Upserted(call.key, @, entry)]
  /\ Dequeue(t)
  /\ UNCHANGED <<jar, gate, cache, now, faults, switches, recorded, lost, split>>

PutsOf(t) == {calls[t][i].key : i \in {j \in DOMAIN calls[t] : calls[t][j].op = "put"}}

\* Without a session the BFF answers 401: a fetch leaves the cache alone, a
\* write is dropped.
Refuse(t) ==
  /\ Waiting(t) /\ jar = None /\ ~ChangesAccount(Head(calls[t]))
  /\ lost' = lost \cup (IF Head(calls[t]).op = "put" THEN {Head(calls[t]).key} ELSE {})
  /\ Dequeue(t)
  /\ UNCHANGED <<jar, gate, cache, rows, now, faults, switches, recorded, split>>

\* The answer of signInAction, signUpAction or signOutAction sets the cookies.
ServeAccount(t) ==
  LET call == Head(calls[t]) IN
  /\ Waiting(t) /\ ChangesAccount(call)
  /\ jar' = call.user
  /\ calls' = [calls EXCEPT ![t][1].served = TRUE]
  /\ split' = (split \/ \E other \in Tabs \ {t} : gate[other] # None \/ calls[other] # <<>>)
  /\ UNCHANGED <<gate, cache, rows, now, faults, switches, recorded, lost>>

\* The refresh replaces the cached value by what it was answered.
AnswerFetch(t) ==
  LET call == Head(calls[t]) IN
  /\ Served(t) /\ call.op = "fetch"
  /\ cache' = [cache EXCEPT ![call.key] = [owner |-> call.user, rows |-> call.rows]]
  /\ Dequeue(t)
  /\ UNCHANGED <<jar, gate, rows, now, faults, switches, recorded, lost, split>>

\* clearLocalCache, then refreshAllFromBff opens the gate and asks for all keys
SignedIn(t, u) ==
  /\ cache' = Cleared
  /\ gate' = [gate EXCEPT ![t] = u]

Refreshes == [i \in DOMAIN InOrder(Keys) |-> Fetch(InOrder(Keys)[i])]

\* completeAuth
AnswerSignIn(t) ==
  LET call == Head(calls[t]) IN
  /\ Served(t) /\ call.op = "signIn"
  /\ SignedIn(t, call.user)
  /\ calls' = [calls EXCEPT ![t] = Tail(@) \o Refreshes]
  /\ UNCHANGED <<jar, rows, now, faults, switches, recorded, lost, split>>

\* onSignOut: clearLocalCache; the refreshed layout closes the gate later.
AnswerSignOut(t) ==
  /\ Served(t) /\ Head(calls[t]).op = "signOut"
  /\ cache' = Cleared
  /\ Dequeue(t)
  /\ UNCHANGED <<jar, gate, rows, now, faults, switches, recorded, lost, split>>

\* The call fails: a refresh ignores it, a write is only logged.
CallFails(t) ==
  /\ faults < MaxFaults /\ calls[t] # <<>>
  /\ faults' = faults + 1
  /\ LET call == Head(calls[t]) IN
       /\ call.served => call.op = "fetch"
       /\ lost' = lost \cup (IF call.op = "put" THEN {call.key} ELSE {})
  /\ Dequeue(t)
  /\ UNCHANGED <<jar, gate, cache, rows, now, switches, recorded, split>>

\* The tab is reloaded or closed: the queue and the state of the module go.
Reload(t) ==
  /\ faults < MaxFaults
  /\ faults' = faults + 1
  /\ calls' = [calls EXCEPT ![t] = <<>>]
  /\ gate' = [gate EXCEPT ![t] = jar]
  /\ lost' = lost \cup PutsOf(t)
  /\ split' = (split \/ ChangedElsewhere(t) \/ (Served(t) /\ Head(calls[t]).op = "signIn"))
  /\ UNCHANGED <<jar, cache, rows, now, switches, recorded>>

Next == \E t \in Tabs :
  \/ StartPractice(t)
  \/ \E s \in 0..MaxScore : RecordResult(t, s)
  \/ \E k \in Keys : Read(t, k)
  \/ ChangeAccount(t) \/ Render(t)
  \/ ServeFetch(t) \/ ServePut(t) \/ Refuse(t) \/ ServeAccount(t)
  \/ AnswerFetch(t) \/ AnswerSignIn(t) \/ AnswerSignOut(t)
  \/ CallFails(t) \/ Reload(t)

Spec == Init /\ [][Next]_vars

-----------------------------------------------------------------------------
(* Properties.                                                              *)

TypeOK ==
  /\ jar \in Users \cup {None}
  /\ gate \in [Tabs -> Users \cup {None}]
  /\ cache \in [Keys -> [owner: Users \cup {None}, rows: SUBSET Entry]]
  /\ calls \in [Tabs -> Seq(Call)]
  /\ rows \in [Keys -> [Users -> SUBSET Entry]]
  /\ {now, faults, switches} \subseteq Nat
  /\ recorded \in [Users -> SUBSET (0..MaxScore)]
  /\ lost \subseteq Keys
  /\ split \in BOOLEAN
  /\ \A k \in Keys : Cardinality(cache[k].rows) <= IF k = "hist" THEN HistoryLimit ELSE 1
  /\ \A k \in Keys \ {"hist"}, u \in Users : Cardinality(rows[k][u]) <= 1

PendingOf(t, k) ==
  {i \in DOMAIN calls[t] : calls[t][i].op = "put" /\ calls[t][i].key = k}
Pending(k) == UNION {UNION {calls[t][i].rows : i \in PendingOf(t, k)} : t \in Tabs}

\* One identity's history does not show in the session of the next
\* (clearLocalCache), as long as the account is changed in one tab and the
\* page lives until the sign-in has cleared the cache.
NoBleed ==
  \A t \in Tabs : gate[t] # None /\ gate[t] = jar /\ ~Changing(t) /\ ~split =>
    \A k \in Keys : cache[k].owner \in {None, jar}

\* recordBestScore keeps a score to itself when the cache knows a better one;
\* that never hides a score from the server which would have raised the row.
ScoresReachServer ==
  "best" \in Keys \ lost /\ ~split =>
    \A u \in Users, s \in 1..MaxScore : s \in recorded[u] =>
      \E e \in rows["best"][u] \cup Pending("best") : e.score >= s

\* ADR 0021: last_practiced is last-write-wins by practiced_at, so the row
\* never goes back to an earlier practice.
LastPracticedNewest ==
  [][\A u \in Users : \A old \in rows["last"][u], new \in rows'["last"][u] : new.at >= old.at]_vars

BestRow(u) == IF rows["best"][u] = {} THEN 0 ELSE (CHOOSE e \in rows["best"][u] : TRUE).score
Register == INSTANCE BestScores WITH register <- [u \in Users |-> BestRow(u)]

\* The rows behave like registers that only rise, whatever the tabs send in
\* whatever order (ADR 0021 on best_scores).
BestScoresKept == Register!Spec
=============================================================================

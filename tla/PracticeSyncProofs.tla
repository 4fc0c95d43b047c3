------------------------- MODULE PracticeSyncProofs -------------------------
(***************************************************************************)
(* For any users, tabs and bounds, and in whatever order the tabs' calls   *)
(* are served, fail or are dropped: the rows of best_scores implement      *)
(* BestScores, and one identity's history does not show in the session of  *)
(* the next.                                                               *)
(***************************************************************************)
EXTENDS PracticeSync, SequenceTheorems, TLAPS

\* What is on its way to the BFF is an entry for a key; nothing else is
\* needed of the browser.
QueuesTyped ==
  /\ jar \in Users \cup {None}
  /\ gate \in [Tabs -> Users \cup {None}]
  /\ calls \in [Tabs -> Seq(Call)]
  /\ now \in Nat

\* A user has one best score at most, as the primary key of the table has it.
OneBest ==
  /\ rows \in [Keys -> [Users -> SUBSET Entry]]
  /\ "best" \in Keys => \A u \in Users : \A e, f \in rows["best"][u] : e = f

RegisterInv == QueuesTyped /\ OneBest

-----------------------------------------------------------------------------
(* Calls and queues.                                                        *)

LEMMA CallsMade ==
  /\ \A k \in Keys : Fetch(k) \in Call
  /\ \A k \in Keys, e \in Entry : Put(k, e) \in Call
  /\ \A u \in Users : Account("signIn", u) \in Call
  /\ Account("signOut", None) \in Call
BY DEF Fetch, Put, Account, Call, Calls

LEMMA OrderTyped ==
  ASSUME NEW ks \in SUBSET Keys
  PROVE  InOrder(ks) \in Seq(Keys)
<1>1. \A k \in AllKeys : Only(k, ks) \in Seq(Keys)
  BY DEF Only
<1>2. Only("last", ks) \o Only("best", ks) \in Seq(Keys)
  BY <1>1, ConcatProperties DEF AllKeys
<1> QED
  BY <1>1, <1>2, ConcatProperties DEF AllKeys, InOrder

LEMMA PutsTyped ==
  ASSUME NEW ks \in SUBSET Keys, NEW e \in Entry
  PROVE  [i \in DOMAIN InOrder(ks) |-> Put(InOrder(ks)[i], e)] \in Seq(Call)
<1> DEFINE order == InOrder(ks)
           puts == [i \in DOMAIN order |-> Put(order[i], e)]
<1>1. order \in Seq(Keys)
  BY OrderTyped
<1> HIDE DEF order
<1>2. /\ Len(order) \in Nat
      /\ DOMAIN order = 1..Len(order)
      /\ \A i \in 1..Len(order) : order[i] \in Keys
  BY <1>1, LenProperties, ElementOfSeq
<1>3. \A i \in 1..Len(order) : Put(order[i], e) \in Call
  BY <1>2, CallsMade
<1>4. puts \in [1..Len(order) -> Call]
  BY <1>2, <1>3
<1>5. puts \in Seq(Call)
  BY <1>2, <1>4, SeqDef
<1> QED
  BY <1>5 DEF order

LEMMA RefreshesTyped == Refreshes \in Seq(Call)
<1> DEFINE order == InOrder(Keys)
           fetches == [i \in DOMAIN order |-> Fetch(order[i])]
<1>1. order \in Seq(Keys)
  BY OrderTyped
<1> HIDE DEF order
<1>2. /\ Len(order) \in Nat
      /\ DOMAIN order = 1..Len(order)
      /\ \A i \in 1..Len(order) : order[i] \in Keys
  BY <1>1, LenProperties, ElementOfSeq
<1>3. \A i \in 1..Len(order) : Fetch(order[i]) \in Call
  BY <1>2, CallsMade
<1>4. fetches \in [1..Len(order) -> Call]
  BY <1>2, <1>3
<1>5. fetches \in Seq(Call)
  BY <1>2, <1>4, SeqDef
<1> QED
  BY <1>5 DEF order, Refreshes

LEMMA EnqueueTyped ==
  ASSUME QueuesTyped, NEW t \in Tabs, NEW new \in Seq(Call), Enqueue(t, new)
  PROVE  calls' \in [Tabs -> Seq(Call)]
<1>1. calls[t] \o new \in Seq(Call)
  BY ConcatProperties DEF QueuesTyped
<1> QED
  BY <1>1 DEF Enqueue, QueuesTyped

LEMMA DequeueTyped ==
  ASSUME QueuesTyped, NEW t \in Tabs, calls[t] # <<>>
  PROVE  /\ Head(calls[t]) \in Call
         /\ Tail(calls[t]) \in Seq(Call)
         /\ 1 \in 1..Len(calls[t])
         /\ calls[t][1] = Head(calls[t])
<1>1. calls[t] \in Seq(Call)
  BY DEF QueuesTyped
<1> QED
  BY <1>1, HeadTailProperties, EmptySeq, LenProperties

\* What the BFF reads for a fetch are entries.
LEMMA SelectedTyped ==
  ASSUME OneBest, NEW k \in Keys, NEW u \in Users
  PROVE  Selected(k, u) \in SUBSET Entry
<1>1. rows[k][u] \in SUBSET Entry
  BY DEF OneBest
<1>2. Newest(rows[k][u]) \in SUBSET Entry
  BY <1>1 DEF Newest
<1> QED
  BY <1>1, <1>2, SyncAssumption
     DEF Selected, GetLastPracticed, GetBestScores, GetRecentAttempts, AllKeys

LEMMA UpsertedTyped ==
  ASSUME NEW k \in Keys, NEW old \in SUBSET Entry, NEW e \in Entry
  PROVE  Upserted(k, old, e) \in SUBSET Entry
BY SyncAssumption
   DEF Upserted, UpsertLastPracticed, UpsertBestScore, RecordPracticeAttempt, AllKeys

-----------------------------------------------------------------------------
(* The invariant.                                                           *)

LEMMA InitRegister == Init => RegisterInv
BY EmptySeq DEF Init, RegisterInv, QueuesTyped, OneBest

\* Only ServePut writes rows.
LEMMA PutKeepsRows ==
  ASSUME RegisterInv, NEW t \in Tabs, ServePut(t)
  PROVE  OneBest'
<1> DEFINE call == Head(calls[t])
<1>1. call \in Call
  BY DequeueTyped DEF RegisterInv, ServePut, Waiting
<1> HIDE DEF call
<1>2. PICK e \in call.rows :
        rows' = [rows EXCEPT ![call.key][jar] = Upserted(call.key, @, e)]
  BY DEF ServePut, call
<1>3. jar \in Users /\ e \in Entry /\ call.key \in Keys
  BY <1>1 DEF RegisterInv, QueuesTyped, ServePut, Call, Calls, call
<1>4. Upserted(call.key, rows[call.key][jar], e) \in SUBSET Entry
  BY <1>3, UpsertedTyped DEF RegisterInv, OneBest
<1>5. rows' \in [Keys -> [Users -> SUBSET Entry]]
  BY <1>2, <1>3, <1>4 DEF RegisterInv, OneBest
<1>6. ASSUME call.key = "best", NEW u \in Users, NEW f \in rows'["best"][u],
             NEW g \in rows'["best"][u]
      PROVE  f = g
  <2>1. rows'["best"][jar] = UpsertBestScore(rows["best"][jar], e)
    BY <1>2, <1>3, <1>6 DEF RegisterInv, OneBest, Upserted
  <2>2. u # jar => rows'["best"][u] = rows["best"][u]
    BY <1>2, <1>3, <1>6 DEF RegisterInv, OneBest
  <2> QED
    BY <1>3, <1>6, <2>1, <2>2 DEF RegisterInv, OneBest, UpsertBestScore
<1>7. call.key # "best" /\ "best" \in Keys => rows'["best"] = rows["best"]
  BY <1>2, <1>3 DEF RegisterInv, OneBest
<1> QED
  BY <1>5, <1>6, <1>7 DEF RegisterInv, OneBest

LEMMA QueueSteps ==
  ASSUME RegisterInv, NEW t \in Tabs,
         \/ StartPractice(t)
         \/ \E s \in 0..MaxScore : RecordResult(t, s)
         \/ \E k \in Keys : Read(t, k)
         \/ ChangeAccount(t)
         \/ ServeFetch(t) \/ ServePut(t) \/ Refuse(t) \/ ServeAccount(t)
         \/ AnswerFetch(t) \/ AnswerSignIn(t) \/ AnswerSignOut(t)
         \/ CallFails(t) \/ Reload(t)
  PROVE  QueuesTyped'
<1> USE DEF RegisterInv
<1> DEFINE head == Head(calls[t])
<1>a. /\ calls[t] # <<>> => head \in Call /\ Tail(calls[t]) \in Seq(Call) /\ 1 \in 1..Len(calls[t])
      /\ calls[t] \in Seq(Call)
  BY DequeueTyped DEF QueuesTyped
<1>b. calls[t] # <<>> /\ Dequeue(t) => calls' \in [Tabs -> Seq(Call)]
  BY <1>a DEF Dequeue, QueuesTyped
<1>c. ASSUME calls[t] # <<>>, NEW c \in Call, calls' = [calls EXCEPT ![t] = [@ EXCEPT ![1] = c]]
      PROVE  calls' \in [Tabs -> Seq(Call)]
  <2>1. [calls[t] EXCEPT ![1] = c] \in Seq(Call)
    BY <1>a, <1>c, ExceptSeq
  <2> QED
    BY <1>c, <2>1 DEF QueuesTyped
<1>1. CASE StartPractice(t)
  <2> DEFINE e == [at |-> now + 1, score |-> 0]
  <2>1. e \in Entry /\ {"last"} \in SUBSET Keys
    BY <1>1, SyncAssumption DEF StartPractice, QueuesTyped, Entry
  <2>2. calls' \in [Tabs -> Seq(Call)]
    BY <1>1, <2>1, PutsTyped, EnqueueTyped DEF StartPractice, Write
  <2> QED
    BY <1>1, <2>2 DEF StartPractice, QueuesTyped
<1>2. CASE \E s \in 0..MaxScore : RecordResult(t, s)
  <2>1. PICK s \in 0..MaxScore : RecordResult(t, s)
    BY <1>2
  <2> DEFINE e == [at |-> now + 1, score |-> s]
             ks == IF s = 0 \/ KnownBest(s) THEN {"hist"} ELSE {"best", "hist"}
  <2>2. e \in Entry /\ ks \in SUBSET Keys
    BY <2>1, SyncAssumption DEF RecordResult, QueuesTyped, Entry
  <2>3. Write(t, ks, e) /\ now' = now + 1 /\ UNCHANGED <<jar, gate>>
    BY <2>1 DEF RecordResult
  <2> HIDE DEF e, ks
  <2>4. calls' \in [Tabs -> Seq(Call)]
    BY <2>2, <2>3, PutsTyped, EnqueueTyped DEF Write
  <2> QED
    BY <2>3, <2>4 DEF QueuesTyped
<1>3. CASE \E k \in Keys : Read(t, k)
  <2>1. PICK k \in Keys : Read(t, k)
    BY <1>3
  <2>2. <<Fetch(k)>> \in Seq(Call)
    BY CallsMade
  <2>3. calls' \in [Tabs -> Seq(Call)]
    BY <2>1, <2>2, EnqueueTyped DEF Read
  <2> QED
    BY <2>1, <2>3 DEF Read, QueuesTyped
<1>4. CASE ChangeAccount(t)
  <2>1. PICK c \in Call : Enqueue(t, <<c>>)
    BY <1>4, CallsMade DEF ChangeAccount
  <2>2. <<c>> \in Seq(Call)
    OBVIOUS
  <2>3. calls' \in [Tabs -> Seq(Call)]
    BY <2>1, <2>2, EnqueueTyped
  <2> QED
    BY <1>4, <2>3 DEF ChangeAccount, QueuesTyped
<1>5. CASE ServeFetch(t)
  <2> DEFINE c == [head EXCEPT !.user = jar, !.rows = Selected(head.key, jar), !.served = TRUE]
  <2>1. head \in Call /\ head.op = "fetch" /\ jar \in Users /\ calls[t] # <<>>
    BY <1>5, <1>a DEF ServeFetch, QueuesTyped, Waiting
  <2>2. head.key \in Keys
    BY <2>1 DEF Call, Calls
  <2>3. Selected(head.key, jar) \in SUBSET Entry
    BY <2>1, <2>2, SelectedTyped
  <2>4. c \in Call
    BY <2>1, <2>2, <2>3 DEF Call, Calls
  <2>5. calls' = [calls EXCEPT ![t] = [@ EXCEPT ![1] = c]]
    BY <1>5, <2>1, DequeueTyped DEF ServeFetch
  <2> QED
    BY <1>5, <1>c, <2>1, <2>4, <2>5 DEF ServeFetch, QueuesTyped
<1>6. CASE ServePut(t) \/ Refuse(t) \/ AnswerFetch(t) \/ AnswerSignOut(t) \/ CallFails(t)
  <2>1. calls[t] # <<>> /\ Dequeue(t)
    BY <1>6 DEF ServePut, Refuse, AnswerFetch, AnswerSignOut, CallFails, Waiting, Served
  <2>2. UNCHANGED <<jar, gate, now>>
    BY <1>6 DEF ServePut, Refuse, AnswerFetch, AnswerSignOut, CallFails
  <2> QED
    BY <1>b, <2>1, <2>2 DEF QueuesTyped
<1>7. CASE ServeAccount(t)
  <2> DEFINE c == [head EXCEPT !.served = TRUE]
  <2>1. head \in Call /\ calls[t] # <<>>
    BY <1>7, <1>a DEF ServeAccount, Waiting
  <2>2. c \in Call /\ head.user \in Users \cup {None}
    BY <2>1 DEF Call, Calls
  <2>3. calls' = [calls EXCEPT ![t] = [@ EXCEPT ![1] = c]]
    BY <1>7, <2>1, DequeueTyped DEF ServeAccount
  <2> QED
    BY <1>7, <1>c, <2>1, <2>2, <2>3 DEF ServeAccount, QueuesTyped
<1>8. CASE AnswerSignIn(t)
  <2>1. head \in Call /\ calls[t] # <<>>
    BY <1>8, <1>a DEF AnswerSignIn, Served
  <2>2. head.user \in Users \cup {None}
    BY <2>1 DEF Call, Calls
  <2>3. Tail(calls[t]) \o Refreshes \in Seq(Call)
    BY <1>a, <2>1, RefreshesTyped, ConcatProperties
  <2> QED
    BY <1>8, <2>2, <2>3 DEF AnswerSignIn, SignedIn, QueuesTyped
<1>9. CASE Reload(t)
  BY <1>9, EmptySeq DEF Reload, QueuesTyped
<1> QED
  BY <1>1, <1>2, <1>3, <1>4, <1>5, <1>6, <1>7, <1>8, <1>9

LEMMA RegisterStep == RegisterInv /\ [Next]_vars => RegisterInv'
<1> SUFFICES ASSUME RegisterInv, [Next]_vars PROVE RegisterInv'
  OBVIOUS
<1>1. CASE UNCHANGED vars
  BY <1>1 DEF RegisterInv, QueuesTyped, OneBest, vars, browser
<1>2. CASE \E t \in Tabs : Render(t)
  BY <1>2 DEF Render, RegisterInv, QueuesTyped, OneBest
<1>3. ASSUME NEW t \in Tabs, ServePut(t)
      PROVE  RegisterInv'
  BY <1>3, QueueSteps, PutKeepsRows DEF RegisterInv
<1>4. ASSUME NEW t \in Tabs,
             \/ StartPractice(t)
             \/ \E s \in 0..MaxScore : RecordResult(t, s)
             \/ \E k \in Keys : Read(t, k)
             \/ ChangeAccount(t)
             \/ ServeFetch(t) \/ Refuse(t) \/ ServeAccount(t)
             \/ AnswerFetch(t) \/ AnswerSignIn(t) \/ AnswerSignOut(t)
             \/ CallFails(t) \/ Reload(t)
      PROVE  RegisterInv'
  <2>1. rows' = rows
    BY <1>4 DEF StartPractice, RecordResult, Read, ChangeAccount, ServeFetch, Refuse,
      ServeAccount, AnswerFetch, AnswerSignIn, AnswerSignOut, CallFails, Reload
  <2>2. QueuesTyped'
    BY <1>4, QueueSteps
  <2> QED
    BY <2>1, <2>2 DEF RegisterInv, OneBest
<1> QED
  BY <1>1, <1>2, <1>3, <1>4 DEF Next

-----------------------------------------------------------------------------
(* The refinement.                                                          *)

LEMMA BestRowValue ==
  ASSUME RegisterInv, "best" \in Keys, NEW u \in Users
  PROVE  /\ BestRow(u) \in 0..MaxScore
         /\ \A e \in rows["best"][u] : BestRow(u) = e.score
<1>1. rows["best"][u] \in SUBSET Entry
  BY DEF RegisterInv, OneBest
<1> QED
  BY <1>1, SyncAssumption DEF RegisterInv, OneBest, BestRow, Entry

\* A row that is written is the same or holds a better score.
LEMMA PutRaises ==
  ASSUME RegisterInv, RegisterInv', "best" \in Keys, NEW t \in Tabs, ServePut(t)
  PROVE  \/ \A u \in Users : BestRow(u)' = BestRow(u)
         \/ \E u \in Users, s \in 1..MaxScore :
              /\ s > BestRow(u)
              /\ \A v \in Users : BestRow(v)' = IF v = u THEN s ELSE BestRow(v)
<1> DEFINE call == Head(calls[t])
<1>1. call \in Call
  BY DequeueTyped DEF RegisterInv, ServePut, Waiting
<1> HIDE DEF call
<1>2. PICK e \in call.rows :
        rows' = [rows EXCEPT ![call.key][jar] = Upserted(call.key, @, e)]
  BY DEF ServePut, call
<1>3. jar \in Users /\ e \in Entry /\ call.key \in Keys
  BY <1>1 DEF RegisterInv, QueuesTyped, ServePut, Call, Calls, call
<1>4. CASE call.key # "best" \/ (\E old \in rows["best"][jar] : old.score >= e.score)
  <2>1. rows'["best"] = rows["best"]
    BY <1>2, <1>3, <1>4 DEF RegisterInv, OneBest, Upserted, UpsertBestScore
  <2> QED
    BY <2>1 DEF BestRow
<1>5. CASE call.key = "best" /\ ~\E old \in rows["best"][jar] : old.score >= e.score
  <2>0. PICK u \in Users : u = jar
    BY <1>3
  <2>1. rows'["best"][u] = {e}
    BY <1>2, <1>3, <1>5, <2>0 DEF RegisterInv, OneBest, Upserted, UpsertBestScore
  <2>2. \A v \in Users : v # u => rows'["best"][v] = rows["best"][v]
    BY <1>2, <1>3, <1>5, <2>0 DEF RegisterInv, OneBest
  <2>3. BestRow(u)' = e.score /\ \A v \in Users : v # u => BestRow(v)' = BestRow(v)
    <3>1. (CHOOSE f \in {e} : TRUE) = e
      OBVIOUS
    <3>2. BestRow(u)' = e.score
      BY <2>1, <3>1 DEF BestRow
    <3>3. ASSUME NEW v \in Users, v # u
          PROVE  BestRow(v)' = BestRow(v)
      <4>1. rows'["best"][v] = rows["best"][v]
        BY <2>2, <3>3
      <4> QED
        BY <4>1 DEF BestRow
    <3> QED
      BY <3>2, <3>3
  <2>4. e.score \in 0..MaxScore /\ BestRow(u) \in 0..MaxScore
    BY <1>3, <2>0, BestRowValue DEF Entry
  <2>5. rows["best"][u] = {} \/ BestRow(u) < e.score
    BY <1>3, <1>5, <2>0, <2>4, BestRowValue DEF RegisterInv, OneBest, Entry
  <2>6. BestRow(u) = e.score \/ (e.score \in 1..MaxScore /\ e.score > BestRow(u))
    <3> DEFINE best == BestRow(u)
               score == e.score
    <3>1. rows["best"][u] = {} => best = 0
      BY DEF BestRow
    <3>2. best \in 0..MaxScore /\ score \in 0..MaxScore /\ (best = 0 \/ best < score)
      BY <2>4, <2>5, <3>1
    <3> HIDE DEF best, score
    <3>3. best = score \/ (score \in 1..MaxScore /\ score > best)
      BY <3>2, SyncAssumption
    <3> QED
      BY <3>3 DEF best, score
  <2> QED
    BY <2>3, <2>6
<1> QED
  BY <1>4, <1>5

\* However the calls of tabs are ordered, repeated by reloads or dropped, a best
\* score on the BFF behaves like a register that only rises (GREATEST in
\* upsertBestScore, ADR 0021).
THEOREM BestScoresRise ==
  ASSUME "best" \in Keys
  PROVE  Spec => BestScoresKept
<1>1. Init => Register!Init
  BY DEF Init, Register!Init, BestRow
<1>2. RegisterInv /\ RegisterInv' /\ [Next]_vars => [Register!Next]_([u \in Users |-> BestRow(u)])
  <2> SUFFICES ASSUME RegisterInv, RegisterInv', [Next]_vars
               PROVE  [Register!Next]_([u \in Users |-> BestRow(u)])
    OBVIOUS
  <2>1. CASE \E t \in Tabs : ServePut(t)
    <3>1. CASE \A u \in Users : BestRow(u)' = BestRow(u)
      BY <3>1
    <3>2. CASE \E u \in Users, s \in 1..MaxScore :
                 /\ s > BestRow(u)
                 /\ \A v \in Users : BestRow(v)' = IF v = u THEN s ELSE BestRow(v)
      BY <3>2 DEF Register!Next, Register!Raise
    <3> QED
      BY <2>1, <3>1, <3>2, PutRaises
  <2>2. CASE rows' = rows
    BY <2>2 DEF BestRow
  <2>3. rows' = rows \/ \E t \in Tabs : ServePut(t)
    BY DEF Next, vars, StartPractice, RecordResult, Read, ChangeAccount, Render, ServeFetch,
      Refuse, ServeAccount, AnswerFetch, AnswerSignIn, AnswerSignOut, CallFails, Reload
  <2> QED
    BY <2>1, <2>2, <2>3
<1>3. Spec => []RegisterInv
  BY InitRegister, RegisterStep, PTL DEF Spec
<1> QED
  BY <1>1, <1>2, <1>3, PTL DEF Spec, BestScoresKept, Register!Spec


-----------------------------------------------------------------------------
(* What the browser is known to hold.                                       *)

Unserved(queue) == \A i \in 1..Len(queue) : ~queue[i].served
HeadOnly(queue) == \A i \in 1..Len(queue) : i > 1 => ~queue[i].served

\* The cookies are those of a sign-in whose code has not run yet.
Signing(t) == Served(t) /\ Head(calls[t]).op = "signIn"

Clean == \A k \in Keys : cache[k].owner \in {None, jar}

\* Another's history is in the cache only until the sign-in clears it.
ClearedSoon == jar = None \/ Clean \/ \E t \in Tabs : Signing(t)

\* Until then no other tab shows a signed-in page, or the account changed
\* under one.
SigningAlone ==
  \A t \in Tabs : Signing(t) => \A other \in Tabs \ {t} : gate[other] = None /\ ~Signing(other)

\* What is about to be written was answered for whoever is signed in.
AnswersCurrent ==
  \A t \in Tabs : Served(t) /\ Head(calls[t]).op \in {"fetch", "signIn"} =>
    Head(calls[t]).user = jar

GatesCurrent ==
  jar # None => \A t \in Tabs : gate[t] \in {None, jar} \/ Signing(t)

HeadsOnly == \A t \in Tabs : HeadOnly(calls[t])
CacheKeyed == cache = [k \in Keys |-> cache[k]]
Private == ~split => ClearedSoon /\ SigningAlone /\ AnswersCurrent /\ GatesCurrent

PrivateInv == HeadsOnly /\ CacheKeyed /\ Private

LEMMA SigningChanges ==
  ASSUME QueuesTyped, NEW t \in Tabs, Signing(t)
  PROVE  Changing(t) /\ calls[t] # <<>>
<1>1. calls[t] # <<>>
  BY DEF Signing, Served
<1>2. 1 \in DOMAIN calls[t] /\ calls[t][1] = Head(calls[t])
  BY <1>1, DequeueTyped, LenProperties DEF QueuesTyped
<1> QED
  BY <1>1, <1>2 DEF Signing, Changing, ChangesAccount

LEMMA PrivateHolds == QueuesTyped /\ PrivateInv => NoBleed
<1> SUFFICES ASSUME QueuesTyped, PrivateInv,
                    NEW t \in Tabs, gate[t] # None, gate[t] = jar, ~Changing(t), ~split
             PROVE  Clean
  BY DEF NoBleed, Clean
<1>1. ASSUME NEW other \in Tabs, Signing(other)
      PROVE  FALSE
  <2>1. other # t
    BY <1>1, SigningChanges
  <2> QED
    BY <1>1, <2>1 DEF PrivateInv, Private, SigningAlone
<1> QED
  BY <1>1 DEF PrivateInv, Private, ClearedSoon

-----------------------------------------------------------------------------
(* Queues: what is added is unserved, so only a head has been served.       *)

SameHead(t) ==
  /\ Served(t)' <=> Served(t)
  /\ Served(t) => Head(calls'[t]) = Head(calls[t])

LEMMA HeadIsFirst ==
  ASSUME NEW queue \in Seq(Call), queue # <<>>
  PROVE  1 \in 1..Len(queue) /\ Head(queue) = queue[1]
BY HeadTailProperties, EmptySeq, LenProperties

LEMMA UntouchedSame ==
  ASSUME NEW t \in Tabs, calls'[t] = calls[t]
  PROVE  SameHead(t)
BY DEF SameHead, Served

LEMMA SameSigning ==
  ASSUME NEW t \in Tabs, SameHead(t)
  PROVE  Signing(t)' <=> Signing(t)
BY DEF SameHead, Signing, Served

LEMMA Joined ==
  ASSUME NEW queue \in Seq(Call), NEW new \in Seq(Call), HeadOnly(queue), Unserved(new)
  PROVE  HeadOnly(queue \o new)
<1> DEFINE both == queue \o new
<1>1. /\ both \in Seq(Call) /\ Len(both) = Len(queue) + Len(new)
      /\ \A i \in 1..Len(queue) + Len(new) :
           both[i] = IF i <= Len(queue) THEN queue[i] ELSE new[i - Len(queue)]
  BY ConcatProperties
<1>2. Len(queue) \in Nat /\ Len(new) \in Nat
  BY LenProperties
<1> HIDE DEF both
<1>3. ASSUME NEW i \in 1..Len(both), i > 1
      PROVE  ~both[i].served
  <2>1. CASE i <= Len(queue)
    BY <1>1, <1>2, <1>3, <2>1 DEF HeadOnly
  <2>2. CASE i > Len(queue)
    <3>1. i - Len(queue) \in 1..Len(new) /\ both[i] = new[i - Len(queue)]
      BY <1>1, <1>2, <1>3, <2>2
    <3> QED
      BY <3>1 DEF Unserved
  <2> QED
    BY <1>2, <2>1, <2>2
<1> QED
  BY <1>3 DEF HeadOnly, both

LEMMA JoinedHead ==
  ASSUME NEW queue \in Seq(Call), NEW new \in Seq(Call), queue # <<>>
  PROVE  queue \o new # <<>> /\ Head(queue \o new) = Head(queue)
<1>1. /\ queue \o new \in Seq(Call) /\ Len(queue \o new) = Len(queue) + Len(new)
      /\ \A i \in 1..Len(queue) + Len(new) :
           (queue \o new)[i] = IF i <= Len(queue) THEN queue[i] ELSE new[i - Len(queue)]
  BY ConcatProperties
<1>2. Len(queue) \in Nat /\ Len(new) \in Nat /\ Len(queue) # 0
  BY LenProperties, EmptySeq
<1>3. queue \o new # <<>>
  BY <1>1, <1>2, EmptySeq
<1> QED
  BY <1>1, <1>2, <1>3, HeadIsFirst

LEMMA UnservedHead ==
  ASSUME NEW queue \in Seq(Call), Unserved(queue), queue # <<>>
  PROVE  ~Head(queue).served
BY HeadIsFirst DEF Unserved

LEMMA UnservedJoin ==
  ASSUME NEW queue \in Seq(Call), NEW new \in Seq(Call), Unserved(queue), Unserved(new)
  PROVE  Unserved(queue \o new)
<1> DEFINE both == queue \o new
<1>1. /\ both \in Seq(Call) /\ Len(both) = Len(queue) + Len(new)
      /\ \A i \in 1..Len(queue) + Len(new) :
           both[i] = IF i <= Len(queue) THEN queue[i] ELSE new[i - Len(queue)]
  BY ConcatProperties
<1>2. Len(queue) \in Nat /\ Len(new) \in Nat
  BY LenProperties
<1> HIDE DEF both
<1>3. ASSUME NEW i \in 1..Len(both)
      PROVE  ~both[i].served
  <2>1. CASE i <= Len(queue)
    BY <1>1, <1>2, <1>3, <2>1 DEF Unserved
  <2>2. CASE i > Len(queue)
    <3>1. i - Len(queue) \in 1..Len(new) /\ both[i] = new[i - Len(queue)]
      BY <1>1, <1>2, <1>3, <2>2
    <3> QED
      BY <3>1 DEF Unserved
  <2> QED
    BY <1>2, <2>1, <2>2
<1> QED
  BY <1>3 DEF Unserved, both

LEMMA TailUnserved ==
  ASSUME NEW queue \in Seq(Call), HeadOnly(queue), queue # <<>>
  PROVE  Tail(queue) \in Seq(Call) /\ Unserved(Tail(queue))
<1>1. /\ Tail(queue) \in Seq(Call) /\ Len(Tail(queue)) = Len(queue) - 1
      /\ \A i \in 1..Len(Tail(queue)) : Tail(queue)[i] = queue[i + 1]
  BY HeadTailProperties
<1>2. Len(queue) \in Nat
  BY LenProperties
<1>3. ASSUME NEW i \in 1..Len(Tail(queue))
      PROVE  ~Tail(queue)[i].served
  <2>1. i + 1 \in 1..Len(queue) /\ i + 1 > 1
    BY <1>1, <1>2, <1>3
  <2>2. ~queue[i + 1].served
    BY <2>1 DEF HeadOnly
  <2> QED
    BY <1>1, <1>3, <2>2
<1> QED
  BY <1>1, <1>3 DEF Unserved

\* What is added to a queue.
LEMMA Appended ==
  ASSUME QueuesTyped, HeadsOnly, NEW t \in Tabs,
         NEW new \in Seq(Call), Unserved(new), Enqueue(t, new)
  PROVE  HeadsOnly' /\ \A other \in Tabs : SameHead(other)
<1>1. calls[t] \in Seq(Call) /\ HeadOnly(calls[t])
  BY DEF QueuesTyped, HeadsOnly
<1>2. /\ calls'[t] = calls[t] \o new
      /\ \A other \in Tabs \ {t} : calls'[other] = calls[other]
  BY DEF Enqueue, QueuesTyped
<1>3. HeadOnly(calls'[t])
  BY <1>1, <1>2, Joined
<1>4. HeadsOnly'
  BY <1>2, <1>3 DEF HeadsOnly
<1>5. SameHead(t)
  <2>1. CASE calls[t] = <<>>
    <3>1. Unserved(calls'[t]) /\ calls'[t] \in Seq(Call)
      <4>1. calls'[t] = new
        BY <1>2, <2>1, ConcatEmptySeq
      <4> QED
        BY <4>1
    <3>2. ~Served(t)'
      BY <3>1, UnservedHead DEF Served
    <3> QED
      BY <2>1, <3>2 DEF SameHead, Served
  <2>2. CASE calls[t] # <<>>
    BY <1>1, <1>2, <2>2, JoinedHead DEF SameHead, Served
  <2> QED
    BY <2>1, <2>2
<1> QED
  BY <1>2, <1>4, <1>5, UntouchedSame

\* A queue that holds nothing served any more.
LEMMA Replaced ==
  ASSUME QueuesTyped, HeadsOnly, NEW t \in Tabs,
         NEW new \in Seq(Call), Unserved(new), calls' = [calls EXCEPT ![t] = new]
  PROVE  HeadsOnly' /\ ~Served(t)' /\ \A other \in Tabs \ {t} : SameHead(other)
<1>1. /\ calls'[t] = new
      /\ \A other \in Tabs \ {t} : calls'[other] = calls[other]
  BY DEF QueuesTyped
<1>2. HeadOnly(calls'[t])
  BY <1>1 DEF HeadOnly, Unserved
<1>3. HeadsOnly'
  BY <1>1, <1>2 DEF HeadsOnly
<1>4. ~Served(t)'
  BY <1>1, UnservedHead DEF Served
<1> QED
  BY <1>1, <1>3, <1>4, UntouchedSame

LEMMA Dropped ==
  ASSUME QueuesTyped, HeadsOnly, NEW t \in Tabs, calls[t] # <<>>, Dequeue(t)
  PROVE  HeadsOnly' /\ ~Served(t)' /\ \A other \in Tabs \ {t} : SameHead(other)
<1>1. Tail(calls[t]) \in Seq(Call) /\ Unserved(Tail(calls[t]))
  BY TailUnserved DEF QueuesTyped, HeadsOnly
<1>2. calls' = [calls EXCEPT ![t] = Tail(calls[t])]
  BY DEF Dequeue
<1> QED
  BY <1>1, <1>2, Replaced

LEMMA Marked ==
  ASSUME QueuesTyped, HeadsOnly, NEW t \in Tabs, calls[t] # <<>>,
         NEW call \in Call, call.served,
         calls' = [calls EXCEPT ![t] = [@ EXCEPT ![1] = call]]
  PROVE  /\ HeadsOnly' /\ Served(t)' /\ Head(calls'[t]) = call
         /\ \A other \in Tabs \ {t} : calls'[other] = calls[other] /\ SameHead(other)
<1>1. calls[t] \in Seq(Call) /\ HeadOnly(calls[t]) /\ 1 \in 1..Len(calls[t])
  BY HeadIsFirst DEF QueuesTyped, HeadsOnly
<1>2. /\ calls'[t] = [calls[t] EXCEPT ![1] = call]
      /\ \A other \in Tabs \ {t} : calls'[other] = calls[other]
  BY DEF QueuesTyped
<1>3. /\ calls'[t] \in Seq(Call) /\ Len(calls'[t]) = Len(calls[t])
      /\ \A i \in 1..Len(calls[t]) : calls'[t][i] = IF i = 1 THEN call ELSE calls[t][i]
  BY <1>1, <1>2, ExceptSeq
<1>4. HeadOnly(calls'[t])
  BY <1>1, <1>3 DEF HeadOnly
<1>5. calls'[t] # <<>>
  BY <1>1, <1>3, EmptySeq
<1>6. Head(calls'[t]) = call
  BY <1>1, <1>3, <1>5, HeadIsFirst
<1>7. Served(t)' /\ HeadsOnly'
  BY <1>2, <1>4, <1>5, <1>6 DEF Served, HeadsOnly
<1> QED
  BY <1>2, <1>6, <1>7, UntouchedSame

\* What a page adds to its queue.
LEMMA AddedUnserved ==
  /\ \A ks \in SUBSET Keys, e \in Entry :
       Unserved([i \in DOMAIN InOrder(ks) |-> Put(InOrder(ks)[i], e)])
  /\ Unserved(Refreshes)
  /\ \A k \in Keys : Unserved(<<Fetch(k)>>)
  /\ \A op, u : Unserved(<<Account(op, u)>>)
<1>1. /\ \A k, e : ~Put(k, e).served
      /\ \A k : ~Fetch(k).served
      /\ \A op, u : ~Account(op, u).served
  BY DEF Put, Fetch, Account
<1>2. ASSUME NEW ks \in SUBSET Keys
      PROVE  DOMAIN InOrder(ks) = 1..Len(InOrder(ks)) /\ Len(InOrder(ks)) \in Nat
  BY OrderTyped, LenProperties
<1>3. ASSUME NEW ks \in SUBSET Keys, NEW e \in Entry
      PROVE  Unserved([i \in DOMAIN InOrder(ks) |-> Put(InOrder(ks)[i], e)])
  <2> DEFINE puts == [i \in DOMAIN InOrder(ks) |-> Put(InOrder(ks)[i], e)]
  <2>1. puts \in Seq(Call)
    BY PutsTyped
  <2>2. DOMAIN puts = DOMAIN InOrder(ks) /\ DOMAIN puts = 1..Len(puts)
    BY <2>1, LenProperties
  <2> QED
    BY <1>1, <2>2 DEF Unserved
<1>4. Unserved(Refreshes)
  <2>1. DOMAIN Refreshes = DOMAIN InOrder(Keys) /\ DOMAIN Refreshes = 1..Len(Refreshes)
    BY RefreshesTyped, LenProperties DEF Refreshes
  <2> QED
    BY <1>1, <2>1 DEF Unserved, Refreshes
<1>5. ASSUME NEW call, ~call.served
      PROVE  Unserved(<<call>>)
  BY <1>5 DEF Unserved
<1> QED
  BY <1>1, <1>3, <1>4, <1>5

-----------------------------------------------------------------------------
(* Steps.                                                                   *)

LEMMA InitPrivate == Init => PrivateInv
BY EmptySeq DEF Init, Cleared, Empty, PrivateInv, HeadsOnly, HeadOnly, CacheKeyed, Private,
  ClearedSoon, Clean, SigningAlone, AnswersCurrent, GatesCurrent, Signing, Served

\* Whoever is signed in and is shown stays so, and no sign-in is served or done.
LEMMA Quiet ==
  ASSUME PrivateInv, UNCHANGED <<jar, gate, split>>, HeadsOnly', CacheKeyed',
         \A t \in Tabs : Signing(t)' <=> Signing(t),
         ~split /\ ClearedSoon /\ GatesCurrent /\ AnswersCurrent =>
           AnswersCurrent' /\ (jar = None \/ (Clean => Clean'))
  PROVE  PrivateInv'
<1> SUFFICES ASSUME ~split PROVE ClearedSoon' /\ SigningAlone' /\ AnswersCurrent' /\ GatesCurrent'
  BY DEF PrivateInv, Private
<1>1. ClearedSoon /\ SigningAlone /\ AnswersCurrent /\ GatesCurrent
  BY DEF PrivateInv, Private
<1>2. ClearedSoon'
  BY <1>1 DEF ClearedSoon
<1>3. SigningAlone'
  BY <1>1 DEF SigningAlone
<1>4. GatesCurrent'
  BY <1>1 DEF GatesCurrent
<1> QED
  BY <1>1, <1>2, <1>3, <1>4

\* Heads that stay, or go, leave the answers that stay current.
LEMMA AnswersStay ==
  ASSUME AnswersCurrent, jar' = jar,
         \A t \in Tabs : SameHead(t) \/ ~Served(t)'
  PROVE  AnswersCurrent'
BY DEF AnswersCurrent, SameHead, Served

\* The page writes, or queues what it reads or asks for.
LEMMA Queues ==
  ASSUME QueuesTyped, PrivateInv, NEW t \in Tabs, NEW new \in Seq(Call), Unserved(new),
         Enqueue(t, new), UNCHANGED <<jar, gate, split>>, CacheKeyed',
         \/ UNCHANGED cache
         \/ Active(t) /\ \A k \in Keys : cache'[k] = cache[k] \/ cache'[k].owner = gate[t]
  PROVE  PrivateInv'
<1>1. HeadsOnly' /\ \A other \in Tabs : SameHead(other)
  BY Appended DEF PrivateInv
<1>2. \A other \in Tabs : Signing(other)' <=> Signing(other)
  BY <1>1, SameSigning
<1>3. ASSUME ~split, GatesCurrent, AnswersCurrent
      PROVE  AnswersCurrent' /\ (jar = None \/ (Clean => Clean'))
  <2>1. AnswersCurrent'
    BY <1>1, <1>3, AnswersStay
  <2>2. CASE UNCHANGED cache
    BY <2>1, <2>2 DEF Clean
  <2>3. CASE /\ Active(t)
             /\ \A k \in Keys : cache'[k] = cache[k] \/ cache'[k].owner = gate[t]
    <3>1. ~Signing(t)
      <4>1. ASSUME Signing(t) PROVE FALSE
        <5>1. calls[t] # <<>> /\ Head(calls[t]).op = "signIn"
          BY <4>1 DEF Signing, Served
        <5>2. 1 \in DOMAIN calls[t] /\ calls[t][1] = Head(calls[t])
          BY <5>1, DequeueTyped, LenProperties DEF QueuesTyped
        <5> QED
          BY <2>3, <5>1, <5>2 DEF Active
      <4> QED
        BY <4>1
    <3>2. jar # None => gate[t] = jar
      BY <1>3, <2>3, <3>1 DEF GatesCurrent, Active
    <3> QED
      BY <2>1, <2>3, <3>2 DEF Clean
  <2> QED
    BY <2>2, <2>3
<1> QED
  BY <1>1, <1>2, <1>3, Quiet

LEMMA QueueingStep ==
  ASSUME QueuesTyped, PrivateInv, NEW t \in Tabs,
         \/ StartPractice(t)
         \/ \E s \in 0..MaxScore : RecordResult(t, s)
         \/ \E k \in Keys : Read(t, k)
         \/ ChangeAccount(t)
  PROVE  PrivateInv'
<1>1. ASSUME NEW ks \in SUBSET Keys, NEW e \in Entry, Active(t), Write(t, ks, e),
             UNCHANGED <<jar, gate, split>>
      PROVE  PrivateInv'
  <2> DEFINE new == [i \in DOMAIN InOrder(ks) |-> Put(InOrder(ks)[i], e)]
  <2>1. new \in Seq(Call) /\ Unserved(new) /\ Enqueue(t, new)
    BY <1>1, PutsTyped, AddedUnserved DEF Write
  <2> HIDE DEF new
  <2>2. \A k \in Keys : cache'[k] = cache[k] \/ cache'[k].owner = gate[t]
    BY <1>1 DEF Write
  <2>3. CacheKeyed'
    BY <1>1 DEF Write, CacheKeyed
  <2> QED
    BY <1>1, <2>1, <2>2, <2>3, Queues
<1>2. CASE StartPractice(t)
  <2> DEFINE e == [at |-> now + 1, score |-> 0]
  <2>1. e \in Entry /\ {"last"} \in SUBSET Keys
    BY <1>2, SyncAssumption DEF StartPractice, QueuesTyped, Entry
  <2> QED
    BY <1>1, <1>2, <2>1 DEF StartPractice
<1>3. CASE \E s \in 0..MaxScore : RecordResult(t, s)
  <2>1. PICK s \in 0..MaxScore : RecordResult(t, s)
    BY <1>3
  <2> DEFINE e == [at |-> now + 1, score |-> s]
             ks == IF s = 0 \/ KnownBest(s) THEN {"hist"} ELSE {"best", "hist"}
  <2>2. e \in Entry /\ ks \in SUBSET Keys
    BY <2>1, SyncAssumption DEF RecordResult, QueuesTyped, Entry
  <2>3. Write(t, ks, e) /\ Active(t) /\ UNCHANGED <<jar, gate, split>>
    BY <2>1 DEF RecordResult
  <2> HIDE DEF e, ks
  <2> QED
    BY <1>1, <2>2, <2>3
<1>4. ASSUME NEW new \in Seq(Call), Unserved(new), Enqueue(t, new),
             UNCHANGED <<jar, gate, cache, split>>
      PROVE  PrivateInv'
  <2>1. CacheKeyed'
    BY <1>4 DEF PrivateInv, CacheKeyed
  <2> QED
    BY <1>4, <2>1, Queues
<1>5. CASE \E k \in Keys : Read(t, k)
  <2>1. PICK k \in Keys : Read(t, k)
    BY <1>5
  <2>2. <<Fetch(k)>> \in Seq(Call) /\ Unserved(<<Fetch(k)>>)
    BY CallsMade, AddedUnserved
  <2> QED
    BY <1>4, <2>1, <2>2 DEF Read
<1>6. CASE ChangeAccount(t)
  <2>1. \/ \E u \in Users : Enqueue(t, <<Account("signIn", u)>>)
        \/ Enqueue(t, <<Account("signOut", None)>>)
    BY <1>6 DEF ChangeAccount
  <2>2. PICK call \in Call : Enqueue(t, <<call>>) /\ Unserved(<<call>>)
    <3>1. ASSUME NEW u \in Users, Enqueue(t, <<Account("signIn", u)>>)
          PROVE  \E call \in Call : Enqueue(t, <<call>>) /\ Unserved(<<call>>)
      BY <3>1, CallsMade, AddedUnserved
    <3>2. ASSUME Enqueue(t, <<Account("signOut", None)>>)
          PROVE  \E call \in Call : Enqueue(t, <<call>>) /\ Unserved(<<call>>)
      BY <3>2, CallsMade, AddedUnserved
    <3> QED
      BY <2>1, <3>1, <3>2
  <2>3. <<call>> \in Seq(Call)
    OBVIOUS
  <2> QED
    BY <1>4, <1>6, <2>2, <2>3 DEF ChangeAccount
<1> QED
  BY <1>2, <1>3, <1>5, <1>6

\* A call leaves the queue that was not a served sign-in.
LEMMA LeavingStep ==
  ASSUME QueuesTyped, PrivateInv, NEW t \in Tabs,
         \/ ServePut(t) \/ Refuse(t) \/ AnswerFetch(t) \/ AnswerSignOut(t) \/ CallFails(t)
  PROVE  PrivateInv'
<1> DEFINE head == Head(calls[t])
<1>1. calls[t] # <<>> /\ Dequeue(t) /\ UNCHANGED <<jar, gate, split>>
  BY DEF ServePut, Refuse, AnswerFetch, AnswerSignOut, CallFails, Waiting, Served
<1>2. HeadsOnly' /\ ~Served(t)' /\ \A other \in Tabs \ {t} : SameHead(other)
  BY <1>1, Dropped DEF PrivateInv
<1>3. ~Signing(t) /\ ~Signing(t)'
  BY <1>2 DEF ServePut, Refuse, AnswerFetch, AnswerSignOut, CallFails, Waiting, Served, Signing
<1>4. \A other \in Tabs : Signing(other)' <=> Signing(other)
  BY <1>2, <1>3, SameSigning
<1>5. AnswersCurrent => AnswersCurrent'
  BY <1>1, <1>2, AnswersStay
<1>6. CASE ServePut(t) \/ Refuse(t) \/ CallFails(t)
  <2>1. UNCHANGED cache
    BY <1>6 DEF ServePut, Refuse, CallFails
  <2>2. CacheKeyed' /\ (Clean => Clean')
    BY <1>1, <2>1 DEF PrivateInv, CacheKeyed, Clean
  <2> QED
    BY <1>1, <1>2, <1>4, <1>5, <2>2, Quiet
<1>7. CASE AnswerFetch(t)
  <2>1. /\ Served(t) /\ head.op = "fetch"
        /\ cache' = [cache EXCEPT ![head.key] = [owner |-> head.user, rows |-> head.rows]]
    BY <1>7 DEF AnswerFetch
  <2>2. CacheKeyed'
    BY <2>1 DEF PrivateInv, CacheKeyed
  <2>3. AnswersCurrent /\ Clean => Clean'
    <3> SUFFICES ASSUME AnswersCurrent, Clean PROVE Clean'
      OBVIOUS
    <3>1. head.user = jar
      BY <2>1 DEF AnswersCurrent
    <3>2. \A k \in Keys : cache'[k].owner \in {cache[k].owner, jar}
      BY <2>1, <3>1 DEF PrivateInv, CacheKeyed
    <3> QED
      BY <1>1, <3>2 DEF Clean
  <2> QED
    BY <1>1, <1>2, <1>4, <1>5, <2>2, <2>3, Quiet
<1>8. CASE AnswerSignOut(t)
  <2>1. cache' = Cleared
    BY <1>8 DEF AnswerSignOut
  <2>2. CacheKeyed' /\ Clean'
    BY <2>1 DEF CacheKeyed, Clean, Cleared, Empty
  <2> QED
    BY <1>1, <1>2, <1>4, <1>5, <2>2, Quiet
<1> QED
  BY <1>6, <1>7, <1>8

\* The BFF runs a fetch for whoever the cookies name.
LEMMA FetchStep ==
  ASSUME RegisterInv, PrivateInv, NEW t \in Tabs, ServeFetch(t)
  PROVE  PrivateInv'
<1> USE DEF RegisterInv
<1> DEFINE head == Head(calls[t])
           call == [head EXCEPT !.user = jar, !.rows = Selected(head.key, jar), !.served = TRUE]
<1>1. head \in Call /\ head.op = "fetch" /\ jar \in Users /\ calls[t] # <<>> /\ ~Served(t)
  BY DequeueTyped DEF ServeFetch, QueuesTyped, Waiting, Served
<1>2. head.key \in Keys
  BY <1>1 DEF Call, Calls
<1>3. Selected(head.key, jar) \in SUBSET Entry
  BY <1>1, <1>2, SelectedTyped
<1>4. call \in Call /\ call.op = "fetch" /\ call.user = jar /\ call.served
  BY <1>1, <1>2, <1>3 DEF Call, Calls
<1>5. /\ calls' = [calls EXCEPT ![t] = [@ EXCEPT ![1] = call]]
      /\ UNCHANGED <<jar, gate, cache, split>>
  BY <1>1, DequeueTyped DEF ServeFetch
<1> HIDE DEF call
<1>6. /\ HeadsOnly' /\ Served(t)' /\ Head(calls'[t]) = call
      /\ \A other \in Tabs \ {t} : SameHead(other)
  BY <1>1, <1>4, <1>5, Marked DEF PrivateInv
<1>7. \A other \in Tabs : Signing(other)' <=> Signing(other)
  BY <1>1, <1>4, <1>6, SameSigning DEF Signing
<1>8. AnswersCurrent => AnswersCurrent'
  BY <1>4, <1>5, <1>6 DEF AnswersCurrent, SameHead, Served
<1>9. CacheKeyed' /\ (Clean => Clean')
  BY <1>5 DEF PrivateInv, CacheKeyed, Clean
<1> QED
  BY <1>5, <1>6, <1>7, <1>8, <1>9, Quiet

\* The cookies change: no other tab shows a page or has a call under way.
LEMMA AccountStep ==
  ASSUME QueuesTyped, PrivateInv, NEW t \in Tabs, ServeAccount(t)
  PROVE  PrivateInv'
<1> DEFINE head == Head(calls[t])
           call == [head EXCEPT !.served = TRUE]
<1>1. head \in Call /\ head.op \in {"signIn", "signOut"} /\ calls[t] # <<>>
  BY DequeueTyped DEF ServeAccount, Waiting, ChangesAccount
<1>2. /\ call \in Call /\ call.served /\ call.op = head.op /\ call.user = head.user
      /\ head.op = "signIn" => head.user \in Users
      /\ head.op = "signOut" => head.user = None
  BY <1>1 DEF Call, Calls
<1>3. /\ calls' = [calls EXCEPT ![t] = [@ EXCEPT ![1] = call]]
      /\ jar' = head.user /\ UNCHANGED <<gate, cache>>
      /\ split' = (split \/ \E other \in Tabs \ {t} : gate[other] # None \/ calls[other] # <<>>)
  BY <1>1, DequeueTyped DEF ServeAccount
<1> HIDE DEF call
<1>4. /\ HeadsOnly' /\ Served(t)' /\ Head(calls'[t]) = call
      /\ \A other \in Tabs \ {t} : calls'[other] = calls[other]
  BY <1>1, <1>2, <1>3, Marked DEF PrivateInv
<1>5. CacheKeyed'
  BY <1>3 DEF PrivateInv, CacheKeyed
<1>6. ASSUME ~split'
      PROVE  ClearedSoon' /\ SigningAlone' /\ AnswersCurrent' /\ GatesCurrent'
  <2>1. \A other \in Tabs \ {t} : gate'[other] = None /\ ~Served(other)' /\ ~Signing(other)'
    BY <1>3, <1>4, <1>6 DEF Served, Signing
  <2>2. SigningAlone' /\ AnswersCurrent'
    BY <1>2, <1>3, <1>4, <2>1 DEF SigningAlone, AnswersCurrent, Signing
  <2>3. CASE head.op = "signIn"
    <3>1. Signing(t)'
      BY <1>2, <1>4, <2>3 DEF Signing
    <3> QED
      BY <2>1, <2>2, <3>1 DEF ClearedSoon, GatesCurrent
  <2>4. CASE head.op = "signOut"
    BY <1>2, <1>3, <2>2, <2>4 DEF ClearedSoon, GatesCurrent
  <2> QED
    BY <1>1, <2>3, <2>4
<1> QED
  BY <1>4, <1>5, <1>6 DEF PrivateInv, Private

\* The code after the sign-in clears the cache and opens the gate.
LEMMA SignedInStep ==
  ASSUME QueuesTyped, PrivateInv, NEW t \in Tabs, AnswerSignIn(t)
  PROVE  PrivateInv'
<1> DEFINE head == Head(calls[t])
<1>1. /\ calls[t] # <<>> /\ Served(t) /\ head.op = "signIn" /\ Signing(t)
      /\ calls' = [calls EXCEPT ![t] = Tail(calls[t]) \o Refreshes]
      /\ cache' = Cleared /\ gate' = [gate EXCEPT ![t] = head.user]
      /\ UNCHANGED <<jar, split>>
  BY DEF AnswerSignIn, SignedIn, Served, Signing
<1>2. Tail(calls[t]) \in Seq(Call) /\ Unserved(Tail(calls[t]))
  BY <1>1, TailUnserved DEF QueuesTyped, PrivateInv, HeadsOnly
<1>3. Tail(calls[t]) \o Refreshes \in Seq(Call) /\ Unserved(Tail(calls[t]) \o Refreshes)
  BY <1>2, RefreshesTyped, AddedUnserved, UnservedJoin, ConcatProperties
<1>4. HeadsOnly' /\ ~Served(t)' /\ \A other \in Tabs \ {t} : SameHead(other)
  BY <1>1, <1>3, Replaced DEF PrivateInv
<1>5. CacheKeyed' /\ Clean'
  BY <1>1 DEF CacheKeyed, Clean, Cleared, Empty
<1>6. ASSUME ~split
      PROVE  SigningAlone' /\ AnswersCurrent' /\ GatesCurrent'
  <2>1. /\ head.user = jar
        /\ \A other \in Tabs \ {t} : gate[other] = None /\ ~Signing(other)
    BY <1>1, <1>6 DEF PrivateInv, Private, AnswersCurrent, SigningAlone
  <2>2. \A other \in Tabs : ~Signing(other)'
    BY <1>4, <2>1, SameSigning DEF Signing
  <2>3. \A other \in Tabs : gate'[other] \in {None, jar}
    BY <1>1, <2>1 DEF QueuesTyped
  <2>4. AnswersCurrent'
    BY <1>1, <1>4, <1>6, AnswersStay DEF PrivateInv, Private
  <2> QED
    BY <1>1, <2>2, <2>3, <2>4 DEF SigningAlone, GatesCurrent
<1> QED
  BY <1>1, <1>4, <1>5, <1>6 DEF PrivateInv, Private, ClearedSoon

LEMMA RenderStep ==
  ASSUME QueuesTyped, PrivateInv, NEW t \in Tabs, Render(t)
  PROVE  PrivateInv'
<1>1. /\ gate' = [gate EXCEPT ![t] = jar] /\ UNCHANGED <<jar, cache, calls>>
      /\ split' = (split \/ ChangedElsewhere(t))
  BY DEF Render
<1>2. HeadsOnly' /\ CacheKeyed' /\ \A other \in Tabs : SameHead(other)
  BY <1>1, UntouchedSame DEF PrivateInv, HeadsOnly, CacheKeyed
<1>3. \A other \in Tabs : Signing(other)' <=> Signing(other)
  BY <1>2, SameSigning
<1>4. ASSUME ~split'
      PROVE  ClearedSoon' /\ SigningAlone' /\ AnswersCurrent' /\ GatesCurrent'
  <2>1. ~split /\ ClearedSoon /\ SigningAlone /\ AnswersCurrent /\ GatesCurrent
    BY <1>1, <1>4 DEF PrivateInv, Private
  <2>2. \A other \in Tabs \ {t} : ~Signing(other)
    BY <1>1, <1>4, SigningChanges DEF ChangedElsewhere
  <2>3. gate'[t] = jar /\ \A other \in Tabs \ {t} : gate'[other] = gate[other]
    BY <1>1 DEF QueuesTyped
  <2>4. ClearedSoon'
    BY <1>1, <1>3, <2>1 DEF ClearedSoon, Clean
  <2>5. SigningAlone'
    BY <1>3, <2>1, <2>2, <2>3 DEF SigningAlone
  <2>6. AnswersCurrent'
    BY <1>1, <1>2, <2>1, AnswersStay
  <2>7. GatesCurrent'
    BY <1>1, <1>3, <2>1, <2>3 DEF GatesCurrent
  <2> QED
    BY <2>4, <2>5, <2>6, <2>7
<1> QED
  BY <1>2, <1>4 DEF PrivateInv, Private

LEMMA ReloadStep ==
  ASSUME QueuesTyped, PrivateInv, NEW t \in Tabs, Reload(t)
  PROVE  PrivateInv'
<1>1. /\ calls' = [calls EXCEPT ![t] = <<>>] /\ gate' = [gate EXCEPT ![t] = jar]
      /\ UNCHANGED <<jar, cache>>
      /\ split' = (split \/ ChangedElsewhere(t) \/ Signing(t))
  BY DEF Reload, Signing
<1>2. <<>> \in Seq(Call) /\ Unserved(<<>>)
  BY EmptySeq DEF Unserved
<1>3. HeadsOnly' /\ ~Served(t)' /\ \A other \in Tabs \ {t} : SameHead(other)
  BY <1>1, <1>2, Replaced DEF PrivateInv
<1>4. CacheKeyed'
  BY <1>1 DEF PrivateInv, CacheKeyed
<1>5. ASSUME ~split'
      PROVE  ClearedSoon' /\ SigningAlone' /\ AnswersCurrent' /\ GatesCurrent'
  <2>1. ~split /\ ClearedSoon /\ AnswersCurrent /\ GatesCurrent
    BY <1>1, <1>5 DEF PrivateInv, Private
  <2>2. \A other \in Tabs : ~Signing(other)
    BY <1>1, <1>5, SigningChanges DEF ChangedElsewhere
  <2>3. \A other \in Tabs : ~Signing(other)'
    BY <1>3, <2>2, SameSigning DEF Signing
  <2>4. gate'[t] = jar /\ \A other \in Tabs \ {t} : gate'[other] = gate[other]
    BY <1>1 DEF QueuesTyped
  <2>5. ClearedSoon'
    BY <1>1, <2>1, <2>2 DEF ClearedSoon, Clean
  <2>6. AnswersCurrent'
    BY <1>1, <1>3, <2>1, AnswersStay
  <2>7. SigningAlone' /\ GatesCurrent'
    BY <1>1, <2>1, <2>2, <2>3, <2>4 DEF SigningAlone, GatesCurrent
  <2> QED
    BY <2>5, <2>6, <2>7
<1> QED
  BY <1>3, <1>4, <1>5 DEF PrivateInv, Private

LEMMA PrivateStep == RegisterInv /\ PrivateInv /\ [Next]_vars => PrivateInv'
<1> SUFFICES ASSUME RegisterInv, PrivateInv, [Next]_vars PROVE PrivateInv'
  OBVIOUS
<1>1. CASE UNCHANGED vars
  BY <1>1 DEF vars, browser, PrivateInv, HeadsOnly, CacheKeyed, Private, ClearedSoon, Clean,
    SigningAlone, AnswersCurrent, GatesCurrent, Signing, Served
<1>2. CASE Next
  BY <1>2, QueueingStep, LeavingStep, FetchStep, AccountStep, SignedInStep, RenderStep, ReloadStep
     DEF Next, RegisterInv
<1> QED
  BY <1>1, <1>2

\* Whatever two tabs queue, lose or reload: as long as the account is changed in
\* one tab whose page lives until its sign-in has cleared the cache, a signed-in
\* page shows no history but its user's (clearLocalCache, setSignedInGate).
THEOREM HistoryStaysPrivate == Spec => []NoBleed
<1>1. Spec => []RegisterInv
  BY InitRegister, RegisterStep, PTL DEF Spec
<1>2. RegisterInv /\ PrivateInv => NoBleed
  BY PrivateHolds DEF RegisterInv
<1> QED
  BY <1>1, <1>2, InitPrivate, PrivateStep, PTL DEF Spec

-----------------------------------------------------------------------------
(* Scores on their way.                                                     *)

\* A write carries one entry, and nothing is queued behind a sign-in.
WellFormed(queue) ==
  \A i \in 1..Len(queue) :
    /\ queue[i].op = "put" => \E e \in Entry : queue[i].rows = {e}
    /\ queue[i].op = "signIn" => i = Len(queue)
QueuesWell == \A t \in Tabs : WellFormed(calls[t])

\* The cookies, the pages and the cache are of one user w, but for a sign-in
\* whose code has not run yet.
SessionOf(w) ==
  /\ jar \in {w, None}
  /\ \A t \in Tabs : gate[t] \in {w, None} \/ Signing(t)
  /\ (\A k \in Keys : cache[k].owner \in {w, None}) \/ \E t \in Tabs : Signing(t)
OneSession == ~split => \E w \in Users \cup {None} : SessionOf(w)

RowCovers(u, s) == \E e \in rows["best"][u] : e.score >= s

\* A score is in the user's row, or in a write that will reach it or be refused.
Covered(u, s) == \/ RowCovers(u, s)
                 \/ jar \in {u, None} /\ \E e \in Pending("best") : e.score >= s

\* What a refresh was answered is no better than the row.
FetchesCovered ==
  \A t \in Tabs : Served(t) /\ Head(calls[t]).op = "fetch" /\ Head(calls[t]).key = "best" =>
    /\ Head(calls[t]).user \in Users
    /\ \A e \in Head(calls[t]).rows : RowCovers(Head(calls[t]).user, e.score)

Good == "best" \in Keys \ lost /\ ~split
CacheCovered ==
  Good => \A e \in cache["best"].rows :
            /\ e \in Entry /\ cache["best"].owner \in Users
            /\ Covered(cache["best"].owner, e.score)
RecordsCovered ==
  Good => \A u \in Users, s \in 1..MaxScore : s \in recorded[u] => Covered(u, s)

Covers == FetchesCovered /\ CacheCovered /\ RecordsCovered
CoverInv == QueuesWell /\ OneSession /\ Covers

-----------------------------------------------------------------------------
(* The shape of the queues.                                                 *)

LEMMA JoinWell ==
  ASSUME NEW queue \in Seq(Call), NEW new \in Seq(Call), WellFormed(queue), WellFormed(new),
         \A i \in 1..Len(queue) : queue[i].op # "signIn"
  PROVE  WellFormed(queue \o new)
<1> DEFINE both == queue \o new
<1>1. /\ both \in Seq(Call) /\ Len(both) = Len(queue) + Len(new)
      /\ \A i \in 1..Len(queue) + Len(new) :
           both[i] = IF i <= Len(queue) THEN queue[i] ELSE new[i - Len(queue)]
  BY ConcatProperties
<1>2. Len(queue) \in Nat /\ Len(new) \in Nat
  BY LenProperties
<1> HIDE DEF both
<1>3. ASSUME NEW i \in 1..Len(both)
      PROVE  /\ both[i].op = "put" => \E e \in Entry : both[i].rows = {e}
             /\ both[i].op = "signIn" => i = Len(both)
  <2>1. CASE i <= Len(queue)
    <3>1. i \in 1..Len(queue) /\ both[i] = queue[i]
      BY <1>1, <1>2, <1>3, <2>1
    <3> QED
      BY <3>1 DEF WellFormed
  <2>2. CASE i > Len(queue)
    <3>1. i - Len(queue) \in 1..Len(new) /\ both[i] = new[i - Len(queue)]
      BY <1>1, <1>2, <1>3, <2>2
    <3>2. both[i].op = "signIn" => i - Len(queue) = Len(new)
      BY <3>1 DEF WellFormed
    <3>3. both[i].op = "put" => \E e \in Entry : both[i].rows = {e}
      BY <3>1 DEF WellFormed
    <3> QED
      BY <1>1, <1>2, <1>3, <3>2, <3>3
  <2> QED
    BY <1>2, <2>1, <2>2
<1> QED
  BY <1>3 DEF WellFormed, both

LEMMA TailWell ==
  ASSUME NEW queue \in Seq(Call), WellFormed(queue), queue # <<>>
  PROVE  WellFormed(Tail(queue))
<1>1. /\ Tail(queue) \in Seq(Call) /\ Len(Tail(queue)) = Len(queue) - 1
      /\ \A i \in 1..Len(Tail(queue)) : Tail(queue)[i] = queue[i + 1]
  BY HeadTailProperties
<1>2. Len(queue) \in Nat
  BY LenProperties
<1>3. ASSUME NEW i \in 1..Len(Tail(queue))
      PROVE  /\ Tail(queue)[i].op = "put" => \E e \in Entry : Tail(queue)[i].rows = {e}
             /\ Tail(queue)[i].op = "signIn" => i = Len(Tail(queue))
  <2>1. i + 1 \in 1..Len(queue) /\ Tail(queue)[i] = queue[i + 1]
    BY <1>1, <1>2, <1>3
  <2>2. /\ queue[i + 1].op = "put" => \E e \in Entry : queue[i + 1].rows = {e}
        /\ queue[i + 1].op = "signIn" => i + 1 = Len(queue)
    BY <2>1 DEF WellFormed
  <2>3. queue[i + 1].op = "signIn" => i = Len(Tail(queue))
    <3>1. queue[i + 1].op = "signIn" => i + 1 = Len(queue)
      BY <2>2
    <3>2. i \in Nat /\ Len(Tail(queue)) = Len(queue) - 1
      BY <1>1, <1>2, <1>3
    <3>3. i + 1 = Len(queue) => i = Len(Tail(queue))
      <4> DEFINE n == Len(queue)
                 m == Len(Tail(queue))
      <4>1. i \in Nat /\ n \in Nat /\ m = n - 1
        BY <1>2, <3>2
      <4> HIDE DEF n, m
      <4>2. i + 1 = n => i = m
        BY <4>1
      <4> QED
        BY <4>2 DEF n, m
    <3> QED
      BY <3>1, <3>3
  <2> QED
    BY <2>1, <2>2, <2>3
<1> QED
  BY <1>3 DEF WellFormed

\* Serving the head changes neither what it is nor what a write carries.
LEMMA MarkWell ==
  ASSUME NEW queue \in Seq(Call), WellFormed(queue), queue # <<>>,
         NEW call \in Call, call.op = Head(queue).op, call.op # "put"
  PROVE  WellFormed([queue EXCEPT ![1] = call])
<1> DEFINE new == [queue EXCEPT ![1] = call]
<1>1. 1 \in 1..Len(queue) /\ Head(queue) = queue[1]
  BY HeadIsFirst
<1>2. /\ new \in Seq(Call) /\ Len(new) = Len(queue)
      /\ \A i \in 1..Len(queue) : new[i] = IF i = 1 THEN call ELSE queue[i]
  BY <1>1, ExceptSeq
<1> HIDE DEF new
<1>3. WellFormed(new)
  BY <1>1, <1>2 DEF WellFormed
<1> QED
  BY <1>3 DEF new

LEMMA AddedWell ==
  /\ \A ks \in SUBSET Keys, e \in Entry :
       WellFormed([i \in DOMAIN InOrder(ks) |-> Put(InOrder(ks)[i], e)])
  /\ WellFormed(Refreshes)
  /\ \A k \in Keys : WellFormed(<<Fetch(k)>>)
  /\ \A op, u : op # "put" => WellFormed(<<Account(op, u)>>)
  /\ WellFormed(<<>>)
<1>1. /\ \A k, e : Put(k, e).op = "put" /\ Put(k, e).rows = {e} /\ Put(k, e).key = k
      /\ \A k : Fetch(k).op = "fetch"
      /\ \A op, u : Account(op, u).op = op
  BY DEF Put, Fetch, Account
<1>2. ASSUME NEW ks \in SUBSET Keys
      PROVE  DOMAIN InOrder(ks) = 1..Len(InOrder(ks)) /\ Len(InOrder(ks)) \in Nat
  BY OrderTyped, LenProperties
<1>3. ASSUME NEW ks \in SUBSET Keys, NEW e \in Entry
      PROVE  WellFormed([i \in DOMAIN InOrder(ks) |-> Put(InOrder(ks)[i], e)])
  <2> DEFINE puts == [i \in DOMAIN InOrder(ks) |-> Put(InOrder(ks)[i], e)]
  <2>1. puts \in Seq(Call)
    BY PutsTyped
  <2>2. DOMAIN puts = DOMAIN InOrder(ks) /\ DOMAIN puts = 1..Len(puts)
    BY <2>1, LenProperties
  <2>3. \A i \in 1..Len(puts) : puts[i].op = "put" /\ puts[i].rows = {e}
    BY <1>1, <2>2
  <2> HIDE DEF puts
  <2>4. WellFormed(puts)
    BY <2>3 DEF WellFormed
  <2> QED
    BY <2>4 DEF puts
<1>4. WellFormed(Refreshes)
  <2>1. DOMAIN Refreshes = DOMAIN InOrder(Keys) /\ DOMAIN Refreshes = 1..Len(Refreshes)
    BY RefreshesTyped, LenProperties DEF Refreshes
  <2>2. \A i \in 1..Len(Refreshes) : Refreshes[i].op = "fetch"
    BY <1>1, <2>1 DEF Refreshes
  <2> QED
    BY <2>2 DEF WellFormed
<1>5. ASSUME NEW call, call.op # "put"
      PROVE  WellFormed(<<call>>)
  BY <1>5 DEF WellFormed
<1>6. WellFormed(<<>>)
  BY DEF WellFormed
<1> QED
  BY <1>1, <1>3, <1>4, <1>5, <1>6

\* A write for the cached best score is among those a page queues for it.
LEMMA BestIsPut ==
  ASSUME NEW ks \in SUBSET Keys, "best" \in ks
  PROVE  \E i \in 1..Len(InOrder(ks)) : InOrder(ks)[i] = "best"
<1> DEFINE first == Only("last", ks)
           both == first \o <<"best">>
           last == Only("hist", ks)
<1>1. first \in Seq(Keys) /\ <<"best">> \in Seq(Keys) /\ last \in Seq(Keys)
  <2>1. \A k \in AllKeys : Only(k, ks) \in Seq(Keys)
    BY DEF Only
  <2> QED
    BY <2>1 DEF AllKeys
<1>2. Len(first) \in Nat /\ Len(last) \in Nat /\ Len(<<"best">>) = 1 /\ <<"best">>[1] = "best"
  BY <1>1, LenProperties
<1> HIDE DEF first, last
<1>3. /\ both \in Seq(Keys) /\ Len(both) = Len(first) + 1
      /\ both[Len(first) + 1] = "best"
  BY <1>1, <1>2, ConcatProperties
<1>4. InOrder(ks) = both \o last
  BY DEF InOrder, Only, first, last
<1> HIDE DEF both
<1>5. Len(both \o last) = Len(both) + Len(last) /\ (both \o last)[Len(first) + 1] = both[Len(first) + 1]
  <2>1. /\ Len(both \o last) = Len(both) + Len(last)
        /\ \A i \in 1..Len(both) + Len(last) :
             (both \o last)[i] = IF i <= Len(both) THEN both[i] ELSE last[i - Len(both)]
    BY <1>1, <1>3, ConcatProperties
  <2> QED
    BY <1>2, <1>3, <2>1
<1>6. Len(first) + 1 \in 1..Len(both \o last)
  BY <1>2, <1>3, <1>5
<1> QED
  BY <1>3, <1>4, <1>5, <1>6

NoSignIn(t) == \A i \in 1..Len(calls[t]) : calls[t][i].op # "signIn"

\* What a page queues is unserved and well-formed, and behind no sign-in.
LEMMA PageQueues ==
  ASSUME QueuesTyped, NEW t \in Tabs,
         \/ StartPractice(t)
         \/ \E s \in 0..MaxScore : RecordResult(t, s)
         \/ \E k \in Keys : Read(t, k)
         \/ ChangeAccount(t)
  PROVE  /\ \E new \in Seq(Call) : Enqueue(t, new) /\ Unserved(new) /\ WellFormed(new)
         /\ NoSignIn(t)
         /\ UNCHANGED <<jar, gate, rows, lost, split>>
<1>0. Active(t) \/ ~Changing(t) => NoSignIn(t)
  <2>1. DOMAIN calls[t] = 1..Len(calls[t])
    BY LenProperties DEF QueuesTyped
  <2> QED
    BY <2>1 DEF Active, Changing, ChangesAccount, NoSignIn
<1>1. ASSUME NEW ks \in SUBSET Keys, NEW e \in Entry, Write(t, ks, e)
      PROVE  \E new \in Seq(Call) : Enqueue(t, new) /\ Unserved(new) /\ WellFormed(new)
  BY <1>1, PutsTyped, AddedUnserved, AddedWell DEF Write
<1>2. CASE StartPractice(t)
  <2> DEFINE e == [at |-> now + 1, score |-> 0]
  <2>1. e \in Entry /\ {"last"} \in SUBSET Keys
    BY <1>2, SyncAssumption DEF StartPractice, QueuesTyped, Entry
  <2> QED
    BY <1>0, <1>1, <1>2, <2>1 DEF StartPractice
<1>3. CASE \E s \in 0..MaxScore : RecordResult(t, s)
  <2>1. PICK s \in 0..MaxScore : RecordResult(t, s)
    BY <1>3
  <2> DEFINE e == [at |-> now + 1, score |-> s]
             ks == IF s = 0 \/ KnownBest(s) THEN {"hist"} ELSE {"best", "hist"}
  <2>2. e \in Entry /\ ks \in SUBSET Keys
    BY <2>1, SyncAssumption DEF RecordResult, QueuesTyped, Entry
  <2>3. Write(t, ks, e) /\ Active(t) /\ UNCHANGED <<jar, gate, rows, lost, split>>
    BY <2>1 DEF RecordResult
  <2> HIDE DEF e, ks
  <2> QED
    BY <1>0, <1>1, <2>2, <2>3
<1>4. CASE \E k \in Keys : Read(t, k)
  <2>1. PICK k \in Keys : Read(t, k)
    BY <1>4
  <2>2. <<Fetch(k)>> \in Seq(Call) /\ Unserved(<<Fetch(k)>>) /\ WellFormed(<<Fetch(k)>>)
    BY CallsMade, AddedUnserved, AddedWell
  <2> QED
    BY <1>0, <2>1, <2>2 DEF Read
<1>5. CASE ChangeAccount(t)
  <2>1. ASSUME NEW op \in {"signIn", "signOut"}, NEW u, Account(op, u) \in Call
        PROVE  /\ <<Account(op, u)>> \in Seq(Call)
               /\ Unserved(<<Account(op, u)>>) /\ WellFormed(<<Account(op, u)>>)
    <3>1. <<Account(op, u)>> \in Seq(Call)
      BY <2>1
    <3> QED
      BY <2>1, <3>1, AddedUnserved, AddedWell
  <2>2. \/ \E u \in Users : Enqueue(t, <<Account("signIn", u)>>)
        \/ Enqueue(t, <<Account("signOut", None)>>)
    BY <1>5 DEF ChangeAccount
  <2>3. \E new \in Seq(Call) : Enqueue(t, new) /\ Unserved(new) /\ WellFormed(new)
    <3>1. CASE \E u \in Users : Enqueue(t, <<Account("signIn", u)>>)
      <4>1. PICK u \in Users : Enqueue(t, <<Account("signIn", u)>>)
        BY <3>1
      <4> QED
        BY <2>1, <4>1, CallsMade
    <3>2. CASE Enqueue(t, <<Account("signOut", None)>>)
      BY <2>1, <3>2, CallsMade
    <3> QED
      BY <2>2, <3>1, <3>2
  <2> QED
    BY <1>0, <1>5, <2>3 DEF ChangeAccount
<1> QED
  BY <1>2, <1>3, <1>4, <1>5

\* What the answer of a fetch or of an account action leaves at the head.
LEMMA HeadServed ==
  ASSUME RegisterInv, NEW t \in Tabs, ServeFetch(t) \/ ServeAccount(t)
  PROVE  /\ calls[t] # <<>> /\ Head(calls[t]) \in Call
         /\ \E call \in Call :
              /\ call.served /\ call.op = Head(calls[t]).op /\ call.op # "put"
              /\ call.key = Head(calls[t]).key
              /\ calls' = [calls EXCEPT ![t] = [@ EXCEPT ![1] = call]]
              /\ ServeFetch(t) => call.user = jar /\ call.rows = Selected(call.key, jar)
              /\ ServeAccount(t) => call.user = Head(calls[t]).user
                                    /\ call.op \in {"signIn", "signOut"}
<1> USE DEF RegisterInv
<1> DEFINE head == Head(calls[t])
<1>1. calls[t] # <<>> /\ head \in Call /\ calls[t][1] = head
  BY DequeueTyped DEF ServeFetch, ServeAccount, Waiting
<1>2. CASE ServeFetch(t)
  <2> DEFINE call == [head EXCEPT !.user = jar, !.rows = Selected(head.key, jar), !.served = TRUE]
  <2>1. head.op = "fetch" /\ jar \in Users
    BY <1>2 DEF ServeFetch, QueuesTyped
  <2>2. head.key \in Keys
    BY <1>1, <2>1 DEF Call, Calls
  <2>3. Selected(head.key, jar) \in SUBSET Entry
    BY <2>1, <2>2, SelectedTyped
  <2>4. /\ call \in Call /\ call.op = "fetch" /\ call.user = jar /\ call.served
        /\ call.key = head.key /\ call.rows = Selected(head.key, jar)
    BY <1>1, <2>1, <2>2, <2>3 DEF Call, Calls
  <2>5. calls' = [calls EXCEPT ![t] = [@ EXCEPT ![1] = call]]
    BY <1>1, <1>2 DEF ServeFetch
  <2>6. ~ServeAccount(t)
    BY <2>1 DEF ServeAccount, ChangesAccount
  <2> HIDE DEF call
  <2> QED
    BY <1>1, <2>1, <2>4, <2>5, <2>6
<1>3. CASE ServeAccount(t)
  <2> DEFINE call == [head EXCEPT !.served = TRUE]
  <2>1. head.op \in {"signIn", "signOut"}
    BY <1>3 DEF ServeAccount, ChangesAccount
  <2>2. /\ call \in Call /\ call.op = head.op /\ call.user = head.user /\ call.served
        /\ call.key = head.key
    BY <1>1 DEF Call, Calls
  <2>3. calls' = [calls EXCEPT ![t] = [@ EXCEPT ![1] = call]]
    BY <1>1, <1>3 DEF ServeAccount
  <2>4. ~ServeFetch(t)
    BY <2>1 DEF ServeFetch
  <2> HIDE DEF call
  <2> QED
    BY <1>1, <2>1, <2>2, <2>3, <2>4
<1> QED
  BY <1>2, <1>3

\* Only an unserved head may be dropped, or one that has been answered.
LEMMA HeadLeaves ==
  ASSUME NEW t \in Tabs,
         ServePut(t) \/ Refuse(t) \/ AnswerFetch(t) \/ AnswerSignOut(t) \/ CallFails(t)
  PROVE  calls[t] # <<>> /\ Dequeue(t) /\ UNCHANGED <<jar, gate, split, recorded>>
BY DEF ServePut, Refuse, AnswerFetch, AnswerSignOut, CallFails, Waiting, Served

LEMMA WellStep ==
  ASSUME RegisterInv, QueuesWell, [Next]_vars
  PROVE  QueuesWell'
<1>0. \A t \in Tabs : calls[t] \in Seq(Call) /\ WellFormed(calls[t])
  BY DEF RegisterInv, QueuesTyped, QueuesWell
<1>1. ASSUME NEW t \in Tabs, NEW new, WellFormed(new), calls' = [calls EXCEPT ![t] = new]
      PROVE  QueuesWell'
  <2>1. \A other \in Tabs : calls'[other] = IF other = t THEN new ELSE calls[other]
    BY <1>1 DEF RegisterInv, QueuesTyped
  <2> QED
    BY <1>0, <1>1, <2>1 DEF QueuesWell
<1>2. ASSUME NEW t \in Tabs,
             \/ StartPractice(t)
             \/ \E s \in 0..MaxScore : RecordResult(t, s)
             \/ \E k \in Keys : Read(t, k)
             \/ ChangeAccount(t)
      PROVE  QueuesWell'
  <2>1. PICK new \in Seq(Call) : Enqueue(t, new) /\ WellFormed(new)
    BY <1>2, PageQueues DEF RegisterInv
  <2>2. NoSignIn(t)
    BY <1>2, PageQueues DEF RegisterInv
  <2>3. WellFormed(calls[t] \o new)
    BY <1>0, <2>1, <2>2, JoinWell DEF NoSignIn
  <2> QED
    BY <1>1, <2>1, <2>3 DEF Enqueue
<1>3. ASSUME NEW t \in Tabs, ServeFetch(t) \/ ServeAccount(t)
      PROVE  QueuesWell'
  <2>1. PICK call \in Call :
          /\ call.op = Head(calls[t]).op /\ call.op # "put"
          /\ calls' = [calls EXCEPT ![t] = [@ EXCEPT ![1] = call]]
    BY <1>3, HeadServed
  <2>2. WellFormed([calls[t] EXCEPT ![1] = call])
    BY <1>0, <1>3, <2>1, HeadServed, MarkWell
  <2> QED
    BY <1>1, <2>1, <2>2
<1>4. ASSUME NEW t \in Tabs,
             ServePut(t) \/ Refuse(t) \/ AnswerFetch(t) \/ AnswerSignOut(t) \/ CallFails(t)
      PROVE  QueuesWell'
  <2>1. calls[t] # <<>> /\ calls' = [calls EXCEPT ![t] = Tail(calls[t])]
    BY <1>4, HeadLeaves DEF Dequeue
  <2>2. WellFormed(Tail(calls[t]))
    BY <1>0, <2>1, TailWell
  <2> QED
    BY <1>1, <2>1, <2>2
<1>5. ASSUME NEW t \in Tabs, AnswerSignIn(t)
      PROVE  QueuesWell'
  <2>1. /\ calls[t] # <<>> /\ Head(calls[t]).op = "signIn"
        /\ calls' = [calls EXCEPT ![t] = Tail(calls[t]) \o Refreshes]
    BY <1>5 DEF AnswerSignIn, Served
  <2>2. Tail(calls[t]) \in Seq(Call) /\ Len(Tail(calls[t])) = Len(calls[t]) - 1
    BY <1>0, <2>1, HeadTailProperties
  <2>3. Len(calls[t]) = 1
    <3>1. 1 \in 1..Len(calls[t]) /\ calls[t][1].op = "signIn"
      BY <1>0, <2>1, HeadIsFirst
    <3> QED
      BY <1>0, <3>1 DEF WellFormed
  <2>4. \A i \in 1..Len(Tail(calls[t])) : Tail(calls[t])[i].op # "signIn"
    BY <2>2, <2>3
  <2>5. WellFormed(Tail(calls[t]))
    BY <1>0, <2>1, TailWell
  <2>6. WellFormed(Tail(calls[t]) \o Refreshes)
    BY <2>2, <2>4, <2>5, JoinWell, RefreshesTyped, AddedWell
  <2> QED
    BY <1>1, <2>1, <2>6
<1>6. ASSUME NEW t \in Tabs, Reload(t)
      PROVE  QueuesWell'
  BY <1>1, <1>6, AddedWell DEF Reload
<1>7. CASE UNCHANGED calls
  BY <1>7 DEF QueuesWell
<1>8. (\E t \in Tabs : Render(t)) \/ UNCHANGED vars => UNCHANGED calls
  BY DEF Render, vars, browser
<1> QED
  BY <1>2, <1>3, <1>4, <1>5, <1>6, <1>7, <1>8 DEF Next

-----------------------------------------------------------------------------
(* One session at a time.                                                   *)

\* A page that writes shows the user of the session.
LEMMA ActivePage ==
  ASSUME QueuesTyped, NEW t \in Tabs, NoSignIn(t)
  PROVE  ~Signing(t)
<1>1. ASSUME Signing(t) PROVE FALSE
  <2>1. calls[t] # <<>> /\ Head(calls[t]).op = "signIn" /\ calls[t] \in Seq(Call)
    BY <1>1 DEF Signing, Served, QueuesTyped
  <2> QED
    BY <2>1, HeadIsFirst DEF NoSignIn
<1> QED
  BY <1>1

\* A step that serves and answers no account action keeps the session, if what it
\* writes to the cache is of its user.
LEMMA SameSession ==
  ASSUME OneSession, UNCHANGED <<jar, gate, split>>,
         \A t \in Tabs : Signing(t)' <=> Signing(t),
         \A w \in Users \cup {None} : ~split /\ SessionOf(w) =>
           \A k \in Keys : cache'[k] = cache[k] \/ cache'[k].owner \in {w, None}
  PROVE  OneSession'
<1> SUFFICES ASSUME ~split' PROVE \E w \in Users \cup {None} : SessionOf(w)'
  BY DEF OneSession
<1>1. PICK w \in Users \cup {None} : SessionOf(w)
  BY DEF OneSession
<1>2. jar' \in {w, None} /\ \A t \in Tabs : gate'[t] \in {w, None} \/ Signing(t)'
  BY <1>1 DEF SessionOf
<1>3. CASE \E t \in Tabs : Signing(t)
  <2>1. \E t \in Tabs : Signing(t)'
    BY <1>3
  <2> QED
    BY <1>2, <2>1 DEF SessionOf
<1>4. CASE \A k \in Keys : cache[k].owner \in {w, None}
  <2>1. \A k \in Keys : cache'[k].owner \in {w, None}
    BY <1>1, <1>4
  <2> QED
    BY <1>2, <2>1 DEF SessionOf
<1> QED
  BY <1>1, <1>3, <1>4 DEF SessionOf

LEMMA SessionStep ==
  ASSUME RegisterInv, PrivateInv, OneSession, Next
  PROVE  OneSession'
<1>0. QueuesTyped /\ HeadsOnly /\ CacheKeyed /\ (~split => SigningAlone /\ AnswersCurrent)
  BY DEF RegisterInv, PrivateInv, Private
<1>1. ASSUME NEW t \in Tabs,
             \/ StartPractice(t)
             \/ \E s \in 0..MaxScore : RecordResult(t, s)
             \/ \E k \in Keys : Read(t, k)
             \/ ChangeAccount(t)
      PROVE  OneSession'
  <2>1. PICK new \in Seq(Call) : Enqueue(t, new) /\ Unserved(new)
    BY <1>0, <1>1, PageQueues
  <2>2. NoSignIn(t) /\ UNCHANGED <<jar, gate, split>>
    BY <1>0, <1>1, PageQueues
  <2>3. \A other \in Tabs : Signing(other)' <=> Signing(other)
    BY <1>0, <2>1, Appended, SameSigning
  <2>4. cache' = cache \/ (\A k \in Keys : cache'[k] = cache[k] \/ cache'[k].owner = gate[t])
    <3>1. ASSUME NEW ks, NEW e, Write(t, ks, e)
          PROVE  \A k \in Keys : cache'[k] = cache[k] \/ cache'[k].owner = gate[t]
      BY <3>1 DEF Write
    <3>2. UNCHANGED cache \/ (\E ks, e : Write(t, ks, e))
      BY <1>1 DEF StartPractice, RecordResult, Read, ChangeAccount
    <3> QED
      BY <3>1, <3>2
  <2>5. ASSUME NEW w \in Users \cup {None}, ~split, SessionOf(w)
        PROVE  \A k \in Keys : cache'[k] = cache[k] \/ cache'[k].owner \in {w, None}
    <3>1. ~Signing(t)
      BY <1>0, <2>2, ActivePage
    <3>2. gate[t] \in {w, None}
      BY <2>5, <3>1 DEF SessionOf
    <3> QED
      BY <2>4, <3>2
  <2> QED
    BY <2>2, <2>3, <2>5, SameSession
<1>2. ASSUME NEW t \in Tabs,
             ServePut(t) \/ Refuse(t) \/ AnswerFetch(t) \/ AnswerSignOut(t) \/ CallFails(t)
      PROVE  OneSession'
  <2> DEFINE head == Head(calls[t])
  <2>1. calls[t] # <<>> /\ Dequeue(t) /\ UNCHANGED <<jar, gate, split>>
    BY <1>2, HeadLeaves
  <2>2. ~Served(t)' /\ \A other \in Tabs \ {t} : SameHead(other)
    BY <1>0, <2>1, Dropped
  <2>3. ~Signing(t) /\ ~Signing(t)'
    BY <1>2, <2>2 DEF ServePut, Refuse, AnswerFetch, AnswerSignOut, CallFails, Waiting, Served, Signing
  <2>4. \A other \in Tabs : Signing(other)' <=> Signing(other)
    BY <2>2, <2>3, SameSigning
  <2>5. ASSUME NEW w \in Users \cup {None}, ~split, SessionOf(w)
        PROVE  \A k \in Keys : cache'[k] = cache[k] \/ cache'[k].owner \in {w, None}
    <3>1. CASE ServePut(t) \/ Refuse(t) \/ CallFails(t)
      BY <3>1 DEF ServePut, Refuse, CallFails
    <3>2. CASE AnswerFetch(t)
      <4>1. /\ Served(t) /\ head.op = "fetch"
            /\ cache' = [cache EXCEPT ![head.key] = [owner |-> head.user, rows |-> head.rows]]
        BY <3>2 DEF AnswerFetch
      <4>2. head.user \in {w, None}
        BY <1>0, <2>5, <4>1 DEF AnswersCurrent, SessionOf
      <4> QED
        BY <1>0, <4>1, <4>2 DEF CacheKeyed
    <3>3. CASE AnswerSignOut(t)
      BY <3>3 DEF AnswerSignOut, Cleared, Empty
    <3> QED
      BY <1>2, <3>1, <3>2, <3>3
  <2> QED
    BY <2>1, <2>4, <2>5, SameSession
<1>3. ASSUME NEW t \in Tabs, ServeFetch(t)
      PROVE  OneSession'
  <2>1. PICK call \in Call :
          /\ call.served /\ call.op = Head(calls[t]).op
          /\ calls' = [calls EXCEPT ![t] = [@ EXCEPT ![1] = call]]
    BY <1>3, HeadServed
  <2>2. calls[t] # <<>> /\ call.op = "fetch" /\ ~Served(t) /\ UNCHANGED <<jar, gate, cache, split>>
    BY <1>3, <2>1 DEF ServeFetch, Waiting, Served
  <2>3. Head(calls'[t]) = call /\ \A other \in Tabs \ {t} : SameHead(other)
    BY <1>0, <2>1, <2>2, Marked
  <2>4. \A other \in Tabs : Signing(other)' <=> Signing(other)
    BY <2>2, <2>3, SameSigning DEF Signing
  <2> QED
    BY <2>2, <2>4, SameSession
<1>4. ASSUME NEW t \in Tabs, ServeAccount(t)
      PROVE  OneSession'
  <2> SUFFICES ASSUME ~split' PROVE \E w \in Users \cup {None} : SessionOf(w)'
    BY DEF OneSession
  <2>1. PICK call \in Call :
          /\ call.served /\ call.op = Head(calls[t]).op
          /\ calls' = [calls EXCEPT ![t] = [@ EXCEPT ![1] = call]]
          /\ call.user = Head(calls[t]).user /\ call.op \in {"signIn", "signOut"}
    BY <1>4, HeadServed
  <2>2. /\ calls[t] # <<>> /\ ~Served(t) /\ jar' = call.user /\ UNCHANGED <<gate, cache>> /\ ~split
        /\ \A other \in Tabs \ {t} : gate[other] = None /\ calls[other] = <<>>
    BY <1>4, <2>1 DEF ServeAccount, Waiting, Served
  <2>3. Served(t)' /\ Head(calls'[t]) = call
    BY <1>0, <2>1, <2>2, Marked
  <2>4. CASE call.op = "signIn"
    <3>1. call.user \in Users /\ Signing(t)'
      BY <2>3, <2>4 DEF Call, Calls, Signing
    <3>2. SessionOf(call.user)'
      BY <2>2, <3>1 DEF SessionOf
    <3> QED
      BY <3>1, <3>2
  <2>5. CASE call.op = "signOut"
    <3>1. call.user = None
      BY <2>5 DEF Call, Calls
    <3>2. \A other \in Tabs : ~Signing(other)
      BY <2>2 DEF Signing, Served
    <3>3. PICK w \in Users \cup {None} : SessionOf(w)
      BY <2>2 DEF OneSession
    <3>4. SessionOf(w)'
      BY <2>2, <3>1, <3>2, <3>3 DEF SessionOf
    <3> QED
      BY <3>4
  <2> QED
    BY <2>1, <2>4, <2>5
<1>5. ASSUME NEW t \in Tabs, AnswerSignIn(t)
      PROVE  OneSession'
  <2> SUFFICES ASSUME ~split' PROVE \E w \in Users \cup {None} : SessionOf(w)'
    BY DEF OneSession
  <2>1. /\ Signing(t) /\ Served(t) /\ Head(calls[t]).op = "signIn" /\ cache' = Cleared
        /\ gate' = [gate EXCEPT ![t] = Head(calls[t]).user] /\ UNCHANGED <<jar, split>>
    BY <1>5 DEF AnswerSignIn, SignedIn, Signing
  <2>2. Head(calls[t]).user = jar /\ jar \in Users \cup {None}
        /\ \A other \in Tabs \ {t} : gate[other] = None
    BY <1>0, <2>1 DEF AnswersCurrent, SigningAlone, QueuesTyped
  <2>3. \A other \in Tabs : gate'[other] \in {jar, None}
    BY <1>0, <2>1, <2>2 DEF QueuesTyped
  <2>4. \A k \in Keys : cache'[k].owner = None
    BY <2>1 DEF Cleared, Empty
  <2>5. SessionOf(jar)'
    BY <2>1, <2>3, <2>4 DEF SessionOf
  <2> QED
    BY <2>1, <2>2, <2>5
<1>6. ASSUME NEW t \in Tabs, Render(t) \/ Reload(t)
      PROVE  OneSession'
  <2> SUFFICES ASSUME ~split' PROVE \E w \in Users \cup {None} : SessionOf(w)'
    BY DEF OneSession
  <2>1. ~split /\ UNCHANGED <<jar, cache>> /\ gate' = [gate EXCEPT ![t] = jar]
    BY <1>6 DEF Render, Reload
  <2>2. PICK w \in Users \cup {None} : SessionOf(w)
    BY <2>1 DEF OneSession
  <2>3. gate'[t] = jar /\ \A other \in Tabs \ {t} : gate'[other] = gate[other]
    BY <1>0, <2>1 DEF QueuesTyped
  <2>4. CASE Render(t)
    <3>1. calls' = calls
      BY <2>4 DEF Render
    <3>2. \A other \in Tabs : Signing(other)' <=> Signing(other)
      BY <3>1 DEF Signing, Served
    <3>3. SessionOf(w)'
      BY <2>1, <2>2, <2>3, <3>2 DEF SessionOf
    <3> QED
      BY <3>3
  <2>5. CASE Reload(t)
    <3>1. \A other \in Tabs : ~Signing(other)
      BY <1>0, <2>5, SigningChanges DEF Reload, ChangedElsewhere, Signing
    <3>2. SessionOf(w)'
      BY <2>1, <2>2, <2>3, <3>1 DEF SessionOf
    <3> QED
      BY <3>2
  <2> QED
    BY <1>6, <2>4, <2>5
<1> QED
  BY <1>1, <1>2, <1>3, <1>4, <1>5, <1>6 DEF Next

-----------------------------------------------------------------------------
(* What the queues carry to the row of a best score.                        *)

BestPut(call, e) == call.op = "put" /\ call.key = "best" /\ e \in call.rows
Carries(queue, e) == \E i \in 1..Len(queue) : BestPut(queue[i], e)

LEMMA PendingCarried ==
  ASSUME NEW e
  PROVE  /\ QueuesTyped => (e \in Pending("best") <=> \E t \in Tabs : Carries(calls[t], e))
         /\ QueuesTyped' => (e \in Pending("best")' <=> \E t \in Tabs : Carries(calls'[t], e))
<1>1. ASSUME NEW q \in [Tabs -> Seq(Call)], NEW t \in Tabs
      PROVE  DOMAIN q[t] = 1..Len(q[t])
  BY LenProperties
<1>2. QueuesTyped => (e \in Pending("best") <=> \E t \in Tabs : Carries(calls[t], e))
  BY <1>1 DEF QueuesTyped, Pending, PendingOf, Carries, BestPut
<1>3. QueuesTyped' => (e \in Pending("best")' <=> \E t \in Tabs : Carries(calls'[t], e))
  BY <1>1 DEF QueuesTyped, Pending, PendingOf, Carries, BestPut
<1> QED
  BY <1>2, <1>3

LEMMA JoinCarries ==
  ASSUME NEW queue \in Seq(Call), NEW new \in Seq(Call), NEW e,
         Carries(queue, e) \/ Carries(new, e)
  PROVE  Carries(queue \o new, e)
<1> DEFINE both == queue \o new
<1>1. /\ both \in Seq(Call) /\ Len(both) = Len(queue) + Len(new)
      /\ \A i \in 1..Len(queue) + Len(new) :
           both[i] = IF i <= Len(queue) THEN queue[i] ELSE new[i - Len(queue)]
  BY ConcatProperties
<1>2. Len(queue) \in Nat /\ Len(new) \in Nat
  BY LenProperties
<1> HIDE DEF both
<1>3. CASE Carries(queue, e)
  <2>1. PICK i \in 1..Len(queue) : BestPut(queue[i], e)
    BY <1>3 DEF Carries
  <2>2. i \in 1..Len(both) /\ both[i] = queue[i]
    BY <1>1, <1>2, <2>1
  <2> QED
    BY <2>1, <2>2 DEF Carries, both
<1>4. CASE Carries(new, e)
  <2>1. PICK i \in 1..Len(new) : BestPut(new[i], e)
    BY <1>4 DEF Carries
  <2>2. Len(queue) + i \in 1..Len(both) /\ both[Len(queue) + i] = new[i]
    BY <1>1, <1>2, <2>1
  <2> QED
    BY <2>1, <2>2 DEF Carries, both
<1> QED
  BY <1>3, <1>4

LEMMA TailCarries ==
  ASSUME NEW queue \in Seq(Call), NEW e, Carries(queue, e)
  PROVE  queue # <<>> /\ (Carries(Tail(queue), e) \/ BestPut(Head(queue), e))
<1>1. PICK i \in 1..Len(queue) : BestPut(queue[i], e)
  BY DEF Carries
<1>2. Len(queue) \in Nat
  BY LenProperties
<1>3. queue # <<>>
  BY <1>1, <1>2, EmptySeq
<1>4. /\ Tail(queue) \in Seq(Call) /\ Len(Tail(queue)) = Len(queue) - 1
      /\ \A j \in 1..Len(Tail(queue)) : Tail(queue)[j] = queue[j + 1]
  BY <1>3, HeadTailProperties
<1>5. CASE i = 1
  BY <1>1, <1>3, <1>5, HeadIsFirst
<1>6. CASE i # 1
  <2> DEFINE tail == Tail(queue)
  <2>1. i - 1 \in 1..Len(tail) /\ (i - 1) + 1 = i
    BY <1>1, <1>2, <1>4, <1>6
  <2>2. tail[i - 1] = queue[i]
    BY <1>4, <2>1
  <2> HIDE DEF tail
  <2>3. Carries(tail, e)
    BY <1>1, <2>1, <2>2 DEF Carries
  <2> QED
    BY <1>3, <2>3 DEF tail
<1> QED
  BY <1>5, <1>6

LEMMA MarkCarries ==
  ASSUME NEW queue \in Seq(Call), queue # <<>>, NEW call, Head(queue).op # "put",
         NEW e, Carries(queue, e)
  PROVE  Carries([queue EXCEPT ![1] = call], e)
<1> DEFINE new == [queue EXCEPT ![1] = call]
<1>1. PICK i \in 1..Len(queue) : BestPut(queue[i], e)
  BY DEF Carries
<1>2. Head(queue) = queue[1] /\ Len(queue) \in Nat /\ DOMAIN queue = 1..Len(queue)
  BY HeadIsFirst, LenProperties
<1>3. i # 1
  BY <1>1, <1>2 DEF BestPut
<1>4. Len(new) = Len(queue) /\ new[i] = queue[i]
  BY <1>1, <1>2, <1>3
<1> HIDE DEF new
<1>5. Carries(new, e)
  BY <1>1, <1>4 DEF Carries
<1> QED
  BY <1>5 DEF new

\* A write that waits goes on waiting, is served, or is lost.
LEMMA PendingStays ==
  ASSUME RegisterInv, QueuesTyped', Next, "best" \notin lost', NEW e \in Pending("best")
  PROVE  e \in Pending("best")' \/ \E t \in Tabs : ServePut(t) /\ BestPut(Head(calls[t]), e)
<1>1. PICK at \in Tabs : Carries(calls[at], e)
  BY PendingCarried DEF RegisterInv
<1>2. \A t \in Tabs : calls[t] \in Seq(Call)
  BY DEF RegisterInv, QueuesTyped
<1>3. ASSUME NEW t \in Tabs, NEW new, calls' = [calls EXCEPT ![t] = new],
             Carries(calls[t], e) => Carries(new, e)
      PROVE  e \in Pending("best")'
  <2>1. calls'[at] = IF at = t THEN new ELSE calls[at]
    BY <1>3 DEF RegisterInv, QueuesTyped
  <2>2. Carries(calls'[at], e)
    BY <1>1, <1>3, <2>1
  <2> QED
    BY <2>2, PendingCarried
<1>4. ASSUME NEW t \in Tabs,
             \/ StartPractice(t)
             \/ \E s \in 0..MaxScore : RecordResult(t, s)
             \/ \E k \in Keys : Read(t, k)
             \/ ChangeAccount(t)
      PROVE  e \in Pending("best")'
  <2>1. PICK new \in Seq(Call) : Enqueue(t, new)
    BY <1>4, PageQueues DEF RegisterInv
  <2>2. Carries(calls[t], e) => Carries(calls[t] \o new, e)
    BY <1>2, JoinCarries
  <2> QED
    BY <1>3, <2>1, <2>2 DEF Enqueue
<1>5. ASSUME NEW t \in Tabs, ServeFetch(t) \/ ServeAccount(t)
      PROVE  e \in Pending("best")'
  <2>1. PICK call \in Call : /\ call.op = Head(calls[t]).op /\ call.op # "put"
                             /\ calls' = [calls EXCEPT ![t] = [@ EXCEPT ![1] = call]]
    BY <1>5, HeadServed
  <2>2. calls[t] # <<>>
    BY <1>5, HeadServed
  <2>3. Carries(calls[t], e) => Carries([calls[t] EXCEPT ![1] = call], e)
    BY <1>2, <2>1, <2>2, MarkCarries
  <2> QED
    BY <1>3, <2>1, <2>3
<1>6. ASSUME NEW t \in Tabs,
             ServePut(t) \/ Refuse(t) \/ AnswerFetch(t) \/ AnswerSignOut(t) \/ CallFails(t)
      PROVE  e \in Pending("best")' \/ (ServePut(t) /\ BestPut(Head(calls[t]), e))
  <2>1. calls[t] # <<>> /\ calls' = [calls EXCEPT ![t] = Tail(calls[t])]
    BY <1>6, HeadLeaves DEF Dequeue
  <2>2. CASE BestPut(Head(calls[t]), e)
    <3>1. ServePut(t)
      BY <1>6, <2>2 DEF BestPut, Refuse, AnswerFetch, AnswerSignOut, CallFails
    <3> QED
      BY <2>2, <3>1
  <2>3. CASE ~BestPut(Head(calls[t]), e)
    <3>1. Carries(calls[t], e) => Carries(Tail(calls[t]), e)
      BY <1>2, <2>3, TailCarries
    <3> QED
      BY <1>3, <2>1, <3>1
  <2> QED
    BY <2>2, <2>3
<1>7. ASSUME NEW t \in Tabs, AnswerSignIn(t)
      PROVE  e \in Pending("best")'
  <2>1. /\ calls[t] # <<>> /\ Head(calls[t]).op = "signIn"
        /\ calls' = [calls EXCEPT ![t] = Tail(calls[t]) \o Refreshes]
    BY <1>7 DEF AnswerSignIn, Served
  <2>2. Tail(calls[t]) \in Seq(Call)
    BY <1>2, <2>1, HeadTailProperties
  <2>3. Carries(calls[t], e) => Carries(Tail(calls[t]), e)
    BY <1>2, <2>1, TailCarries DEF BestPut
  <2>4. Carries(calls[t], e) => Carries(Tail(calls[t]) \o Refreshes, e)
    BY <2>2, <2>3, JoinCarries, RefreshesTyped
  <2> QED
    BY <1>3, <2>1, <2>4
<1>8. ASSUME NEW t \in Tabs, Reload(t)
      PROVE  e \in Pending("best")'
  <2>1. DOMAIN calls[t] = 1..Len(calls[t])
    BY <1>2, LenProperties
  <2>2. Carries(calls[t], e) => "best" \in PutsOf(t)
    BY <2>1 DEF Carries, BestPut, PutsOf
  <2>3. ~Carries(calls[t], e)
    BY <1>8, <2>2 DEF Reload
  <2> QED
    BY <1>3, <1>8, <2>3 DEF Reload
<1>9. ASSUME NEW t \in Tabs, Render(t)
      PROVE  e \in Pending("best")'
  BY <1>1, <1>9, PendingCarried DEF Render
<1> QED
  BY <1>4, <1>5, <1>6, <1>7, <1>8, <1>9 DEF Next

LEMMA RowWritten ==
  ASSUME RegisterInv, "best" \in Keys, NEW t \in Tabs, ServePut(t)
  PROVE  /\ jar \in Users /\ Head(calls[t]) \in Call /\ Head(calls[t]).op = "put"
         /\ \E e \in Head(calls[t]).rows :
              /\ e \in Entry
              /\ \A u \in Users :
                   rows'["best"][u] = IF Head(calls[t]).key = "best" /\ u = jar
                                      THEN UpsertBestScore(rows["best"][u], e) ELSE rows["best"][u]
<1> DEFINE call == Head(calls[t])
<1>1. call \in Call /\ call.op = "put" /\ jar \in Users
  BY DequeueTyped DEF RegisterInv, QueuesTyped, ServePut, Waiting
<1>2. call.key \in Keys /\ call.rows \subseteq Entry
  BY <1>1 DEF Call, Calls
<1>3. PICK e \in call.rows : rows' = [rows EXCEPT ![call.key][jar] = Upserted(call.key, @, e)]
  BY DEF ServePut
<1> HIDE DEF call
<1>4. ASSUME NEW u \in Users
      PROVE  rows'["best"][u] = IF call.key = "best" /\ u = jar
                                THEN UpsertBestScore(rows["best"][u], e) ELSE rows["best"][u]
  <2>1. CASE call.key = "best"
    BY <1>1, <1>3, <2>1 DEF RegisterInv, OneBest, Upserted
  <2>2. CASE call.key # "best"
    BY <1>1, <1>2, <1>3, <2>2 DEF RegisterInv, OneBest
  <2> QED
    BY <2>1, <2>2
<1> QED
  BY <1>1, <1>2, <1>3, <1>4 DEF call

LEMMA RowMonotone ==
  ASSUME RegisterInv, "best" \in Keys, NEW u \in Users, NEW s \in 0..MaxScore,
         NEW higher \in 0..MaxScore, higher >= s
  PROVE  /\ RowCovers(u, higher) => RowCovers(u, s)
         /\ Covered(u, higher) => Covered(u, s)
<1>1. \A e \in Entry : e.score \in 0..MaxScore
  BY DEF Entry
<1>2. \A e \in Entry : e.score >= higher => e.score >= s
  BY <1>1, SyncAssumption
<1>3. rows["best"][u] \subseteq Entry
  BY DEF RegisterInv, OneBest
<1>4. \A e \in Pending("best") : e \in Entry
  <2>1. ASSUME NEW e \in Pending("best") PROVE e \in Entry
    <3>1. PICK t \in Tabs : Carries(calls[t], e)
      BY PendingCarried DEF RegisterInv
    <3>2. PICK i \in 1..Len(calls[t]) : BestPut(calls[t][i], e)
      BY <3>1 DEF Carries
    <3>3. calls[t][i] \in Call
      BY <3>2, ElementOfSeq DEF RegisterInv, QueuesTyped
    <3> QED
      BY <3>2, <3>3 DEF BestPut, Call, Calls
  <2> QED
    BY <2>1
<1> QED
  BY <1>2, <1>3, <1>4 DEF RowCovers, Covered

\* A row never falls.
LEMMA RowsRise ==
  ASSUME RegisterInv, "best" \in Keys, Next, NEW u \in Users, NEW s \in 0..MaxScore, RowCovers(u, s)
  PROVE  RowCovers(u, s)'
<1>1. CASE rows' = rows
  BY <1>1 DEF RowCovers
<1>2. ASSUME NEW t \in Tabs, ServePut(t) PROVE RowCovers(u, s)'
  <2>1. PICK e \in Entry :
          rows'["best"][u] = IF Head(calls[t]).key = "best" /\ u = jar
                             THEN UpsertBestScore(rows["best"][u], e) ELSE rows["best"][u]
    BY <1>2, RowWritten
  <2>2. PICK f \in rows["best"][u] : f.score >= s
    BY DEF RowCovers
  <2>3. f \in Entry /\ f.score \in 0..MaxScore /\ e.score \in 0..MaxScore
    BY <2>1, <2>2 DEF RegisterInv, OneBest, Entry
  <2>4. CASE \E g \in rows["best"][u] : g.score >= e.score
    BY <2>1, <2>2, <2>4 DEF UpsertBestScore, RowCovers
  <2>5. CASE ~\E g \in rows["best"][u] : g.score >= e.score
    <3>1. ~(f.score >= e.score)
      BY <2>2, <2>5
    <3>2. e.score >= s
      BY <2>2, <2>3, <3>1, SyncAssumption
    <3>3. rows'["best"][u] = rows["best"][u] \/ rows'["best"][u] = {e}
      BY <2>1, <2>5 DEF UpsertBestScore
    <3> QED
      BY <2>2, <3>2, <3>3 DEF RowCovers
  <2> QED
    BY <2>4, <2>5
<1>3. rows' = rows \/ \E t \in Tabs : ServePut(t)
  BY DEF Next, StartPractice, RecordResult, Read, ChangeAccount, Render, ServeFetch,
    Refuse, ServeAccount, AnswerFetch, AnswerSignIn, AnswerSignOut, CallFails, Reload
<1> QED
  BY <1>1, <1>2, <1>3

LEMMA PutCovers ==
  ASSUME RegisterInv, QueuesWell, "best" \in Keys, NEW t \in Tabs, ServePut(t),
         NEW e, BestPut(Head(calls[t]), e)
  PROVE  e \in Entry /\ jar \in Users /\ RowCovers(jar, e.score)'
<1>1. PICK f \in Head(calls[t]).rows :
        /\ f \in Entry
        /\ \A u \in Users :
             rows'["best"][u] = IF Head(calls[t]).key = "best" /\ u = jar
                                THEN UpsertBestScore(rows["best"][u], f) ELSE rows["best"][u]
  BY RowWritten
<1>2. jar \in Users /\ Head(calls[t]).op = "put" /\ calls[t] # <<>> /\ calls[t] \in Seq(Call)
  BY RowWritten DEF ServePut, Waiting, RegisterInv, QueuesTyped
<1>3. \E g : Head(calls[t]).rows = {g}
  <2>1. 1 \in 1..Len(calls[t]) /\ Head(calls[t]) = calls[t][1]
    BY <1>2, HeadIsFirst
  <2> QED
    BY <1>2, <2>1 DEF QueuesWell, WellFormed
<1>4. e = f
  BY <1>1, <1>3 DEF BestPut
<1>5. rows'["best"][jar] = UpsertBestScore(rows["best"][jar], e)
  BY <1>1, <1>2, <1>4 DEF BestPut
<1>6. e.score \in 0..MaxScore /\ e.score >= e.score
  BY <1>1, <1>4, SyncAssumption DEF Entry
<1>7. \E g \in rows'["best"][jar] : g.score >= e.score
  BY <1>5, <1>6 DEF UpsertBestScore
<1>8. jar' = jar
  BY DEF ServePut
<1> QED
  BY <1>1, <1>2, <1>4, <1>7, <1>8 DEF RowCovers

-----------------------------------------------------------------------------
(* What is covered stays covered.                                           *)

LEMMA CoveredStays ==
  ASSUME RegisterInv, QueuesTyped', QueuesWell, Next, "best" \in Keys \ lost', ~split',
         NEW u \in Users, NEW s \in 0..MaxScore, Covered(u, s)
  PROVE  Covered(u, s)'
<1>1. CASE RowCovers(u, s)
  BY <1>1, RowsRise DEF Covered
<1>2. ASSUME jar \in {u, None}, NEW e \in Pending("best"), e.score >= s
      PROVE  Covered(u, s)'
  <2>1. ASSUME NEW t \in Tabs, ServePut(t), BestPut(Head(calls[t]), e)
        PROVE  Covered(u, s)'
    <3>1. e \in Entry /\ jar \in Users /\ RowCovers(jar, e.score)'
      BY <2>1, PutCovers
    <3>2. jar = u
      BY <1>2, <3>1, SyncAssumption
    <3>3. RowCovers(u, e.score)' /\ e.score \in 0..MaxScore
      <4>1. jar' = jar
        BY <2>1 DEF ServePut
      <4> QED
        BY <3>1, <3>2, <4>1 DEF Entry, RowCovers
    <3>4. PICK f \in rows'["best"][u] : f.score >= e.score
      BY <3>3 DEF RowCovers
    <3>5. f.score \in 0..MaxScore
      <4>1. OneBest'
        BY <2>1, PutKeepsRows
      <4> QED
        BY <3>4, <4>1 DEF OneBest, Entry
    <3>6. f.score >= s
      BY <1>2, <3>3, <3>4, <3>5, SyncAssumption
    <3> QED
      BY <3>4, <3>6 DEF Covered, RowCovers
  <2>2. ASSUME e \in Pending("best")'
        PROVE  Covered(u, s)'
    <3>1. jar' \in {u, None}
      <4>1. CASE jar' = jar
        BY <1>2, <4>1
      <4>2. ASSUME NEW t \in Tabs, ServeAccount(t) PROVE jar' = None
        <5>1. PICK at \in Tabs : Carries(calls[at], e)
          BY <1>2, PendingCarried DEF RegisterInv
        <5>2. calls[at] # <<>> /\ calls[at] \in Seq(Call)
          BY <5>1, TailCarries DEF RegisterInv, QueuesTyped
        <5>3. at = t
          BY <4>2, <5>2 DEF ServeAccount
        <5>4. PICK i \in 1..Len(calls[t]) : BestPut(calls[t][i], e)
          BY <5>1, <5>3 DEF Carries
        <5>5. Head(calls[t]) \in Call /\ Head(calls[t]).op \in {"signIn", "signOut"}
              /\ jar' = Head(calls[t]).user
          BY <4>2, HeadServed DEF ServeAccount, ChangesAccount
        <5>6. Head(calls[t]) = calls[t][1] /\ Len(calls[t]) \in Nat
          BY <5>2, <5>3, HeadIsFirst, LenProperties
        <5>7. i # 1
          BY <5>4, <5>5, <5>6 DEF BestPut
        <5>8. 1 \in 1..Len(calls[t]) /\ 1 # Len(calls[t])
          BY <5>4, <5>6, <5>7
        <5>9. Head(calls[t]).op # "signIn"
          BY <5>6, <5>8 DEF QueuesWell, WellFormed
        <5> QED
          BY <5>5, <5>9 DEF Call, Calls
      <4>3. jar' = jar \/ \E t \in Tabs : ServeAccount(t)
        BY DEF Next, StartPractice, RecordResult, Read, ChangeAccount, Render, ServeFetch,
          ServePut, Refuse, AnswerFetch, AnswerSignIn, AnswerSignOut, CallFails, Reload
      <4> QED
        BY <4>1, <4>2, <4>3
    <3> QED
      BY <1>2, <2>2, <3>1 DEF Covered
  <2> QED
    BY <2>1, <2>2, PendingStays
<1> QED
  BY <1>1, <1>2 DEF Covered

\* Which heads a step leaves served.
LEMMA HeadsKept ==
  ASSUME RegisterInv, HeadsOnly, Next, NEW t \in Tabs, Served(t)'
  PROVE  SameHead(t) \/ ServeFetch(t) \/ ServeAccount(t)
<1>0. QueuesTyped
  BY DEF RegisterInv
<1>1. ASSUME NEW at \in Tabs,
             \/ StartPractice(at)
             \/ \E s \in 0..MaxScore : RecordResult(at, s)
             \/ \E k \in Keys : Read(at, k)
             \/ ChangeAccount(at)
      PROVE  SameHead(t)
  BY <1>0, <1>1, PageQueues, Appended
<1>2. ASSUME NEW at \in Tabs,
             ServePut(at) \/ Refuse(at) \/ AnswerFetch(at) \/ AnswerSignOut(at) \/ CallFails(at)
      PROVE  SameHead(t)
  BY <1>0, <1>2, HeadLeaves, Dropped
<1>3. ASSUME NEW at \in Tabs, ServeFetch(at) \/ ServeAccount(at)
      PROVE  SameHead(t) \/ ServeFetch(t) \/ ServeAccount(t)
  <2>1. PICK call \in Call :
          call.served /\ calls' = [calls EXCEPT ![at] = [@ EXCEPT ![1] = call]]
    BY <1>3, HeadServed
  <2>2. calls[at] # <<>>
    BY <1>3, HeadServed
  <2> QED
    BY <1>0, <1>3, <2>1, <2>2, Marked
<1>4. ASSUME NEW at \in Tabs, AnswerSignIn(at)
      PROVE  SameHead(t)
  <2>1. /\ calls[at] # <<>> /\ calls' = [calls EXCEPT ![at] = Tail(calls[at]) \o Refreshes]
    BY <1>4 DEF AnswerSignIn, Served
  <2>2. Tail(calls[at]) \in Seq(Call) /\ Unserved(Tail(calls[at]))
    BY <1>0, <2>1, TailUnserved DEF QueuesTyped, HeadsOnly
  <2>3. Tail(calls[at]) \o Refreshes \in Seq(Call) /\ Unserved(Tail(calls[at]) \o Refreshes)
    BY <2>2, RefreshesTyped, AddedUnserved, UnservedJoin, ConcatProperties
  <2> QED
    BY <1>0, <2>1, <2>3, Replaced
<1>5. ASSUME NEW at \in Tabs, Reload(at)
      PROVE  SameHead(t)
  <2>1. <<>> \in Seq(Call) /\ Unserved(<<>>)
    BY EmptySeq DEF Unserved
  <2> QED
    BY <1>0, <1>5, <2>1, Replaced DEF Reload
<1>6. ASSUME NEW at \in Tabs, Render(at)
      PROVE  SameHead(t)
  BY <1>6, UntouchedSame DEF Render
<1> QED
  BY <1>1, <1>2, <1>3, <1>4, <1>5, <1>6 DEF Next

LEMMA FetchesStep ==
  ASSUME RegisterInv, QueuesTyped', HeadsOnly, FetchesCovered, Next
  PROVE  FetchesCovered'
<1> SUFFICES ASSUME NEW t \in Tabs, Served(t)',
                    Head(calls'[t]).op = "fetch", Head(calls'[t]).key = "best"
             PROVE  /\ Head(calls'[t]).user \in Users
                    /\ \A e \in Head(calls'[t]).rows :
                         \E f \in rows'["best"][Head(calls'[t]).user] : f.score >= e.score
  BY DEF FetchesCovered, RowCovers
<1>0. HeadsOnly /\ calls[t] \in Seq(Call)
  BY DEF RegisterInv, QueuesTyped
<1>1. CASE SameHead(t)
  <2> DEFINE head == Head(calls[t])
  <2>1. Served(t) /\ Head(calls'[t]) = head /\ calls[t] # <<>>
    BY <1>1 DEF SameHead, Served
  <2>2. head \in Call
    BY <1>0, <2>1, HeadTailProperties
  <2>3. head.user \in Users /\ \A e \in head.rows : RowCovers(head.user, e.score)
    BY <2>1 DEF FetchesCovered
  <2>4. "best" \in Keys /\ \A e \in head.rows : e.score \in 0..MaxScore
    BY <2>1, <2>2 DEF Call, Calls, Entry
  <2> HIDE DEF head
  <2>5. ASSUME NEW u \in Users, NEW e \in head.rows, u = head.user
        PROVE  \E f \in rows'["best"][u] : f.score >= e.score
    <3>1. PICK s \in 0..MaxScore : s = e.score
      BY <2>4
    <3>2. RowCovers(u, s)
      BY <2>3, <2>5, <3>1
    <3>3. RowCovers(u, s)'
      BY <2>4, <3>2, RowsRise
    <3> QED
      BY <3>1, <3>3 DEF RowCovers
  <2> QED
    BY <2>1, <2>3, <2>5
<1>2. CASE ServeFetch(t)
  <2>1. PICK call \in Call :
          /\ call.served /\ call.key = Head(calls[t]).key
          /\ calls' = [calls EXCEPT ![t] = [@ EXCEPT ![1] = call]]
          /\ call.user = jar /\ call.rows = Selected(call.key, jar)
    BY <1>2, HeadServed
  <2>2. calls[t] # <<>> /\ jar \in Users /\ rows' = rows
    BY <1>2, HeadServed DEF ServeFetch, RegisterInv, QueuesTyped
  <2>3. Head(calls'[t]) = call
    BY <2>1, <2>2, Marked DEF RegisterInv
  <2>4. call.rows = rows["best"][jar] /\ "best" \in Keys
    <3>1. Head(calls'[t]) = call /\ call.key = "best"
      BY <2>3
    <3>2. "best" \in Keys
      BY <1>0, <2>3, <3>1 DEF Call, Calls
    <3> QED
      BY <2>1, <3>1, <3>2 DEF Selected, GetBestScores
  <2>5. \A e \in call.rows : e.score \in 0..MaxScore
    BY <2>2, <2>4 DEF RegisterInv, OneBest, Entry
  <2>6. \A e \in call.rows : e.score >= e.score
    BY <2>5, SyncAssumption
  <2>7. \A e \in call.rows : RowCovers(jar, e.score)
    BY <2>4, <2>6 DEF RowCovers
  <2> QED
    BY <2>1, <2>2, <2>3, <2>7 DEF RowCovers
<1>3. CASE ServeAccount(t)
  <2>1. PICK call \in Call :
          /\ call.served /\ call.op \in {"signIn", "signOut"}
          /\ calls' = [calls EXCEPT ![t] = [@ EXCEPT ![1] = call]]
    BY <1>3, HeadServed
  <2>2. calls[t] # <<>>
    BY <1>3, HeadServed
  <2>3. Head(calls'[t]) = call
    BY <2>1, <2>2, Marked DEF RegisterInv
  <2> QED
    BY <2>1, <2>3
<1> QED
  BY <1>1, <1>2, <1>3, HeadsKept

\* Writes that were lost and accounts that changed under a tab stay so.
LEMMA GoodBefore ==
  ASSUME Next, Good'
  PROVE  Good /\ "best" \in Keys \ lost' /\ ~split'
<1>1. lost' = lost \/ (\E keys : lost' = lost \cup keys)
  BY DEF Next, StartPractice, RecordResult, Read, ChangeAccount, Render, ServeFetch, ServePut,
    Refuse, ServeAccount, AnswerFetch, AnswerSignIn, AnswerSignOut, CallFails, Reload
<1>2. split => split'
  BY DEF Next, StartPractice, RecordResult, Read, ChangeAccount, Render, ServeFetch, ServePut,
    Refuse, ServeAccount, AnswerFetch, AnswerSignIn, AnswerSignOut, CallFails, Reload
<1>3. "best" \notin lost
  BY <1>1 DEF Good
<1>4. ~split
  BY <1>2 DEF Good
<1> QED
  BY <1>3, <1>4 DEF Good

LEMMA BestWritten ==
  ASSUME QueuesTyped, QueuesTyped', NEW t \in Tabs, NEW ks \in SUBSET Keys, "best" \in ks,
         NEW e \in Entry, Write(t, ks, e)
  PROVE  e \in Pending("best")'
<1> DEFINE order == InOrder(ks)
           puts == [i \in DOMAIN order |-> Put(order[i], e)]
<1>1. PICK i \in 1..Len(order) : order[i] = "best"
  BY BestIsPut
<1>2. puts \in Seq(Call) /\ DOMAIN order = 1..Len(order)
  BY PutsTyped, OrderTyped, LenProperties
<1>3. DOMAIN puts = DOMAIN order /\ DOMAIN puts = 1..Len(puts)
  BY <1>2, LenProperties
<1>4. BestPut(puts[i], e)
  BY <1>1, <1>2 DEF BestPut, Put, Fetch
<1>5. Enqueue(t, puts)
  BY DEF Write
<1> HIDE DEF puts, order
<1>6. Carries(puts, e)
  BY <1>1, <1>2, <1>3, <1>4 DEF Carries
<1>7. Carries(calls[t] \o puts, e)
  BY <1>2, <1>6, JoinCarries DEF QueuesTyped
<1>8. calls'[t] = calls[t] \o puts
  BY <1>5 DEF Enqueue, QueuesTyped
<1> QED
  BY <1>7, <1>8, PendingCarried

\* The page that writes and the cache it writes to are of the session's user.
LEMMA PageOfSession ==
  ASSUME QueuesTyped, PrivateInv, OneSession, ~split, NEW t \in Tabs, Active(t)
  PROVE  /\ gate[t] \in Users /\ jar \in {gate[t], None}
         /\ \A k \in Keys : cache[k].owner \in {gate[t], None}
<1>1. NoSignIn(t) /\ gate[t] # None
  BY LenProperties DEF Active, NoSignIn, QueuesTyped
<1>2. ~Signing(t)
  BY <1>1, ActivePage
<1>3. PICK w \in Users \cup {None} : SessionOf(w)
  BY DEF OneSession
<1>4. gate[t] = w /\ jar \in {w, None}
  BY <1>1, <1>2, <1>3 DEF SessionOf
<1>5. \A other \in Tabs : ~Signing(other)
  BY <1>1, <1>2 DEF PrivateInv, Private, SigningAlone
<1> QED
  BY <1>1, <1>3, <1>4, <1>5 DEF SessionOf

LEMMA CacheStep ==
  ASSUME RegisterInv, QueuesTyped', PrivateInv, CoverInv, Next
  PROVE  CacheCovered'
<1> SUFFICES ASSUME Good', NEW e \in cache'["best"].rows, NEW u, u = cache'["best"].owner
             PROVE  e \in Entry /\ u \in Users /\ Covered(u, e.score)'
  <2>1. ASSUME NEW e \in cache'["best"].rows, NEW u, u = cache'["best"].owner, Covered(u, e.score)'
        PROVE  Covered(cache["best"].owner, e.score)'
    BY <2>1 DEF Covered, RowCovers
  <2> QED
    BY <2>1 DEF CacheCovered
<1>0. /\ QueuesTyped /\ QueuesWell /\ OneSession /\ FetchesCovered
      /\ Good /\ ~split /\ "best" \in Keys \ lost' /\ ~split'
      /\ \A f \in cache["best"].rows : /\ f \in Entry /\ cache["best"].owner \in Users
                                       /\ Covered(cache["best"].owner, f.score)
  BY GoodBefore DEF RegisterInv, CoverInv, Covers, CacheCovered, Good
<1>1. ASSUME cache'["best"] = cache["best"]
      PROVE  e \in Entry /\ u \in Users /\ Covered(u, e.score)'
  <2>1. e \in Entry /\ u \in Users /\ Covered(u, e.score) /\ e.score \in 0..MaxScore
    BY <1>0, <1>1 DEF Entry
  <2>2. ASSUME NEW s \in 0..MaxScore, Covered(u, s) PROVE Covered(u, s)'
    BY <1>0, <2>1, <2>2, CoveredStays
  <2>3. PICK s \in 0..MaxScore : s = e.score
    BY <2>1
  <2>4. Covered(u, s)'
    BY <2>1, <2>2, <2>3
  <2> QED
    BY <2>1, <2>3, <2>4 DEF Covered, RowCovers
<1>2. ASSUME NEW t \in Tabs, NEW ks \in SUBSET Keys, NEW entry \in Entry, Active(t),
             Write(t, ks, entry), jar' = jar
      PROVE  e \in Entry /\ u \in Users /\ Covered(u, e.score)'
  <2>1. CASE "best" \notin ks
    BY <1>0, <1>1, <1>2, <2>1 DEF Write
  <2>2. CASE "best" \in ks
    <3>1. u = gate[t] /\ e = entry
      BY <1>0, <1>2, <2>2 DEF Write
    <3>2. e \in Pending("best")'
      BY <1>0, <1>2, <2>2, <3>1, BestWritten
    <3>3. u \in Users /\ jar' \in {u, None}
      BY <1>0, <1>2, <3>1, PageOfSession
    <3>4. e \in Entry /\ e.score >= e.score
      BY <1>2, <3>1, SyncAssumption DEF Entry
    <3>5. \E f \in Pending("best")' : f.score >= e.score
      BY <3>2, <3>4
    <3> QED
      BY <3>3, <3>4, <3>5 DEF Covered
  <2> QED
    BY <2>1, <2>2
<1>3. ASSUME NEW t \in Tabs, StartPractice(t)
      PROVE  e \in Entry /\ u \in Users /\ Covered(u, e.score)'
  <2> DEFINE entry == [at |-> now + 1, score |-> 0]
  <2>1. entry \in Entry /\ {"last"} \in SUBSET Keys
    BY <1>0, <1>3, SyncAssumption DEF StartPractice, QueuesTyped, Entry
  <2> QED
    BY <1>2, <1>3, <2>1 DEF StartPractice
<1>4. ASSUME NEW t \in Tabs, NEW s \in 0..MaxScore, RecordResult(t, s)
      PROVE  e \in Entry /\ u \in Users /\ Covered(u, e.score)'
  <2> DEFINE entry == [at |-> now + 1, score |-> s]
             ks == IF s = 0 \/ KnownBest(s) THEN {"hist"} ELSE {"best", "hist"}
  <2>1. entry \in Entry /\ ks \in SUBSET Keys
    BY <1>0, <1>4, SyncAssumption DEF RecordResult, QueuesTyped, Entry
  <2>2. Write(t, ks, entry) /\ Active(t) /\ jar' = jar
    BY <1>4 DEF RecordResult
  <2> HIDE DEF entry, ks
  <2> QED
    BY <1>2, <2>1, <2>2
<1>5. ASSUME NEW t \in Tabs, AnswerFetch(t)
      PROVE  e \in Entry /\ u \in Users /\ Covered(u, e.score)'
  <2> DEFINE head == Head(calls[t])
  <2>1. /\ Served(t) /\ head.op = "fetch" /\ calls[t] # <<>> /\ rows' = rows
        /\ cache' = [cache EXCEPT ![head.key] = [owner |-> head.user, rows |-> head.rows]]
    BY <1>5 DEF AnswerFetch, Served
  <2>2. CASE head.key # "best"
    BY <1>0, <1>1, <2>1, <2>2 DEF PrivateInv, CacheKeyed
  <2>3. CASE head.key = "best"
    <3>1. u = head.user /\ e \in head.rows
      BY <1>0, <2>1, <2>3 DEF PrivateInv, CacheKeyed
    <3>2. u \in Users /\ RowCovers(u, e.score)
      BY <1>0, <2>1, <2>3, <3>1 DEF FetchesCovered
    <3>3. e \in Entry
      BY <1>0, <2>1, <3>1, DequeueTyped DEF Call, Calls
    <3>4. RowCovers(u, e.score)'
      BY <2>1, <3>2 DEF RowCovers
    <3> QED
      BY <3>2, <3>3, <3>4 DEF Covered
  <2> QED
    BY <2>2, <2>3
<1>6. ASSUME cache' = Cleared
      PROVE  FALSE
  BY <1>0, <1>6 DEF Cleared, Empty
<1>7. \/ cache' = cache \/ cache' = Cleared
      \/ \E t \in Tabs : \/ StartPractice(t) \/ AnswerFetch(t)
                         \/ \E s \in 0..MaxScore : RecordResult(t, s)
  BY DEF Next, Read, ChangeAccount, Render, ServeFetch, ServePut, Refuse, ServeAccount,
    AnswerSignIn, SignedIn, AnswerSignOut, CallFails, Reload
<1> QED
  BY <1>1, <1>3, <1>4, <1>5, <1>6, <1>7

LEMMA RecordsStep ==
  ASSUME RegisterInv, QueuesTyped', PrivateInv, CoverInv, Next
  PROVE  RecordsCovered'
<1> SUFFICES ASSUME Good', NEW u \in Users, NEW s \in 1..MaxScore, s \in recorded'[u]
             PROVE  Covered(u, s)'
  BY DEF RecordsCovered
<1>0. /\ QueuesTyped /\ QueuesWell /\ OneSession /\ Good /\ ~split
      /\ "best" \in Keys \ lost' /\ ~split' /\ s \in 0..MaxScore
      /\ \A f \in cache["best"].rows : /\ f \in Entry /\ cache["best"].owner \in Users
                                       /\ Covered(cache["best"].owner, f.score)
  BY GoodBefore, SyncAssumption DEF RegisterInv, CoverInv, Covers, CacheCovered, Good
<1>1. CASE s \in recorded[u]
  <2>1. Covered(u, s)
    BY <1>0, <1>1 DEF CoverInv, Covers, RecordsCovered
  <2> QED
    BY <1>0, <2>1, CoveredStays
<1>2. ASSUME s \notin recorded[u], NEW t \in Tabs, NEW r \in 0..MaxScore, RecordResult(t, r)
      PROVE  Covered(u, s)'
  <2> DEFINE entry == [at |-> now + 1, score |-> r]
             ks == IF r = 0 \/ KnownBest(r) THEN {"hist"} ELSE {"best", "hist"}
  <2>1. /\ Active(t) /\ jar' = jar /\ Write(t, ks, entry)
        /\ recorded' = [recorded EXCEPT ![gate[t]] = @ \cup {r}]
    BY <1>2 DEF RecordResult
  <2>2. gate[t] \in Users /\ jar \in {gate[t], None} /\ cache["best"].owner \in {gate[t], None}
    BY <1>0, <2>1, PageOfSession
  <2>3. u = gate[t] /\ s = r
    BY <1>2, <2>1
  <2>4. CASE KnownBest(s)
    <3>1. PICK f \in cache["best"].rows : f.score >= s
      BY <2>4 DEF KnownBest
    <3>2. f \in Entry /\ cache["best"].owner = u /\ Covered(u, f.score) /\ f.score \in 0..MaxScore
      BY <1>0, <2>2, <2>3, <3>1, SyncAssumption DEF Entry
    <3>3. Covered(u, s)
      BY <1>0, <3>1, <3>2, RowMonotone
    <3> QED
      BY <1>0, <3>3, CoveredStays
  <2>5. CASE ~KnownBest(s)
    <3>1. entry \in Entry /\ ks \in SUBSET Keys /\ entry.score = s
      BY <1>0, <1>2, <2>3, SyncAssumption DEF RecordResult, QueuesTyped, Entry
    <3>2. "best" \in ks
      BY <2>3, <2>5, SyncAssumption
    <3> HIDE DEF entry, ks
    <3>3. entry \in Pending("best")'
      BY <1>0, <2>1, <3>1, <3>2, BestWritten
    <3>4. entry.score >= s
      BY <3>1, SyncAssumption
    <3> QED
      BY <2>1, <2>2, <2>3, <3>3, <3>4 DEF Covered
  <2> QED
    BY <2>4, <2>5
<1>3. recorded' = recorded \/ \E t \in Tabs, r \in 0..MaxScore : RecordResult(t, r)
  BY DEF Next, StartPractice, Read, ChangeAccount, Render, ServeFetch, ServePut, Refuse,
    ServeAccount, AnswerFetch, AnswerSignIn, AnswerSignOut, CallFails, Reload
<1> QED
  BY <1>1, <1>2, <1>3

LEMMA InitCover == Init => CoverInv
<1> SUFFICES ASSUME Init PROVE CoverInv
  OBVIOUS
<1>1. QueuesWell
  BY AddedWell DEF Init, QueuesWell
<1>2. SessionOf(jar)
  BY DEF Init, SessionOf, Cleared, Empty
<1>3. OneSession
  BY <1>2 DEF Init, OneSession
<1>4. FetchesCovered
  BY DEF Init, FetchesCovered, Served
<1>5. CacheCovered /\ RecordsCovered
  BY DEF Init, CacheCovered, RecordsCovered, Good, Cleared, Empty
<1> QED
  BY <1>1, <1>3, <1>4, <1>5 DEF CoverInv, Covers

LEMMA CoverStep ==
  RegisterInv /\ RegisterInv' /\ PrivateInv /\ CoverInv /\ [Next]_vars => CoverInv'
<1> SUFFICES ASSUME RegisterInv, RegisterInv', PrivateInv, CoverInv, [Next]_vars PROVE CoverInv'
  OBVIOUS
<1>1. CASE UNCHANGED vars
  BY <1>1 DEF vars, browser, CoverInv, QueuesWell, OneSession, SessionOf, Signing, Served, Covers,
    FetchesCovered, CacheCovered, RecordsCovered, RowCovers, Covered, Good, Pending, PendingOf
<1>2. CASE Next
  <2>1. QueuesTyped' /\ QueuesWell /\ OneSession /\ HeadsOnly /\ FetchesCovered
    BY DEF RegisterInv, CoverInv, PrivateInv, Covers
  <2>2. QueuesWell'
    BY <2>1, WellStep
  <2>3. OneSession'
    BY <1>2, <2>1, SessionStep
  <2>4. FetchesCovered'
    BY <1>2, <2>1, FetchesStep
  <2>5. CacheCovered' /\ RecordsCovered'
    BY <1>2, <2>1, CacheStep, RecordsStep
  <2> QED
    BY <2>2, <2>3, <2>4, <2>5 DEF CoverInv, Covers
<1> QED
  BY <1>1, <1>2

\* recordBestScore keeps back a score only when the server holds, or has on its way
\* from this user's pages, one as good: for any tabs, queues and order of answers,
\* unless a write was lost or the account changed under a tab.
THEOREM NoScoreKeptBack == Spec => []ScoresReachServer
<1>1. Spec => []RegisterInv
  BY InitRegister, RegisterStep, PTL DEF Spec
<1>2. Spec => []PrivateInv
  BY <1>1, InitPrivate, PrivateStep, PTL DEF Spec
<1>3. CoverInv => ScoresReachServer
  BY DEF CoverInv, Covers, RecordsCovered, Good, Covered, RowCovers, ScoresReachServer
<1> QED
  BY <1>1, <1>2, <1>3, InitCover, CoverStep, PTL DEF Spec
=============================================================================

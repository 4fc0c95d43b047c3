-------------------------- MODULE WebSessionProofs --------------------------
(***************************************************************************)
(* For any users, tabs, pairs and faults: what becomes of the cookies of a *)
(* browser whose tabs do not overlap.                                      *)
(***************************************************************************)
EXTENDS WebSession, SequenceTheorems, TLAPS

-----------------------------------------------------------------------------
(* Shapes.                                                                  *)

AnyCookies == [access: Nat, refresh: Nat]
AnyRequest ==
  [op: Ops \cup {"none"}, at: {"idle", "sent", "refresh", "retry", "answered"},
   before: AnyCookies, jar: AnyCookies, set: BOOLEAN, user: Users \cup {None}]

\* A request that changed no cookie works on those it was sent with, and one
\* that has not got through yet, or renders, has changed none.
Formed(s, r) ==
  /\ r \in AnyRequest
  /\ r.at \in {"idle", "sent", "refresh"} \/ Rendering(s) => ~r.set
  /\ ~r.set => r.jar = r.before
  /\ Rendering(s) => r.op \in {"none", "data"}
  /\ r.op = "signIn" => r.user \in Users

\* Cookies name pairs that were issued.
Names(cookies, table) == {cookies.access, cookies.refresh} \subseteq 0..Len(table)

Shape ==
  /\ pairs \in Seq(Pair)
  /\ jar \in AnyCookies /\ Names(jar, pairs)
  /\ DOMAIN req = Slots /\ req = [s \in Slots |-> req[s]]
  /\ \A s \in Slots : Formed(s, req[s]) /\ Names(req[s].jar, pairs)

Acting == {s \in Slots : ~Rendering(s) /\ req[s].at # "idle"}

\* One action at a time, so the browser still has the cookies it was sent with.
Alone ==
  "overlap" \notin disturbed =>
    /\ \A a, b \in Acting : a = b
    /\ \A a \in Acting : req[a].before.refresh = jar.refresh

\* Nobody but a sign-in has a cookie to answer with.
OutClean ==
  out /\ "overlap" \notin disturbed =>
    /\ jar = NoCookies
    /\ \A a \in Acting : req[a].op # "signIn" => req[a].jar = NoCookies

\* A pair that is about to be answered is good, and cookies are dropped for a
\* sign-out or because there were none.
AnswersGood ==
  disturbed = {} =>
    \A a \in Acting : req[a].set =>
      /\ req[a].jar.refresh # 0 => pairs[req[a].jar.refresh].refresh = "live"
      /\ req[a].jar.refresh = 0 => req[a].op = "signOut" \/ req[a].before.refresh = 0

\* The browser's pair is good, or its successor is about to be answered.
JarGood ==
  jar.refresh # 0 /\ disturbed = {} =>
    pairs[jar.refresh].refresh = "live" \/ \E a \in Acting : req[a].set

CookieInv == Alone /\ OutClean /\ AnswersGood /\ JarGood
BrowserInv == Shape /\ CookieInv

LEMMA BrowserHolds == BrowserInv => DeadSessionExplained /\ SignedOutStays
<1> SUFFICES ASSUME BrowserInv PROVE DeadSessionExplained /\ SignedOutStays
  OBVIOUS
<1>1. SignedOutStays
  BY DEF BrowserInv, CookieInv, OutClean, SignedOutStays
<1>2. ASSUME jar.refresh # 0, disturbed = {}, pairs[jar.refresh].refresh # "live"
      PROVE  \E s \in Busy : req[s].set /\ req[s].before.refresh = jar.refresh
  <2>1. PICK a \in Acting : req[a].set
    BY <1>2 DEF BrowserInv, CookieInv, JarGood
  <2>2. req[a].before.refresh = jar.refresh /\ a \in Busy
    BY <1>2, <2>1 DEF BrowserInv, CookieInv, Alone, Acting, Busy
  <2> QED
    BY <2>1, <2>2
<1> QED
  BY <1>1, <1>2 DEF DeadSessionExplained

LEMMA IdleFormed == \A s \in Slots : Formed(s, Idle) /\ Idle.at = "idle" /\ ~Idle.set
BY DEF Formed, Idle, AnyRequest, AnyCookies, NoCookies

LEMMA InitBrowser == Init => BrowserInv
<1> SUFFICES ASSUME Init PROVE BrowserInv
  OBVIOUS
<1>1. Acting = {}
  BY IdleFormed DEF Init, Acting
<1>2. <<>> \in Seq(Pair) /\ Len(<<>>) = 0
  BY EmptySeq
<1>3. jar = NoCookies /\ NoCookies.refresh = 0 /\ NoCookies.access = 0 /\ NoCookies \in AnyCookies
  BY DEF Init, NoCookies, AnyCookies
<1>4. \A s \in Slots : req[s] = Idle
  BY DEF Init
<1>5. Idle.jar = NoCookies
  BY DEF Idle
<1>6. Shape
  BY <1>2, <1>3, <1>4, <1>5, IdleFormed DEF Init, Shape, Names
<1> QED
  BY <1>1, <1>3, <1>6 DEF Init, BrowserInv, CookieInv, Alone, OutClean, AnswersGood, JarGood

-----------------------------------------------------------------------------
(* The BFF's table.                                                         *)

Grown == pairs' \in Seq(Pair) /\ Len(pairs') >= Len(pairs)

LEMMA IssueGrows ==
  ASSUME NEW table \in Seq(Pair), NEW u \in Users
  PROVE  /\ Issue(table, u) \in Seq(Pair)
         /\ Len(Issue(table, u)) = Len(table) + 1
         /\ Issue(table, u)[Len(table) + 1].refresh = "live"
         /\ \A i \in 1..Len(table) : Issue(table, u)[i] = table[i]
<1> DEFINE new == [user |-> u, access |-> "valid", refresh |-> "live"]
<1>1. new \in Pair
  BY DEF Pair
<1>2. new.refresh = "live"
  OBVIOUS
<1> HIDE DEF new
<1>3. Issue(table, u) = Append(table, new)
  BY DEF Issue, new
<1> QED
  BY <1>1, <1>2, <1>3, AppendProperties, LenProperties

LEMMA MarkKeeps ==
  ASSUME pairs \in Seq(Pair), NEW i \in 1..Len(pairs), NEW pair \in Pair
  PROVE  /\ [pairs EXCEPT ![i] = pair] \in Seq(Pair)
         /\ Len([pairs EXCEPT ![i] = pair]) = Len(pairs)
         /\ \A j \in 1..Len(pairs) : j # i => [pairs EXCEPT ![i] = pair][j] = pairs[j]
BY ExceptSeq

LEMMA RevokeKeeps ==
  ASSUME pairs \in Seq(Pair), NEW u
  PROVE  RevokeAll(u) \in Seq(Pair) /\ Len(RevokeAll(u)) = Len(pairs)
<1>1. DOMAIN pairs = 1..Len(pairs) /\ Len(pairs) \in Nat
  BY LenProperties
<1>2. \A i \in 1..Len(pairs) : pairs[i] \in Pair
  BY ElementOfSeq
<1>3. RevokeAll(u) \in [1..Len(pairs) -> Pair]
  BY <1>1, <1>2 DEF RevokeAll, Pair
<1>4. RevokeAll(u) \in Seq(Pair)
  BY <1>1, <1>3, SeqDef
<1>5. DOMAIN RevokeAll(u) = 1..Len(RevokeAll(u)) /\ Len(RevokeAll(u)) \in Nat
  BY <1>4, LenProperties
<1>6. DOMAIN RevokeAll(u) = 1..Len(pairs)
  BY <1>3
<1>7. \A m, n \in Nat : 1..m = 1..n => m = n
  OBVIOUS
<1> QED
  BY <1>1, <1>4, <1>5, <1>6, <1>7

LEMMA RotateGrows ==
  ASSUME pairs \in Seq(Pair), NEW i \in 1..Len(pairs), Rotate(i)
  PROVE  /\ Grown /\ Len(pairs') = Len(pairs) + 1
         /\ pairs'[Len(pairs) + 1].refresh = "live"
         /\ \A j \in 1..Len(pairs) : j # i => pairs'[j] = pairs[j]
<1> DEFINE spent == [pairs[i] EXCEPT !.refresh = "used"]
           table == [pairs EXCEPT ![i] = spent]
<1>1. pairs[i] \in Pair /\ Len(pairs) \in Nat
  BY ElementOfSeq, LenProperties
<1>2. spent \in Pair /\ pairs[i].user \in Users
  BY <1>1 DEF Pair
<1>3. pairs' = Issue(table, pairs[i].user)
  BY DEF Rotate
<1> HIDE DEF spent
<1>4. /\ table \in Seq(Pair) /\ Len(table) = Len(pairs)
      /\ \A j \in 1..Len(pairs) : j # i => table[j] = pairs[j]
  BY <1>2, MarkKeeps
<1> HIDE DEF table
<1>5. /\ pairs' \in Seq(Pair) /\ Len(pairs') = Len(pairs) + 1
      /\ pairs'[Len(pairs) + 1].refresh = "live"
      /\ \A j \in 1..Len(pairs) : pairs'[j] = table[j]
  BY <1>2, <1>3, <1>4, IssueGrows
<1> QED
  BY <1>1, <1>4, <1>5 DEF Grown

-----------------------------------------------------------------------------
(* Steps of a request under way.                                            *)

\* What such a step may do to its request: it stays the request it is, and
\* changes a cookie for good.
Continues(s, r) ==
  /\ req[s].at # "idle" /\ r.at # "idle" /\ r.op = req[s].op /\ r.before = req[s].before
  /\ req[s].set => r.set

\* While nothing has happened to the session: a pair is good until an action
\* spends the browser's own and answers with another.
Spends(s, r) ==
  \A i \in 1..Len(pairs) : pairs'[i].refresh # pairs[i].refresh =>
    i = jar.refresh /\ ~Rendering(s) /\ r.set

AnswersWell(s, r) ==
  ~Rendering(s) /\ r.set =>
    /\ r.jar.refresh # 0 => pairs'[r.jar.refresh].refresh = "live"
    /\ r.jar.refresh = 0 => r.op = "signOut" \/ r.before.refresh = 0

Proceeds(s, r) ==
  /\ Continues(s, r) /\ Formed(s, r) /\ Names(r.jar, pairs')
  /\ Step(s, r) /\ Grown /\ UNCHANGED <<jar, out>> /\ disturbed \subseteq disturbed'
  /\ out /\ "overlap" \notin disturbed /\ ~Rendering(s) /\ r.op # "signIn" => r.jar = NoCookies
  /\ disturbed' = {} => Spends(s, r) /\ AnswersWell(s, r)

LEMMA StepShapes ==
  ASSUME Shape, NEW s \in Slots, NEW r, Proceeds(s, r)
  PROVE  /\ Shape' /\ Acting' = Acting /\ req'[s] = r
         /\ \A o \in Slots \ {s} : req'[o] = req[o]
<1>1. /\ DOMAIN req' = Slots /\ req' = [o \in Slots |-> req'[o]] /\ req'[s] = r
      /\ \A o \in Slots \ {s} : req'[o] = req[o]
  BY DEF Shape, Proceeds, Step
<1>2. /\ Len(pairs) \in Nat /\ Len(pairs') \in Nat /\ Len(pairs') >= Len(pairs)
      /\ pairs' \in Seq(Pair)
  BY LenProperties DEF Shape, Proceeds, Grown
<1>3. jar' \in AnyCookies /\ jar' = jar /\ Names(jar, pairs)
  BY DEF Shape, Proceeds
<1>4. Names(jar', pairs')
  BY <1>2, <1>3 DEF Names
<1>5. ASSUME NEW o \in Slots
      PROVE  Formed(o, req'[o]) /\ Names(req'[o].jar, pairs')
  <2>1. CASE o = s
    BY <1>1, <2>1 DEF Proceeds
  <2>2. CASE o # s
    <3>1. Formed(o, req[o]) /\ Names(req[o].jar, pairs) /\ req'[o] = req[o]
      BY <1>1, <2>2 DEF Shape
    <3>2. req[o].jar.refresh \in Nat
      BY <3>1 DEF Formed, AnyRequest, AnyCookies
    <3> QED
      BY <1>2, <3>1, <3>2 DEF Names
  <2> QED
    BY <2>1, <2>2
<1>6. Acting' = Acting
  BY <1>1 DEF Proceeds, Continues, Acting
<1> QED
  BY <1>1, <1>2, <1>3, <1>4, <1>5, <1>6 DEF Shape

LEMMA StepKeeps ==
  ASSUME BrowserInv, NEW s \in Slots, NEW r, Proceeds(s, r)
  PROVE  BrowserInv'
<1>1. /\ Shape' /\ Acting' = Acting /\ req'[s] = r
      /\ \A o \in Slots \ {s} : req'[o] = req[o]
  BY StepShapes DEF BrowserInv
<1>2. /\ Continues(s, r) /\ UNCHANGED <<jar, out>> /\ disturbed \subseteq disturbed'
      /\ Alone /\ OutClean /\ AnswersGood /\ JarGood /\ Shape
  BY DEF Proceeds, BrowserInv, CookieInv
<1>3. Alone'
  BY <1>1, <1>2 DEF Alone, Continues, Acting
<1>4. OutClean'
  <2> SUFFICES ASSUME out, "overlap" \notin disturbed'
               PROVE  OutClean'
    BY <1>2 DEF OutClean
  <2>1. jar = NoCookies /\ \A a \in Acting : req[a].op # "signIn" => req[a].jar = NoCookies
    BY <1>2 DEF OutClean
  <2>2. ~Rendering(s) /\ r.op # "signIn" => r.jar = NoCookies
    BY <1>2 DEF Proceeds
  <2> QED
    BY <1>1, <1>2, <2>1, <2>2 DEF OutClean, Acting
<1>5. ASSUME disturbed' = {}
      PROVE  /\ disturbed = {} /\ Spends(s, r) /\ AnswersWell(s, r)
             /\ \A a, b \in Acting : a = b
  BY <1>2, <1>5 DEF Proceeds, Alone
<1>6. AnswersGood'
  <2> SUFFICES ASSUME disturbed' = {}, NEW a \in Acting, req'[a].set
               PROVE  /\ req'[a].jar.refresh # 0 => pairs'[req'[a].jar.refresh].refresh = "live"
                      /\ req'[a].jar.refresh = 0 => req'[a].op = "signOut" \/ req'[a].before.refresh = 0
    BY <1>1 DEF AnswersGood
  <2>1. CASE a = s
    BY <1>1, <1>5, <2>1 DEF AnswersWell, Acting
  <2>2. CASE a # s
    <3>1. req'[a] = req[a] /\ Rendering(s)
      BY <1>1, <1>2, <1>5, <2>2 DEF Acting, Continues
    <3>2. /\ req[a].jar.refresh # 0 => pairs[req[a].jar.refresh].refresh = "live"
          /\ req[a].jar.refresh = 0 => req[a].op = "signOut" \/ req[a].before.refresh = 0
      BY <1>2, <1>5, <3>1 DEF AnswersGood
    <3>3. req[a].jar.refresh # 0 => req[a].jar.refresh \in 1..Len(pairs)
      <4>1. Formed(a, req[a]) /\ Names(req[a].jar, pairs) /\ Len(pairs) \in Nat
        BY <1>2, LenProperties DEF Shape, Acting
      <4> QED
        BY <4>1 DEF Formed, AnyRequest, AnyCookies, Names
    <3> QED
      BY <1>5, <3>1, <3>2, <3>3 DEF Spends
  <2> QED
    BY <2>1, <2>2
<1>7. JarGood'
  <2> SUFFICES ASSUME disturbed' = {}, jar.refresh # 0
               PROVE  pairs'[jar.refresh].refresh = "live" \/ \E a \in Acting : req'[a].set
    BY <1>1, <1>2 DEF JarGood
  <2>1. CASE \E a \in Acting : req[a].set
    <3>1. PICK a \in Acting : req[a].set
      BY <2>1
    <3>2. req'[a].set
      <4>1. CASE a = s
        BY <1>1, <1>2, <3>1, <4>1 DEF Continues
      <4>2. CASE a # s
        BY <1>1, <3>1, <4>2 DEF Acting
      <4> QED
        BY <4>1, <4>2
    <3> QED
      BY <3>2
  <2>2. CASE pairs[jar.refresh].refresh = "live"
    <3>1. jar.refresh \in 1..Len(pairs)
      BY <1>2, LenProperties DEF Shape, AnyCookies, Names
    <3>2. CASE pairs'[jar.refresh].refresh = pairs[jar.refresh].refresh
      BY <2>2, <3>2
    <3>3. CASE ~Rendering(s) /\ r.set
      BY <1>1, <1>2, <3>3 DEF Continues, Acting
    <3> QED
      BY <1>5, <3>1, <3>2, <3>3 DEF Spends
  <2> QED
    BY <1>2, <1>5, <2>1, <2>2 DEF JarGood
<1> QED
  BY <1>1, <1>3, <1>4, <1>6, <1>7 DEF BrowserInv, CookieInv

-----------------------------------------------------------------------------
(* Kinds of steps.                                                          *)

\* A request is where no cookie has changed, and its cookies name pairs.
LEMMA Fields ==
  ASSUME Shape, NEW s \in Slots
  PROVE  /\ req[s] \in AnyRequest
         /\ req[s].before.refresh \in Nat
         /\ req[s].jar.refresh \in 0..Len(pairs) /\ Len(pairs) \in Nat
         /\ req[s].at \in {"idle", "sent", "refresh"} \/ Rendering(s) => ~req[s].set
         /\ ~req[s].set => req[s].jar = req[s].before
         /\ Rendering(s) => req[s].op \in {"none", "data"}
<1>1. Formed(s, req[s]) /\ Names(req[s].jar, pairs)
  BY DEF Shape
<1>2. Len(pairs) \in Nat
  BY LenProperties DEF Shape
<1>3. req[s].jar \in AnyCookies /\ req[s].before \in AnyCookies
  BY <1>1 DEF Formed, AnyRequest
<1>4. req[s].before.refresh \in Nat /\ req[s].jar.refresh \in Nat
  BY <1>3 DEF AnyCookies
<1> QED
  BY <1>1, <1>2, <1>4 DEF Formed, Names

LEMMA SameTable ==
  ASSUME Shape, pairs' = pairs
  PROVE  Grown
BY LenProperties DEF Shape, Grown

\* The request goes on, or ends, with the cookies it has.
LEMMA Moves ==
  ASSUME BrowserInv, NEW s \in Slots, NEW pc \in {"refresh", "retry", "answered"},
         req[s].at # "idle", req[s].set => pc # "refresh",
         Step(s, [req[s] EXCEPT !.at = pc]), UNCHANGED <<jar, out>>, disturbed \subseteq disturbed',
         Grown, disturbed' = {} => pairs' = pairs
  PROVE  BrowserInv'
<1> DEFINE r == [req[s] EXCEPT !.at = pc]
<1>1. /\ req[s] \in AnyRequest /\ req[s].jar.refresh \in 0..Len(pairs) /\ Len(pairs) \in Nat
      /\ req[s].at \in {"idle", "sent", "refresh"} \/ Rendering(s) => ~req[s].set
      /\ ~req[s].set => req[s].jar = req[s].before
      /\ Rendering(s) => req[s].op \in {"none", "data"}
  BY Fields DEF BrowserInv
<1>2. /\ r \in AnyRequest /\ r.at = pc /\ r.op = req[s].op /\ r.before = req[s].before
      /\ r.user = req[s].user /\ r.jar = req[s].jar /\ (r.set <=> req[s].set)
  BY <1>1 DEF AnyRequest
<1>3. Step(s, r)
  OBVIOUS
<1> HIDE DEF r
<1>4. Formed(s, r) /\ Names(r.jar, pairs') /\ Continues(s, r)
  BY <1>1, <1>2 DEF Formed, Names, Continues, Grown, BrowserInv, Shape
<1>5. out /\ "overlap" \notin disturbed /\ ~Rendering(s) /\ r.op # "signIn" => r.jar = NoCookies
  BY <1>2 DEF BrowserInv, CookieInv, OutClean, Acting
<1>6. ASSUME disturbed' = {}
      PROVE  Spends(s, r) /\ AnswersWell(s, r)
  BY <1>2, <1>6 DEF Spends, AnswersWell, BrowserInv, CookieInv, AnswersGood, Acting
<1> QED
  BY <1>3, <1>4, <1>5, <1>6, StepKeeps DEF Proceeds

\* The cookies are dropped.
LEMMA Clears ==
  ASSUME BrowserInv, NEW s \in Slots, ~Rendering(s), req[s].at # "idle",
         Step(s, [req[s] EXCEPT !.at = "answered", !.jar = NoCookies, !.set = TRUE]),
         UNCHANGED <<jar, out>>, disturbed \subseteq disturbed', Grown,
         disturbed' = {} =>
           pairs' = pairs /\ (req[s].op = "signOut" \/ req[s].before.refresh = 0)
  PROVE  BrowserInv'
<1> DEFINE r == [req[s] EXCEPT !.at = "answered", !.jar = NoCookies, !.set = TRUE]
<1>0. NoCookies \in AnyCookies /\ NoCookies.refresh = 0 /\ NoCookies.access = 0
  BY DEF NoCookies, AnyCookies
<1>1. /\ req[s] \in AnyRequest /\ Len(pairs) \in Nat
      /\ req[s].op = "signIn" => req[s].user \in Users
  BY Fields DEF BrowserInv, Shape, Formed
<1>2. /\ r \in AnyRequest /\ r.at = "answered" /\ r.op = req[s].op /\ r.before = req[s].before
      /\ r.user = req[s].user /\ r.jar = NoCookies /\ r.set
  BY <1>0, <1>1 DEF AnyRequest
<1>3. Step(s, r)
  OBVIOUS
<1> HIDE DEF r
<1>4. Len(pairs') \in Nat
  BY LenProperties DEF Grown
<1>5. Formed(s, r) /\ Continues(s, r)
  BY <1>1, <1>2 DEF Formed, Continues
<1>7. Names(r.jar, pairs')
  BY <1>0, <1>2, <1>4 DEF Names
<1>6. ASSUME disturbed' = {}
      PROVE  Spends(s, r) /\ AnswersWell(s, r)
  BY <1>0, <1>2, <1>6 DEF Spends, AnswersWell
<1> QED
  BY <1>2, <1>3, <1>5, <1>6, <1>7, StepKeeps DEF Proceeds

\* A new pair is set.
LEMMA Sets ==
  ASSUME BrowserInv, NEW s \in Slots, ~Rendering(s), req[s].at # "idle",
         NEW pc \in {"retry", "answered"}, NEW n, n = Len(pairs) + 1,
         Step(s, [req[s] EXCEPT !.at = pc, !.jar = CookiesOf(n), !.set = TRUE]),
         UNCHANGED <<jar, out>>, disturbed \subseteq disturbed',
         Grown, Len(pairs') = n, pairs'[n].refresh = "live",
         disturbed' = {} => \A i \in 1..Len(pairs) : i # jar.refresh => pairs'[i] = pairs[i],
         out /\ "overlap" \notin disturbed => req[s].op = "signIn"
  PROVE  BrowserInv'
<1> DEFINE r == [req[s] EXCEPT !.at = pc, !.jar = CookiesOf(n), !.set = TRUE]
<1>1. /\ req[s] \in AnyRequest /\ Len(pairs) \in Nat
      /\ req[s].op = "signIn" => req[s].user \in Users
  BY Fields DEF BrowserInv, Shape, Formed
<1>2. CookiesOf(n) \in AnyCookies /\ CookiesOf(n).refresh = n /\ CookiesOf(n).access = n
  BY <1>1 DEF CookiesOf, AnyCookies
<1>3. /\ r \in AnyRequest /\ r.at = pc /\ r.op = req[s].op /\ r.before = req[s].before
      /\ r.user = req[s].user /\ r.jar = CookiesOf(n) /\ r.set
  BY <1>1, <1>2 DEF AnyRequest
<1>4. Step(s, r)
  OBVIOUS
<1> HIDE DEF r
<1>5. Formed(s, r) /\ Names(r.jar, pairs') /\ Continues(s, r)
  BY <1>1, <1>2, <1>3 DEF Formed, Names, Continues
<1>6. ASSUME disturbed' = {}
      PROVE  Spends(s, r) /\ AnswersWell(s, r)
  BY <1>1, <1>2, <1>3, <1>6 DEF Spends, AnswersWell
<1> QED
  BY <1>3, <1>4, <1>5, <1>6, StepKeeps DEF Proceeds

-----------------------------------------------------------------------------
(* Actions.                                                                 *)

LEMMA ServeStep ==
  ASSUME BrowserInv, NEW s \in Slots,
         ServeSignIn(s) \/ ServeSignOut(s) \/ Serve(s) \/ ServeDelete(s) \/ Unauthorized(s) \/ CallFails(s)
  PROVE  BrowserInv'
<1>0. /\ req[s] \in AnyRequest /\ pairs \in Seq(Pair) /\ Len(pairs) \in Nat
      /\ req[s].at \in {"idle", "sent", "refresh"} => ~req[s].set
      /\ Rendering(s) => req[s].op \in {"none", "data"}
  BY Fields DEF BrowserInv, Shape
<1>1. ASSUME NEW pc \in {"refresh", "answered"}, req[s].at # "idle", req[s].set => pc # "refresh",
             Step(s, [req[s] EXCEPT !.at = pc]), UNCHANGED <<pairs, jar, out, disturbed>>
      PROVE  BrowserInv'
  BY <1>1, Moves, SameTable DEF BrowserInv
<1>2. CASE ServeSignIn(s)
  <2> DEFINE n == Len(pairs) + 1
  <2>1. /\ ~Rendering(s) /\ req[s].at = "sent" /\ UNCHANGED <<jar, out, disturbed>>
        /\ req[s].op = "signIn"
    BY <1>0, <1>2 DEF ServeSignIn, At
  <2>2. CASE pairs' = Issue(pairs, req[s].user) /\ Step(s, SetAuthCookies(Ended(s), n))
    <3>1. Step(s, [req[s] EXCEPT !.at = "answered", !.jar = CookiesOf(n), !.set = TRUE])
      BY <1>0, <2>2 DEF SetAuthCookies, Ended, AnyRequest, Step
    <3>2. req[s].user \in Users
      BY <2>1 DEF BrowserInv, Shape, Formed
    <3>3. Grown /\ Len(pairs') = n /\ pairs'[n].refresh = "live"
      BY <1>0, <2>2, <3>2, IssueGrows DEF Grown
    <3>4. \A i \in 1..Len(pairs) : pairs'[i] = pairs[i]
      BY <1>0, <2>2, <3>2, IssueGrows
    <3> QED
      BY <2>1, <3>1, <3>3, <3>4, Sets
  <2>3. CASE UNCHANGED pairs /\ Step(s, Ended(s))
    BY <1>1, <2>1, <2>3 DEF Ended
  <2> QED
    BY <1>2, <2>2, <2>3 DEF ServeSignIn
<1>3. CASE ServeSignOut(s)
  <2>1. /\ ~Rendering(s) /\ req[s].at = "sent" /\ UNCHANGED <<pairs, jar, out, disturbed>>
        /\ req[s].op = "signOut"
    BY <1>0, <1>3 DEF ServeSignOut, At
  <2>2. Step(s, [req[s] EXCEPT !.at = "answered", !.jar = NoCookies, !.set = TRUE])
    BY <1>0, <1>3 DEF ServeSignOut, ClearAuthCookies, Ended, AnyRequest, Step
  <2> QED
    BY <2>1, <2>2, Clears, SameTable DEF BrowserInv
<1>4. CASE Serve(s)
  BY <1>1, <1>4 DEF Serve, Ended
<1>5. CASE ServeDelete(s)
  <2>1. /\ ~Rendering(s) /\ req[s].at = "sent" /\ UNCHANGED <<jar, out>>
        /\ disturbed \subseteq disturbed' /\ disturbed' # {}
    BY <1>0, <1>5 DEF ServeDelete, At, Disturb
  <2>2. Step(s, [req[s] EXCEPT !.at = "answered", !.jar = NoCookies, !.set = TRUE])
    BY <1>0, <1>5 DEF ServeDelete, ClearAuthCookies, Ended, AnyRequest, Step
  <2>3. Grown
    BY <1>0, <1>5, RevokeKeeps DEF ServeDelete, Grown
  <2> QED
    BY <2>1, <2>2, <2>3, Clears
<1>6. CASE Unauthorized(s)
  <2>1. /\ req[s].at # "idle" /\ UNCHANGED <<pairs, jar, out, disturbed>>
        /\ \/ Step(s, [req[s] EXCEPT !.at = "refresh"]) /\ ~req[s].set
           \/ Step(s, [req[s] EXCEPT !.at = "answered"])
    BY <1>0, <1>6 DEF Unauthorized, At, Ended
  <2> QED
    BY <1>1, <2>1
<1>7. CASE CallFails(s)
  BY <1>1, <1>7 DEF CallFails, Ended
<1> QED
  BY <1>2, <1>3, <1>4, <1>5, <1>6, <1>7

LEMMA RefreshStep ==
  ASSUME BrowserInv, NEW s \in Slots,
         NoRefreshToken(s) \/ Refresh(s) \/ RefreshRejected(s) \/ RefreshFails(s)
  PROVE  BrowserInv'
<1> DEFINE i == req[s].jar.refresh
<1>0. /\ req[s] \in AnyRequest /\ pairs \in Seq(Pair) /\ i \in 0..Len(pairs) /\ Len(pairs) \in Nat
      /\ req[s].at = "refresh" /\ ~req[s].set /\ req[s].jar = req[s].before
      /\ UNCHANGED <<jar, out>> /\ disturbed \subseteq disturbed'
  BY Fields DEF BrowserInv, Shape, NoRefreshToken, Refresh, RefreshRejected, RefreshFails, At, Disturb
<1>1. ASSUME Rendering(s), Step(s, Dropped(s, req[s])), Grown, disturbed' = {} => pairs' = pairs
      PROVE  BrowserInv'
  BY <1>0, <1>1, Moves DEF Dropped, ReadOnly
<1>2. ASSUME ~Rendering(s), Step(s, Dropped(s, req[s])), Grown,
             disturbed' = {} => pairs' = pairs /\ i = 0
      PROVE  BrowserInv'
  <2>1. Step(s, [req[s] EXCEPT !.at = "answered", !.jar = NoCookies, !.set = TRUE])
    BY <1>0, <1>2 DEF Dropped, ReadOnly, ClearAuthCookies, AnyRequest, Step
  <2> QED
    BY <1>0, <1>2, <2>1, Clears
<1>3. CASE NoRefreshToken(s)
  <2>1. Step(s, Dropped(s, req[s])) /\ i = 0 /\ pairs' = pairs /\ Grown
    BY <1>3, SameTable DEF NoRefreshToken, BrowserInv
  <2> QED
    BY <1>1, <1>2, <2>1
\* Alone, an action presents the token the browser has.
<1>4. ASSUME ~Rendering(s), "overlap" \notin disturbed
      PROVE  i = jar.refresh /\ (\A a \in Acting : ~req[a].set) /\ s \in Acting
  BY <1>0, <1>4 DEF BrowserInv, CookieInv, Alone, Acting
<1>5. CASE Refresh(s)
  <2>1. i \in 1..Len(pairs) /\ Rotate(i)
    BY <1>0, <1>5 DEF Refresh
  <2>2. /\ Grown /\ Len(pairs') = Len(pairs) + 1
        /\ pairs'[Len(pairs) + 1].refresh = "live"
        /\ \A j \in 1..Len(pairs) : j # i => pairs'[j] = pairs[j]
    BY <1>0, <2>1, RotateGrows
  <2>3. CASE Rendering(s)
    <3>1. Step(s, Dropped(s, req[s])) /\ disturbed' # {}
      BY <1>5, <2>3 DEF Refresh, ReadOnly, Disturb
    <3> QED
      BY <1>1, <2>2, <2>3, <3>1
  <2>4. CASE ~Rendering(s)
    <3> DEFINE n == Len(pairs) + 1
    <3>1. Step(s, [req[s] EXCEPT !.at = "retry", !.jar = CookiesOf(n), !.set = TRUE])
      BY <1>0, <1>5, <2>4 DEF Refresh, ReadOnly, Persisted, SetAuthCookies, AnyRequest, Step
    <3>2. disturbed' = {} => \A j \in 1..Len(pairs) : j # jar.refresh => pairs'[j] = pairs[j]
      BY <1>0, <1>4, <2>2, <2>4
    <3>3. out /\ "overlap" \notin disturbed => req[s].op = "signIn"
      BY <1>4, <2>1, <2>4 DEF BrowserInv, CookieInv, OutClean, NoCookies
    <3> QED
      BY <1>0, <2>2, <2>4, <3>1, <3>2, <3>3, Sets
  <2> QED
    BY <2>3, <2>4
<1>6. CASE RefreshRejected(s)
  <2>1. i \in 1..Len(pairs) /\ Reject(i) /\ Step(s, Dropped(s, req[s]))
    BY <1>0, <1>6 DEF RefreshRejected
  <2>2. Grown
    BY <1>0, <2>1, RevokeKeeps, SameTable DEF Reject, Grown, BrowserInv
  <2>3. CASE Rendering(s)
    <3>1. disturbed' # {}
      BY <1>6, <2>3 DEF RefreshRejected, Disturb
    <3> QED
      BY <1>1, <2>1, <2>2, <2>3, <3>1
  <2>4. CASE ~Rendering(s)
    <3>1. disturbed' # {}
      <4> SUFFICES ASSUME disturbed = {} PROVE FALSE
        BY <1>0
      <4>1. i = jar.refresh /\ \A a \in Acting : ~req[a].set
        BY <1>4, <2>4
      <4>2. pairs[i].refresh = "live"
        BY <2>1, <4>1 DEF BrowserInv, CookieInv, JarGood
      <4> QED
        BY <2>1, <4>2 DEF Reject
    <3> QED
      BY <1>2, <2>1, <2>2, <2>4, <3>1
  <2> QED
    BY <2>3, <2>4
<1>7. CASE RefreshFails(s)
  <2>1. /\ i \in 1..Len(pairs) /\ (Rotate(i) \/ pairs' = pairs) /\ Step(s, Dropped(s, req[s]))
        /\ disturbed' # {}
    BY <1>0, <1>7 DEF RefreshFails, Disturb
  <2>2. Grown
    BY <1>0, <2>1, RotateGrows, SameTable DEF BrowserInv
  <2> QED
    BY <1>1, <1>2, <2>1, <2>2
<1> QED
  BY <1>3, <1>5, <1>6, <1>7

LEMMA BeginStep ==
  ASSUME BrowserInv, NEW s \in Slots, NEW op \in Ops, NEW u \in Users \cup {None},
         op = "signIn" => u \in Users, Rendering(s) => op = "data", Begin(s, op, u)
  PROVE  BrowserInv'
<1> DEFINE r == [Idle EXCEPT !.op = op, !.at = "sent", !.before = jar, !.jar = jar, !.user = u]
<1>1. jar \in AnyCookies /\ Names(jar, pairs) /\ Shape
  BY DEF BrowserInv, Shape
<1>2. /\ r \in AnyRequest /\ r.at = "sent" /\ r.op = op /\ r.before = jar /\ r.jar = jar
      /\ r.user = u /\ ~r.set
  BY <1>1 DEF Idle, AnyRequest, AnyCookies, NoCookies
<1>3. /\ req' = [req EXCEPT ![s] = r] /\ req[s].at = "idle"
      /\ UNCHANGED <<pairs, jar, out>>
      /\ disturbed' = disturbed \cup
           (IF ~Rendering(s) /\ \E o \in Busy : ~Rendering(o) THEN {"overlap"} ELSE {})
  BY DEF Begin, Step, At
<1> HIDE DEF r
<1>4. /\ DOMAIN req' = Slots /\ req' = [o \in Slots |-> req'[o]] /\ req'[s] = r
      /\ \A o \in Slots \ {s} : req'[o] = req[o]
  BY <1>1, <1>3 DEF Shape
<1>5. Formed(s, r)
  BY <1>2 DEF Formed
<1>6. Shape'
  BY <1>1, <1>2, <1>3, <1>4, <1>5 DEF Shape
<1>7. Acting' = IF Rendering(s) THEN Acting ELSE Acting \cup {s}
  BY <1>2, <1>3, <1>4 DEF Acting
<1>8. s \notin Acting /\ disturbed \subseteq disturbed'
  BY <1>3 DEF Acting
<1>9. ~Rendering(s) /\ "overlap" \notin disturbed' => Acting = {}
  BY <1>3 DEF Acting, Busy, At
<1>10. Alone'
  BY <1>2, <1>3, <1>4, <1>7, <1>8, <1>9 DEF BrowserInv, CookieInv, Alone, Acting
<1>11. OutClean'
  BY <1>2, <1>3, <1>4, <1>7, <1>8, <1>9 DEF BrowserInv, CookieInv, OutClean, Acting
<1>12. AnswersGood'
  BY <1>2, <1>3, <1>4, <1>7, <1>8, <1>9 DEF BrowserInv, CookieInv, AnswersGood, Acting
<1>13. JarGood'
  BY <1>2, <1>3, <1>4, <1>7, <1>8 DEF BrowserInv, CookieInv, JarGood, Acting
<1> QED
  BY <1>6, <1>10, <1>11, <1>12, <1>13 DEF BrowserInv, CookieInv

\* A request is over; with its answer the cookies it changed arrive, or not.
LEMMA EndStep ==
  ASSUME BrowserInv, NEW s \in Slots, Answer(s) \/ LoseAnswer(s)
  PROVE  BrowserInv'
<1> DEFINE r == req[s]
<1>1. /\ r.at = "answered" /\ req' = [req EXCEPT ![s] = Idle] /\ pairs' = pairs
      /\ disturbed \subseteq disturbed'
  BY DEF Answer, LoseAnswer, At, Step, Disturb
<1>2. /\ DOMAIN req' = Slots /\ req' = [o \in Slots |-> req'[o]] /\ req'[s] = Idle
      /\ \A o \in Slots \ {s} : req'[o] = req[o]
  BY <1>1 DEF BrowserInv, Shape
<1>3. jar' = jar \/ (r.set /\ jar' = r.jar)
  BY DEF Answer, LoseAnswer
<1>4. /\ Shape /\ r \in AnyRequest /\ Names(r.jar, pairs) /\ (Rendering(s) => ~r.set)
      /\ pairs \in Seq(Pair) /\ Len(pairs) \in Nat
  BY Fields DEF BrowserInv, Shape
<1>5. Names(Idle.jar, pairs) /\ Formed(s, Idle) /\ Idle.at = "idle" /\ ~Idle.set
  <2>1. Idle.jar.access = 0 /\ Idle.jar.refresh = 0
    BY DEF Idle, NoCookies
  <2>2. Names(Idle.jar, pairs)
    BY <1>4, <2>1 DEF Names
  <2> QED
    BY <2>2, IdleFormed
<1>6. Shape'
  BY <1>1, <1>2, <1>3, <1>4, <1>5 DEF Shape, AnyRequest
<1>7. Acting' = Acting \ {s}
  BY <1>2, <1>5 DEF Acting
<1>8. r.set => s \in Acting
  BY <1>1, <1>4 DEF Acting
<1>9. r.set /\ "overlap" \notin disturbed' => Acting' = {}
  BY <1>1, <1>7, <1>8 DEF BrowserInv, CookieInv, Alone
<1>10. Alone'
  BY <1>1, <1>2, <1>3, <1>7, <1>9 DEF BrowserInv, CookieInv, Alone, Acting
<1>11. OutClean'
  <2> SUFFICES ASSUME out', "overlap" \notin disturbed' PROVE OutClean'
    BY DEF OutClean
  <2>1. CASE Answer(s) /\ r.set
    <3>1. jar' = r.jar
      BY <2>1 DEF Answer
    <3>2. r.op # "signIn"
      BY <2>1 DEF Answer
    <3>3. out \/ r.jar = NoCookies
      BY <2>1, <3>2 DEF Answer
    <3>4. r.jar = NoCookies
      BY <1>1, <1>8, <2>1, <3>2, <3>3 DEF BrowserInv, CookieInv, OutClean
    <3> QED
      BY <1>9, <2>1, <3>1, <3>4 DEF OutClean
  <2>2. CASE ~(Answer(s) /\ r.set)
    <3>1. jar' = jar /\ out' = out
      BY <2>2 DEF Answer, LoseAnswer
    <3> QED
      BY <1>1, <1>2, <1>7, <3>1 DEF BrowserInv, CookieInv, OutClean, Acting
  <2> QED
    BY <2>1, <2>2
<1>12. AnswersGood'
  BY <1>1, <1>2, <1>7 DEF BrowserInv, CookieInv, AnswersGood, Acting
<1>13. JarGood'
  <2> SUFFICES ASSUME disturbed' = {}, jar'.refresh # 0
               PROVE  pairs[jar'.refresh].refresh = "live" \/ \E a \in Acting' : req'[a].set
    BY <1>1 DEF JarGood
  <2>0. disturbed = {}
    BY <1>1
  <2>1. CASE r.set
    <3>1. jar' = r.jar
      <4>1. Answer(s)
        BY <2>1 DEF LoseAnswer, Disturb
      <4> QED
        BY <2>1, <4>1 DEF Answer
    <3> QED
      BY <1>8, <2>0, <2>1, <3>1 DEF BrowserInv, CookieInv, AnswersGood
  <2>2. CASE ~r.set
    <3>1. jar' = jar
      BY <1>3, <2>2
    <3>2. pairs[jar.refresh].refresh = "live" \/ \E a \in Acting : req[a].set
      BY <2>0, <3>1 DEF BrowserInv, CookieInv, JarGood
    <3>3. ASSUME NEW a \in Acting, req[a].set
          PROVE  a \in Acting' /\ req'[a].set
      BY <1>2, <1>7, <2>2, <3>3 DEF Acting
    <3> QED
      BY <3>1, <3>2, <3>3
  <2> QED
    BY <2>1, <2>2
<1> QED
  BY <1>6, <1>10, <1>11, <1>12, <1>13 DEF BrowserInv, CookieInv

LEMMA ExpiryStep ==
  ASSUME BrowserInv, NEW i, AccessExpires(i)
  PROVE  BrowserInv'
<1> DEFINE pair == [pairs[i] EXCEPT !.access = "expired"]
<1>1. pairs \in Seq(Pair) /\ i \in 1..Len(pairs) /\ Len(pairs) \in Nat /\ Shape
  BY LenProperties DEF BrowserInv, Shape, AccessExpires
<1>2. pairs[i] \in Pair
  BY <1>1, ElementOfSeq
<1>3. pair \in Pair /\ pair.refresh = pairs[i].refresh
  BY <1>2 DEF Pair
<1>4. pairs' = [pairs EXCEPT ![i] = pair]
  BY DEF AccessExpires
<1> HIDE DEF pair
<1>5. /\ pairs' \in Seq(Pair) /\ Len(pairs') = Len(pairs)
      /\ \A j \in 1..Len(pairs) : pairs'[j].refresh = pairs[j].refresh
  BY <1>1, <1>3, <1>4, ExceptSeq
<1>6. UNCHANGED <<req, disturbed, out>>
  BY DEF AccessExpires
<1>7. /\ jar' \in AnyCookies /\ jar'.refresh = jar.refresh /\ jar'.access \in {0, jar.access}
      /\ jar = NoCookies => jar' = NoCookies
  BY <1>1 DEF AccessExpires, Shape, AnyCookies, NoCookies
<1>8. Shape'
  BY <1>1, <1>5, <1>6, <1>7 DEF Shape, Names
<1>9. Acting' = Acting
  BY <1>6 DEF Acting
<1>10. Alone' /\ OutClean'
  BY <1>6, <1>7, <1>9 DEF BrowserInv, CookieInv, Alone, OutClean
<1>11. \A a \in Acting : req[a].jar.refresh \in 0..Len(pairs)
  BY <1>1, Fields DEF Acting
<1>12. AnswersGood'
  BY <1>1, <1>5, <1>6, <1>9, <1>11 DEF BrowserInv, CookieInv, AnswersGood
<1>13. JarGood'
  <2>1. jar.refresh \in 0..Len(pairs)
    BY <1>1 DEF Shape, Names
  <2> QED
    BY <1>1, <1>5, <1>6, <1>7, <1>9, <2>1 DEF BrowserInv, CookieInv, JarGood
<1> QED
  BY <1>8, <1>10, <1>12, <1>13 DEF BrowserInv, CookieInv

LEMMA RevokedStep ==
  ASSUME BrowserInv, NEW u, RevokedElsewhere(u)
  PROVE  BrowserInv'
<1>1. /\ pairs' \in Seq(Pair) /\ Len(pairs') = Len(pairs) /\ UNCHANGED <<jar, req, out>>
      /\ disturbed \subseteq disturbed' /\ disturbed' # {}
  BY RevokeKeeps DEF RevokedElsewhere, BrowserInv, Shape, Disturb
<1>2. Acting' = Acting
  BY <1>1 DEF Acting
<1>3. Shape'
  BY <1>1 DEF BrowserInv, Shape, Names
<1> QED
  BY <1>1, <1>2, <1>3 DEF BrowserInv, CookieInv, Alone, OutClean, AnswersGood, JarGood

LEMMA BrowserStep == BrowserInv /\ [Next]_vars => BrowserInv'
<1> SUFFICES ASSUME BrowserInv, [Next]_vars PROVE BrowserInv'
  OBVIOUS
<1>1. CASE UNCHANGED vars
  BY <1>1 DEF vars, BrowserInv, CookieInv, Shape, Alone, OutClean, AnswersGood, JarGood, Acting
<1>2. ASSUME NEW t \in Tabs, BeginSignIn(t) \/ BeginAction(t) \/ BeginRender(t)
      PROVE  BrowserInv'
  <2> DEFINE a == <<t, "action">>
             b == <<t, "render">>
  <2>1. a \in Slots /\ b \in Slots /\ ~Rendering(a) /\ Rendering(b)
    BY DEF Slots, Rendering
  <2>2. CASE BeginSignIn(t)
    BY <2>1, <2>2, BeginStep DEF BeginSignIn, Ops
  <2>3. CASE BeginAction(t)
    BY <2>1, <2>3, BeginStep DEF BeginAction, Ops
  <2>4. CASE BeginRender(t)
    <3>1. SessionUser(jar) \in Users \cup {None}
      <4>1. jar.access \in 0..Len(pairs) /\ pairs \in Seq(Pair) /\ Len(pairs) \in Nat
        BY LenProperties DEF BrowserInv, Shape, Names
      <4>2. jar.access # 0 => pairs[jar.access] \in Pair
        BY <4>1, ElementOfSeq
      <4> QED
        BY <4>2 DEF SessionUser, ValidAccess, Pair
    <3> QED
      BY <2>1, <2>4, <3>1, BeginStep DEF BeginRender, Ops
  <2> QED
    BY <1>2, <2>2, <2>3, <2>4
<1>3. ASSUME NEW s \in Slots,
             \/ ServeSignIn(s) \/ ServeSignOut(s) \/ Serve(s) \/ ServeDelete(s) \/ Unauthorized(s)
             \/ NoRefreshToken(s) \/ Refresh(s) \/ RefreshRejected(s) \/ RefreshFails(s)
             \/ CallFails(s) \/ Answer(s) \/ LoseAnswer(s)
      PROVE  BrowserInv'
  BY <1>3, ServeStep, RefreshStep, EndStep
<1> QED
  BY <1>1, <1>2, <1>3, ExpiryStep, RevokedStep DEF Next

LEMMA AlwaysKnown == Spec => []BrowserInv
BY InitBrowser, BrowserStep, PTL DEF Spec

\* The refresh cookie the browser keeps is one the BFF still takes, or an action is
\* under way with its successor, unless tabs overlapped, a render spent it, an
\* answer was lost or the tokens were revoked (bffFetch, tryRefreshAccessToken).
THEOREM DeadSessionsExplained == Spec => []DeadSessionExplained
BY AlwaysKnown, BrowserHolds, PTL

\* Whatever is under way when a browser signs out, its late answer brings no cookie
\* back, unless the tabs overlapped (signOutAction, auth-cookies.ts).
THEOREM SignOutLasts == Spec => []SignedOutStays
BY AlwaysKnown, BrowserHolds, PTL

\* Cookies are dropped by a sign-out, or when something has happened to the
\* session: a refused or failed call alone drops none (bffFetch).
THEOREM SessionsKept == Spec => SessionKept
<1>1. ASSUME BrowserInv, [Next]_vars, jar.refresh # 0, jar'.refresh = 0, disturbed = {}
      PROVE  \E s \in Slots : req[s].op = "signOut" /\ req'[s] = Idle
  <2>1. PICK s \in Slots : Answer(s) /\ req[s].set
    <3>1. jar' # jar
      BY <1>1
    <3>2. \A i : ~AccessExpires(i)
      BY <1>1 DEF AccessExpires, BrowserInv, Shape, AnyCookies
    <3> QED
      BY <1>1, <3>1, <3>2 DEF Next, vars, BeginSignIn, BeginAction, BeginRender, Begin,
        ServeSignIn, ServeSignOut, Serve, ServeDelete, Unauthorized, NoRefreshToken, Refresh,
        RefreshRejected, RefreshFails, CallFails, Answer, LoseAnswer, RevokedElsewhere
  <2>2. jar' = req[s].jar /\ s \in Acting
    <3>1. req[s].at = "answered" /\ jar' = req[s].jar
      BY <2>1 DEF Answer, At
    <3>2. ~Rendering(s)
      <4>1. Formed(s, req[s])
        BY <1>1 DEF BrowserInv, Shape
      <4> QED
        BY <2>1, <4>1 DEF Formed
    <3> QED
      BY <3>1, <3>2 DEF Acting
  <2>3. req[s].before.refresh = jar.refresh
    BY <1>1, <2>2 DEF BrowserInv, CookieInv, Alone
  <2>4. req[s].op = "signOut"
    BY <1>1, <2>1, <2>2, <2>3 DEF BrowserInv, CookieInv, AnswersGood
  <2>5. req'[s] = Idle
    BY <1>1, <2>1 DEF Answer, Step, BrowserInv, Shape
  <2> QED
    BY <2>4, <2>5
<1>2. BrowserInv /\ [Next]_vars =>
        [jar.refresh # 0 /\ jar'.refresh = 0 =>
           disturbed # {} \/ \E s \in Slots : req[s].op = "signOut" /\ req'[s] = Idle]_vars
  BY <1>1
<1> QED
  BY <1>2, AlwaysKnown, PTL DEF Spec, SessionKept
=============================================================================

------------------------- MODULE GatewayProofs ------------------------------
(***************************************************************************)
(* Proofs about the way of a scoring request: the hourly quota that it has *)
(* to pass (ScoringQuota), what the pages, the BFF and the backend make of *)
(* it (Gateway), the score of the backend (Recitation) and the page that   *)
(* shows it (ResultPage).                                                  *)
(***************************************************************************)
EXTENDS Gateway, ScoringRules, SequenceTheorems, FiniteSetTheorems, TLAPS

-----------------------------------------------------------------------------
(* The quota.                                                               *)

CallsTyped ==
  /\ now \in Nat /\ boot \in Nat
  /\ calls \in [Users -> SUBSET [nth: Nat, at: 0..now, boot: 0..boot, admitted: BOOLEAN]]
  /\ \A u \in Users : IsFiniteSet(calls[u])
  /\ \A u \in Users : \A call \in calls[u] : call.nth <= Cardinality(calls[u])
  /\ recentJobs \in [Users -> SUBSET UNION {calls[u] : u \in Users}]

\* The list holds calls that this process admitted, and all of them that are in
\* the window.
Listed ==
  \A u \in Users :
    /\ \A call \in recentJobs[u] : call \in calls[u] /\ call.admitted /\ call.boot = boot
    /\ \A call \in calls[u] :
         call.admitted /\ call.boot = boot /\ now - call.at < WindowMs => call \in recentJobs[u]

QuotaInv == CallsTyped /\ Listed /\ WithinLimit /\ RefusedOnlyAtLimit

\* What the filter keeps is what the window that ends now has admitted.
LEMMA WindowIsAdmitted ==
  ASSUME CallsTyped, Listed, NEW u \in Users
  PROVE  InWindow(u) = Admitted(u, boot, now)
<1>1. \A call \in calls[u] : call.at \in 0..now
  BY DEF CallsTyped
<1>2. ASSUME NEW call \in InWindow(u) PROVE call \in Admitted(u, boot, now)
  <2>1. call \in calls[u] /\ call.admitted /\ call.boot = boot /\ now - call.at < WindowMs
    BY <1>2 DEF InWindow, Listed
  <2>2. call.at \in 0..now
    BY <1>1, <2>1
  <2>3. now - WindowMs < call.at /\ call.at <= now
    BY <2>1, <2>2, QuotaAssumption DEF CallsTyped
  <2> QED
    BY <2>1, <2>3 DEF Admitted
<1>3. ASSUME NEW call \in Admitted(u, boot, now) PROVE call \in InWindow(u)
  <2>1. call \in calls[u] /\ call.admitted /\ call.boot = boot /\ now - WindowMs < call.at
    BY <1>3 DEF Admitted
  <2>2. now - call.at < WindowMs
    BY <1>1, <2>1, QuotaAssumption DEF CallsTyped
  <2> QED
    BY <2>1, <2>2 DEF InWindow, Listed
<1> QED
  BY <1>2, <1>3

LEMMA AdmittedFinite ==
  ASSUME CallsTyped, NEW u \in Users, NEW b, NEW t
  PROVE  IsFiniteSet(Admitted(u, b, t)) /\ Cardinality(Admitted(u, b, t)) \in Nat
<1>1. IsFiniteSet(calls[u]) /\ Admitted(u, b, t) \subseteq calls[u]
  BY DEF CallsTyped, Admitted
<1> QED
  BY <1>1, FS_Subset, FS_CardinalityType

LEMMA InitQuotaInv == InitQuota => QuotaInv
<1> SUFFICES ASSUME InitQuota PROVE QuotaInv
  OBVIOUS
<1>1. \A u \in Users : calls[u] = {} /\ recentJobs[u] = {}
  BY DEF InitQuota
<1>2. CallsTyped /\ Listed /\ RefusedOnlyAtLimit
  BY <1>1, FS_EmptySet DEF InitQuota, CallsTyped, Listed, RefusedOnlyAtLimit
<1>3. \A u \in Users : \A b, t : Admitted(u, b, t) = {}
  BY <1>1 DEF Admitted
<1> QED
  BY <1>2, <1>3, FS_EmptySet, QuotaAssumption DEF QuotaInv, WithinLimit

LEMMA CallMade ==
  ASSUME QuotaInv, NEW u \in Users, NEW admitted \in BOOLEAN, Record(u, admitted),
         UNCHANGED <<now, boot>>,
         recentJobs' = [recentJobs EXCEPT ![u] =
           InWindow(u) \cup (IF admitted THEN {Made(u, admitted)} ELSE {})],
         admitted => Cardinality(InWindow(u)) < MaxJobs,
         ~admitted => Cardinality(InWindow(u)) >= MaxJobs
  PROVE  QuotaInv'
<1> DEFINE new == Made(u, admitted)
           n == Cardinality(calls[u])
<1>0. CallsTyped /\ Listed /\ WithinLimit /\ RefusedOnlyAtLimit /\ now \in Nat /\ boot \in Nat
  BY DEF QuotaInv, CallsTyped
<1>1. IsFiniteSet(calls[u]) /\ n \in Nat
  BY <1>0, FS_CardinalityType DEF CallsTyped
<1>2. /\ new \in [nth: Nat, at: 0..now, boot: 0..boot, admitted: BOOLEAN]
      /\ new.nth = n + 1 /\ new.at = now /\ new.boot = boot /\ new.admitted = admitted
  BY <1>0, <1>1 DEF Made
<1> HIDE DEF n, new
<1>3. new \notin calls[u]
  BY <1>0, <1>1, <1>2 DEF CallsTyped, n
<1>4. /\ calls' = [calls EXCEPT ![u] = calls[u] \cup {new}] /\ DOMAIN calls = Users
      /\ calls'[u] = calls[u] \cup {new} /\ \A v \in Users \ {u} : calls'[v] = calls[v]
  BY <1>0 DEF Record, CallsTyped, new
<1>5. IsFiniteSet(calls[u] \cup {new}) /\ Cardinality(calls[u] \cup {new}) = n + 1
  BY <1>1, <1>3, FS_AddElement DEF n
<1>6. /\ recentJobs'[u] = InWindow(u) \cup (IF admitted THEN {new} ELSE {})
      /\ \A v \in Users \ {u} : recentJobs'[v] = recentJobs[v]
      /\ DOMAIN recentJobs' = Users
  BY <1>0 DEF CallsTyped, new
<1>7. Listed'
  <2>1. ASSUME NEW v \in Users, v # u
        PROVE  /\ \A call \in recentJobs'[v] : call \in calls'[v] /\ call.admitted /\ call.boot = boot'
               /\ \A call \in calls'[v] :
                    call.admitted /\ call.boot = boot' /\ now' - call.at < WindowMs => call \in recentJobs'[v]
    BY <1>0, <1>4, <1>6, <2>1 DEF Listed
  <2>2. \A call \in recentJobs'[u] : call \in calls'[u] /\ call.admitted /\ call.boot = boot'
    BY <1>0, <1>2, <1>4, <1>6 DEF Listed, InWindow
  <2>3. \A call \in calls'[u] :
          call.admitted /\ call.boot = boot' /\ now' - call.at < WindowMs => call \in recentJobs'[u]
    BY <1>0, <1>2, <1>4, <1>6 DEF Listed, InWindow
  <2> QED
    BY <2>1, <2>2, <2>3 DEF Listed
<1>8. CallsTyped'
  <2>1. calls' \in [Users -> SUBSET [nth: Nat, at: 0..now', boot: 0..boot', admitted: BOOLEAN]]
    BY <1>0, <1>2, <1>4 DEF CallsTyped
  <2>2. \A v \in Users : IsFiniteSet(calls'[v])
    BY <1>0, <1>4, <1>5 DEF CallsTyped
  <2>3. \A v \in Users : \A call \in calls'[v] : call.nth <= Cardinality(calls'[v])
    <3>1. ASSUME NEW call \in calls[u] PROVE call.nth <= n /\ call.nth \in Nat
      BY <1>0, <3>1 DEF CallsTyped, n
    <3>2. \A call \in calls'[u] : call.nth <= Cardinality(calls'[u])
      BY <1>1, <1>2, <1>4, <1>5, <3>1
    <3> QED
      BY <1>0, <1>4, <3>2 DEF CallsTyped
  <2>4. \A v \in Users : recentJobs'[v] \subseteq calls'[v]
    BY <1>7 DEF Listed
  <2>5. recentJobs' \in [Users -> SUBSET UNION {calls'[v] : v \in Users}]
    BY <1>6, <2>4, <1>0 DEF CallsTyped
  <2> QED
    BY <1>0, <2>1, <2>2, <2>3, <2>5 DEF CallsTyped
<1>9. ASSUME NEW v \in Users, NEW b, NEW t, v # u \/ ~admitted \/ b # boot \/ ~(now <= t)
      PROVE  Admitted(v, b, t)' = Admitted(v, b, t)
  BY <1>2, <1>4, <1>9 DEF Admitted
<1>10. ASSUME admitted
       PROVE  Cardinality(Admitted(u, boot, now)') <= MaxJobs
  <2>1. Admitted(u, boot, now)' \subseteq Admitted(u, boot, now) \cup {new}
    BY <1>4 DEF Admitted
  <2>2. /\ IsFiniteSet(Admitted(u, boot, now)) /\ Cardinality(Admitted(u, boot, now)) \in Nat
        /\ Cardinality(Admitted(u, boot, now)) < MaxJobs
    BY <1>0, <1>10, WindowIsAdmitted, AdmittedFinite
  <2>3. new \notin Admitted(u, boot, now)
    BY <1>3 DEF Admitted
  <2>4. /\ IsFiniteSet(Admitted(u, boot, now) \cup {new})
        /\ Cardinality(Admitted(u, boot, now) \cup {new}) = Cardinality(Admitted(u, boot, now)) + 1
    BY <2>2, <2>3, FS_AddElement
  <2>5. /\ Cardinality(Admitted(u, boot, now)') \in Nat
        /\ Cardinality(Admitted(u, boot, now)') <= Cardinality(Admitted(u, boot, now)) + 1
    BY <2>1, <2>4, FS_Subset, FS_CardinalityType
  <2> QED
    BY <2>2, <2>5, QuotaAssumption
<1>11. WithinLimit'
  <2> SUFFICES ASSUME NEW v \in Users, NEW b \in 0..boot, NEW t \in 0..now
               PROVE  Cardinality(Admitted(v, b, t)') <= MaxJobs
    BY DEF WithinLimit
  <2>1. Cardinality(Admitted(v, b, t)) <= MaxJobs
    BY <1>0 DEF WithinLimit
  <2>2. CASE v # u \/ ~admitted \/ b # boot \/ ~(now <= t)
    BY <1>9, <2>1, <2>2
  <2>3. CASE v = u /\ admitted /\ b = boot /\ now <= t
    <3>1. t = now
      BY <1>0, <2>3
    <3> QED
      BY <1>10, <2>3, <3>1
  <2> QED
    BY <2>2, <2>3
<1>12. RefusedOnlyAtLimit'
  <2>1. ~admitted => Cardinality(Admitted(u, boot, now)) = MaxJobs
    <3>1. /\ InWindow(u) = Admitted(u, boot, now) /\ Cardinality(Admitted(u, boot, now)) \in Nat
          /\ Cardinality(Admitted(u, boot, now)) <= MaxJobs
      BY <1>0, WindowIsAdmitted, AdmittedFinite DEF WithinLimit
    <3> QED
      BY <3>1, QuotaAssumption
  <2>2. ASSUME NEW v \in Users, NEW call \in calls[v], NEW b, NEW t,
               ~call.admitted, b = call.boot, t = call.at
        PROVE  Cardinality(Admitted(v, b, t)') = MaxJobs
    <3>1. Cardinality(Admitted(v, b, t)) = MaxJobs /\ t \in 0..now
      BY <1>0, <2>2 DEF RefusedOnlyAtLimit, CallsTyped
    <3>2. ASSUME v = u, admitted, b = boot, now <= t PROVE FALSE
      <4>1. t = now
        BY <1>0, <3>1, <3>2
      <4>2. Cardinality(InWindow(u)) = MaxJobs
        BY <1>0, <3>1, <3>2, <4>1, WindowIsAdmitted
      <4> QED
        BY <3>2, <4>2, QuotaAssumption
    <3> QED
      BY <1>9, <3>1, <3>2
  <2>3. ASSUME NEW b, NEW t, ~admitted, b = boot, t = now
        PROVE  Cardinality(Admitted(u, b, t)') = MaxJobs
    BY <1>9, <2>1, <2>3
  <2>4. ASSUME NEW v \in Users, NEW call \in calls'[v], NEW b, NEW t,
               ~call.admitted, b = call.boot, t = call.at
        PROVE  Cardinality(Admitted(v, b, t)') = MaxJobs
    <3>1. CASE call \in calls[v]
      BY <2>2, <2>4, <3>1
    <3>2. CASE call \notin calls[v]
      <4>1. v = u /\ call = new
        BY <1>4, <2>4, <3>2
      <4>2. ~admitted /\ b = boot /\ t = now
        BY <1>2, <2>4, <4>1
      <4> QED
        BY <2>3, <4>1, <4>2
    <3> QED
      BY <3>1, <3>2
  <2> QED
    BY <2>4 DEF RefusedOnlyAtLimit
<1> QED
  BY <1>7, <1>8, <1>11, <1>12 DEF QuotaInv

LEMMA QuotaStep == QuotaInv /\ [NextQuota]_quotaVars => QuotaInv'
<1> SUFFICES ASSUME QuotaInv, [NextQuota]_quotaVars PROVE QuotaInv'
  OBVIOUS
<1>0. CallsTyped /\ Listed /\ WithinLimit /\ RefusedOnlyAtLimit /\ now \in Nat /\ boot \in Nat
  BY DEF QuotaInv, CallsTyped
<1>1. ASSUME NEW u \in Users, ConsumeScoringQuota(u) PROVE QuotaInv'
  <2>0. UNCHANGED <<now, boot>>
    BY <1>1 DEF ConsumeScoringQuota
  <2>1. CASE Cardinality(InWindow(u)) >= MaxJobs /\ Reject(u)
    BY <2>0, <2>1, CallMade DEF Reject
  <2>2. ASSUME Cardinality(InWindow(u)) < MaxJobs, Admit(u) PROVE QuotaInv'
    BY <2>0, <2>2, CallMade DEF Admit
  <2>3. Cardinality(InWindow(u)) >= MaxJobs => ~(Cardinality(InWindow(u)) < MaxJobs)
    <3>1. Cardinality(InWindow(u)) \in Nat
      BY <1>0, WindowIsAdmitted, AdmittedFinite
    <3> QED
      BY <3>1, QuotaAssumption
  <2> QED
    BY <1>1, <2>1, <2>2 DEF ConsumeScoringQuota
<1>2. CASE UNCHANGED quotaVars
  BY <1>2 DEF quotaVars, QuotaInv, CallsTyped, Listed, WithinLimit, RefusedOnlyAtLimit, Admitted
<1>3. ASSUME UNCHANGED calls, now' \in Nat, now' >= now, boot' \in Nat, boot' >= boot,
             recentJobs' \in [Users -> SUBSET UNION {calls[u] : u \in Users}]
      PROVE  CallsTyped' /\ RefusedOnlyAtLimit'
             /\ \A u \in Users : \A b, t : Admitted(u, b, t)' = Admitted(u, b, t)
  <2>1. [nth: Nat, at: 0..now, boot: 0..boot, admitted: BOOLEAN]
          \subseteq [nth: Nat, at: 0..now', boot: 0..boot', admitted: BOOLEAN]
    BY <1>0, <1>3
  <2>2. calls' \in [Users -> SUBSET [nth: Nat, at: 0..now', boot: 0..boot', admitted: BOOLEAN]]
    BY <1>0, <1>3, <2>1 DEF CallsTyped
  <2>3. CallsTyped'
    BY <1>0, <1>3, <2>2 DEF CallsTyped
  <2> QED
    BY <1>0, <1>3, <2>3 DEF RefusedOnlyAtLimit, Admitted
<1>4. CASE Tick
  <2>0. /\ now' = now + 1 /\ boot' = boot /\ calls' = calls /\ recentJobs' = recentJobs
        /\ recentJobs \in [Users -> SUBSET UNION {calls[u] : u \in Users}]
    BY <1>0, <1>4 DEF Tick, CallsTyped
  <2>1. CallsTyped' /\ RefusedOnlyAtLimit' /\ \A u \in Users : \A b, t : Admitted(u, b, t)' = Admitted(u, b, t)
    BY <1>0, <1>3, <2>0
  <2>2. \A u \in Users : \A call \in calls[u] : call.at \in 0..now
    BY <1>0 DEF CallsTyped
  <2>3. Listed'
    BY <1>0, <2>0, <2>2, QuotaAssumption DEF Listed
  <2>4. ASSUME NEW u \in Users, NEW b \in 0..boot, NEW t \in 0..now + 1
        PROVE  Cardinality(Admitted(u, b, t)) <= MaxJobs
    <3>1. CASE t \in 0..now
      BY <1>0, <3>1 DEF WithinLimit
    <3>2. CASE t = now + 1
      <4>1. Admitted(u, b, t) \subseteq Admitted(u, b, now)
        BY <1>0, <2>2, <3>2, QuotaAssumption DEF Admitted
      <4>2. Cardinality(Admitted(u, b, t)) <= Cardinality(Admitted(u, b, now))
        BY <1>0, <4>1, AdmittedFinite, FS_Subset
      <4>3. Cardinality(Admitted(u, b, now)) <= MaxJobs
        BY <1>0 DEF WithinLimit
      <4>4. Cardinality(Admitted(u, b, t)) \in Nat /\ Cardinality(Admitted(u, b, now)) \in Nat
        BY <1>0, AdmittedFinite
      <4> QED
        BY <4>2, <4>3, <4>4, QuotaAssumption
    <3> QED
      BY <1>0, <3>1, <3>2
  <2>5. WithinLimit'
    BY <2>0, <2>1, <2>4 DEF WithinLimit
  <2> QED
    BY <2>1, <2>3, <2>5 DEF QuotaInv
<1>5. CASE Restart
  <2>0. /\ now' = now /\ boot' = boot + 1 /\ calls' = calls /\ recentJobs' = [u \in Users |-> {}]
    BY <1>5 DEF Restart
  <2>1. CallsTyped' /\ RefusedOnlyAtLimit' /\ \A u \in Users : \A b, t : Admitted(u, b, t)' = Admitted(u, b, t)
    BY <1>0, <1>3, <2>0
  <2>2. \A u \in Users : \A call \in calls[u] : call.boot # boot + 1
    BY <1>0 DEF CallsTyped
  <2>3. Listed'
    BY <2>0, <2>2 DEF Listed
  <2>4. ASSUME NEW u \in Users, NEW b \in 0..boot + 1, NEW t \in 0..now
        PROVE  Cardinality(Admitted(u, b, t)) <= MaxJobs
    <3>1. CASE b \in 0..boot
      BY <1>0, <3>1 DEF WithinLimit
    <3>2. CASE b = boot + 1
      <4>1. Admitted(u, b, t) = {}
        BY <2>2, <3>2 DEF Admitted
      <4> QED
        BY <4>1, FS_EmptySet, QuotaAssumption
    <3> QED
      BY <1>0, <3>1, <3>2
  <2>5. WithinLimit'
    BY <2>0, <2>1, <2>4 DEF WithinLimit
  <2> QED
    BY <2>1, <2>3, <2>5 DEF QuotaInv
<1> QED
  BY <1>1, <1>2, <1>4, <1>5 DEF NextQuota

\* consumeScoringQuota, whenever it is called and however often the process
\* restarts: no window of an hour holds more than the limit, and nothing is
\* refused before it is reached.
THEOREM QuotaStaysExact == SpecQuota => []QuotaExact
<1>1. QuotaInv => QuotaExact
  BY DEF QuotaInv, QuotaExact
<1> QED
  BY <1>1, InitQuotaInv, QuotaStep, PTL DEF SpecQuota

-----------------------------------------------------------------------------
(* The visits.  What the invariant says of a visit is said of its record x. *)

\* Every visit is about some verse.
HasVerse(x) == x.pc # "idle" => x.verse \in Verses

\* A clip is in the store once it is signed, and stays.
HasClip(x) == x.pc \in {"sign", "asking"} => x.verse \in clips

\* The backend works on a row, and whoever left without its reply was hurt.
HasRow(x) == x.pc \in {"waiting", "left"} /\ x.reply = None => job \in Row
LeftHurt(x) == x.pc = "left" => x.hurt

\* AbsenceExplained of one visit, one implication per answer.
Explained(x) ==
  x.pc \in {"left", "ended"} /\ Known(x.verse) =>
    /\ x.answer = "null" => x.kind = "surah" /\ via = "rest" /\ x.hurt
    /\ x.answer = "noAyahs" => via = "rest" /\ x.hurt
    /\ x.answer = "home" => x.hurt
    /\ x.answer = "notFound" => x.hurt \/ x.row = None

\* The visit whose score the row holds has been told so or will be, or is hurt.
ScoreTold(x) == /\ x.pc \in {"waiting", "left", "ended"}
                /\ x.reply \in {"OK", "lost"}
                /\ x.reply = "lost" => x.hurt
                /\ x.pc = "ended" => x.answer = "201" \/ x.hurt

VisitInv(v) == /\ HasVerse(visits[v]) /\ HasClip(visits[v]) /\ HasRow(visits[v])
               /\ LeftHurt(visits[v]) /\ Explained(visits[v])
               /\ job \in Row /\ job.by = v => ScoreTold(visits[v])

GatewayInv == /\ TypeOK
              /\ job \in Row => job.verse \in clips
              /\ \A v \in Visits : VisitInv(v)

\* The answers that do not report anything missing.
Plain == Told \ {"none", "null", "noAyahs", "home", "notFound"}

LEMMA PlainAnswers ==
  /\ \A kind, error : ScoringStatus(kind, error) \in Plain
  /\ \A seen : ResultView(seen) \in Plain
BY DEF ScoringStatus, ResultView, Plain, Told

\* A visit's step: what it makes of its own record and of the row decides.
LEMMA VisitStep ==
  ASSUME GatewayInv, NEW v \in Visits, NEW x \in Visit,
         visits' = [visits EXCEPT ![v] = x], via' = via,
         clips \subseteq clips', clips' \subseteq Verses,
         job' \in Row \cup {None}, job \in Row => job' \in Row,
         job' \in Row => job'.verse \in clips',
         \A w \in Visits \ {v} : job' \in Row /\ job'.by = w => job \in Row /\ job.by = w,
         HasVerse(x), x.pc \in {"sign", "asking"} => x.verse \in clips',
         x.pc \in {"waiting", "left"} /\ x.reply = None => job' \in Row,
         LeftHurt(x), Explained(x),
         job' \in Row /\ job'.by = v => ScoreTold(x)
  PROVE  GatewayInv'
<1>1. /\ visits'[v] = x /\ \A w \in Visits \ {v} : visits'[w] = visits[w]
      /\ visits' \in [Visits -> Visit]
  BY DEF GatewayInv, TypeOK
<1>2. TypeOK'
  BY <1>1 DEF GatewayInv, TypeOK
<1>3. VisitInv(v)'
  BY <1>1 DEF VisitInv, HasVerse, HasClip, HasRow, LeftHurt, Explained, ScoreTold
<1>4. ASSUME NEW w \in Visits \ {v} PROVE VisitInv(w)'
  <2>1. VisitInv(w) /\ visits'[w] = visits[w]
    BY <1>1 DEF GatewayInv
  <2> QED
    BY <2>1 DEF VisitInv, HasVerse, HasClip, HasRow, LeftHurt, Explained, ScoreTold
<1> QED
  BY <1>2, <1>3, <1>4 DEF GatewayInv

\* The same when the visit touches neither the row nor the clips: the row's
\* score is then of another visit, or the visit keeps to what is promised.
LEMMA QuietStep ==
  ASSUME GatewayInv, NEW v \in Visits, NEW x \in Visit,
         visits' = [visits EXCEPT ![v] = x], UNCHANGED <<via, clips, job>>,
         HasVerse(x), HasClip(x), HasRow(x), LeftHurt(x), Explained(x),
         job \in Row /\ job.by = v => ScoreTold(x)
  PROVE  GatewayInv'
BY VisitStep DEF GatewayInv, TypeOK, HasClip, HasRow

LEMMA FreshIsVisit == Fresh \in Visit /\ Fresh.pc = "idle"
<1>1. 0 \in 0..MaxRetries
  BY RetryAssumption
<1> QED
  BY <1>1, Zenon DEF Fresh, Visit, Pcs, Told

LEMMA InitGateway == Init => GatewayInv
<1> SUFFICES ASSUME Init PROVE GatewayInv
  OBVIOUS
<1>1. Fresh \in Visit /\ Fresh.pc = "idle"
  BY FreshIsVisit
<1>2. TypeOK
  BY <1>1 DEF Init, TypeOK
<1>3. \A v \in Visits : HasVerse(visits[v]) /\ HasClip(visits[v]) /\ HasRow(visits[v]) /\ LeftHurt(visits[v]) /\ Explained(visits[v])
  BY <1>1 DEF Init, HasVerse, HasClip, HasRow, LeftHurt, Explained
<1>4. job \notin Row
  BY NoneAssumption DEF Init
<1> QED
  BY <1>2, <1>3, <1>4 DEF GatewayInv, VisitInv

\* Lookups that end at once, and requests that are on their way: the visit was
\* idle, so the row's score is not its own.
LEMMA Opened ==
  ASSUME GatewayInv, NEW v \in Visits, NEW kind \in Kinds, NEW verse \in Verses, NEW x \in Visit,
         Opens(v, kind, verse, x), UNCHANGED <<via, clips, job>>,
         x.pc \in {"stat", "ended"}, x.pc = "stat" \/ Explained([x EXCEPT !.kind = kind, !.verse = verse])
  PROVE  GatewayInv'
<1> DEFINE y == [x EXCEPT !.kind = kind, !.verse = verse]
<1>1. visits[v].pc = "idle" /\ visits' = [visits EXCEPT ![v] = y]
  BY DEF Opens
<1>2. y \in Visit /\ y.pc = x.pc /\ y.verse = verse
  BY DEF Visit
<1>3. ~(job \in Row /\ job.by = v)
  BY <1>1 DEF GatewayInv, VisitInv, ScoreTold
<1>4. x.pc = "stat" => Explained(y)
  BY <1>2 DEF Explained
<1> HIDE DEF y
<1>5. HasVerse(y) /\ HasClip(y) /\ HasRow(y) /\ LeftHurt(y)
  BY <1>2 DEF HasVerse, HasClip, HasRow, LeftHurt
<1>6. Explained(y)
  BY <1>4 DEF y
<1> QED
  BY <1>1, <1>2, <1>3, <1>5, <1>6, QuietStep

\* What exists is found when every call is answered.
LEMMA FoundWhenUp ==
  ASSUME via \in {"grpc", "rest"}, NEW s, NEW a, s \in Surahs, a \in Ayahs
  PROVE  /\ \A h, ha \in Health :
              /\ FetchSurah(s, h, ha) \in {"null", "throws", "noAyahs", "value"}
              /\ FetchSurah(s, h, ha) = "null" => via = "rest" /\ {h, ha} # {"up"}
              /\ FetchSurah(s, h, ha) = "noAyahs" => via = "rest" /\ {h, ha} # {"up"}
         /\ \A h \in Health : FetchAyah(s, a, h) \in {"throws", "value"}
         /\ FetchSurah(s, "up", "up") = "value"
         /\ FetchSurahs("up") = "value"
<1>1. ASSUME NEW h \in Health, NEW ha \in Health
      PROVE  /\ FetchSurah(s, h, ha) \in {"null", "throws", "noAyahs", "value"}
             /\ FetchSurah(s, h, ha) = "null" => via = "rest" /\ h # "up"
             /\ FetchSurah(s, h, ha) = "noAyahs" => via = "rest" /\ ha # "up"
  <2>1. CASE via = "grpc"
    BY <2>1 DEF FetchSurah, NullIfNotFound, GrpcGetSurah, GrpcListAyahs, GetSurah, ListBySurah, Health
  <2>2. CASE via = "rest"
    BY <2>2 DEF FetchSurah, RestGetSurah, RestListAyahs, GetSurah, ListBySurah, Health
  <2> QED
    BY <2>1, <2>2
<1>2. ASSUME NEW h \in Health PROVE FetchAyah(s, a, h) \in {"throws", "value"}
  BY DEF FetchAyah, NullIfNotFound, GrpcGetAyah, GetByNumber, FetchAyahs, RestListAyahs, ListBySurah, Health
<1>3. FetchSurah(s, "up", "up") = "value"
  BY DEF FetchSurah, NullIfNotFound, GrpcGetSurah, GrpcListAyahs, RestGetSurah, RestListAyahs, GetSurah, ListBySurah
<1>4. FetchSurahs("up") = "value"
  BY DEF FetchSurahs, GrpcListSurahs, RestListSurahs, ListSurahs
<1> QED
  BY <1>1, <1>2, <1>3, <1>4

\* Neither page misses a verse that exists when every call is answered.
LEMMA PagesWhenUp ==
  ASSUME via \in {"grpc", "rest"}, NEW s, NEW a, s \in Surahs, a \in Ayahs
  PROVE  /\ PracticePage(s, "up", "up", "up") = "page"
         /\ \A seen : seen # None => ResultLoads(s, a, seen, "up", "up", "up")
<1>1. FetchSurah(s, "up", "up") = "value" /\ FetchSurahs("up") = "value"
  BY FoundWhenUp
<1>2. ActionSurahs("up") = "200" /\ ActionSurahAyahs(s, "up", "up") = "value"
  BY <1>1 DEF ActionSurahs, ActionSurahAyahs, ParseJson, RscSurahs, RscSurahAyahs
<1> QED
  BY <1>2 DEF PracticePage, ResultLoads

LEMMA OpenStep ==
  ASSUME GatewayInv, NEW v \in Visits, Open(v)
  PROVE  GatewayInv'
<1>1. PICK s \in AskedSurahs, a \in AskedAyahs :
        \/ OpenPractice(v, s, a) \/ QuerySurah(v, s, a) \/ QueryAyah(v, s, a)
        \/ OpenResult(v, s, a) \/ OpenClip(v, s, a)
        \/ \E kind \in Scores : OpenScore(v, kind, s, a)
  BY DEF Open
<1> DEFINE verse == <<s, a>>
<1>2. /\ verse \in Verses /\ (Known(verse) <=> s \in Surahs /\ a \in Ayahs)
      /\ via \in {"grpc", "rest"} /\ job \in Row \cup {None}
  BY DEF Verses, Known, GatewayInv, TypeOK
<1> HIDE DEF verse
<1>3. /\ Fresh \in [kind: Kinds \cup {None}, verse: Verses \cup {None}, pc: Pcs, tries: 0..MaxRetries,
                    row: Row \cup {None}, reply: Replies \cup {None}, hurt: BOOLEAN, answer: Told]
      /\ Scores \subseteq Kinds /\ {"practice", "result", "surah", "ayah", "clip"} \subseteq Kinds
  BY FreshIsVisit DEF Visit, Scores, Kinds
\* A visit that ends with what it was told.
<1>4. ASSUME NEW kind \in Kinds, NEW answer \in Told, NEW hurt \in BOOLEAN,
             NEW seen \in Row \cup {None},
             Opens(v, kind, verse, [Fresh EXCEPT !.pc = "ended", !.row = seen, !.hurt = hurt, !.answer = answer]),
             UNCHANGED <<via, clips, job>>,
             s \in Surahs /\ a \in Ayahs =>
               /\ answer = "null" => kind = "surah" /\ via = "rest" /\ hurt
               /\ answer = "noAyahs" => via = "rest" /\ hurt
               /\ answer = "home" => hurt
               /\ answer = "notFound" => hurt \/ seen = None
      PROVE  GatewayInv'
  <2> DEFINE x == [Fresh EXCEPT !.pc = "ended", !.row = seen, !.hurt = hurt, !.answer = answer]
             y == [x EXCEPT !.kind = kind, !.verse = verse]
  <2>1. /\ x \in Visit /\ x.pc = "ended"
        /\ y.pc = "ended" /\ y.verse = verse /\ y.answer = answer /\ y.kind = kind
        /\ y.hurt = hurt /\ y.row = seen
    BY <1>3 DEF Visit, Pcs
  <2> HIDE DEF x
  <2>2. Explained(y)
    <3> HIDE DEF y
    <3> QED
      BY <1>2, <1>4, <2>1 DEF Explained
  <2>3. Opens(v, kind, verse, x)
    BY <1>4 DEF x
  <2> QED
    BY <1>2, <1>4, <2>1, <2>2, <2>3, Opened
\* A visit that goes on to its clip.
<1>5. ASSUME NEW kind \in Kinds, NEW seen \in Row \cup {None}, UNCHANGED <<via, clips, job>>,
             NEW hurt \in BOOLEAN, Opens(v, kind, verse, [Fresh EXCEPT !.pc = "stat", !.row = seen, !.hurt = hurt])
      PROVE  GatewayInv'
  <2> DEFINE x == [Fresh EXCEPT !.pc = "stat", !.row = seen, !.hurt = hurt]
  <2>1. x \in Visit /\ x.pc = "stat"
    BY <1>3 DEF Visit, Pcs
  <2> HIDE DEF x
  <2>2. Opens(v, kind, verse, x)
    BY <1>5 DEF x
  <2> QED
    BY <1>2, <1>5, <2>1, <2>2, Opened
<1>6. Fresh.row = None /\ Fresh.hurt = FALSE /\ Fresh.answer = "none"
      /\ Fresh = [kind |-> None, verse |-> None, pc |-> "idle", tries |-> 0, row |-> None,
                  reply |-> None, hurt |-> FALSE, answer |-> "none"]
  BY DEF Fresh
<1>7. CASE OpenPractice(v, s, a)
  <2>1. PICK h \in Health, hs \in Health, ha \in Health :
          /\ Opens(v, "practice", <<s, a>>, [Fresh EXCEPT !.pc = "ended", !.hurt = {h, hs, ha} # {"up"},
                                                          !.answer = PracticePage(s, h, hs, ha)])
          /\ UNCHANGED <<via, clips, job>>
    BY <1>7 DEF OpenPractice
  <2> DEFINE answer == PracticePage(s, h, hs, ha)
             hurt == {h, hs, ha} # {"up"}
  <2>2. answer \in {"home", "page"} /\ hurt \in BOOLEAN
    BY DEF PracticePage
  <2>3. s \in Surahs /\ a \in Ayahs /\ answer = "home" => hurt
    BY <1>2, PagesWhenUp
  <2> HIDE DEF answer, hurt
  <2>4. [Fresh EXCEPT !.pc = "ended", !.hurt = hurt, !.answer = answer]
          = [Fresh EXCEPT !.pc = "ended", !.row = None, !.hurt = hurt, !.answer = answer]
    BY <1>6
  <2>5. Opens(v, "practice", verse, [Fresh EXCEPT !.pc = "ended", !.row = None, !.hurt = hurt, !.answer = answer])
        /\ answer \in Told /\ "practice" \in Kinds
    BY <2>1, <2>2, <2>4 DEF answer, hurt, verse, Told, Kinds
  <2> QED
    BY <1>4, <2>1, <2>2, <2>3, <2>5
<1>8. CASE QuerySurah(v, s, a)
  <2>1. PICK h \in Health, ha \in Health :
          /\ Opens(v, "surah", <<s, a>>, [Fresh EXCEPT !.pc = "ended", !.hurt = {h, ha} # {"up"},
                                                       !.answer = FetchSurah(s, h, ha)])
          /\ UNCHANGED <<via, clips, job>>
    BY <1>8 DEF QuerySurah
  <2> DEFINE answer == FetchSurah(s, h, ha)
             hurt == {h, ha} # {"up"}
  <2>2. answer \in {"null", "throws", "noAyahs", "value"} /\ hurt \in BOOLEAN
    BY DEF FetchSurah, NullIfNotFound
  <2>3. s \in Surahs /\ a \in Ayahs =>
          /\ answer = "null" => via = "rest" /\ hurt
          /\ answer = "noAyahs" => via = "rest" /\ hurt
    BY <1>2, FoundWhenUp
  <2> HIDE DEF answer, hurt
  <2>4. [Fresh EXCEPT !.pc = "ended", !.hurt = hurt, !.answer = answer]
          = [Fresh EXCEPT !.pc = "ended", !.row = None, !.hurt = hurt, !.answer = answer]
    BY <1>6
  <2>5. Opens(v, "surah", verse, [Fresh EXCEPT !.pc = "ended", !.row = None, !.hurt = hurt, !.answer = answer])
        /\ answer \in Told /\ "surah" \in Kinds
    BY <2>1, <2>2, <2>4 DEF answer, hurt, verse, Told, Kinds
  <2> QED
    BY <1>4, <2>1, <2>2, <2>3, <2>5
<1>9. CASE QueryAyah(v, s, a)
  <2>1. PICK h \in Health :
          /\ Opens(v, "ayah", <<s, a>>, [Fresh EXCEPT !.pc = "ended", !.hurt = h # "up",
                                                      !.answer = FetchAyah(s, a, h)])
          /\ UNCHANGED <<via, clips, job>>
    BY <1>9 DEF QueryAyah
  <2> DEFINE answer == FetchAyah(s, a, h)
             hurt == h # "up"
  <2>2. answer \in {"null", "throws", "value"} /\ hurt \in BOOLEAN
    BY DEF FetchAyah, NullIfNotFound, FetchAyahs
  <2>3. s \in Surahs /\ a \in Ayahs => answer # "null"
    BY <1>2, FoundWhenUp
  <2> HIDE DEF answer, hurt
  <2>4. [Fresh EXCEPT !.pc = "ended", !.hurt = hurt, !.answer = answer]
          = [Fresh EXCEPT !.pc = "ended", !.row = None, !.hurt = hurt, !.answer = answer]
    BY <1>6
  <2>5. Opens(v, "ayah", verse, [Fresh EXCEPT !.pc = "ended", !.row = None, !.hurt = hurt, !.answer = answer])
        /\ answer \in Told /\ "ayah" \in Kinds
    BY <2>1, <2>2, <2>4 DEF answer, hurt, verse, Told, Kinds
  <2> QED
    BY <1>4, <2>1, <2>2, <2>3, <2>5
<1>10. CASE OpenResult(v, s, a)
  <2>1. PICK hj \in Health, h \in Health, hs \in Health, ha \in Health :
          LET loads == hj = "up" /\ ResultLoads(s, a, job, h, hs, ha)
          IN /\ Opens(v, "result", <<s, a>>,
                      [Fresh EXCEPT !.pc = IF loads THEN "stat" ELSE "ended", !.row = job,
                         !.hurt = {hj, h, hs, ha} # {"up"}, !.answer = IF loads THEN "none" ELSE "notFound"])
             /\ UNCHANGED <<via, clips, job>>
    BY <1>10 DEF OpenResult
  <2> DEFINE loads == hj = "up" /\ ResultLoads(s, a, job, h, hs, ha)
             hurt == {hj, h, hs, ha} # {"up"}
  <2>2. hurt \in BOOLEAN
    OBVIOUS
  <2>3. s \in Surahs /\ a \in Ayahs /\ ~loads => hurt \/ job = None
    BY <1>2, PagesWhenUp
  <2>4. Opens(v, "result", verse, [Fresh EXCEPT !.pc = IF loads THEN "stat" ELSE "ended", !.row = job,
                                     !.hurt = hurt, !.answer = IF loads THEN "none" ELSE "notFound"])
    BY <2>1 DEF verse
  <2> HIDE DEF loads, hurt
  <2>5. CASE loads
    <3>1. [Fresh EXCEPT !.pc = "stat", !.row = job, !.hurt = hurt, !.answer = "none"]
            = [Fresh EXCEPT !.pc = "stat", !.row = job, !.hurt = hurt]
      BY <1>6
    <3>2. Opens(v, "result", verse, [Fresh EXCEPT !.pc = "stat", !.row = job, !.hurt = hurt])
          /\ "result" \in Kinds
      BY <2>4, <2>5, <3>1 DEF Kinds
    <3> QED
      BY <1>2, <1>5, <2>1, <2>2, <3>2
  <2>6. CASE ~loads
    <3>1. Opens(v, "result", verse, [Fresh EXCEPT !.pc = "ended", !.row = job, !.hurt = hurt, !.answer = "notFound"])
          /\ "result" \in Kinds /\ "notFound" \in Told
      BY <2>4, <2>6 DEF Kinds, Told
    <3> QED
      BY <1>2, <1>4, <2>1, <2>2, <2>3, <2>6, <3>1
  <2> QED
    BY <2>5, <2>6
<1>11. [Fresh EXCEPT !.pc = "stat"] = [Fresh EXCEPT !.pc = "stat", !.row = None, !.hurt = FALSE]
  BY <1>6
<1>12. CASE OpenClip(v, s, a)
  <2>1. Opens(v, "clip", verse, [Fresh EXCEPT !.pc = "stat", !.row = None, !.hurt = FALSE])
        /\ "clip" \in Kinds /\ UNCHANGED <<via, clips, job>>
    BY <1>11, <1>12 DEF OpenClip, Kinds, verse
  <2> QED
    BY <1>5, <2>1
<1>13. ASSUME NEW kind \in Scores, OpenScore(v, kind, s, a) PROVE GatewayInv'
  <2>1. UNCHANGED <<via, clips, job>> /\ kind \in Kinds
    BY <1>3, <1>13 DEF OpenScore
  <2>2. CASE Opens(v, kind, <<s, a>>, [Fresh EXCEPT !.pc = "stat"])
    <3>1. Opens(v, kind, verse, [Fresh EXCEPT !.pc = "stat", !.row = None, !.hurt = FALSE])
      BY <1>11, <2>2 DEF verse
    <3> QED
      BY <1>5, <2>1, <3>1
  <2>3. ASSUME NEW error,
               Opens(v, kind, <<s, a>>, [Fresh EXCEPT !.pc = "ended", !.answer = ScoringStatus(kind, error)])
        PROVE  GatewayInv'
    <3> DEFINE answer == ScoringStatus(kind, error)
    <3>1. answer \in Plain
      BY PlainAnswers
    <3>2. Opens(v, kind, verse, [Fresh EXCEPT !.pc = "ended", !.answer = answer])
      BY <2>3 DEF verse
    <3> HIDE DEF answer
    <3>3. [Fresh EXCEPT !.pc = "ended", !.answer = answer]
            = [Fresh EXCEPT !.pc = "ended", !.row = None, !.hurt = FALSE, !.answer = answer]
      BY <1>6
    <3> QED
      BY <1>4, <2>1, <3>1, <3>2, <3>3 DEF Plain
  <2> QED
    BY <1>13, <2>2, <2>3 DEF OpenScore
<1> QED
  BY <1>1, <1>7, <1>8, <1>9, <1>10, <1>12, <1>13

\* What a request on its way to the row, or back from it, may do with its record:
\* it keeps its verse, and whatever it answers reports nothing missing.
LEMMA OwnStep ==
  ASSUME GatewayInv, NEW v \in Visits, NEW x \in Visit,
         visits' = [visits EXCEPT ![v] = x], UNCHANGED <<via, job>>,
         clips \subseteq clips', clips' \subseteq Verses,
         visits[v].pc # "idle", x.verse = visits[v].verse,
         x.pc \in {"sign", "asking"} => x.verse \in clips',
         x.pc \in {"waiting", "left"} /\ x.reply = None => job \in Row,
         LeftHurt(x),
         x.pc \in {"left", "ended"} => x.answer \in Plain,
         job \in Row /\ job.by = v => ScoreTold(x)
  PROVE  GatewayInv'
<1>1. Explained(x) /\ HasVerse(x)
  BY DEF Explained, Plain, GatewayInv, VisitInv, HasVerse
<1> QED
  BY <1>1, VisitStep DEF GatewayInv, TypeOK

LEMMA ClipStep ==
  ASSUME GatewayInv, NEW v \in Visits, Clip(v)
  PROVE  GatewayInv'
<1>0. /\ visits[v] \in Visit /\ visits[v].pc \in {"stat", "download", "put", "sign"}
      /\ visits[v].verse \in Verses /\ clips \subseteq Verses
  BY DEF GatewayInv, TypeOK, VisitInv, HasVerse, Clip, StatClip, DownloadFromEveryAyah, PutClip, SignClip, Visit
<1>1. ~(job \in Row /\ job.by = v)
  BY <1>0 DEF GatewayInv, VisitInv, ScoreTold
<1>2. UNCHANGED <<via, job>>
  BY DEF Clip, StatClip, DownloadFromEveryAyah, PutClip, SignClip
<1>3. ASSUME NEW pc \in Pcs \ {"waiting", "left", "ended"}, Goes(v, pc),
             clips \subseteq clips', clips' \subseteq Verses,
             pc \in {"sign", "asking"} => visits[v].verse \in clips'
      PROVE  GatewayInv'
  <2> DEFINE x == [visits[v] EXCEPT !.pc = pc]
  <2>1. /\ x \in Visit /\ x.pc = pc /\ x.verse = visits[v].verse
        /\ visits' = [visits EXCEPT ![v] = x]
    BY <1>0, <1>3 DEF Visit, Goes
  <2> HIDE DEF x
  <2> QED
    BY <1>0, <1>1, <1>2, <1>3, <2>1, OwnStep DEF LeftHurt
<1>4. ASSUME NEW answer \in Plain, NEW hurt \in BOOLEAN, Answers(v, answer, hurt),
             clips \subseteq clips', clips' \subseteq Verses
      PROVE  GatewayInv'
  <2> DEFINE x == [visits[v] EXCEPT !.pc = "ended", !.answer = answer, !.hurt = @ \/ hurt]
  <2>1. /\ x \in Visit /\ x.pc = "ended" /\ x.verse = visits[v].verse /\ x.answer = answer
        /\ visits' = [visits EXCEPT ![v] = x]
    BY <1>0, <1>4 DEF Visit, Answers, Pcs, Plain
  <2> HIDE DEF x
  <2> QED
    BY <1>0, <1>1, <1>2, <1>4, <2>1, OwnStep DEF LeftHurt
<1>5. ASSUME NEW why, ClipFails(v, why), UNCHANGED clips PROVE GatewayInv'
  <2>1. "502" \in Plain /\ "503" \in Plain
    BY DEF Plain, Told
  <2>2. \E answer \in Plain : Answers(v, answer, TRUE)
    BY <1>5, <2>1, PlainAnswers DEF ClipFails
  <2> QED
    BY <1>0, <1>4, <1>5, <2>2
<1>6. CASE StatClip(v)
  <2>1. CASE visits[v].verse \in clips /\ Goes(v, "sign")
    BY <1>0, <1>3, <1>6, <2>1 DEF StatClip, Pcs
  <2>2. CASE visits[v].verse \notin clips /\ Goes(v, "download")
    BY <1>0, <1>3, <1>6, <2>2 DEF StatClip, Pcs
  <2> QED
    BY <1>5, <1>6, <2>1, <2>2 DEF StatClip
<1>7. CASE DownloadFromEveryAyah(v)
  <2>1. CASE Goes(v, "put")
    BY <1>0, <1>3, <1>7, <2>1 DEF DownloadFromEveryAyah, Pcs
  <2>2. CASE Tried(v) < MaxRetries /\ visits' = [visits EXCEPT ![v].tries = Tried(v), ![v].hurt = TRUE]
    <3> DEFINE x == [visits[v] EXCEPT !.tries = Tried(v), !.hurt = TRUE]
    <3>1. visits[v].tries \in 0..MaxRetries /\ Tried(v) \in 0..MaxRetries
      BY <1>0, <2>2, RetryAssumption DEF Visit, Tried
    <3>2. /\ x \in Visit /\ x.pc = visits[v].pc /\ x.verse = visits[v].verse
          /\ visits' = [visits EXCEPT ![v] = x]
      BY <1>0, <2>2, <3>1 DEF Visit
    <3> HIDE DEF x
    <3> QED
      BY <1>0, <1>1, <1>2, <1>7, <3>2, OwnStep DEF LeftHurt, DownloadFromEveryAyah
  <2> QED
    BY <1>5, <1>7, <2>1, <2>2 DEF DownloadFromEveryAyah
<1>8. CASE PutClip(v)
  <2>1. CASE clips' = clips \cup {visits[v].verse} /\ Goes(v, "sign")
    <3>1. clips' \subseteq Verses
      BY <1>0, <2>1
    <3> QED
      BY <1>0, <1>3, <1>8, <2>1, <3>1 DEF Pcs
  <2> QED
    BY <1>5, <1>8, <2>1 DEF PutClip
<1>9. CASE SignClip(v)
  <2>1. CASE visits[v].kind \in Scores /\ Goes(v, "asking")
    <3>1. visits[v].verse \in clips
      BY <1>9 DEF SignClip, GatewayInv, VisitInv, HasClip
    <3> QED
      BY <1>0, <1>3, <1>9, <2>1, <3>1 DEF SignClip, Pcs
  <2>2. ASSUME NEW answer \in Plain, Answers(v, answer, FALSE) PROVE GatewayInv'
    BY <1>0, <1>4, <1>9, <2>2 DEF SignClip
  <2>3. "200" \in Plain
    BY DEF Plain, Told
  <2> QED
    BY <1>5, <1>9, <2>1, <2>2, <2>3, PlainAnswers DEF SignClip, ClipReady
<1> QED
  BY <1>6, <1>7, <1>8, <1>9 DEF Clip

LEMMA BackendStep ==
  ASSUME GatewayInv, NEW v \in Visits, Backend(v) \/ LoseReply(v) \/ Receive(v) \/ DeadlineExceeded(v)
  PROVE  GatewayInv'
<1> DEFINE old == visits[v]
<1>0. /\ old \in Visit /\ old.pc # "idle" /\ old.verse \in Verses /\ clips \subseteq Verses
      /\ job \in Row \cup {None} /\ VisitInv(v) /\ old.hurt \in BOOLEAN
      /\ job \in Row => job.verse \in clips
  BY DEF GatewayInv, TypeOK, VisitInv, HasVerse, Visit, Backend, Refuse, Start, Complete, ScoreFails,
         Working, LoseReply, Receive, DeadlineExceeded
<1>1. UNCHANGED <<via, clips>>
  BY DEF Backend, Refuse, Start, Complete, ScoreFails, LoseReply, Receive, DeadlineExceeded
<1>2. ASSUME NEW err PROVE ScoringError(err) \in Replies \ {"OK", "lost"}
  BY DEF ScoringError, Replies
<1>3. CASE Refuse(v)
  <2>1. PICK reply \in Replies \ {"OK", "lost"}, hurt \in BOOLEAN :
          visits' = [visits EXCEPT ![v].pc = "waiting", ![v].reply = reply, ![v].hurt = @ \/ hurt]
    BY <1>2, <1>3 DEF Refuse
  <2> DEFINE x == [old EXCEPT !.pc = "waiting", !.reply = reply, !.hurt = @ \/ hurt]
  <2>2. /\ x \in Visit /\ x.pc = "waiting" /\ x.verse = old.verse /\ x.reply = reply
        /\ visits' = [visits EXCEPT ![v] = x]
    BY <1>0, <2>1 DEF Visit, Pcs
  <2>3. ~(job \in Row /\ job.by = v) /\ job' = job /\ reply # None
    BY <1>0, <1>3, NoneAssumption DEF Refuse, VisitInv, ScoreTold
  <2> HIDE DEF x
  <2> QED
    BY <1>0, <1>1, <2>2, <2>3, OwnStep DEF LeftHurt
<1>4. CASE Start(v)
  <2> DEFINE x == [old EXCEPT !.pc = "waiting"]
             by == IF job = None THEN None ELSE job.by
  <2>1. /\ x \in Visit /\ x.pc = "waiting" /\ x.verse = old.verse
        /\ visits' = [visits EXCEPT ![v] = x]
    BY <1>0, <1>4 DEF Visit, Start, Goes, Pcs
  <2>2. old.pc = "asking" /\ old.verse \in clips /\ old.verse \in Verses
    BY <1>0, <1>4 DEF Start, VisitInv, HasClip
  <2>3. job' = [verse |-> old.verse, status |-> "RUNNING", by |-> by] /\ by \in Visits \cup {None}
    BY <1>0, <1>4 DEF Start, Row
  <2>4. \A w \in Visits : by = w => job \in Row /\ job.by = w
    BY <1>0, NoneAssumption
  <2>5. ~(job \in Row /\ job.by = v)
    BY <1>0, <2>2 DEF VisitInv, ScoreTold
  <2>6. job' \in Row /\ job'.verse \in clips' /\ job'.by = by
    BY <1>1, <2>2, <2>3 DEF Row
  <2>7. ~(job' \in Row /\ job'.by = v) /\ HasVerse(x) /\ LeftHurt(x) /\ Explained(x)
    BY <1>0, <2>1, <2>4, <2>5, <2>6 DEF HasVerse, LeftHurt, Explained
  <2> HIDE DEF x, by
  <2> QED
    BY <1>0, <1>1, <2>1, <2>4, <2>6, <2>7, VisitStep
<1>5. ASSUME Complete(v) \/ ScoreFails(v) PROVE GatewayInv'
  <2>1. job \in Row /\ old.pc \in {"waiting", "left"} /\ old.reply = None
    BY <1>0, <1>5 DEF Complete, ScoreFails, Working, VisitInv, HasRow
  <2>2. ~(job \in Row /\ job.by = v)
    BY <1>0, <2>1, NoneAssumption DEF VisitInv, ScoreTold, Replies
  <2>3. ASSUME NEW reply \in Replies, NEW hurt \in BOOLEAN, NEW status \in {"RUNNING", "COMPLETED", "FAILED"},
               NEW by \in Visits \cup {None},
               visits' = [visits EXCEPT ![v] = [old EXCEPT !.reply = reply, !.hurt = hurt]],
               job' = [job EXCEPT !.status = status, !.by = by],
               old.hurt => hurt,
               (by = job.by) \/ (by = v /\ reply = "OK")
        PROVE  GatewayInv'
    <3> DEFINE x == [old EXCEPT !.reply = reply, !.hurt = hurt]
    <3>1. /\ x \in Visit /\ x.pc = old.pc /\ x.verse = old.verse /\ x.reply = reply /\ x.hurt = hurt
          /\ x.kind = old.kind /\ x.row = old.row /\ x.answer = old.answer
          /\ visits' = [visits EXCEPT ![v] = x]
      BY <1>0, <2>3 DEF Visit
    <3>2. job' \in Row /\ job'.verse \in clips' /\ job'.by = by
      BY <1>0, <1>1, <2>1, <2>3 DEF Row
    <3> HIDE DEF x
    <3>3. HasVerse(x) /\ LeftHurt(x)
      BY <1>0, <2>3, <3>1 DEF VisitInv, HasVerse, LeftHurt
    <3>4. Explained(x)
      BY <1>0, <2>3, <3>1 DEF VisitInv, Explained
    <3>5. job'.by = v => ScoreTold(x)
      BY <2>1, <2>2, <2>3, <3>1, <3>2 DEF ScoreTold
    <3>6. \A w \in Visits \ {v} : job'.by = w => job \in Row /\ job.by = w
      BY <2>1, <2>3, <3>2
    <3> QED
      BY <1>0, <1>1, <2>1, <3>1, <3>2, <3>3, <3>4, <3>5, <3>6, VisitStep
  <2>4. CASE Complete(v)
    <3>1. /\ visits' = [visits EXCEPT ![v] = [old EXCEPT !.reply = "OK", !.hurt = old.hurt]]
          /\ job' = [job EXCEPT !.status = "COMPLETED", !.by = v]
      BY <1>0, <2>4 DEF Complete, GatewayInv, TypeOK, Visit
    <3> QED
      BY <1>0, <2>3, <3>1 DEF Replies
  <2>5. CASE ScoreFails(v)
    <3>1. PICK err \in {"ErrObjectNotFound", "ErrUnavailable", "error"}, marked \in BOOLEAN :
            /\ job' = [job EXCEPT !.status = IF marked THEN "FAILED" ELSE @]
            /\ visits' = [visits EXCEPT ![v].reply = ScoringError(err), ![v].hurt = TRUE]
      BY <2>5 DEF ScoreFails
    <3>2. PICK status \in {"RUNNING", "COMPLETED", "FAILED"} : job' = [job EXCEPT !.status = status, !.by = job.by]
      BY <2>1, <3>1 DEF Row
    <3>3. visits' = [visits EXCEPT ![v] = [old EXCEPT !.reply = ScoringError(err), !.hurt = TRUE]]
      BY <3>1 DEF GatewayInv, TypeOK
    <3>4. job.by \in Visits \cup {None}
      BY <2>1 DEF Row
    <3> QED
      BY <1>2, <2>3, <3>2, <3>3, <3>4
  <2> QED
    BY <1>5, <2>4, <2>5
<1>6. CASE LoseReply(v)
  <2> DEFINE x == [old EXCEPT !.reply = "lost", !.hurt = TRUE]
  <2>1. /\ x \in Visit /\ x.pc = "waiting" /\ x.verse = old.verse /\ x.reply = "lost" /\ x.hurt
        /\ visits' = [visits EXCEPT ![v] = x]
    BY <1>0, <1>6 DEF Visit, LoseReply, Replies
  <2>2. job' = job /\ "lost" # None
    BY <1>6, NoneAssumption DEF LoseReply, Replies
  <2> HIDE DEF x
  <2> QED
    BY <1>0, <1>1, <2>1, <2>2, OwnStep DEF LeftHurt, ScoreTold
<1>7. CASE Receive(v)
  <2>0. old.pc = "waiting" /\ job' = job /\ "201" \in Plain
    BY <1>7 DEF Receive, Plain, Told
  <2>1. ASSUME NEW answer \in Plain, NEW hurt \in BOOLEAN, Answers(v, answer, hurt),
               job \in Row /\ job.by = v => old.reply \in {"OK", "lost"} /\ (answer = "201" \/ hurt)
        PROVE  GatewayInv'
    <3> DEFINE x == [old EXCEPT !.pc = "ended", !.answer = answer, !.hurt = @ \/ hurt]
    <3>1. /\ x \in Visit /\ x.pc = "ended" /\ x.verse = old.verse /\ x.answer = answer
          /\ x.reply = old.reply /\ x.hurt = (old.hurt \/ hurt)
          /\ visits' = [visits EXCEPT ![v] = x]
      BY <1>0, <2>1 DEF Visit, Answers, Pcs, Plain
    <3> HIDE DEF x
    <3>2. job \in Row /\ job.by = v => ScoreTold(x)
      BY <1>0, <2>1, <3>1 DEF VisitInv, ScoreTold
    <3> QED
      BY <1>0, <1>1, <2>0, <2>1, <3>1, <3>2, OwnStep DEF LeftHurt
  <2>2. job \in Row /\ job.by = v => old.reply \in {"OK", "lost"}
    BY <1>0 DEF VisitInv, ScoreTold
  <2>3. old.reply # "lost"
    BY <1>7 DEF Receive
  <2> QED
    BY <1>7, <2>0, <2>1, <2>2, <2>3, PlainAnswers DEF Receive
<1>8. CASE DeadlineExceeded(v)
  <2> DEFINE x == [old EXCEPT !.pc = "left", !.hurt = TRUE, !.answer = ScoringStatus(old.kind, "backend")]
  <2>1. ScoringStatus(old.kind, "backend") \in Plain
    BY PlainAnswers
  <2>2. /\ x \in Visit /\ x.pc = "left" /\ x.verse = old.verse /\ x.hurt /\ x.answer \in Plain
        /\ x.reply = old.reply /\ visits' = [visits EXCEPT ![v] = x]
    BY <1>0, <1>8, <2>1 DEF Visit, DeadlineExceeded, Pcs, Plain
  <2>3. job' = job /\ old.pc = "waiting"
    BY <1>8 DEF DeadlineExceeded
  <2> HIDE DEF x
  <2>4. /\ x.reply = None => job \in Row
        /\ job \in Row /\ job.by = v => ScoreTold(x)
    BY <1>0, <2>2, <2>3 DEF VisitInv, HasRow, ScoreTold
  <2> QED
    BY <1>0, <1>1, <2>2, <2>3, <2>4, OwnStep DEF LeftHurt
<1> QED
  BY <1>3, <1>4, <1>5, <1>6, <1>7, <1>8 DEF Backend

LEMMA GatewayStep == GatewayInv /\ [Next]_vars => GatewayInv'
<1>1. GatewayInv /\ Next => GatewayInv'
  BY OpenStep, ClipStep, BackendStep DEF Next
<1>2. GatewayInv /\ UNCHANGED vars => GatewayInv'
  BY DEF vars, GatewayInv, TypeOK, VisitInv, HasVerse, HasClip, HasRow, LeftHurt, Explained, ScoreTold
<1> QED
  BY <1>1, <1>2

LEMMA GatewayInvariant == Spec => []GatewayInv
BY InitGateway, GatewayStep, PTL DEF Spec

\* Visits and the row keep the shape the code gives them.
THEOREM GatewayTyped == Spec => []TypeOK
<1>1. GatewayInv => TypeOK
  BY DEF GatewayInv
<1> QED
  BY <1>1, GatewayInvariant, PTL

\* The pages, the routes and the resolvers report as missing only what does not
\* exist, unless a call of theirs failed, whatever the transport and however
\* the backend fares.
THEOREM AbsenceIsExplained == Spec => []AbsenceExplained
<1>1. GatewayInv => AbsenceExplained
  BY DEF GatewayInv, VisitInv, Explained, AbsenceExplained, Ended
<1> QED
  BY <1>1, GatewayInvariant, PTL

\* No row without its verse's clip, and no score that is stored while its
\* request is told of a failure that did not happen: createScoringJob against
\* the backend that goes on without it.
THEOREM ScoringIsExplained == Spec => []ScoringExplained
<1>1. GatewayInv => JobsHaveClips
  BY DEF GatewayInv, TypeOK, JobsHaveClips
<1>2. GatewayInv => FailureExplained
  BY DEF GatewayInv, TypeOK, VisitInv, LeftHurt, ScoreTold, FailureExplained, Ended
<1> QED
  BY <1>1, <1>2, GatewayInvariant, PTL DEF ScoringExplained

-----------------------------------------------------------------------------
(* Functions that are defined by recursion.  A set of numbers has a least   *)
(* one, which takes the place of induction.                                 *)

LEMMA Least ==
  ASSUME NEW S \in SUBSET Nat, S # {}
  PROVE  \E x \in S : \A y \in S : x <= y
<1>1. PICK x \in S : \A y \in S : ~(<<y, x>> \in OpToRel(<, Nat))
  BY NatLessThanWellFounded, WFMin
<1>2. ASSUME NEW y \in S PROVE x <= y
  <2>1. ~(<<y, x>> \in {z \in Nat \X Nat : z[1] < z[2]})
    BY <1>1 DEF OpToRel
  <2> QED
    BY <2>1
<1> QED
  BY <1>2

\* A function that is known where it starts, and elsewhere made from its values
\* at up to three points of lower rank.
Descends(D, rank, p, c) == p[c] \in D /\ rank[p[c]] < rank[c]
Recursive(D, S, rank, Roots, start, p, q, r, step) ==
  /\ rank \in [D -> Nat]
  /\ \A c \in D : c \in Roots => start[c] \in S
  /\ \A c \in D : c \notin Roots => Descends(D, rank, p, c) /\ Descends(D, rank, q, c) /\ Descends(D, rank, r, c)
  /\ \A c \in D : c \notin Roots => \A x, y, z \in S : step[<<c, x, y, z>>] \in S

RecursBy(f, D, Roots, start, p, q, r, step) ==
  \A c \in D : f[c] = IF c \in Roots THEN start[c] ELSE step[<<c, f[p[c]], f[q[c]], f[r[c]]>>]

LEMMA Recursion ==
  ASSUME NEW D, NEW S, S # {}, NEW rank, NEW Roots, NEW start, NEW p, NEW q, NEW r, NEW step,
         Recursive(D, S, rank, Roots, start, p, q, r, step)
  PROVE  \E f \in [D -> S] : RecursBy(f, D, Roots, start, p, q, r, step)
<1> DEFINE Step(f, c) == IF c \in Roots THEN start[c] ELSE step[<<c, f[p[c]], f[q[c]], f[r[c]]>>]
           Upto(f, n) == \A c \in D : rank[c] <= n => f[c] = Step(f, c)
           Bad == {n \in Nat : ~\E f \in [D -> S] : Upto(f, n)}
<1>1. ASSUME NEW f \in [D -> S], NEW c \in D PROVE Step(f, c) \in S
  <2>1. CASE c \in Roots
    BY <2>1 DEF Recursive
  <2>2. CASE c \notin Roots
    <3>1. p[c] \in D /\ q[c] \in D /\ r[c] \in D
      BY <2>2 DEF Recursive, Descends
    <3>2. f[p[c]] \in S /\ f[q[c]] \in S /\ f[r[c]] \in S
      BY <3>1
    <3> QED
      BY <2>2, <3>2 DEF Recursive
  <2> QED
    BY <2>1, <2>2
<1>2. ASSUME NEW f, NEW g, NEW c \in D, \A d \in D : rank[d] < rank[c] => f[d] = g[d]
      PROVE  Step(f, c) = Step(g, c)
  <2>1. CASE c \in Roots
    BY <2>1
  <2>2. CASE c \notin Roots
    <3>1. f[p[c]] = g[p[c]] /\ f[q[c]] = g[q[c]] /\ f[r[c]] = g[r[c]]
      BY <1>2, <2>2 DEF Recursive, Descends
    <3> QED
      BY <2>2, <3>1
  <2> QED
    BY <2>1, <2>2
<1>3. \A c \in D : rank[c] \in Nat
  BY DEF Recursive
<1> HIDE DEF Step
<1>4. Bad = {}
  <2> SUFFICES ASSUME Bad # {} PROVE FALSE
    OBVIOUS
  <2>1. PICK n \in Bad : \A k \in Bad : n <= k
    <3>1. Bad \in SUBSET Nat
      OBVIOUS
    <3> HIDE DEF Bad
    <3> QED
      BY <3>1, Least
  <2>2. n \in Nat /\ \A f \in [D -> S] : ~Upto(f, n)
    BY <2>1
  <2>3. PICK f \in [D -> S] : \A c \in D : rank[c] < n => f[c] = Step(f, c)
    <3>1. CASE n = 0
      <4> PICK default : default \in S
        OBVIOUS
      <4> DEFINE g == [c \in D |-> default]
      <4>1. g \in [D -> S] /\ \A c \in D : ~(rank[c] < n)
        BY <1>3, <3>1
      <4> HIDE DEF g
      <4> QED
        BY <4>1
    <3>2. CASE n # 0
      <4>1. n - 1 \in Nat /\ ~(n <= n - 1)
        BY <2>2, <3>2
      <4>2. n - 1 \notin Bad
        BY <2>1, <4>1
      <4>3. PICK g \in [D -> S] : Upto(g, n - 1)
        BY <4>1, <4>2
      <4>4. \A c \in D : rank[c] < n => rank[c] <= n - 1
        BY <1>3, <2>2
      <4> QED
        BY <4>3, <4>4
    <3> QED
      BY <3>1, <3>2
  <2> DEFINE g == [c \in D |-> IF rank[c] = n THEN Step(f, c) ELSE f[c]]
  <2>4. g \in [D -> S]
    <3>1. \A c \in D : Step(f, c) \in S
      BY <1>1
    <3> QED
      BY <3>1
  <2>5. ASSUME NEW c \in D, rank[c] <= n PROVE g[c] = Step(g, c)
    <3>1. \A d \in D : rank[d] < rank[c] => g[d] = f[d]
      BY <1>3, <2>2, <2>5
    <3>2. Step(g, c) = Step(f, c)
      <4> HIDE DEF g
      <4> QED
        BY <1>2, <3>1
    <3>3. rank[c] = n \/ rank[c] < n
      <4> HIDE DEF Bad
      <4> QED
        BY <1>3, <2>2, <2>5
    <3>4. g[c] = Step(f, c)
      BY <2>3, <3>3
    <3> QED
      BY <3>2, <3>4
  <2> QED
    BY <2>2, <2>4, <2>5
<1>5. \A n \in Nat : \E f \in [D -> S] : Upto(f, n)
  BY <1>4
<1> DEFINE any == [n \in Nat |-> CHOOSE f \in [D -> S] : Upto(f, n)]
           all == [c \in D |-> any[rank[c]][c]]
<1>6. \A n \in Nat : any[n] \in [D -> S] /\ Upto(any[n], n)
  BY <1>5
<1> HIDE DEF any
<1>7. \A m \in Nat : \A n \in Nat : \A c \in D : rank[c] <= m /\ rank[c] <= n => any[m][c] = any[n][c]
  <2> SUFFICES ASSUME NEW m \in Nat, NEW n \in Nat
               PROVE  \A c \in D : rank[c] <= m /\ rank[c] <= n => any[m][c] = any[n][c]
    OBVIOUS
  <2> PICK f, g : f = any[m] /\ g = any[n]
    OBVIOUS
  <2>1. Upto(f, m) /\ Upto(g, n)
    BY <1>6
  <2> DEFINE Differ == {k \in Nat : \E c \in D : rank[c] = k /\ k <= m /\ k <= n /\ f[c] # g[c]}
  <2>2. Differ = {}
    <3> SUFFICES ASSUME Differ # {} PROVE FALSE
      OBVIOUS
    <3>1. PICK k \in Differ : \A l \in Differ : k <= l
      <4>1. Differ \in SUBSET Nat
        OBVIOUS
      <4> HIDE DEF Differ
      <4> QED
        BY <4>1, Least
    <3>2. PICK c \in D : rank[c] = k /\ k <= m /\ k <= n /\ f[c] # g[c]
      BY <3>1
    <3>3. \A d \in D : rank[d] < rank[c] => f[d] = g[d]
      <4> SUFFICES ASSUME NEW d \in D, rank[d] < rank[c], f[d] # g[d] PROVE FALSE
        OBVIOUS
      <4>1. rank[d] \in Nat /\ rank[d] <= m /\ rank[d] <= n /\ ~(k <= rank[d])
        BY <1>3, <3>2
      <4>2. rank[d] \in Differ
        BY <4>1
      <4> HIDE DEF Differ
      <4> QED
        BY <3>1, <4>1, <4>2
    <3>4. Step(f, c) = Step(g, c)
      BY <1>2, <3>3
    <3> QED
      BY <2>1, <3>2, <3>4
  <2>3. ASSUME NEW c \in D, rank[c] <= m, rank[c] <= n PROVE f[c] = g[c]
    <3>1. rank[c] \in Nat /\ rank[c] \notin Differ
      BY <1>3, <2>2
    <3> QED
      BY <2>3, <3>1
  <2> QED
    BY <2>3
<1>8. all \in [D -> S]
  BY <1>3, <1>6
<1>9. ASSUME NEW c \in D PROVE all[c] = Step(all, c)
  <2> PICK f : f = any[rank[c]]
    OBVIOUS
  <2>1. \A d \in D : rank[d] < rank[c] => all[d] = f[d]
    BY <1>3, <1>7
  <2>2. Step(all, c) = Step(f, c)
    <3> HIDE DEF all
    <3> QED
      BY <1>2, <2>1
  <2>3. f[c] = Step(f, c)
    BY <1>3, <1>6
  <2> QED
    BY <2>2, <2>3
<1> HIDE DEF all
<1> QED
  BY <1>8, <1>9 DEF Step, RecursBy

-----------------------------------------------------------------------------
(* Texts.                                                                   *)

WithoutBy(kept, seq, S) ==
  /\ Without(seq, S) = kept[Len(seq)]
  /\ \A n \in 0..Len(seq) :
       kept[n] = IF n = 0 THEN <<>>
                 ELSE IF seq[n] \in S THEN kept[n - 1] ELSE Append(kept[n - 1], seq[n])

LEMMA WithoutSteps ==
  ASSUME NEW T, NEW seq \in Seq(T), NEW S
  PROVE  \E kept \in [0..Len(seq) -> Seq(T \ S)] : WithoutBy(kept, seq, S)
<1> DEFINE L == Len(seq)
           D == 0..L
           Q == Seq(T \ S)
           Step(f, n) == IF n = 0 THEN <<>>
                         ELSE IF seq[n] \in S THEN f[n - 1] ELSE Append(f[n - 1], seq[n])
           rank == [n \in D |-> n]
           start == [n \in D |-> <<>>]
           before == [n \in D |-> n - 1]
           step == [t \in D \X Q \X Q \X Q |-> IF seq[t[1]] \in S THEN t[2] ELSE Append(t[2], seq[t[1]])]
<1>1. L \in Nat /\ \A n \in 1..L : seq[n] \in T
  BY LenProperties, ElementOfSeq
<1>2. <<>> \in Q /\ Q # {}
  BY EmptySeq
<1> HIDE DEF L
<1>3. \A n \in D : n \notin {0} => n \in 1..L /\ n - 1 \in D /\ n - 1 < n
  BY <1>1
<1>4. Recursive(D, Q, rank, {0}, start, before, before, before, step)
  <2>1. rank \in [D -> Nat]
    BY <1>1
  <2>2. \A n \in D : n \notin {0} => Descends(D, rank, before, n)
    BY <1>3 DEF Descends
  <2>3. ASSUME NEW n \in D, n \notin {0}, NEW x \in Q, NEW y \in Q, NEW z \in Q
        PROVE  step[<<n, x, y, z>>] \in Q
    <3>1. seq[n] \in T
      BY <1>1, <1>3, <2>3
    <3>2. seq[n] \notin S => Append(x, seq[n]) \in Q
      BY <3>1, AppendProperties
    <3> HIDE DEF D, Q
    <3>3. step[<<n, x, y, z>>] = IF seq[n] \in S THEN x ELSE Append(x, seq[n])
      OBVIOUS
    <3> HIDE DEF step
    <3> QED
      BY <3>2, <3>3
  <2> HIDE DEF D, Q, rank, before, step
  <2> QED
    BY <1>2, <2>1, <2>2, <2>3 DEF Recursive
<1>5. PICK f \in [D -> Q] : RecursBy(f, D, {0}, start, before, before, before, step)
  <2>1. Q # {}
    BY <1>2
  <2> HIDE DEF D, Q, rank, start, before, step
  <2> QED
    BY <1>4, <2>1, Recursion
<1>6. \A n \in D : f[n] = Step(f, n)
  <2> SUFFICES ASSUME NEW n \in D PROVE f[n] = Step(f, n)
    OBVIOUS
  <2>1. CASE n = 0
    BY <1>5, <2>1 DEF RecursBy
  <2>2. CASE n # 0
    <3>1. n - 1 \in D /\ before[n] = n - 1
      BY <1>3, <2>2
    <3>2. f[n - 1] \in Q
      <4> HIDE DEF D, Q
      <4> QED
        BY <1>5, <3>1
    <3> PICK x : x = f[n - 1]
      OBVIOUS
    <3>3. f[n] = step[<<n, x, x, x>>] /\ x \in Q
      <4> HIDE DEF D, Q, step, before
      <4> QED
        BY <1>5, <2>2, <3>1, <3>2 DEF RecursBy
    <3>4. step[<<n, x, x, x>>] = IF seq[n] \in S THEN x ELSE Append(x, seq[n])
      <4> HIDE DEF D, Q
      <4> QED
        BY <3>3
    <3> HIDE DEF step
    <3> QED
      BY <2>2, <3>3, <3>4
  <2> QED
    BY <2>1, <2>2
<1>7. f = [n \in D |-> Step(f, n)]
  <2> HIDE DEF Step, Q
  <2> QED
    BY <1>5, <1>6
<1> DEFINE F == CHOOSE h : h = [n \in D |-> Step(h, n)]
<1>8. F = [n \in D |-> Step(F, n)]
  <2>1. \E h : h = [n \in D |-> Step(h, n)]
    BY <1>7
  <2> HIDE DEF Step, D
  <2> QED
    BY <2>1, Zenon
<1>9. Without(seq, S) = F[L]
  BY Zenon DEF Without, L
<1> HIDE DEF F
<1>10. \A n \in D : F[n] = f[n]
  <2> DEFINE Differ == {n \in D : F[n] # f[n]}
  <2> SUFFICES ASSUME Differ # {} PROVE FALSE
    OBVIOUS
  <2>1. PICK n \in Differ : \A k \in Differ : n <= k
    <3>1. Differ \in SUBSET Nat
      BY <1>1
    <3> HIDE DEF Differ
    <3> QED
      BY <3>1, Least
  <2>2. n \in D /\ F[n] # f[n]
    BY <2>1
  <2>3. F[n] = Step(F, n) /\ f[n] = Step(f, n)
    <3> HIDE DEF Step
    <3> QED
      BY <1>6, <1>8, <2>2
  <2>4. n # 0 => F[n - 1] = f[n - 1]
    <3>1. n # 0 => n - 1 \in D /\ ~(n <= n - 1)
      BY <1>1, <2>2
    <3> QED
      BY <2>1, <3>1
  <2> QED
    BY <2>2, <2>3, <2>4
<1>11. Without(seq, S) = f[L] /\ \A n \in D : f[n] = Step(f, n)
  <2>1. L \in D
    BY <1>1
  <2> HIDE DEF Step, D
  <2> QED
    BY <1>6, <1>9, <1>10, <2>1
<1> QED
  BY <1>5, <1>11 DEF WithoutBy, L

LEMMA WithoutIs ==
  ASSUME NEW T, NEW seq \in Seq(T), NEW S
  PROVE  Without(seq, S) \in Seq(T \ S)
<1>1. PICK kept \in [0..Len(seq) -> Seq(T \ S)] : WithoutBy(kept, seq, S)
  BY WithoutSteps
<1>2. Len(seq) \in 0..Len(seq)
  BY LenProperties
<1> QED
  BY <1>1, <1>2 DEF WithoutBy

LEMMA WithoutEmpty ==
  ASSUME NEW S
  PROVE  Without(<<>>, S) = <<>>
<1>1. PICK kept : WithoutBy(kept, <<>>, S)
  BY EmptySeq, WithoutSteps
<1>2. Len(<<>>) = 0
  BY EmptySeq
<1> QED
  BY <1>1, <1>2 DEF WithoutBy

LEMMA WithoutAppend ==
  ASSUME NEW T, NEW seq \in Seq(T), NEW x \in T, NEW S
  PROVE  Without(Append(seq, x), S) = IF x \in S THEN Without(seq, S) ELSE Append(Without(seq, S), x)
<1> PICK L, long : L = Len(seq) /\ long = Append(seq, x)
  OBVIOUS
<1>1. /\ long \in Seq(T) /\ L \in Nat /\ Len(long) = L + 1
      /\ \A n \in 1..L : long[n] = seq[n]
      /\ long[L + 1] = x
  BY AppendProperties, LenProperties
<1>2. PICK f : WithoutBy(f, seq, S)
  BY WithoutSteps
<1>3. PICK g : WithoutBy(g, long, S)
  BY <1>1, WithoutSteps
<1>4. /\ Without(seq, S) = f[L]
      /\ \A n \in 0..L : f[n] = IF n = 0 THEN <<>>
                                ELSE IF seq[n] \in S THEN f[n - 1] ELSE Append(f[n - 1], seq[n])
  BY <1>2 DEF WithoutBy
<1>5. /\ Without(long, S) = g[L + 1]
      /\ \A n \in 0..(L + 1) : g[n] = IF n = 0 THEN <<>>
                                ELSE IF long[n] \in S THEN g[n - 1] ELSE Append(g[n - 1], long[n])
  BY <1>1, <1>3 DEF WithoutBy
<1>6. \A n \in 0..L : f[n] = g[n]
  <2> DEFINE Differ == {n \in 0..L : f[n] # g[n]}
  <2> SUFFICES ASSUME Differ # {} PROVE FALSE
    OBVIOUS
  <2>1. PICK n \in Differ : \A k \in Differ : n <= k
    <3>1. Differ \in SUBSET Nat
      BY <1>1
    <3> HIDE DEF Differ
    <3> QED
      BY <3>1, Least
  <2>2. n \in 0..L /\ f[n] # g[n]
    BY <2>1
  <2>3. n \in 0..(L + 1)
    BY <1>1, <2>2
  <2>4. CASE n = 0
    BY <1>4, <1>5, <2>2, <2>3, <2>4
  <2>5. CASE n # 0
    <3>1. n \in 1..L /\ n - 1 \in 0..L /\ ~(n <= n - 1)
      BY <1>1, <2>2, <2>5
    <3>2. f[n - 1] = g[n - 1]
      BY <2>1, <3>1
    <3>3. long[n] = seq[n]
      BY <1>1, <3>1
    <3>4. f[n] = IF seq[n] \in S THEN f[n - 1] ELSE Append(f[n - 1], seq[n])
      BY <1>4, <2>2, <2>5
    <3>5. g[n] = IF long[n] \in S THEN g[n - 1] ELSE Append(g[n - 1], long[n])
      BY <1>5, <2>3, <2>5
    <3> QED
      BY <2>2, <3>2, <3>3, <3>4, <3>5
  <2> QED
    BY <2>4, <2>5
<1>7. /\ L + 1 \in 0..(L + 1) /\ L + 1 # 0 /\ (L + 1) - 1 = L /\ L \in 0..L
  BY <1>1
<1>8. g[L + 1] = IF long[L + 1] \in S THEN g[(L + 1) - 1] ELSE Append(g[(L + 1) - 1], long[L + 1])
  BY <1>5, <1>7
<1>9. g[L] = f[L]
  BY <1>6, <1>7
<1> QED
  BY <1>1, <1>4, <1>5, <1>7, <1>8, <1>9

LEMMA JoinedIs ==
  ASSUME NEW T, NEW seqs \in Seq(Seq(T))
  PROVE  /\ Joined(seqs) \in Seq(T)
         /\ Len(seqs) # 0 /\ seqs[Len(seqs)] # <<>> => Joined(seqs) # <<>>
<1> DEFINE L == Len(seqs)
           D == 0..L
           Q == Seq(T)
           Step(f, n) == IF n = 0 THEN <<>> ELSE f[n - 1] \o seqs[n]
           rank == [n \in D |-> n]
           start == [n \in D |-> <<>>]
           before == [n \in D |-> n - 1]
           step == [t \in D \X Q \X Q \X Q |-> t[2] \o seqs[t[1]]]
<1>1. L \in Nat /\ \A n \in 1..L : seqs[n] \in Q
  BY LenProperties, ElementOfSeq
<1>2. <<>> \in Q /\ Q # {}
  BY EmptySeq
<1> HIDE DEF L
<1>3. \A n \in D : n \notin {0} => n \in 1..L /\ n - 1 \in D /\ n - 1 < n
  BY <1>1
<1>4. Recursive(D, Q, rank, {0}, start, before, before, before, step)
  <2>1. rank \in [D -> Nat]
    BY <1>1
  <2>2. \A n \in D : n \notin {0} => Descends(D, rank, before, n)
    BY <1>3 DEF Descends
  <2>3. ASSUME NEW n \in D, n \notin {0}, NEW x \in Q, NEW y \in Q, NEW z \in Q
        PROVE  step[<<n, x, y, z>>] \in Q
    <3>1. x \o seqs[n] \in Q
      BY <1>1, <1>3, <2>3, ConcatProperties
    <3> HIDE DEF D, Q
    <3>2. step[<<n, x, y, z>>] = x \o seqs[n]
      OBVIOUS
    <3> HIDE DEF step
    <3> QED
      BY <3>1, <3>2
  <2> HIDE DEF D, Q, rank, before, step
  <2> QED
    BY <1>2, <2>1, <2>2, <2>3 DEF Recursive
<1>5. PICK f \in [D -> Q] : RecursBy(f, D, {0}, start, before, before, before, step)
  <2>1. Q # {}
    BY <1>2
  <2> HIDE DEF D, Q, rank, start, before, step
  <2> QED
    BY <1>4, <2>1, Recursion
<1>6. \A n \in D : f[n] = Step(f, n)
  <2> SUFFICES ASSUME NEW n \in D PROVE f[n] = Step(f, n)
    OBVIOUS
  <2>1. CASE n = 0
    BY <1>5, <2>1 DEF RecursBy
  <2>2. CASE n # 0
    <3>1. n - 1 \in D /\ before[n] = n - 1
      BY <1>3, <2>2
    <3>2. f[n - 1] \in Q
      <4> HIDE DEF D, Q
      <4> QED
        BY <1>5, <3>1
    <3> PICK x : x = f[n - 1]
      OBVIOUS
    <3>3. f[n] = step[<<n, x, x, x>>] /\ x \in Q
      <4> HIDE DEF D, Q, step, before
      <4> QED
        BY <1>5, <2>2, <3>1, <3>2 DEF RecursBy
    <3>4. step[<<n, x, x, x>>] = x \o seqs[n]
      <4> HIDE DEF D, Q
      <4> QED
        BY <3>3
    <3> HIDE DEF step
    <3> QED
      BY <2>2, <3>3, <3>4
  <2> QED
    BY <2>1, <2>2
<1>7. f = [n \in D |-> Step(f, n)]
  <2> HIDE DEF Step, Q
  <2> QED
    BY <1>5, <1>6
<1> DEFINE F == CHOOSE h : h = [n \in D |-> Step(h, n)]
<1>8. F = [n \in D |-> Step(F, n)]
  <2>1. \E h : h = [n \in D |-> Step(h, n)]
    BY <1>7
  <2> HIDE DEF Step, D
  <2> QED
    BY <2>1, Zenon
<1>9. Joined(seqs) = F[L]
  BY Zenon DEF Joined, L
<1> HIDE DEF F
<1>10. \A n \in D : F[n] \in Q
  <2> DEFINE Bad == {n \in D : F[n] \notin Q}
  <2> SUFFICES ASSUME Bad # {} PROVE FALSE
    OBVIOUS
  <2>1. PICK n \in Bad : \A k \in Bad : n <= k
    <3>1. Bad \in SUBSET Nat
      BY <1>1
    <3> HIDE DEF Bad
    <3> QED
      BY <3>1, Least
  <2>2. n \in D /\ F[n] \notin Q
    BY <2>1
  <2>3. F[n] = Step(F, n)
    <3> HIDE DEF Step
    <3> QED
      BY <1>8, <2>2
  <2>4. CASE n = 0
    BY <1>2, <2>2, <2>3, <2>4
  <2>5. CASE n # 0
    <3>1. n - 1 \in D /\ ~(n <= n - 1) /\ n \in 1..L
      BY <1>1, <2>2, <2>5
    <3>2. F[n - 1] \in Q /\ seqs[n] \in Q
      BY <1>1, <2>1, <3>1
    <3>3. F[n - 1] \o seqs[n] \in Q
      BY <3>2, ConcatProperties
    <3> QED
      BY <2>2, <2>3, <2>5, <3>3
  <2> QED
    BY <2>4, <2>5
<1>11. L \in D
  BY <1>1
<1>12. ASSUME L # 0, seqs[L] # <<>> PROVE F[L] # <<>>
  <2>1. F[L] = F[L - 1] \o seqs[L]
    <3>1. F[L] = Step(F, L)
      <4> HIDE DEF Step
      <4> QED
        BY <1>8, <1>11
    <3> QED
      BY <1>12, <3>1
  <2>2. F[L - 1] \in Q /\ seqs[L] \in Q
    <3>1. L - 1 \in D /\ L \in 1..L
      BY <1>1, <1>12
    <3> QED
      BY <1>1, <1>10, <3>1
  <2>a. PICK x, y : x = F[L - 1] /\ y = seqs[L]
    OBVIOUS
  <2>3. Len(x \o y) = Len(x) + Len(y) /\ Len(x) \in Nat /\ Len(y) \in Nat /\ Len(y) # 0
    BY <1>12, <2>2, <2>a, ConcatProperties, EmptySeq, LenProperties
  <2>4. x \o y # <<>>
    BY <2>3
  <2> QED
    BY <2>1, <2>4, <2>a
<1> QED
  BY <1>9, <1>10, <1>11, <1>12 DEF L

\* The words of a text, and its letters.
Word == Seq(Characters) \ {<<>>}

LEMMA TokensAre ==
  ASSUME NEW text \in Seq(Seq(Characters))
  PROVE  /\ Tokens(text) \in Seq(Word) /\ Letters(text) \in Seq(Characters)
         /\ Tokens(text) # <<>> => Letters(text) # <<>>
<1>1. Len(text) \in Nat /\ DOMAIN text = 1..Len(text) /\ \A k \in 1..Len(text) : text[k] \in Seq(Characters)
  BY LenProperties, ElementOfSeq
<1>2. \A k \in DOMAIN text : Normalize(text[k]) \in Seq(Characters)
  <2> SUFFICES ASSUME NEW k \in DOMAIN text PROVE Normalize(text[k]) \in Seq(Characters)
    OBVIOUS
  <2>1. Without(text[k], Marks) \in Seq(Characters \ Marks)
    BY <1>1, WithoutIs
  <2>2. Characters \ Marks \subseteq Characters
    OBVIOUS
  <2> QED
    BY <2>1, <2>2, SeqMonotonic DEF Normalize
<1>3. [k \in DOMAIN text |-> Normalize(text[k])] \in Seq(Seq(Characters))
  BY <1>1, <1>2, IsASeq
<1>4. Tokens(text) \in Seq(Word)
  BY <1>3, WithoutIs DEF Tokens, Word
<1>5. Tokens(text) \in Seq(Seq(Characters))
  <2>1. Word \subseteq Seq(Characters)
    BY DEF Word
  <2> QED
    BY <1>4, <2>1, SeqMonotonic
<1>6. Tokens(text) # <<>> => Len(Tokens(text)) # 0 /\ Tokens(text)[Len(Tokens(text))] # <<>>
  <2> PICK s : s = Tokens(text)
    OBVIOUS
  <2> SUFFICES ASSUME s # <<>> PROVE Len(s) # 0 /\ s[Len(s)] # <<>>
    OBVIOUS
  <2>1. Len(s) \in Nat /\ Len(s) # 0
    BY <1>4, EmptySeq, LenProperties
  <2>2. Len(s) \in 1..Len(s)
    BY <2>1
  <2>3. s[Len(s)] \in Word
    BY <1>4, <2>2, ElementOfSeq
  <2> QED
    BY <2>1, <2>3 DEF Word
<1>7. Joined(Tokens(text)) \in Seq(Characters) /\ (Tokens(text) # <<>> => Joined(Tokens(text)) # <<>>)
  BY <1>5, <1>6, JoinedIs
<1> QED
  BY <1>4, <1>7 DEF Letters

LEMMA TranscriptIs ==
  ASSUME NEW answer \in Responses
  PROVE  ParseResponse(answer).transcript \in Seq(Seq(Characters))
<1> DEFINE Text == Seq(Seq(Characters))
           Result == [alternatives : Seq(Text), confidence : Nat]
           empty == {answer[k] : k \in {i \in DOMAIN answer : answer[i].alternatives = <<>>}}
           tops == Without(answer, empty)
<1>1. answer \in Seq(Result)
  BY RecitationConstants
<1>2. DOMAIN answer = 1..Len(answer) /\ Len(answer) \in Nat /\ \A k \in 1..Len(answer) : answer[k] \in Result
  BY <1>1, LenProperties, ElementOfSeq
<1> DEFINE given == {answer[k] : k \in DOMAIN answer}
<1>3. answer \in Seq(given)
  <2>1. \A k \in 1..Len(answer) : answer[k] \in given
    BY <1>2
  <2>2. answer = [k \in 1..Len(answer) |-> answer[k]]
    BY <1>1, LenProperties
  <2>3. [k \in 1..Len(answer) |-> answer[k]] \in Seq(given)
    <3> HIDE DEF given
    <3> QED
      BY <1>2, <2>1, IsASeq
  <2> HIDE DEF given
  <2> QED
    BY <2>2, <2>3
<1>4. tops \in Seq(given \ empty)
  BY <1>3, WithoutIs
<1>5. \A r \in given \ empty : r \in Result /\ r.alternatives # <<>>
  BY <1>2
<1>6. /\ Len(tops) \in Nat /\ DOMAIN tops = 1..Len(tops)
      /\ \A k \in 1..Len(tops) : tops[k].alternatives[1] \in Text
  <2> HIDE DEF tops, given, empty
  <2>1. /\ Len(tops) \in Nat /\ DOMAIN tops = 1..Len(tops)
        /\ \A k \in 1..Len(tops) : tops[k] \in given \ empty
    BY <1>4, LenProperties, ElementOfSeq
  <2> SUFFICES ASSUME NEW k \in 1..Len(tops) PROVE tops[k].alternatives[1] \in Text
    BY <2>1
  <2> PICK alts : alts = tops[k].alternatives
    OBVIOUS
  <2>2. alts \in Seq(Text) /\ alts # <<>>
    BY <1>5, <2>1
  <2>3. Len(alts) \in Nat /\ Len(alts) # 0
    BY <2>2, EmptySeq, LenProperties
  <2>4. 1 \in 1..Len(alts)
    BY <2>3
  <2> HIDE DEF Text
  <2> QED
    BY <2>2, <2>4, ElementOfSeq
<1>7. [k \in DOMAIN tops |-> tops[k].alternatives[1]] \in Seq(Text)
  <2> HIDE DEF tops, Text
  <2> QED
    BY <1>6, IsASeq
<1>8. Joined([k \in DOMAIN tops |-> tops[k].alternatives[1]]) \in Text
  <2> HIDE DEF tops
  <2> QED
    BY <1>7, JoinedIs
<1>9. ParseResponse(answer).transcript = Joined([k \in DOMAIN tops |-> tops[k].alternatives[1]])
  BY DEF ParseResponse
<1> QED
  BY <1>8, <1>9

-----------------------------------------------------------------------------
(* The distance of the first words of two texts.                            *)

PairsTo(i, j) ==
  {p \in (SUBSET (1..i)) \X (SUBSET (1..j)) : Cardinality(p[1]) = Cardinality(p[2])}
CostTo(a, b, i, j, p) == i + j - 2 * Cardinality(p[1]) + Mismatches(a, b, p)
IsDistance(a, b, i, j, d) ==
  /\ \E p \in PairsTo(i, j) : CostTo(a, b, i, j, p) = d
  /\ \A p \in PairsTo(i, j) : d <= CostTo(a, b, i, j, p)
Unlike(a, b, i, j) == IF a[i] = b[j] THEN 0 ELSE 1

LEMMA CardinalityTo ==
  ASSUME NEW i \in Nat, NEW S \in SUBSET (1..i)
  PROVE  IsFiniteSet(S) /\ Cardinality(S) \in Nat /\ Cardinality(S) <= i
<1>1. IsFiniteSet(1..i) /\ Cardinality(1..i) = i
  <2>1. IsFiniteSet(1..i) /\ Cardinality(1..i) = IF 1 > i THEN 0 ELSE i - 1 + 1
    BY FS_Interval
  <2> QED
    BY <2>1
<1> QED
  BY <1>1, FS_Subset, FS_CardinalityType

\* The last of a set of positions is the last of them in their order, and the
\* others keep their place without it.
IsLast(i, S, R) ==
  /\ Cardinality(S) = Cardinality(R) + 1
  /\ Kth(S, Cardinality(S)) = i
  /\ \A k \in 1..Cardinality(R) : Kth(S, k) = Kth(R, k)

LEMMA KthLast ==
  ASSUME NEW i \in Nat, i # 0, NEW R \in SUBSET (1..(i - 1))
  PROVE  IsLast(i, R \cup {i}, R)
<1> PICK S : S = R \cup {i}
  OBVIOUS
<1> DEFINE Below(U, z) == {y \in U : y < z}
           At(U, k) == {z \in U : Cardinality(Below(U, z)) = k - 1}
<1>1. i - 1 \in Nat /\ \A y \in R : y \in Nat /\ y < i /\ ~(i < y) /\ y # i
  OBVIOUS
<1>2. IsFiniteSet(R) /\ Cardinality(R) \in Nat
  BY <1>1, CardinalityTo
<1>3. Cardinality(S) = Cardinality(R) + 1
  <2>1. i \notin R
    BY <1>1
  <2> QED
    BY <1>2, <2>1, FS_AddElement
<1>4. Below(S, i) = R /\ \A z \in R : Below(S, z) = Below(R, z)
  <2>1. ~(i < i) /\ \A y \in R : y < i /\ ~(i < y)
    BY <1>1
  <2> QED
    BY <2>1, Zenon
<1>5. ASSUME NEW z \in R PROVE Cardinality(Below(R, z)) \in Nat /\ Cardinality(Below(R, z)) < Cardinality(R)
  <2>1. Below(R, z) \in SUBSET R /\ Below(R, z) # R
    BY <1>1
  <2> HIDE DEF Below
  <2>2. Cardinality(Below(R, z)) \in Nat /\ Cardinality(Below(R, z)) <= Cardinality(R)
        /\ Cardinality(R) # Cardinality(Below(R, z))
    BY <1>2, <2>1, FS_Subset, FS_CardinalityType
  <2> QED
    BY <1>2, <2>2
<1> HIDE DEF Below
<1>6. \A k \in 1..Cardinality(R) : At(S, k) = At(R, k)
  <2> SUFFICES ASSUME NEW k \in 1..Cardinality(R) PROVE At(S, k) = At(R, k)
    OBVIOUS
  <2>1. Cardinality(Below(S, i)) # k - 1
    BY <1>2, <1>4
  <2> QED
    BY <1>4, <2>1
<1>7. At(S, Cardinality(S)) = {i}
  <2>1. Cardinality(S) - 1 = Cardinality(R)
    BY <1>2, <1>3
  <2>2. ASSUME NEW z \in R PROVE Cardinality(Below(S, z)) # Cardinality(R)
    <3>1. Below(S, z) = Below(R, z)
      BY <1>4
    <3> QED
      BY <1>2, <1>5, <3>1
  <2> QED
    BY <1>4, <2>1, <2>2
<1>8. \A k : Kth(S, k) = CHOOSE x \in At(S, k) : TRUE
  BY DEF Kth, Below
<1>9. \A k : Kth(R, k) = CHOOSE x \in At(R, k) : TRUE
  BY DEF Kth, Below
<1>10. Kth(S, Cardinality(S)) = i
  <2>1. Kth(S, Cardinality(S)) = CHOOSE x \in {i} : TRUE
    BY <1>7, <1>8
  <2> QED
    BY <2>1
<1>11. \A k \in 1..Cardinality(R) : Kth(S, k) = Kth(R, k)
  <2> HIDE DEF At
  <2> QED
    BY <1>6, <1>8, <1>9
<1> QED
  BY <1>3, <1>10, <1>11 DEF IsLast

LEMMA CostIs ==
  ASSUME NEW a, NEW b, NEW i \in Nat, NEW j \in Nat, NEW p \in PairsTo(i, j)
  PROVE  /\ Cardinality(p[1]) \in Nat /\ Cardinality(p[1]) <= i /\ Cardinality(p[1]) <= j
         /\ Mismatches(a, b, p) \in Nat /\ CostTo(a, b, i, j, p) \in Nat
<1> PICK S, T : S = p[1] /\ T = p[2]
  OBVIOUS
<1>1. S \in SUBSET (1..i) /\ T \in SUBSET (1..j) /\ Cardinality(S) = Cardinality(T)
  BY DEF PairsTo
<1>2. Cardinality(S) \in Nat /\ Cardinality(S) <= i /\ Cardinality(S) <= j
  BY <1>1, CardinalityTo
<1>3. Mismatches(a, b, p) \in Nat
  <2> DEFINE M == {k \in 1..Cardinality(p[1]) : a[Kth(p[1], k)] # b[Kth(p[2], k)]}
  <2>1. M \in SUBSET (1..Cardinality(S))
    OBVIOUS
  <2>2. Mismatches(a, b, p) = Cardinality(M)
    BY DEF Mismatches
  <2> HIDE DEF M
  <2> QED
    BY <1>2, <2>1, <2>2, CardinalityTo
<1>4. i + j - 2 * Cardinality(S) \in Nat
  BY <1>2
<1> QED
  BY <1>2, <1>3, <1>4 DEF CostTo

\* Two last words that are paired cost what they are unlike.
LEMMA PairLast ==
  ASSUME NEW a, NEW b, NEW i \in Nat, NEW j \in Nat, i # 0, j # 0, NEW p \in PairsTo(i - 1, j - 1),
         NEW q, q = <<p[1] \cup {i}, p[2] \cup {j}>>
  PROVE  /\ q \in PairsTo(i, j)
         /\ CostTo(a, b, i, j, q) = CostTo(a, b, i - 1, j - 1, p) + Unlike(a, b, i, j)
<1> PICK R, U, S, T : R = p[1] /\ U = p[2] /\ S = R \cup {i} /\ T = U \cup {j}
  OBVIOUS
<1> PICK n : n = Cardinality(R)
  OBVIOUS
<1>1. /\ R \in SUBSET (1..(i - 1)) /\ U \in SUBSET (1..(j - 1)) /\ Cardinality(U) = n
      /\ i - 1 \in Nat /\ j - 1 \in Nat
  BY DEF PairsTo
<1>2. n \in Nat
  BY <1>1, CardinalityTo
<1>3. /\ Cardinality(S) = n + 1 /\ Kth(S, n + 1) = i
      /\ \A k \in 1..n : Kth(S, k) = Kth(R, k)
  <2>1. IsLast(i, R \cup {i}, R)
    BY <1>1, KthLast
  <2> QED
    BY <2>1 DEF IsLast
<1>4. /\ Cardinality(T) = n + 1 /\ Kth(T, n + 1) = j
      /\ \A k \in 1..n : Kth(T, k) = Kth(U, k)
  <2>1. IsLast(j, U \cup {j}, U)
    BY <1>1, KthLast
  <2> QED
    BY <1>1, <2>1 DEF IsLast
<1>5. q = <<S, T>> /\ q \in PairsTo(i, j)
  <2>1. S \in SUBSET (1..i) /\ T \in SUBSET (1..j)
    BY <1>1
  <2> QED
    BY <1>3, <1>4, <2>1 DEF PairsTo
<1>6. Mismatches(a, b, q) = Mismatches(a, b, p) + Unlike(a, b, i, j)
  <2> DEFINE M == {k \in 1..n : a[Kth(R, k)] # b[Kth(U, k)]}
             N == {k \in 1..(n + 1) : a[Kth(S, k)] # b[Kth(T, k)]}
  <2>1. Mismatches(a, b, p) = Cardinality(M) /\ Mismatches(a, b, q) = Cardinality(N)
    <3> DEFINE P == {k \in 1..Cardinality(p[1]) : a[Kth(p[1], k)] # b[Kth(p[2], k)]}
               Q == {k \in 1..Cardinality(q[1]) : a[Kth(q[1], k)] # b[Kth(q[2], k)]}
    <3>1. p[1] = R /\ p[2] = U /\ q[1] = S /\ q[2] = T
      BY <1>5
    <3>2. P = M /\ Q = N
      BY <1>3, <3>1
    <3>3. Mismatches(a, b, p) = Cardinality(P) /\ Mismatches(a, b, q) = Cardinality(Q)
      BY DEF Mismatches
    <3> HIDE DEF M, N, P, Q
    <3> QED
      BY <3>2, <3>3
  <2>2. IsFiniteSet(M) /\ Cardinality(M) \in Nat
    <3>1. M \in SUBSET (1..n)
      OBVIOUS
    <3> HIDE DEF M
    <3> QED
      BY <1>2, <3>1, CardinalityTo
  <2>3. n + 1 \notin M /\ \A k \in 1..(n + 1) : k = n + 1 \/ k \in 1..n
    BY <1>2
  <2>4. /\ \A k \in 1..n : k \in N <=> k \in M
        /\ n + 1 \in N <=> a[i] # b[j]
        /\ M \subseteq 1..n /\ \A k \in N : k = n + 1 \/ k \in 1..n
    <3>1. n + 1 \in 1..(n + 1) /\ \A k \in 1..n : k \in 1..(n + 1)
      BY <1>2
    <3> QED
      BY <1>3, <1>4, <2>3, <3>1
  <2>5. CASE a[i] = b[j]
    <3>1. N = M
      BY <2>4, <2>5
    <3> HIDE DEF M, N
    <3> QED
      BY <2>1, <2>2, <2>5, <3>1 DEF Unlike
  <2>6. CASE a[i] # b[j]
    <3>1. N = M \cup {n + 1}
      BY <2>4, <2>6
    <3> HIDE DEF M, N
    <3>2. Cardinality(N) = Cardinality(M) + 1
      BY <2>2, <2>3, <3>1, FS_AddElement
    <3> QED
      BY <2>1, <2>6, <3>2 DEF Unlike
  <2> QED
    BY <2>5, <2>6
<1>7. Mismatches(a, b, p) \in Nat /\ Unlike(a, b, i, j) \in Nat
  <2>1. Mismatches(a, b, p) \in Nat
    BY <1>1, CostIs
  <2> QED
    BY <2>1 DEF Unlike
<1>8. q[1] = S /\ p[1] = R
  BY <1>5
<1>9. i + j - 2 * (n + 1) + (Mismatches(a, b, p) + Unlike(a, b, i, j))
        = ((i - 1) + (j - 1) - 2 * n + Mismatches(a, b, p)) + Unlike(a, b, i, j)
  BY <1>2, <1>7
<1> QED
  BY <1>3, <1>5, <1>6, <1>8, <1>9 DEF CostTo

LEMMA DistanceIs ==
  ASSUME NEW a, NEW b, NEW i \in Nat, NEW j \in Nat, NEW d, IsDistance(a, b, i, j, d)
  PROVE  d \in Nat
BY CostIs DEF IsDistance

LEMMA OneDistance ==
  ASSUME NEW a, NEW b, NEW i \in Nat, NEW j \in Nat,
         NEW d, IsDistance(a, b, i, j, d), NEW e, IsDistance(a, b, i, j, e)
  PROVE  d = e
<1>1. d \in Nat /\ e \in Nat
  BY DistanceIs
<1>2. d <= e /\ e <= d
  BY DEF IsDistance
<1> QED
  BY <1>1, <1>2

\* Nothing can be paired with no words.
LEMMA DistanceToNone ==
  ASSUME NEW a, NEW b, NEW i \in Nat
  PROVE  IsDistance(a, b, i, 0, i) /\ IsDistance(a, b, 0, i, i)
<1> DEFINE none == <<{}, {}>>
<1>1. IsFiniteSet({}) /\ Cardinality({}) = 0 /\ 1..0 = {} /\ 0 \in Nat
  BY FS_EmptySet
<1>2. Mismatches(a, b, none) = 0
  <2>1. {k \in 1..Cardinality(none[1]) : a[Kth(none[1], k)] # b[Kth(none[2], k)]} = {}
    BY <1>1
  <2> QED
    BY <1>1, <2>1 DEF Mismatches
<1>3. none \in PairsTo(i, 0) /\ none \in PairsTo(0, i)
  BY DEF PairsTo
<1>4. ASSUME NEW p, p \in PairsTo(i, 0) \/ p \in PairsTo(0, i) PROVE p = none
  <2>1. p = <<p[1], p[2]>> /\ Cardinality(p[1]) = Cardinality(p[2])
    BY <1>4 DEF PairsTo
  <2>2. CASE p \in PairsTo(i, 0)
    <3>1. p[1] \in SUBSET (1..i) /\ p[2] = {}
      BY <1>1, <2>2 DEF PairsTo
    <3>2. IsFiniteSet(p[1])
      BY <3>1, CardinalityTo
    <3>3. p[1] = {}
      BY <1>1, <2>1, <3>1, <3>2, FS_EmptySet
    <3> QED
      BY <2>1, <3>1, <3>3
  <2>3. CASE p \in PairsTo(0, i)
    <3>1. p[2] \in SUBSET (1..i) /\ p[1] = {}
      BY <1>1, <2>3 DEF PairsTo
    <3>2. IsFiniteSet(p[2])
      BY <3>1, CardinalityTo
    <3>3. p[2] = {}
      BY <1>1, <2>1, <3>1, <3>2, FS_EmptySet
    <3> QED
      BY <2>1, <3>1, <3>3
  <2> QED
    BY <1>4, <2>2, <2>3
<1>5. CostTo(a, b, i, 0, none) = i /\ CostTo(a, b, 0, i, none) = i
  BY <1>1, <1>2 DEF CostTo
<1> HIDE DEF none
<1> QED
  BY <1>3, <1>4, <1>5 DEF IsDistance

\* The last words are paired, or one of the two texts ends in a word that is not.
LEMMA DistanceFrom ==
  ASSUME NEW a, NEW b, NEW i \in Nat, NEW j \in Nat, i # 0, j # 0,
         NEW x, IsDistance(a, b, i - 1, j - 1, x),
         NEW y, IsDistance(a, b, i - 1, j, y),
         NEW z, IsDistance(a, b, i, j - 1, z),
         NEW d, d \in {x + Unlike(a, b, i, j), y + 1, z + 1},
         d <= x + Unlike(a, b, i, j), d <= y + 1, d <= z + 1
  PROVE  IsDistance(a, b, i, j, d)
<1>1. /\ i - 1 \in Nat /\ j - 1 \in Nat /\ x \in Nat /\ y \in Nat /\ z \in Nat
      /\ Unlike(a, b, i, j) \in Nat
  <2>1. i - 1 \in Nat /\ j - 1 \in Nat
    OBVIOUS
  <2>2. Unlike(a, b, i, j) \in Nat
    BY DEF Unlike
  <2> QED
    BY <2>1, <2>2, DistanceIs
<1>2. ASSUME NEW p \in PairsTo(i - 1, j)
      PROVE  p \in PairsTo(i, j) /\ CostTo(a, b, i, j, p) = CostTo(a, b, i - 1, j, p) + 1
  <2>1. 1..(i - 1) \subseteq 1..i
    BY <1>1
  <2>2. p \in PairsTo(i, j)
    BY <2>1 DEF PairsTo
  <2>3. Cardinality(p[1]) \in Nat /\ Mismatches(a, b, p) \in Nat
    BY <1>1, CostIs
  <2> QED
    BY <1>1, <2>2, <2>3 DEF CostTo
<1>3. ASSUME NEW p \in PairsTo(i, j - 1)
      PROVE  p \in PairsTo(i, j) /\ CostTo(a, b, i, j, p) = CostTo(a, b, i, j - 1, p) + 1
  <2>1. 1..(j - 1) \subseteq 1..j
    BY <1>1
  <2>2. p \in PairsTo(i, j)
    BY <2>1 DEF PairsTo
  <2>3. Cardinality(p[1]) \in Nat /\ Mismatches(a, b, p) \in Nat
    BY <1>1, CostIs
  <2> QED
    BY <1>1, <2>2, <2>3 DEF CostTo
<1>4. \E p \in PairsTo(i, j) : CostTo(a, b, i, j, p) = d
  <2>1. CASE d = x + Unlike(a, b, i, j)
    <3>1. PICK p \in PairsTo(i - 1, j - 1) : CostTo(a, b, i - 1, j - 1, p) = x
      BY DEF IsDistance
    <3> QED
      BY <2>1, <3>1, PairLast
  <2>2. CASE d = y + 1
    <3>1. PICK p \in PairsTo(i - 1, j) : CostTo(a, b, i - 1, j, p) = y
      BY DEF IsDistance
    <3> QED
      BY <1>2, <2>2, <3>1
  <2>3. CASE d = z + 1
    <3>1. PICK p \in PairsTo(i, j - 1) : CostTo(a, b, i, j - 1, p) = z
      BY DEF IsDistance
    <3> QED
      BY <1>3, <2>3, <3>1
  <2> QED
    BY <2>1, <2>2, <2>3
<1>5. ASSUME NEW p \in PairsTo(i, j) PROVE d <= CostTo(a, b, i, j, p)
  <2> PICK S, T : S = p[1] /\ T = p[2]
    OBVIOUS
  <2>1. S \in SUBSET (1..i) /\ T \in SUBSET (1..j) /\ Cardinality(S) = Cardinality(T) /\ p = <<S, T>>
    BY DEF PairsTo
  <2>2. /\ \A k \in S : k = i \/ k \in 1..(i - 1)
        /\ \A k \in T : k = j \/ k \in 1..(j - 1)
        /\ \A k \in 1..(i - 1) : k # i
        /\ \A k \in 1..(j - 1) : k # j
    BY <1>1, <2>1
  <2>3. CASE i \in S /\ j \in T
    <3> PICK R, U, q : R = S \ {i} /\ U = T \ {j} /\ q = <<R, U>>
      OBVIOUS
    <3>1. R \in SUBSET (1..(i - 1)) /\ U \in SUBSET (1..(j - 1)) /\ S = R \cup {i} /\ T = U \cup {j}
      BY <2>2, <2>3
    <3>2. Cardinality(R) = Cardinality(U)
      <4>1. IsFiniteSet(S) /\ IsFiniteSet(T)
        BY <2>1, CardinalityTo
      <4>2. Cardinality(R) = Cardinality(S) - 1 /\ Cardinality(U) = Cardinality(T) - 1
        BY <2>3, <4>1, FS_RemoveElement
      <4> QED
        BY <2>1, <4>2
    <3>3. q \in PairsTo(i - 1, j - 1) /\ p = <<q[1] \cup {i}, q[2] \cup {j}>>
      BY <2>1, <3>1, <3>2 DEF PairsTo
    <3>4. CostTo(a, b, i, j, p) = CostTo(a, b, i - 1, j - 1, q) + Unlike(a, b, i, j)
      BY <3>3, PairLast
    <3>5. x <= CostTo(a, b, i - 1, j - 1, q) /\ CostTo(a, b, i - 1, j - 1, q) \in Nat
      BY <1>1, <3>3, CostIs DEF IsDistance
    <3>6. d <= x + Unlike(a, b, i, j) /\ d \in Nat
      BY <1>1
    <3> QED
      BY <1>1, <3>4, <3>5, <3>6
  <2>4. CASE i \notin S
    <3>1. p \in PairsTo(i - 1, j)
      BY <2>1, <2>2, <2>4 DEF PairsTo
    <3>2. y <= CostTo(a, b, i - 1, j, p) /\ CostTo(a, b, i - 1, j, p) \in Nat
      BY <1>1, <3>1, CostIs DEF IsDistance
    <3>3. CostTo(a, b, i, j, p) = CostTo(a, b, i - 1, j, p) + 1
      BY <1>2, <3>1
    <3>4. d <= y + 1 /\ d \in Nat
      BY <1>1
    <3> QED
      BY <1>1, <3>2, <3>3, <3>4
  <2>5. CASE j \notin T
    <3>1. p \in PairsTo(i, j - 1)
      BY <2>1, <2>2, <2>5 DEF PairsTo
    <3>2. z <= CostTo(a, b, i, j - 1, p) /\ CostTo(a, b, i, j - 1, p) \in Nat
      BY <1>1, <3>1, CostIs DEF IsDistance
    <3>3. CostTo(a, b, i, j, p) = CostTo(a, b, i, j - 1, p) + 1
      BY <1>3, <3>1
    <3>4. d <= z + 1 /\ d \in Nat
      BY <1>1
    <3> QED
      BY <1>1, <3>2, <3>3, <3>4
  <2> QED
    BY <2>3, <2>4, <2>5
<1> QED
  BY <1>4, <1>5 DEF IsDistance

\* Two functions agree that agree wherever they agree below.
AgreeBelow(f, g, D, rank, c) == \A d \in D : rank[d] < rank[c] => f[d] = g[d]
Inherited(f, g, D, rank) ==
  rank \in [D -> Nat] /\ \A c \in D : AgreeBelow(f, g, D, rank, c) => f[c] = g[c]

LEMMA Agree ==
  ASSUME NEW D, NEW f, NEW g, NEW rank, Inherited(f, g, D, rank)
  PROVE  \A c \in D : f[c] = g[c]
<1> DEFINE Ranks == {n \in Nat : \E c \in D : rank[c] = n /\ f[c] # g[c]}
<1>1. /\ rank \in [D -> Nat]
      /\ \A c \in D : AgreeBelow(f, g, D, rank, c) => f[c] = g[c]
  BY DEF Inherited
<1>2. Ranks = {}
  <2> SUFFICES ASSUME Ranks # {} PROVE FALSE
    OBVIOUS
  <2>1. PICK n \in Ranks : \A k \in Ranks : n <= k
    <3>1. Ranks \in SUBSET Nat
      OBVIOUS
    <3> HIDE DEF Ranks
    <3> QED
      BY <3>1, Least
  <2>2. PICK c \in D : rank[c] = n /\ f[c] # g[c]
    BY <2>1
  <2>3. ASSUME NEW d \in D, rank[d] < rank[c] PROVE f[d] = g[d]
    <3>1. rank[d] \in Nat /\ rank[c] \in Nat /\ ~(n <= rank[d])
      BY <1>1, <2>2, <2>3
    <3>2. rank[d] \notin Ranks
      <4> HIDE DEF Ranks
      <4> QED
        BY <2>1, <3>1
    <3> QED
      BY <3>1, <3>2
  <2>4. AgreeBelow(f, g, D, rank, c)
    BY <2>3 DEF AgreeBelow
  <2> QED
    BY <1>1, <2>2, <2>4
<1> QED
  BY <1>1, <1>2

-----------------------------------------------------------------------------
(* The tables of the error rates.                                           *)

Dist(a, b, i, j) == CHOOSE d \in Nat : IsDistance(a, b, i, j, d)

LEMMA DistIs ==
  ASSUME NEW a, NEW b, NEW i \in Nat, NEW j \in Nat
  PROVE  IsDistance(a, b, i, j, Dist(a, b, i, j)) /\ Dist(a, b, i, j) \in Nat
<1> DEFINE Costs == {CostTo(a, b, i, j, p) : p \in PairsTo(i, j)}
<1>1. Costs \in SUBSET Nat
  BY CostIs
<1>2. Costs # {}
  <2>1. <<{}, {}>> \in PairsTo(i, j)
    BY DEF PairsTo
  <2> QED
    BY <2>1
<1>3. PICK d \in Costs : \A e \in Costs : d <= e
  <2> HIDE DEF Costs
  <2> QED
    BY <1>1, <1>2, Least
<1>4. d \in Nat /\ IsDistance(a, b, i, j, d)
  BY <1>1, <1>3 DEF IsDistance
<1> QED
  BY <1>4 DEF Dist

LEMMA Min3Is ==
  ASSUME NEW x \in Nat, NEW y \in Nat, NEW z \in Nat
  PROVE  Min3(x, y, z) \in {x, y, z} /\ Min3(x, y, z) <= x /\ Min3(x, y, z) <= y /\ Min3(x, y, z) <= z
<1>1. \E m \in {x, y, z} : m <= x /\ m <= y /\ m <= z
  OBVIOUS
<1> QED
  BY <1>1 DEF Min3

LEMMA DistSteps ==
  ASSUME NEW a, NEW b, NEW i \in Nat, NEW j \in Nat
  PROVE  /\ i = 0 \/ j = 0 => Dist(a, b, i, j) = i + j
         /\ i # 0 /\ j # 0 =>
              Dist(a, b, i, j) = Min3(Dist(a, b, i - 1, j) + 1, Dist(a, b, i, j - 1) + 1,
                                      Dist(a, b, i - 1, j - 1) + Unlike(a, b, i, j))
<1>1. IsDistance(a, b, i, j, Dist(a, b, i, j))
  BY DistIs
<1>2. ASSUME i = 0 \/ j = 0 PROVE Dist(a, b, i, j) = i + j
  <2>1. IsDistance(a, b, i, j, i + j)
    <3>1. CASE i = 0
      BY <3>1, DistanceToNone
    <3>2. CASE j = 0
      BY <3>2, DistanceToNone
    <3> QED
      BY <1>2, <3>1, <3>2
  <2> QED
    BY <1>1, <2>1, OneDistance
<1>3. ASSUME i # 0, j # 0
      PROVE  Dist(a, b, i, j) = Min3(Dist(a, b, i - 1, j) + 1, Dist(a, b, i, j - 1) + 1,
                                      Dist(a, b, i - 1, j - 1) + Unlike(a, b, i, j))
  <2>1. i - 1 \in Nat /\ j - 1 \in Nat
    BY <1>3
  <2> PICK x, y, z, u : /\ x = Dist(a, b, i - 1, j - 1) /\ y = Dist(a, b, i - 1, j)
                        /\ z = Dist(a, b, i, j - 1) /\ u = Unlike(a, b, i, j)
    OBVIOUS
  <2>2. /\ x \in Nat /\ IsDistance(a, b, i - 1, j - 1, x)
        /\ y \in Nat /\ IsDistance(a, b, i - 1, j, y)
        /\ z \in Nat /\ IsDistance(a, b, i, j - 1, z)
    BY <2>1, DistIs
  <2>3. u \in Nat
    BY DEF Unlike
  <2> PICK d : d = Min3(y + 1, z + 1, x + u)
    OBVIOUS
  <2>4. d \in {x + u, y + 1, z + 1} /\ d <= x + u /\ d <= y + 1 /\ d <= z + 1
    <3>1. y + 1 \in Nat /\ z + 1 \in Nat /\ x + u \in Nat
      BY <2>2, <2>3
    <3> QED
      BY <3>1, Min3Is
  <2>5. IsDistance(a, b, i, j, d)
    BY <1>3, <2>2, <2>4, DistanceFrom
  <2> QED
    BY <1>1, <2>5, OneDistance
<1> QED
  BY <1>2, <1>3

LEMMA DistToNone ==
  ASSUME NEW a, NEW b, NEW i \in Nat
  PROVE  Dist(a, b, i, 0) = i /\ Dist(a, b, 0, i) = i
<1>1. i + 0 = i /\ 0 + i = i /\ 0 \in Nat
  OBVIOUS
<1> QED
  BY <1>1, DistSteps

LEMMA LevenshteinIs ==
  ASSUME NEW T, NEW ref \in Seq(T), NEW hyp \in Seq(T)
  PROVE  LevenshteinMatrix(ref, hyp)[<<Len(ref), Len(hyp)>>] = Dist(ref, hyp, Len(ref), Len(hyp))
<1> DEFINE D == (0..Len(ref)) \X (0..Len(hyp))
           Step(dp, c) ==
             LET i == c[1]  j == c[2]
             IN  IF i = 0 \/ j = 0 THEN i + j
                 ELSE Min3(dp[<<i - 1, j>>] + 1,
                           dp[<<i, j - 1>>] + 1,
                           dp[<<i - 1, j - 1>>] + (IF ref[i] = hyp[j] THEN 0 ELSE 1))
           known == [c \in D |-> Dist(ref, hyp, c[1], c[2])]
           rank == [c \in D |-> c[1] + c[2]]
<1>1. Len(ref) \in Nat /\ Len(hyp) \in Nat
  BY LenProperties
<1>2. \A c \in D : /\ c[1] \in Nat /\ c[2] \in Nat
                   /\ c[1] # 0 /\ c[2] # 0 => /\ <<c[1] - 1, c[2]>> \in D
                                              /\ <<c[1], c[2] - 1>> \in D
                                              /\ <<c[1] - 1, c[2] - 1>> \in D
  BY <1>1
<1>3. ASSUME NEW c \in D PROVE known[c] = Step(known, c)
  <2>1. CASE c[1] = 0 \/ c[2] = 0
    BY <1>2, <2>1, DistSteps
  <2>2. CASE c[1] # 0 /\ c[2] # 0
    <3> PICK i, j : i = c[1] /\ j = c[2]
      OBVIOUS
    <3>1. i \in Nat /\ j \in Nat /\ <<i - 1, j>> \in D /\ <<i, j - 1>> \in D /\ <<i - 1, j - 1>> \in D
      BY <1>2, <2>2
    <3>2. /\ known[<<i - 1, j>>] = Dist(ref, hyp, i - 1, j)
          /\ known[<<i, j - 1>>] = Dist(ref, hyp, i, j - 1)
          /\ known[<<i - 1, j - 1>>] = Dist(ref, hyp, i - 1, j - 1)
          /\ known[c] = Dist(ref, hyp, i, j)
      <4> HIDE DEF D
      <4> QED
        BY <3>1
    <3>3. Dist(ref, hyp, i, j) = Min3(Dist(ref, hyp, i - 1, j) + 1, Dist(ref, hyp, i, j - 1) + 1,
                                      Dist(ref, hyp, i - 1, j - 1) + Unlike(ref, hyp, i, j))
      BY <2>2, <3>1, DistSteps
    <3> HIDE DEF known, D
    <3> QED
      BY <2>2, <3>2, <3>3 DEF Unlike
  <2> QED
    BY <2>1, <2>2
<1>4. known = [c \in D |-> Step(known, c)]
  <2> HIDE DEF Step, D
  <2> QED
    BY <1>3
<1> DEFINE dp == CHOOSE h : h = [c \in D |-> Step(h, c)]
<1>5. dp = [c \in D |-> Step(dp, c)]
  <2>1. \E h : h = [c \in D |-> Step(h, c)]
    BY <1>4
  <2> HIDE DEF Step, D
  <2> QED
    BY <2>1, Zenon
<1>6. LevenshteinMatrix(ref, hyp) = dp
  BY Zenon DEF LevenshteinMatrix
<1> HIDE DEF dp, known
<1>7. \A c \in D : dp[c] = Step(dp, c)
  <2> HIDE DEF Step, D
  <2> QED
    BY <1>5
<1>8. rank \in [D -> Nat] /\ \A c \in D : rank[c] = c[1] + c[2]
  BY <1>2
<1>9. ASSUME NEW c \in D, AgreeBelow(dp, known, D, rank, c) PROVE dp[c] = known[c]
  <2> HIDE DEF rank, D
  <2>1. Step(dp, c) = Step(known, c)
    <3>1. CASE c[1] = 0 \/ c[2] = 0
      BY <3>1
    <3>2. CASE c[1] # 0 /\ c[2] # 0
      <4> PICK i, j : i = c[1] /\ j = c[2]
        OBVIOUS
      <4>1. i \in Nat /\ j \in Nat /\ <<i - 1, j>> \in D /\ <<i, j - 1>> \in D /\ <<i - 1, j - 1>> \in D
        BY <1>2, <3>2
      <4>2. rank[c] = i + j /\ rank[<<i - 1, j>>] = i - 1 + j /\ rank[<<i, j - 1>>] = i + (j - 1)
            /\ rank[<<i - 1, j - 1>>] = i - 1 + (j - 1)
        BY <1>8, <4>1
      <4>3. i - 1 + j < i + j /\ i + (j - 1) < i + j /\ i - 1 + (j - 1) < i + j
        <5>1. i \in Nat /\ j \in Nat
          BY <4>1
        <5> QED
          BY <5>1
      <4>4. \A d \in D : rank[d] < rank[c] => dp[d] = known[d]
        BY <1>9 DEF AgreeBelow
      <4>5. /\ dp[<<i - 1, j>>] = known[<<i - 1, j>>]
            /\ dp[<<i, j - 1>>] = known[<<i, j - 1>>]
            /\ dp[<<i - 1, j - 1>>] = known[<<i - 1, j - 1>>]
        BY <4>1, <4>2, <4>3, <4>4
      <4> QED
        BY <3>2, <4>5
    <3> QED
      BY <3>1, <3>2
  <2> HIDE DEF Step
  <2> QED
    BY <1>3, <1>7, <2>1
<1>10. \A c \in D : dp[c] = known[c]
  <2>1. Inherited(dp, known, D, rank)
    <3> HIDE DEF rank, D
    <3> QED
      BY <1>8, <1>9 DEF Inherited
  <2> HIDE DEF rank, D
  <2> QED
    BY <2>1, Agree
<1>11. <<Len(ref), Len(hyp)>> \in D /\ known[<<Len(ref), Len(hyp)>>] = Dist(ref, hyp, Len(ref), Len(hyp))
  <2>1. <<Len(ref), Len(hyp)>> \in D
    BY <1>1
  <2> HIDE DEF D
  <2> QED
    BY <2>1 DEF known
<1> QED
  BY <1>6, <1>10, <1>11

\* The rows of the character error rate, one after the other.
DistRow(a, b, i) == [j \in 0..Len(b) |-> Dist(a, b, i, j)]

LEMMA CerRowIs ==
  ASSUME NEW ref, NEW hyp, Len(hyp) \in Nat, NEW i \in Nat, i # 0, NEW prev, prev = DistRow(ref, hyp, i - 1)
  PROVE  CerRow(prev, i, ref, hyp) = DistRow(ref, hyp, i)
<1> DEFINE D == 0..Len(hyp)
           Step(curr, j) == IF j = 0 THEN i
                            ELSE Min3(prev[j] + 1, curr[j - 1] + 1,
                                      prev[j - 1] + (IF ref[i] = hyp[j] THEN 0 ELSE 1))
           known == [j \in D |-> Dist(ref, hyp, i, j)]
           rank == [j \in D |-> j]
<1>1. \A j \in D : j \in Nat /\ (j # 0 => j - 1 \in D /\ j - 1 < j)
  OBVIOUS
<1>2. \A j \in D : prev[j] = Dist(ref, hyp, i - 1, j) /\ known[j] = Dist(ref, hyp, i, j)
  BY DEF DistRow
<1> HIDE DEF known
<1>3. ASSUME NEW j \in D PROVE known[j] = Step(known, j)
  <2>1. CASE j = 0
    BY <1>1, <1>2, <2>1, DistSteps
  <2>2. CASE j # 0
    <3>1. Dist(ref, hyp, i, j) = Min3(Dist(ref, hyp, i - 1, j) + 1, Dist(ref, hyp, i, j - 1) + 1,
                                      Dist(ref, hyp, i - 1, j - 1) + Unlike(ref, hyp, i, j))
      BY <1>1, <2>2, DistSteps
    <3>2. j - 1 \in D
      BY <1>1, <2>2
    <3> HIDE DEF D
    <3> QED
      BY <1>2, <2>2, <3>1, <3>2 DEF Unlike
  <2> QED
    BY <2>1, <2>2
<1>4. known = [j \in D |-> Step(known, j)]
  <2>1. known = [j \in D |-> known[j]]
    BY DEF known
  <2> HIDE DEF Step, D
  <2> QED
    BY <1>3, <2>1
<1> DEFINE curr == CHOOSE h : h = [j \in D |-> Step(h, j)]
<1>5. curr = [j \in D |-> Step(curr, j)]
  <2>1. \E h : h = [j \in D |-> Step(h, j)]
    BY <1>4
  <2> HIDE DEF Step, D
  <2> QED
    BY <2>1, Zenon
<1>6. CerRow(prev, i, ref, hyp) = curr
  BY Zenon DEF CerRow
<1> HIDE DEF curr
<1>7. \A j \in D : curr[j] = Step(curr, j)
  <2> HIDE DEF Step, D
  <2> QED
    BY <1>5
<1>8. ASSUME NEW j \in D, AgreeBelow(curr, known, D, rank, j) PROVE curr[j] = known[j]
  <2>1. j # 0 => curr[j - 1] = known[j - 1]
    <3>1. \A k \in D : rank[k] = k
      OBVIOUS
    <3> HIDE DEF rank, D
    <3> QED
      BY <1>1, <1>8, <3>1 DEF AgreeBelow
  <2>2. Step(curr, j) = Step(known, j)
    BY <2>1
  <2> HIDE DEF Step
  <2> QED
    BY <1>3, <1>7, <2>2
<1>9. Inherited(curr, known, D, rank)
  <2>1. rank \in [D -> Nat]
    BY <1>1
  <2> HIDE DEF rank, D
  <2> QED
    BY <1>8, <2>1 DEF Inherited
<1>10. \A j \in D : curr[j] = known[j]
  <2> HIDE DEF rank, D
  <2> QED
    BY <1>9, Agree
<1>11. curr = known
  <2>1. curr = [j \in D |-> curr[j]] /\ known = [j \in D |-> known[j]]
    BY <1>4, <1>5
  <2> HIDE DEF D
  <2> QED
    BY <1>10, <2>1
<1> QED
  BY <1>6, <1>11 DEF known, DistRow

LEMMA CerIs ==
  ASSUME NEW refText, NEW hypText, NEW T, Letters(refText) \in Seq(T), Letters(hypText) \in Seq(T)
  PROVE  CER(refText, hypText)
           = Rate(Dist(Letters(refText), Letters(hypText), Len(Letters(refText)), Len(Letters(hypText))),
                  Letters(refText), Letters(hypText))
<1> DEFINE ref == Letters(refText)
           hyp == Letters(hypText)
           D == 0..Len(ref)
           Step(h, i) == IF i = 0 THEN [j \in 0..Len(hyp) |-> j] ELSE CerRow(h[i - 1], i, ref, hyp)
           known == [i \in D |-> DistRow(ref, hyp, i)]
           rank == [i \in D |-> i]
           lines == CHOOSE h : h = [i \in D |-> Step(h, i)]
<1>1. CER(refText, hypText) = Rate(lines[Len(ref)][Len(hyp)], ref, hyp)
  BY Zenon DEF CER
<1>2. Len(ref) \in Nat /\ Len(hyp) \in Nat
  BY LenProperties
<1> HIDE DEF ref, hyp
<1>3. \A i \in D : i \in Nat /\ (i # 0 => i - 1 \in D /\ i - 1 < i)
  BY <1>2
<1>4. \A i \in D : known[i] = DistRow(ref, hyp, i)
  OBVIOUS
<1> HIDE DEF known
<1>5. ASSUME NEW i \in D PROVE known[i] = Step(known, i)
  <2>1. CASE i = 0
    <3>1. \A j \in 0..Len(hyp) : Dist(ref, hyp, i, j) = j
      BY <2>1, DistToNone
    <3>2. DistRow(ref, hyp, i) = [j \in 0..Len(hyp) |-> j]
      BY <3>1 DEF DistRow
    <3> QED
      BY <1>4, <2>1, <3>2
  <2>2. CASE i # 0
    <3>1. known[i - 1] = DistRow(ref, hyp, i - 1)
      <4> HIDE DEF D
      <4> QED
        BY <1>3, <1>4, <2>2
    <3>2. CerRow(known[i - 1], i, ref, hyp) = DistRow(ref, hyp, i)
      BY <1>2, <1>3, <2>2, <3>1, CerRowIs
    <3> QED
      BY <1>4, <2>2, <3>2
  <2> QED
    BY <2>1, <2>2
<1>6. known = [i \in D |-> Step(known, i)]
  <2>1. known = [i \in D |-> known[i]]
    BY DEF known
  <2> HIDE DEF Step, D
  <2> QED
    BY <1>5, <2>1
<1>7. lines = [i \in D |-> Step(lines, i)]
  <2>1. \E h : h = [i \in D |-> Step(h, i)]
    BY <1>6
  <2> HIDE DEF Step, D
  <2> QED
    BY <2>1, Zenon
<1> HIDE DEF lines
<1>8. \A i \in D : lines[i] = Step(lines, i)
  <2> HIDE DEF Step, D
  <2> QED
    BY <1>7
<1>9. ASSUME NEW i \in D, AgreeBelow(lines, known, D, rank, i) PROVE lines[i] = known[i]
  <2>1. i # 0 => lines[i - 1] = known[i - 1]
    <3>1. \A k \in D : rank[k] = k
      OBVIOUS
    <3> HIDE DEF rank, D
    <3> QED
      BY <1>3, <1>9, <3>1 DEF AgreeBelow
  <2>2. Step(lines, i) = Step(known, i)
    BY <2>1
  <2> HIDE DEF Step
  <2> QED
    BY <1>5, <1>8, <2>2
<1>10. Inherited(lines, known, D, rank)
  <2>1. rank \in [D -> Nat]
    BY <1>3
  <2> HIDE DEF rank, D
  <2> QED
    BY <1>9, <2>1 DEF Inherited
<1>11. \A i \in D : lines[i] = known[i]
  <2> HIDE DEF rank, D
  <2> QED
    BY <1>10, Agree
<1>12. lines[Len(ref)][Len(hyp)] = Dist(ref, hyp, Len(ref), Len(hyp))
  <2>1. Len(ref) \in D /\ Len(hyp) \in 0..Len(hyp)
    BY <1>2
  <2>2. lines[Len(ref)] = DistRow(ref, hyp, Len(ref))
    BY <1>4, <1>11, <2>1
  <2> QED
    BY <2>1, <2>2 DEF DistRow
<1> QED
  BY <1>1, <1>12 DEF ref, hyp

-----------------------------------------------------------------------------
(* The table of the alignment.  Its costs are distances, and the operation  *)
(* of a cell leads to the cell its cost comes from.                         *)

Choice(ref, hyp, i, j) ==
  IF i = 0 THEN Cell(j, IF j = 0 THEN "" ELSE "insert")
  ELSE IF j = 0 THEN Cell(i, "delete")
  ELSE PickBest({Cell(Dist(ref, hyp, i - 1, j - 1) + Unlike(ref, hyp, i, j),
                      IF ref[i] = hyp[j] THEN "match" ELSE "substitute"),
                 Cell(Dist(ref, hyp, i - 1, j) + 1, "delete"),
                 Cell(Dist(ref, hyp, i, j - 1) + 1, "insert")})

Leads(ref, hyp, i, j, op) ==
  \/ op = "" /\ i = 0 /\ j = 0
  \/ op \in {"match", "substitute"} /\ i # 0 /\ j # 0 /\ (op = "match" <=> ref[i] = hyp[j])
       /\ Dist(ref, hyp, i, j) = Dist(ref, hyp, i - 1, j - 1) + Unlike(ref, hyp, i, j)
  \/ op = "delete" /\ i # 0 /\ Dist(ref, hyp, i, j) = Dist(ref, hyp, i - 1, j) + 1
  \/ op = "insert" /\ j # 0 /\ Dist(ref, hyp, i, j) = Dist(ref, hyp, i, j - 1) + 1

Cheapest(c, op, u, v, w) ==
  c \in {Cell(u, op), Cell(v, "delete"), Cell(w, "insert")} /\ c.cost = Min3(v, w, u)

LEMMA PickBestIs ==
  ASSUME NEW u \in Nat, NEW v \in Nat, NEW w \in Nat, NEW op \in {"match", "substitute"}
  PROVE  Cheapest(PickBest({Cell(u, op), Cell(v, "delete"), Cell(w, "insert")}), op, u, v, w)
<1> DEFINE x == Cell(u, op)
           y == Cell(v, "delete")
           z == Cell(w, "insert")
           C == {x, y, z}
           Before(c, d) == \/ c.cost < d.cost
                           \/ c.cost = d.cost /\ OpPriority(c.op) <= OpPriority(d.op)
<1>1. /\ x.cost = u /\ y.cost = v /\ z.cost = w
      /\ OpPriority(x.op) \in {0, 1} /\ OpPriority(y.op) = 2 /\ OpPriority(z.op) = 3
  BY DEF Cell, OpPriority
<1> HIDE DEF x, y, z
<1>2. \E c \in C : \A d \in C : Before(c, d)
  <2>1. CASE u <= v /\ u <= w
    <3>1. Before(x, x) /\ Before(x, y) /\ Before(x, z)
      BY <1>1, <2>1
    <3> HIDE DEF Before
    <3> QED
      BY <3>1
  <2>2. CASE ~(u <= v) /\ v <= w
    <3>1. Before(y, x) /\ Before(y, y) /\ Before(y, z)
      BY <1>1, <2>2
    <3> HIDE DEF Before
    <3> QED
      BY <3>1
  <2>3. CASE ~(u <= w) /\ ~(v <= w)
    <3>1. Before(z, x) /\ Before(z, y) /\ Before(z, z)
      BY <1>1, <2>3
    <3> HIDE DEF Before
    <3> QED
      BY <3>1
  <2> QED
    BY <2>1, <2>2, <2>3
<1> DEFINE first == PickBest(C)
<1>3. first \in C /\ \A d \in C : Before(first, d)
  <2>1. first = CHOOSE c \in C : \A d \in C : Before(c, d)
    BY DEF PickBest
  <2> HIDE DEF first, C, Before
  <2> QED
    BY <1>2, <2>1
<1> HIDE DEF first
<1>4. first.cost \in {u, v, w} /\ first.cost <= u /\ first.cost <= v /\ first.cost <= w
  <2>1. first.cost \in {u, v, w}
    BY <1>1, <1>3
  <2>2. \A d \in C : first.cost <= d.cost
    BY <1>1, <1>3, <2>1
  <2> QED
    BY <1>1, <2>1, <2>2
<1>5. Min3(v, w, u) \in {v, w, u} /\ Min3(v, w, u) <= v /\ Min3(v, w, u) <= w /\ Min3(v, w, u) <= u
  BY Min3Is
<1>6. first.cost = Min3(v, w, u)
  BY <1>4, <1>5
<1> QED
  BY <1>3, <1>6 DEF Cheapest, first, x, y, z

LEMMA ChoiceIs ==
  ASSUME NEW ref, NEW hyp, NEW i \in Nat, NEW j \in Nat
  PROVE  /\ Choice(ref, hyp, i, j).cost = Dist(ref, hyp, i, j)
         /\ Leads(ref, hyp, i, j, Choice(ref, hyp, i, j).op)
<1>1. CASE i = 0
  <2>1. Choice(ref, hyp, i, j).cost = j /\ Choice(ref, hyp, i, j).op = IF j = 0 THEN "" ELSE "insert"
    BY <1>1 DEF Choice, Cell
  <2>2. Dist(ref, hyp, i, j) = j
    BY <1>1, DistToNone
  <2>3. j # 0 => Dist(ref, hyp, i, j - 1) + 1 = j
    <3>1. j # 0 => j - 1 \in Nat /\ j - 1 + 1 = j
      OBVIOUS
    <3> QED
      BY <1>1, <3>1, DistToNone
  <2> QED
    BY <1>1, <2>1, <2>2, <2>3 DEF Leads
<1>2. CASE i # 0 /\ j = 0
  <2>1. Choice(ref, hyp, i, j).cost = i /\ Choice(ref, hyp, i, j).op = "delete"
    BY <1>2 DEF Choice, Cell
  <2>2. Dist(ref, hyp, i, j) = i
    BY <1>2, DistToNone
  <2>3. Dist(ref, hyp, i - 1, j) + 1 = i
    <3>1. i - 1 \in Nat /\ i - 1 + 1 = i
      BY <1>2
    <3> QED
      BY <1>2, <3>1, DistToNone
  <2> QED
    BY <1>2, <2>1, <2>2, <2>3 DEF Leads
<1>3. CASE i # 0 /\ j # 0
  <2> PICK x, y, z, u, op : /\ x = Dist(ref, hyp, i - 1, j - 1) /\ y = Dist(ref, hyp, i - 1, j)
                            /\ z = Dist(ref, hyp, i, j - 1) /\ u = Unlike(ref, hyp, i, j)
                            /\ op = IF ref[i] = hyp[j] THEN "match" ELSE "substitute"
    OBVIOUS
  <2>1. x \in Nat /\ y \in Nat /\ z \in Nat /\ u \in Nat
    <3>1. i - 1 \in Nat /\ j - 1 \in Nat
      BY <1>3
    <3> QED
      BY <3>1, DistIs DEF Unlike
  <2>2. op \in {"match", "substitute"} /\ (op = "match" <=> ref[i] = hyp[j])
    OBVIOUS
  <2> PICK c : c = Choice(ref, hyp, i, j)
    OBVIOUS
  <2>3. c = PickBest({Cell(x + u, op), Cell(y + 1, "delete"), Cell(z + 1, "insert")})
    BY <1>3 DEF Choice
  <2>4. Cheapest(c, op, x + u, y + 1, z + 1)
    <3>1. x + u \in Nat /\ y + 1 \in Nat /\ z + 1 \in Nat
      BY <2>1
    <3>2. Cheapest(PickBest({Cell(x + u, op), Cell(y + 1, "delete"), Cell(z + 1, "insert")}),
                   op, x + u, y + 1, z + 1)
      BY <2>2, <3>1, PickBestIs, Zenon
    <3> QED
      BY <2>3, <3>2
  <2>5. c.cost = Dist(ref, hyp, i, j)
    BY <1>3, <2>4, DistSteps DEF Cheapest
  <2>6. \/ c.cost = x + u /\ c.op = op
        \/ c.cost = y + 1 /\ c.op = "delete"
        \/ c.cost = z + 1 /\ c.op = "insert"
    BY <2>4 DEF Cheapest, Cell
  <2> QED
    BY <1>3, <2>2, <2>5, <2>6 DEF Leads
<1> QED
  BY <1>1, <1>2, <1>3

Grid(ref, hyp) == (0..Len(ref)) \X (0..Len(hyp))

LEMMA TableIs ==
  ASSUME NEW ref, NEW hyp, Len(ref) \in Nat, Len(hyp) \in Nat
  PROVE  Table(ref, hyp) = [c \in Grid(ref, hyp) |-> Choice(ref, hyp, c[1], c[2])]
<1> DEFINE D == Grid(ref, hyp)
           Step(h, c) ==
             LET i == c[1]  j == c[2]
             IN  IF i = 0 THEN Cell(j, IF j = 0 THEN "" ELSE "insert")
                 ELSE IF j = 0 THEN Cell(i, "delete")
                 ELSE LET same == ref[i] = hyp[j]
                      IN  PickBest({
                            Cell(h[<<i - 1, j - 1>>].cost + (IF same THEN 0 ELSE 1),
                                 IF same THEN "match" ELSE "substitute"),
                            Cell(h[<<i - 1, j>>].cost + 1, "delete"),
                            Cell(h[<<i, j - 1>>].cost + 1, "insert")})
           known == [c \in D |-> Choice(ref, hyp, c[1], c[2])]
           rank == [c \in D |-> c[1] + c[2]]
           table == CHOOSE h : h = [c \in D |-> Step(h, c)]
<1>1. Table(ref, hyp) = table
  BY Zenon DEF Table, Grid
<1>2. \A c \in D : /\ c[1] \in Nat /\ c[2] \in Nat
                   /\ c[1] # 0 /\ c[2] # 0 => /\ <<c[1] - 1, c[2]>> \in D
                                              /\ <<c[1], c[2] - 1>> \in D
                                              /\ <<c[1] - 1, c[2] - 1>> \in D
  BY DEF Grid
<1> HIDE DEF D
<1>3. rank \in [D -> Nat] /\ \A c \in D : rank[c] = c[1] + c[2]
  <2>1. ASSUME NEW c \in D PROVE c[1] + c[2] \in Nat
    <3>1. c[1] \in Nat /\ c[2] \in Nat
      BY <1>2
    <3> QED
      BY <3>1
  <2> QED
    BY <2>1
<1> HIDE DEF rank
<1>4. ASSUME NEW c \in D PROVE known[c] = Step(known, c)
  <2>1. known[c] = Choice(ref, hyp, c[1], c[2])
    OBVIOUS
  <2>2. CASE c[1] = 0 \/ c[2] = 0
    <3> HIDE DEF known
    <3> QED
      BY <2>1, <2>2 DEF Choice
  <2>3. CASE c[1] # 0 /\ c[2] # 0
    <3> PICK i, j : i = c[1] /\ j = c[2]
      OBVIOUS
    <3>1. /\ i \in Nat /\ j \in Nat /\ i - 1 \in Nat /\ j - 1 \in Nat
          /\ <<i - 1, j>> \in D /\ <<i, j - 1>> \in D /\ <<i - 1, j - 1>> \in D
      <4>1. i \in Nat /\ j \in Nat /\ i # 0 /\ j # 0
        BY <1>2, <2>3
      <4>2. i - 1 \in Nat /\ j - 1 \in Nat
        BY <4>1
      <4> QED
        BY <1>2, <2>3, <4>1, <4>2
    <3>2. /\ known[<<i - 1, j>>] = Choice(ref, hyp, i - 1, j)
          /\ known[<<i, j - 1>>] = Choice(ref, hyp, i, j - 1)
          /\ known[<<i - 1, j - 1>>] = Choice(ref, hyp, i - 1, j - 1)
      BY <3>1
    <3> HIDE DEF known
    <3>3. /\ known[<<i - 1, j>>].cost = Dist(ref, hyp, i - 1, j)
          /\ known[<<i, j - 1>>].cost = Dist(ref, hyp, i, j - 1)
          /\ known[<<i - 1, j - 1>>].cost = Dist(ref, hyp, i - 1, j - 1)
      BY <3>1, <3>2, ChoiceIs
    <3> QED
      BY <2>1, <2>3, <3>3 DEF Choice, Unlike
  <2> QED
    BY <2>2, <2>3
<1>5. known = [c \in D |-> Step(known, c)]
  <2>1. known = [c \in D |-> known[c]]
    OBVIOUS
  <2> HIDE DEF Step, known
  <2> QED
    BY <1>4, <2>1
<1> HIDE DEF known
<1>6. table = [c \in D |-> Step(table, c)]
  <2>1. \E h : h = [c \in D |-> Step(h, c)]
    BY <1>5
  <2> HIDE DEF Step
  <2> QED
    BY <2>1, Zenon
<1> HIDE DEF table
<1>7. ASSUME NEW c \in D, AgreeBelow(table, known, D, rank, c) PROVE table[c] = known[c]
  <2>1. table[c] = Step(table, c)
    <3> HIDE DEF Step
    <3> QED
      BY <1>6
  <2>2. Step(table, c) = Step(known, c)
    <3>1. CASE c[1] = 0 \/ c[2] = 0
      BY <3>1
    <3>2. CASE c[1] # 0 /\ c[2] # 0
      <4> PICK i, j : i = c[1] /\ j = c[2]
        OBVIOUS
      <4>1. i \in Nat /\ j \in Nat /\ <<i - 1, j>> \in D /\ <<i, j - 1>> \in D /\ <<i - 1, j - 1>> \in D
        BY <1>2, <3>2
      <4>2. rank[c] = i + j /\ rank[<<i - 1, j>>] = i - 1 + j /\ rank[<<i, j - 1>>] = i + (j - 1)
            /\ rank[<<i - 1, j - 1>>] = i - 1 + (j - 1)
        BY <1>3, <4>1
      <4>3. i - 1 + j < i + j /\ i + (j - 1) < i + j /\ i - 1 + (j - 1) < i + j
        <5>1. i \in Nat /\ j \in Nat
          BY <4>1
        <5> QED
          BY <5>1
      <4>4. \A d \in D : rank[d] < rank[c] => table[d] = known[d]
        BY <1>7 DEF AgreeBelow
      <4>5. /\ table[<<i - 1, j>>] = known[<<i - 1, j>>]
            /\ table[<<i, j - 1>>] = known[<<i, j - 1>>]
            /\ table[<<i - 1, j - 1>>] = known[<<i - 1, j - 1>>]
        BY <4>1, <4>2, <4>3, <4>4
      <4> QED
        BY <3>2, <4>5
    <3> QED
      BY <3>1, <3>2
  <2> HIDE DEF Step
  <2> QED
    BY <1>4, <2>1, <2>2
<1>8. \A c \in D : table[c] = known[c]
  <2>1. Inherited(table, known, D, rank)
    BY <1>3, <1>7 DEF Inherited
  <2> QED
    BY <2>1, Agree
<1>9. table = known
  <2>1. table = [c \in D |-> table[c]] /\ known = [c \in D |-> known[c]]
    <3>1. table = [c \in D |-> table[c]]
      <4> HIDE DEF Step
      <4> QED
        BY <1>6
    <3> QED
      BY <3>1 DEF known
  <2> QED
    BY <1>8, <2>1
<1> QED
  BY <1>1, <1>9 DEF known, D

-----------------------------------------------------------------------------
(* The rows, from the corner of the table back to its origin.               *)

Ops == {"match", "substitute", "delete", "insert"}
WordRows == [refWord : Seq(Characters), hypWord : Seq(Characters), op : Ops]
OpAt(ref, hyp, c) == Choice(ref, hyp, c[1], c[2]).op

\* The cell an operation leads back to, and the row it leaves.
Back(op, c) ==
  IF op \in {"match", "substitute"} THEN <<c[1] - 1, c[2] - 1>>
  ELSE IF op = "delete" THEN <<c[1] - 1, c[2]>> ELSE <<c[1], c[2] - 1>>
RowOf(ref, hyp, op, c) ==
  IF op \in {"match", "substitute"} THEN WordRow(ref[c[1]], hyp[c[2]], op)
  ELSE IF op = "delete" THEN WordRow(ref[c[1]], <<>>, op) ELSE WordRow(<<>>, hyp[c[2]], op)

GridAt(m, n, i, j) ==
  /\ i \in Nat /\ j \in Nat /\ i \in 0..m /\ j \in 0..n
  /\ i # 0 => i \in 1..m /\ i - 1 \in 0..m /\ i - 1 + j < i + j
  /\ j # 0 => j \in 1..n /\ j - 1 \in 0..n /\ i + (j - 1) < i + j
  /\ i # 0 /\ j # 0 => i - 1 + (j - 1) < i + j

LEMMA GridSteps ==
  ASSUME NEW m \in Nat, NEW n \in Nat, NEW i \in 0..m, NEW j \in 0..n
  PROVE  GridAt(m, n, i, j)
BY DEF GridAt

LEMMA WordRowIs ==
  ASSUME NEW x \in Seq(Characters), NEW y \in Seq(Characters), NEW op \in Ops
  PROVE  WordRow(x, y, op) \in WordRows
BY DEF WordRow, WordRows

LEMMA BackIs ==
  ASSUME NEW ref \in Seq(Seq(Characters)), NEW hyp \in Seq(Seq(Characters)),
         NEW c \in Grid(ref, hyp), NEW op, op = OpAt(ref, hyp, c), op # ""
  PROVE  /\ op \in Ops
         /\ Back(op, c) \in Grid(ref, hyp)
         /\ Back(op, c)[1] + Back(op, c)[2] < c[1] + c[2]
         /\ RowOf(ref, hyp, op, c) \in WordRows
<1> PICK i, j : i = c[1] /\ j = c[2]
  OBVIOUS
<1> PICK m, n : m = Len(ref) /\ n = Len(hyp)
  OBVIOUS
<1>1. /\ m \in Nat /\ n \in Nat
      /\ \A k \in 1..m : ref[k] \in Seq(Characters)
      /\ \A k \in 1..n : hyp[k] \in Seq(Characters)
      /\ <<>> \in Seq(Characters)
  BY LenProperties, ElementOfSeq, EmptySeq
<1>2. GridAt(m, n, i, j)
  <2>1. i \in 0..m /\ j \in 0..n
    BY DEF Grid
  <2> QED
    BY <1>1, <2>1, GridSteps, Zenon
<1>3. Leads(ref, hyp, i, j, op)
  BY <1>2, ChoiceIs DEF OpAt, GridAt
<1>4. op \in Ops
  BY <1>3 DEF Leads, Ops
<1>5. CASE op \in {"match", "substitute"}
  <2>1. i # 0 /\ j # 0
    BY <1>3, <1>5 DEF Leads
  <2>2. i - 1 \in 0..m /\ j - 1 \in 0..n /\ i \in 1..m /\ j \in 1..n /\ i - 1 + (j - 1) < i + j
    BY <1>2, <2>1, Zenon DEF GridAt
  <2>3. Back(op, c) = <<i - 1, j - 1>> /\ RowOf(ref, hyp, op, c) = WordRow(ref[i], hyp[j], op)
    BY <1>5 DEF Back, RowOf
  <2>4. WordRow(ref[i], hyp[j], op) \in WordRows
    BY <1>1, <1>4, <2>2, WordRowIs, Zenon
  <2>5. <<i - 1, j - 1>> \in Grid(ref, hyp)
    BY <2>2 DEF Grid
  <2>6. Back(op, c)[1] = i - 1 /\ Back(op, c)[2] = j - 1
    <3>1. <<i - 1, j - 1>>[1] = i - 1 /\ <<i - 1, j - 1>>[2] = j - 1
      OBVIOUS
    <3> QED
      BY <2>3, <3>1, Zenon
  <2> QED
    BY <1>4, <2>2, <2>3, <2>4, <2>5, <2>6, Zenon
<1>6. CASE op = "delete"
  <2>1. i # 0
    BY <1>3, <1>6 DEF Leads
  <2>2. i - 1 \in 0..m /\ i \in 1..m /\ i - 1 + j < i + j
    BY <1>2, <2>1, Zenon DEF GridAt
  <2>3. Back(op, c) = <<i - 1, j>> /\ RowOf(ref, hyp, op, c) = WordRow(ref[i], <<>>, op)
    BY <1>6 DEF Back, RowOf
  <2>4. WordRow(ref[i], <<>>, op) \in WordRows
    BY <1>1, <1>4, <2>2, WordRowIs, Zenon
  <2>5. <<i - 1, j>> \in Grid(ref, hyp)
    BY <1>2, <2>2 DEF Grid, GridAt
  <2>6. Back(op, c)[1] = i - 1 /\ Back(op, c)[2] = j
    <3>1. <<i - 1, j>>[1] = i - 1 /\ <<i - 1, j>>[2] = j
      OBVIOUS
    <3> QED
      BY <2>3, <3>1, Zenon
  <2> QED
    BY <1>4, <2>2, <2>3, <2>4, <2>5, <2>6, Zenon
<1>7. CASE op = "insert"
  <2>1. j # 0
    BY <1>3, <1>7 DEF Leads
  <2>2. j - 1 \in 0..n /\ j \in 1..n /\ i + (j - 1) < i + j
    BY <1>2, <2>1, Zenon DEF GridAt
  <2>3. Back(op, c) = <<i, j - 1>> /\ RowOf(ref, hyp, op, c) = WordRow(<<>>, hyp[j], op)
    BY <1>7 DEF Back, RowOf
  <2>4. WordRow(<<>>, hyp[j], op) \in WordRows
    BY <1>1, <1>4, <2>2, WordRowIs, Zenon
  <2>5. <<i, j - 1>> \in Grid(ref, hyp)
    BY <1>2, <2>2 DEF Grid, GridAt
  <2>6. Back(op, c)[1] = i /\ Back(op, c)[2] = j - 1
    <3>1. <<i, j - 1>>[1] = i /\ <<i, j - 1>>[2] = j - 1
      OBVIOUS
    <3> QED
      BY <2>3, <3>1, Zenon
  <2> QED
    BY <1>4, <2>2, <2>3, <2>4, <2>5, <2>6, Zenon
<1> QED
  BY <1>4, <1>5, <1>6, <1>7 DEF Ops

TracebackBy(f, ref, hyp) ==
  /\ Traceback(ref, hyp, Table(ref, hyp)) = f[<<Len(ref), Len(hyp)>>]
  /\ \A c \in Grid(ref, hyp) :
       f[c] = IF OpAt(ref, hyp, c) = "" THEN <<>>
              ELSE Append(f[Back(OpAt(ref, hyp, c), c)], RowOf(ref, hyp, OpAt(ref, hyp, c), c))

LEMMA TracebackSteps ==
  ASSUME NEW ref \in Seq(Seq(Characters)), NEW hyp \in Seq(Seq(Characters))
  PROVE  \E f \in [Grid(ref, hyp) -> Seq(WordRows)] : TracebackBy(f, ref, hyp)
<1> DEFINE D == Grid(ref, hyp)
           Q == Seq(WordRows)
           table == [c \in D |-> Choice(ref, hyp, c[1], c[2])]
           Step(h, c) ==
             LET i == c[1]  j == c[2]  op == table[c].op
             IN  CASE op \in {"match", "substitute"} ->
                        Append(h[<<i - 1, j - 1>>], WordRow(ref[i], hyp[j], op))
                   [] op = "delete" -> Append(h[<<i - 1, j>>], WordRow(ref[i], <<>>, op))
                   [] op = "insert" -> Append(h[<<i, j - 1>>], WordRow(<<>>, hyp[j], op))
                   [] OTHER -> <<>>
           Simple(h, c) == IF OpAt(ref, hyp, c) = "" THEN <<>>
                           ELSE Append(h[Back(OpAt(ref, hyp, c), c)], RowOf(ref, hyp, OpAt(ref, hyp, c), c))
           lines == CHOOSE h : h = [c \in D |-> Step(h, c)]
           rank == [c \in D |-> c[1] + c[2]]
           Roots == {c \in D : OpAt(ref, hyp, c) = ""}
           start == [c \in D |-> <<>>]
           before == [c \in D |-> Back(OpAt(ref, hyp, c), c)]
           step == [t \in D \X Q \X Q \X Q |-> Append(t[2], RowOf(ref, hyp, OpAt(ref, hyp, t[1]), t[1]))]
<1>1. Len(ref) \in Nat /\ Len(hyp) \in Nat
  BY LenProperties
<1>2. Table(ref, hyp) = table /\ DOMAIN table = D
  BY <1>1, TableIs
<1>3. Traceback(ref, hyp, table) = lines[<<Len(ref), Len(hyp)>>]
  <2> HIDE DEF D
  <2>1. DOMAIN table = D
    OBVIOUS
  <2> DEFINE tab == table
  <2> HIDE DEF table
  <2>2. lines = CHOOSE h : h = [c \in DOMAIN table |-> Step(h, c)]
    BY <2>1, Zenon
  <2> HIDE DEF lines
  <2> QED
    BY <2>2, Zenon DEF Traceback
<1>4. ASSUME NEW c \in D PROVE table[c].op = OpAt(ref, hyp, c)
  BY DEF OpAt
<1> HIDE DEF table
<1>5. ASSUME NEW c \in D, NEW h PROVE Step(h, c) = Simple(h, c)
  <2> PICK i, j, op : i = c[1] /\ j = c[2] /\ op = OpAt(ref, hyp, c)
    OBVIOUS
  <2>1. op = "" \/ op \in Ops
    BY BackIs
  <2>2. table[c].op = op
    BY <1>4
  <2>3. CASE op = ""
    BY <2>2, <2>3
  <2>4. CASE op \in {"match", "substitute"}
    BY <2>2, <2>4 DEF Back, RowOf
  <2>5. CASE op = "delete"
    BY <2>2, <2>5 DEF Back, RowOf
  <2>6. CASE op = "insert"
    BY <2>2, <2>6 DEF Back, RowOf
  <2> QED
    BY <2>1, <2>3, <2>4, <2>5, <2>6 DEF Ops
<1> HIDE DEF Step
<1>6. rank \in [D -> Nat] /\ \A c \in D : rank[c] = c[1] + c[2]
  <2>1. ASSUME NEW c \in D PROVE c[1] + c[2] \in Nat
    <3>1. c[1] \in Nat /\ c[2] \in Nat
      BY <1>1 DEF Grid
    <3> QED
      BY <3>1
  <2> HIDE DEF D
  <2> QED
    BY <2>1
<1>7. <<>> \in Q /\ Q # {}
  BY EmptySeq
<1> HIDE DEF rank
<1>8. ASSUME NEW c \in D, c \notin Roots
      PROVE  /\ before[c] = Back(OpAt(ref, hyp, c), c) /\ before[c] \in D /\ rank[before[c]] < rank[c]
             /\ RowOf(ref, hyp, OpAt(ref, hyp, c), c) \in WordRows
  <2>1. OpAt(ref, hyp, c) # ""
    BY <1>8
  <2>2. before[c] = Back(OpAt(ref, hyp, c), c)
    OBVIOUS
  <2>3. /\ before[c] \in D /\ before[c][1] + before[c][2] < c[1] + c[2]
        /\ RowOf(ref, hyp, OpAt(ref, hyp, c), c) \in WordRows
    BY <2>1, <2>2, BackIs
  <2> HIDE DEF D, before
  <2> QED
    BY <1>6, <2>2, <2>3
<1>9. Recursive(D, Q, rank, Roots, start, before, before, before, step)
  <2>1. \A c \in D : c \notin Roots => Descends(D, rank, before, c)
    <3> HIDE DEF D, before, Roots
    <3> QED
      BY <1>8 DEF Descends
  <2>2. ASSUME NEW c \in D, c \notin Roots, NEW x \in Q, NEW y \in Q, NEW z \in Q
        PROVE  step[<<c, x, y, z>>] \in Q
    <3>1. Append(x, RowOf(ref, hyp, OpAt(ref, hyp, c), c)) \in Q
      BY <1>8, <2>2, AppendProperties
    <3> HIDE DEF D, Q
    <3>2. step[<<c, x, y, z>>] = Append(x, RowOf(ref, hyp, OpAt(ref, hyp, c), c))
      OBVIOUS
    <3> HIDE DEF step
    <3> QED
      BY <3>1, <3>2
  <2>3. \A c \in D : start[c] \in Q
    BY <1>7
  <2> HIDE DEF D, Q, before, step, Roots, start
  <2> QED
    BY <1>6, <2>1, <2>2, <2>3 DEF Recursive
<1>10. PICK f \in [D -> Q] : RecursBy(f, D, Roots, start, before, before, before, step)
  <2>1. Q # {}
    BY <1>7
  <2> HIDE DEF D, Q, start, before, step, Roots
  <2> QED
    BY <1>9, <2>1, Recursion
<1>11. \A c \in D : f[c] = Simple(f, c)
  <2> SUFFICES ASSUME NEW c \in D PROVE f[c] = Simple(f, c)
    OBVIOUS
  <2>1. CASE c \in Roots
    BY <1>10, <2>1 DEF RecursBy
  <2>2. CASE c \notin Roots
    <3> PICK x : x = f[before[c]]
      OBVIOUS
    <3>1. x \in Q /\ x = f[Back(OpAt(ref, hyp, c), c)]
      <4> HIDE DEF D, Q, before, Roots
      <4> QED
        BY <1>8, <1>10, <2>2
    <3>2. f[c] = step[<<c, x, x, x>>]
      <4> HIDE DEF D, Q, before, Roots, step, start
      <4> QED
        BY <1>10, <2>2 DEF RecursBy
    <3>3. step[<<c, x, x, x>>] = Append(x, RowOf(ref, hyp, OpAt(ref, hyp, c), c))
      <4> HIDE DEF D, Q
      <4> QED
        BY <3>1
    <3>4. OpAt(ref, hyp, c) # ""
      BY <2>2
    <3> HIDE DEF step
    <3> QED
      BY <3>1, <3>2, <3>3, <3>4
  <2> QED
    BY <2>1, <2>2
<1>12. f = [c \in D |-> Step(f, c)]
  <2>1. \A c \in D : f[c] = Step(f, c)
    <3> HIDE DEF Simple, D
    <3> QED
      BY <1>5, <1>11
  <2> HIDE DEF D, Q
  <2> QED
    BY <1>10, <2>1
<1>13. lines = [c \in D |-> Step(lines, c)]
  <2>1. \E h : h = [c \in D |-> Step(h, c)]
    BY <1>12
  <2> HIDE DEF D
  <2> QED
    BY <2>1, Zenon
<1> HIDE DEF lines
<1>14. \A c \in D : lines[c] = Simple(lines, c)
  <2>1. \A c \in D : lines[c] = Step(lines, c)
    <3> HIDE DEF D
    <3> QED
      BY <1>13
  <2> HIDE DEF Simple, D
  <2> QED
    BY <1>5, <2>1
<1>15. ASSUME NEW c \in D, AgreeBelow(lines, f, D, rank, c) PROVE lines[c] = f[c]
  <2>1. CASE OpAt(ref, hyp, c) = ""
    <3> HIDE DEF D
    <3> QED
      BY <1>11, <1>14, <2>1
  <2>2. CASE OpAt(ref, hyp, c) # ""
    <3> PICK b : b = Back(OpAt(ref, hyp, c), c)
      OBVIOUS
    <3>1. b \in D /\ rank[b] < rank[c]
      BY <1>8, <2>2
    <3>2. lines[b] = f[b]
      <4> HIDE DEF D
      <4> QED
        BY <1>15, <3>1 DEF AgreeBelow
    <3> HIDE DEF D
    <3> QED
      BY <1>11, <1>14, <2>2, <3>2
  <2> QED
    BY <2>1, <2>2
<1>16. \A c \in D : lines[c] = f[c]
  <2> HIDE DEF D
  <2>1. Inherited(lines, f, D, rank)
    BY <1>6, <1>15 DEF Inherited
  <2> QED
    BY <2>1, Agree
<1>17. TracebackBy(f, ref, hyp)
  <2>1. <<Len(ref), Len(hyp)>> \in D
    BY <1>1 DEF Grid
  <2>2. Traceback(ref, hyp, Table(ref, hyp)) = f[<<Len(ref), Len(hyp)>>]
    <3> HIDE DEF D
    <3> QED
      BY <1>2, <1>3, <1>16, <2>1
  <2> QED
    BY <1>11, <2>2 DEF TracebackBy
<1> QED
  BY <1>10, <1>17

\* The rows of a sequence that are of some kind.
Tally(rows, kind) == Cardinality({k \in DOMAIN rows : rows[k] \in kind})
WrongRows == {r \in WordRows : r.op # "match"}
RefRows == {r \in WordRows : r.refWord # <<>>}
DeleteRows == {r \in WordRows : r.op = "delete"}

LEMMA TallyAppend ==
  ASSUME NEW T, NEW rows \in Seq(T), NEW r, NEW kind
  PROVE  /\ Tally(rows, kind) \in Nat
         /\ Tally(Append(rows, r), kind) = Tally(rows, kind) + (IF r \in kind THEN 1 ELSE 0)
<1> PICK n, long : n = Len(rows) /\ long = Append(rows, r)
  OBVIOUS
<1>1. n \in Nat /\ DOMAIN rows = 1..n
  BY LenProperties
<1>2. DOMAIN long = 1..(n + 1) /\ \A k \in 1..(n + 1) : long[k] = IF k = n + 1 THEN r ELSE rows[k]
  BY <1>1
<1> DEFINE M == {k \in DOMAIN rows : rows[k] \in kind}
           N == {k \in DOMAIN long : long[k] \in kind}
<1>3. IsFiniteSet(M) /\ Cardinality(M) \in Nat
  <2>1. M \in SUBSET (1..n)
    BY <1>1
  <2> HIDE DEF M
  <2> QED
    BY <1>1, <2>1, CardinalityTo
<1>4. n + 1 \notin 1..n /\ \A k : k \in 1..(n + 1) <=> k = n + 1 \/ k \in 1..n
  BY <1>1
<1>5. Tally(rows, kind) = Cardinality(M) /\ Tally(long, kind) = Cardinality(N)
  BY DEF Tally
<1>6. CASE r \in kind
  <2>1. N = M \cup {n + 1} /\ n + 1 \notin M
    BY <1>1, <1>2, <1>4, <1>6
  <2> HIDE DEF M, N
  <2>2. Cardinality(N) = Cardinality(M) + 1
    BY <1>3, <2>1, FS_AddElement
  <2> QED
    BY <1>3, <1>5, <1>6, <2>2
<1>7. CASE r \notin kind
  <2>1. N = M
    BY <1>1, <1>2, <1>4, <1>7
  <2> HIDE DEF M, N
  <2> QED
    BY <1>3, <1>5, <1>7, <2>1
<1> QED
  BY <1>6, <1>7

First(s, i) == [k \in 1..i |-> s[k]]

LEMMA FirstIs ==
  ASSUME NEW T, NEW s \in Seq(T)
  PROVE  /\ First(s, 0) = <<>> /\ First(s, Len(s)) = s
         /\ \A i \in 1..Len(s) : First(s, i - 1) \in Seq(T) /\ Append(First(s, i - 1), s[i]) = First(s, i)
<1>1. Len(s) \in Nat /\ DOMAIN s = 1..Len(s) /\ \A k \in 1..Len(s) : s[k] \in T
  BY LenProperties, ElementOfSeq
<1>2. First(s, 0) = <<>>
  BY DEF First
<1>3. First(s, Len(s)) = s
  BY <1>1, LenProperties DEF First
<1>4. ASSUME NEW i \in 1..Len(s)
      PROVE  First(s, i - 1) \in Seq(T) /\ Append(First(s, i - 1), s[i]) = First(s, i)
  <2>1. i - 1 \in Nat /\ i - 1 + 1 = i /\ \A k \in 1..(i - 1) : s[k] \in T
    BY <1>1
  <2>2. First(s, i - 1) \in Seq(T)
    BY <2>1, IsASeq DEF First
  <2>3. Len(First(s, i - 1)) = i - 1
    BY <2>1 DEF First
  <2> PICK x, long : x = s[i] /\ long = Append(First(s, i - 1), x)
    OBVIOUS
  <2>4. long = [k \in 1..i |-> IF k = i THEN x ELSE First(s, i - 1)[k]]
    BY <2>1, <2>3
  <2>5. \A k \in 1..i : k = i \/ k \in 1..(i - 1)
    BY <1>1
  <2>6. \A k \in 1..(i - 1) : First(s, i - 1)[k] = s[k]
    BY DEF First
  <2>7. long = [k \in 1..i |-> s[k]]
    BY <2>4, <2>5, <2>6
  <2> QED
    BY <2>2, <2>7 DEF First
<1> QED
  BY <1>2, <1>3, <1>4

LEMMA WordsAppend ==
  ASSUME NEW rows \in Seq(WordRows), NEW r \in WordRows, NEW side \in {"refWord", "hypWord"}
  PROVE  Words(Append(rows, r), side) = IF r[side] = <<>> THEN Words(rows, side)
                                        ELSE Append(Words(rows, side), r[side])
<1>a. PICK n, long : n = Len(rows) /\ long = Append(rows, r)
  OBVIOUS
<1>1. n \in Nat /\ DOMAIN rows = 1..n /\ \A k \in 1..n : rows[k] \in WordRows
  BY <1>a, LenProperties, ElementOfSeq
<1>2. DOMAIN long = 1..(n + 1) /\ \A k \in 1..(n + 1) : long[k] = IF k = n + 1 THEN r ELSE rows[k]
  BY <1>a, <1>1
<1>3. \A s \in WordRows : s[side] \in Seq(Characters)
  BY DEF WordRows
<1> DEFINE given == [k \in DOMAIN rows |-> rows[k][side]]
<1>4. given \in Seq(Seq(Characters)) /\ Len(given) = n
  <2>1. \A k \in 1..n : rows[k][side] \in Seq(Characters)
    BY <1>1, <1>3
  <2>2. given = [k \in 1..n |-> rows[k][side]]
    BY <1>1
  <2>3. given \in Seq(Seq(Characters))
    BY <1>1, <2>1, <2>2, IsASeq
  <2>4. DOMAIN given = 1..n
    BY <2>2
  <2> HIDE DEF given
  <2> QED
    BY <1>1, <2>3, <2>4, LenProperties
<1>5. [k \in DOMAIN long |-> long[k][side]] = Append(given, r[side])
  <2>1. [k \in DOMAIN long |-> long[k][side]] = [k \in 1..(n + 1) |-> IF k = n + 1 THEN r[side] ELSE given[k]]
    <3>1. \A k \in 1..(n + 1) : k = n + 1 \/ k \in 1..n
      BY <1>1
    <3>2. \A k \in 1..(n + 1) : long[k][side] = IF k = n + 1 THEN r[side] ELSE given[k]
      BY <1>1, <1>2, <3>1
    <3> HIDE DEF given
    <3> QED
      BY <1>2, <3>2
  <2> PICK x : x = r[side]
    OBVIOUS
  <2> HIDE DEF given
  <2>2. Append(given, x) = [k \in 1..(n + 1) |-> IF k = n + 1 THEN x ELSE given[k]]
    BY <1>4
  <2> QED
    BY <2>1, <2>2
<1>6. Words(long, side) = Without([k \in DOMAIN long |-> long[k][side]], {<<>>})
      /\ Words(rows, side) = Without(given, {<<>>})
  BY DEF Words
<1>b. PICK x : x = r[side]
  OBVIOUS
<1>7. x \in Seq(Characters)
  BY <1>3, <1>b
<1> HIDE DEF given
<1>8. Without(Append(given, x), {<<>>}) = IF x \in {<<>>} THEN Without(given, {<<>>}) ELSE Append(Without(given, {<<>>}), x)
  <2>a. PICK T, g, none : T = Seq(Characters) /\ g = given /\ none = {<<>>}
    OBVIOUS
  <2>1. g \in Seq(T) /\ x \in T
    BY <1>4, <1>7, <2>a
  <2>2. Without(Append(g, x), none) = IF x \in none THEN Without(g, none) ELSE Append(Without(g, none), x)
    BY <2>1, WithoutAppend
  <2> QED
    BY <2>a, <2>2
<1> QED
  BY <1>a, <1>b, <1>5, <1>6, <1>8

\* What the rows down to a cell say of the words up to there.
RowsTo(rows, ref, hyp, i, j) ==
  /\ rows \in Seq(WordRows)
  /\ Words(rows, "refWord") = First(ref, i)
  /\ Words(rows, "hypWord") = First(hyp, j)
  /\ Tally(rows, WrongRows) = Dist(ref, hyp, i, j)
  /\ Tally(rows, RefRows) = i
  /\ \A k \in DOMAIN rows : rows[k].op = "match" => rows[k].refWord = rows[k].hypWord

LEMMA RowsToNone ==
  ASSUME NEW ref, NEW hyp
  PROVE  RowsTo(<<>>, ref, hyp, 0, 0)
<1>1. <<>> \in Seq(WordRows) /\ DOMAIN <<>> = {}
  BY EmptySeq
<1>2. ASSUME NEW side PROVE Words(<<>>, side) = <<>>
  <2>1. [k \in DOMAIN <<>> |-> <<>>[k][side]] = <<>>
    OBVIOUS
  <2> QED
    BY <2>1, WithoutEmpty DEF Words
<1>3. \A s : First(s, 0) = <<>>
  BY DEF First
<1>4. ASSUME NEW kind PROVE Tally(<<>>, kind) = 0
  <2>1. {k \in DOMAIN <<>> : <<>>[k] \in kind} = {}
    BY <1>1
  <2> QED
    BY <2>1, FS_EmptySet DEF Tally
<1>5. Dist(ref, hyp, 0, 0) = 0
  BY DistToNone
<1> QED
  BY <1>1, <1>2, <1>3, <1>4, <1>5 DEF RowsTo

Stepped(ref, hyp, c, op) ==
  /\ ref \in Seq(Word) /\ hyp \in Seq(Word) /\ c \in Grid(ref, hyp)
  /\ op = OpAt(ref, hyp, c) /\ op # ""

LEMMA RowsToNext ==
  ASSUME NEW ref, NEW hyp, NEW c, NEW op, Stepped(ref, hyp, c, op),
         NEW rows, RowsTo(rows, ref, hyp, Back(op, c)[1], Back(op, c)[2])
  PROVE  RowsTo(Append(rows, RowOf(ref, hyp, op, c)), ref, hyp, c[1], c[2])
<1>a. PICK i, j, m, n, p, q : /\ i = c[1] /\ j = c[2] /\ m = Len(ref) /\ n = Len(hyp)
                              /\ p = Back(op, c)[1] /\ q = Back(op, c)[2]
  OBVIOUS
<1>b. PICK r, long : r = RowOf(ref, hyp, op, c) /\ long = Append(rows, r)
  OBVIOUS
<1>1. /\ m \in Nat /\ n \in Nat
      /\ \A k \in 1..m : ref[k] \in Seq(Characters) /\ ref[k] # <<>>
      /\ \A k \in 1..n : hyp[k] \in Seq(Characters) /\ hyp[k] # <<>>
  <2>1. ref \in Seq(Word) /\ hyp \in Seq(Word)
    BY DEF Stepped
  <2>2. /\ m \in Nat /\ n \in Nat
        /\ \A k \in 1..m : ref[k] \in Word
        /\ \A k \in 1..n : hyp[k] \in Word
    BY <1>a, <2>1, LenProperties, ElementOfSeq
  <2> QED
    BY <2>2 DEF Word
<1>2. ref \in Seq(Seq(Characters)) /\ hyp \in Seq(Seq(Characters))
  <2>1. Word \subseteq Seq(Characters)
    BY DEF Word
  <2> QED
    BY <2>1, SeqMonotonic DEF Stepped
<1>3. GridAt(m, n, i, j)
  <2>1. i \in 0..m /\ j \in 0..n
    BY <1>a DEF Stepped, Grid
  <2> QED
    BY <1>1, <2>1, GridSteps, Zenon
<1>4. Leads(ref, hyp, i, j, op)
  BY <1>3, <1>a, ChoiceIs DEF Stepped, OpAt, GridAt
<1>5. op \in Ops /\ r \in WordRows
  BY <1>2, <1>b, BackIs DEF Stepped
<1>6. /\ rows \in Seq(WordRows)
      /\ Words(rows, "refWord") = First(ref, p)
      /\ Words(rows, "hypWord") = First(hyp, q)
      /\ Tally(rows, WrongRows) = Dist(ref, hyp, p, q)
      /\ Tally(rows, RefRows) = p
      /\ \A k \in DOMAIN rows : rows[k].op = "match" => rows[k].refWord = rows[k].hypWord
  BY <1>a DEF RowsTo
<1>7. /\ Words(long, "refWord") = IF r.refWord = <<>> THEN First(ref, p) ELSE Append(First(ref, p), r.refWord)
      /\ Words(long, "hypWord") = IF r.hypWord = <<>> THEN First(hyp, q) ELSE Append(First(hyp, q), r.hypWord)
  BY <1>5, <1>6, <1>b, WordsAppend
<1>8. /\ Tally(long, WrongRows) = Dist(ref, hyp, p, q) + (IF r.op # "match" THEN 1 ELSE 0)
      /\ Tally(long, RefRows) = p + (IF r.refWord # <<>> THEN 1 ELSE 0)
  <2>1. (r \in WrongRows <=> r.op # "match") /\ (r \in RefRows <=> r.refWord # <<>>)
    BY <1>5 DEF WrongRows, RefRows
  <2> QED
    BY <1>6, <1>b, <2>1, TallyAppend
<1>9. long \in Seq(WordRows)
  BY <1>5, <1>6, <1>b, AppendProperties
<1>10. ASSUME r.op = "match" => r.refWord = r.hypWord
       PROVE  \A k \in DOMAIN long : long[k].op = "match" => long[k].refWord = long[k].hypWord
  <2>a. PICK l : l = Len(rows)
    OBVIOUS
  <2>1. l \in Nat /\ DOMAIN rows = 1..l
    BY <1>6, <2>a, LenProperties
  <2>2. DOMAIN long = 1..(l + 1) /\ \A k \in 1..(l + 1) : long[k] = IF k = l + 1 THEN r ELSE rows[k]
    BY <1>b, <2>1, <2>a
  <2>3. \A k \in 1..(l + 1) : k = l + 1 \/ k \in 1..l
    BY <2>1
  <2> QED
    BY <1>6, <1>10, <2>1, <2>2, <2>3
<1>11. /\ \A k \in 1..m : Append(First(ref, k - 1), ref[k]) = First(ref, k)
       /\ \A k \in 1..n : Append(First(hyp, k - 1), hyp[k]) = First(hyp, k)
  <2>1. ref \in Seq(Word) /\ hyp \in Seq(Word)
    BY DEF Stepped
  <2>2. \A k \in 1..m : Append(First(ref, k - 1), ref[k]) = First(ref, k)
    BY <1>a, <2>1, FirstIs
  <2>3. \A k \in 1..n : Append(First(hyp, k - 1), hyp[k]) = First(hyp, k)
    BY <1>a, <2>1, FirstIs
  <2> QED
    BY <2>2, <2>3
<1>12. CASE op \in {"match", "substitute"}
  <2>1. i # 0 /\ j # 0
    BY <1>4, <1>12 DEF Leads
  <2>2. i \in 1..m /\ j \in 1..n /\ i - 1 + 1 = i
    BY <1>3, <2>1 DEF GridAt
  <2>3. p = i - 1 /\ q = j - 1
    BY <1>12, <1>a DEF Back
  <2>4. r.refWord = ref[i] /\ r.hypWord = hyp[j] /\ r.op = op
    BY <1>12, <1>a, <1>b DEF RowOf, WordRow
  <2>5. Append(First(ref, p), ref[i]) = First(ref, i) /\ Append(First(hyp, q), hyp[j]) = First(hyp, j)
    BY <1>11, <2>2, <2>3
  <2>6. Words(long, "refWord") = First(ref, i) /\ Words(long, "hypWord") = First(hyp, j)
    BY <1>1, <1>7, <2>2, <2>4, <2>5
  <2>7. Dist(ref, hyp, i, j) = Dist(ref, hyp, p, q) + Unlike(ref, hyp, i, j) /\ (op = "match" <=> ref[i] = hyp[j])
    BY <1>4, <1>12, <2>3 DEF Leads
  <2>8. Tally(long, WrongRows) = Dist(ref, hyp, i, j)
    BY <1>8, <2>4, <2>7 DEF Unlike
  <2>9. Tally(long, RefRows) = i
    BY <1>1, <1>8, <2>2, <2>3, <2>4
  <2>10. \A k \in DOMAIN long : long[k].op = "match" => long[k].refWord = long[k].hypWord
    BY <1>10, <2>4, <2>7
  <2> QED
    BY <1>9, <2>6, <2>8, <2>9, <2>10, <1>a, <1>b DEF RowsTo
<1>13. CASE op = "delete"
  <2>1. i # 0
    BY <1>4, <1>13 DEF Leads
  <2>2. i \in 1..m /\ i - 1 + 1 = i
    BY <1>3, <2>1 DEF GridAt
  <2>3. p = i - 1 /\ q = j
    BY <1>13, <1>a DEF Back
  <2>4. r.refWord = ref[i] /\ r.hypWord = <<>> /\ r.op = op
    BY <1>13, <1>a, <1>b DEF RowOf, WordRow
  <2>5. Append(First(ref, p), ref[i]) = First(ref, i)
    BY <1>11, <2>2, <2>3
  <2>6. Words(long, "refWord") = First(ref, i) /\ Words(long, "hypWord") = First(hyp, j)
    BY <1>1, <1>7, <2>2, <2>3, <2>4, <2>5
  <2>7. Dist(ref, hyp, i, j) = Dist(ref, hyp, p, q) + 1
    BY <1>4, <1>13, <2>3 DEF Leads
  <2>8. Tally(long, WrongRows) = Dist(ref, hyp, i, j)
    BY <1>8, <1>13, <2>4, <2>7
  <2>9. Tally(long, RefRows) = i
    BY <1>1, <1>8, <2>2, <2>3, <2>4
  <2>10. \A k \in DOMAIN long : long[k].op = "match" => long[k].refWord = long[k].hypWord
    BY <1>10, <1>13, <2>4
  <2> QED
    BY <1>9, <2>6, <2>8, <2>9, <2>10, <1>a, <1>b DEF RowsTo
<1>14. CASE op = "insert"
  <2>1. j # 0
    BY <1>4, <1>14 DEF Leads
  <2>2. j \in 1..n /\ i \in Nat
    BY <1>3, <2>1 DEF GridAt
  <2>3. p = i /\ q = j - 1
    BY <1>14, <1>a DEF Back
  <2>4. r.refWord = <<>> /\ r.hypWord = hyp[j] /\ r.op = op
    BY <1>14, <1>a, <1>b DEF RowOf, WordRow
  <2>5. Append(First(hyp, q), hyp[j]) = First(hyp, j)
    BY <1>11, <2>2, <2>3
  <2>6. Words(long, "refWord") = First(ref, i) /\ Words(long, "hypWord") = First(hyp, j)
    BY <1>1, <1>7, <2>2, <2>3, <2>4, <2>5
  <2>7. Dist(ref, hyp, i, j) = Dist(ref, hyp, p, q) + 1
    BY <1>4, <1>14, <2>3 DEF Leads
  <2>8. Tally(long, WrongRows) = Dist(ref, hyp, i, j)
    BY <1>8, <1>14, <2>4, <2>7
  <2>9. Tally(long, RefRows) = i
    BY <1>8, <2>2, <2>3, <2>4
  <2>10. \A k \in DOMAIN long : long[k].op = "match" => long[k].refWord = long[k].hypWord
    BY <1>10, <1>14, <2>4
  <2> QED
    BY <1>9, <2>6, <2>8, <2>9, <2>10, <1>a, <1>b DEF RowsTo
<1> QED
  BY <1>5, <1>12, <1>13, <1>14 DEF Ops

LEMMA RowsAre ==
  ASSUME NEW ref \in Seq(Word), NEW hyp \in Seq(Word)
  PROVE  RowsTo(Traceback(ref, hyp, Table(ref, hyp)), ref, hyp, Len(ref), Len(hyp))
<1>1. ref \in Seq(Seq(Characters)) /\ hyp \in Seq(Seq(Characters))
  <2>1. Word \subseteq Seq(Characters)
    BY DEF Word
  <2> QED
    BY <2>1, SeqMonotonic
<1>2. PICK f : TracebackBy(f, ref, hyp)
  BY <1>1, TracebackSteps
<1>3. /\ Traceback(ref, hyp, Table(ref, hyp)) = f[<<Len(ref), Len(hyp)>>]
      /\ \A c \in Grid(ref, hyp) :
           f[c] = IF OpAt(ref, hyp, c) = "" THEN <<>>
                  ELSE Append(f[Back(OpAt(ref, hyp, c), c)], RowOf(ref, hyp, OpAt(ref, hyp, c), c))
  BY <1>2 DEF TracebackBy
<1>4. Len(ref) \in Nat /\ Len(hyp) \in Nat
  BY LenProperties
<1>5. ASSUME NEW c \in Grid(ref, hyp) PROVE c[1] \in Nat /\ c[2] \in Nat /\ c[1] + c[2] \in Nat
  <2>1. c[1] \in 0..Len(ref) /\ c[2] \in 0..Len(hyp)
    BY DEF Grid
  <2> QED
    BY <1>4, <2>1
<1> DEFINE Failing == {n \in Nat : \E c \in Grid(ref, hyp) : c[1] + c[2] = n /\ ~RowsTo(f[c], ref, hyp, c[1], c[2])}
<1>6. Failing = {}
  <2> SUFFICES ASSUME Failing # {} PROVE FALSE
    OBVIOUS
  <2>1. PICK n \in Failing : \A k \in Failing : n <= k
    <3>1. Failing \in SUBSET Nat
      OBVIOUS
    <3> HIDE DEF Failing
    <3> QED
      BY <3>1, Least
  <2>2. PICK c \in Grid(ref, hyp) : n \in Nat /\ c[1] + c[2] = n /\ ~RowsTo(f[c], ref, hyp, c[1], c[2])
    BY <2>1
  <2>a. PICK op : op = OpAt(ref, hyp, c)
    OBVIOUS
  <2>3. CASE op = ""
    <3>1. Leads(ref, hyp, c[1], c[2], op)
      BY <1>5, <2>a, ChoiceIs DEF OpAt
    <3>2. c[1] = 0 /\ c[2] = 0
      BY <2>3, <3>1 DEF Leads
    <3>3. f[c] = <<>>
      BY <1>3, <2>a, <2>3
    <3> HIDE DEF Failing
    <3> QED
      BY <2>2, <3>2, <3>3, RowsToNone
  <2>4. CASE op # ""
    <3>a. PICK b : b = Back(op, c)
      OBVIOUS
    <3>1. b \in Grid(ref, hyp) /\ b[1] + b[2] < c[1] + c[2]
      BY <1>1, <2>a, <2>4, <3>a, BackIs
    <3>2. RowsTo(f[b], ref, hyp, b[1], b[2])
      <4>1. b[1] + b[2] \in Nat /\ ~(n <= b[1] + b[2])
        <5>1. b[1] + b[2] \in Nat
          BY <1>5, <3>1
        <5> QED
          BY <2>2, <3>1, <5>1
      <4>2. b[1] + b[2] \notin Failing
        <5> HIDE DEF Failing
        <5> QED
          BY <2>1, <4>1
      <4> QED
        BY <3>1, <4>1, <4>2
    <3>3. Stepped(ref, hyp, c, op)
      BY <2>a, <2>4 DEF Stepped
    <3>4. RowsTo(Append(f[b], RowOf(ref, hyp, op, c)), ref, hyp, c[1], c[2])
      BY <3>a, <3>2, <3>3, RowsToNext
    <3>5. f[c] = Append(f[b], RowOf(ref, hyp, op, c))
      BY <1>3, <2>a, <2>4, <3>a
    <3> HIDE DEF Failing
    <3> QED
      BY <2>2, <3>4, <3>5
  <2> QED
    BY <2>3, <2>4
<1>7. <<Len(ref), Len(hyp)>> \in Grid(ref, hyp)
  BY <1>4 DEF Grid
<1>8. ASSUME NEW c \in Grid(ref, hyp) PROVE RowsTo(f[c], ref, hyp, c[1], c[2])
  <2>1. c[1] + c[2] \notin Failing /\ c[1] + c[2] \in Nat
    BY <1>5, <1>6
  <2> QED
    BY <2>1
<1>9. <<Len(ref), Len(hyp)>>[1] = Len(ref) /\ <<Len(ref), Len(hyp)>>[2] = Len(hyp)
  OBVIOUS
<1> HIDE DEF Failing
<1> QED
  BY <1>3, <1>7, <1>8, <1>9, Zenon

LEMMA DistanceIsDist ==
  ASSUME NEW T, NEW U, NEW a \in Seq(T), NEW b \in Seq(U)
  PROVE  Distance(a, b) = Dist(a, b, Len(a), Len(b)) /\ Distance(a, b) \in Nat
<1>1. Len(a) \in Nat /\ Len(b) \in Nat /\ DOMAIN a = 1..Len(a) /\ DOMAIN b = 1..Len(b)
  BY LenProperties
<1>2. Pairings(a, b) = PairsTo(Len(a), Len(b))
  BY <1>1 DEF Pairings, PairsTo
<1>3. \A p : CostOf(a, b, p) = CostTo(a, b, Len(a), Len(b), p)
  BY DEF CostOf, CostTo
<1>a. PICK d : d = Dist(a, b, Len(a), Len(b))
  OBVIOUS
<1>4. IsDistance(a, b, Len(a), Len(b), d) /\ d \in Nat
  BY <1>1, <1>a, DistIs
<1> DEFINE costs == {CostOf(a, b, p) : p \in Pairings(a, b)}
<1>5. d \in costs /\ \A e \in costs : d <= e
  BY <1>2, <1>3, <1>4 DEF IsDistance
<1>6. Distance(a, b) = CHOOSE x \in costs : \A e \in costs : x <= e
  BY DEF Distance
<1>7. Distance(a, b) \in costs /\ \A e \in costs : Distance(a, b) <= e
  <2> HIDE DEF costs
  <2> QED
    BY <1>5, <1>6
<1>8. IsDistance(a, b, Len(a), Len(b), Distance(a, b))
  BY <1>2, <1>3, <1>7 DEF IsDistance
<1> QED
  BY <1>1, <1>4, <1>8, <1>a, OneDistance

-----------------------------------------------------------------------------
(* What a score is made of.                                                 *)

Transcript == ParseResponse(response).transcript

ScoreInv ==
  /\ reference \in References
  /\ response \in Responses
  /\ Scored =>
       /\ result.transcript = Transcript
       /\ result.alignments = Align(reference, Transcript)
       /\ result.wer = WER(reference, Transcript)
       /\ result.cer = CER(reference, Transcript)
       /\ result.score = ScorePronunciation(Align(reference, Transcript),
                                            WordConfidences(ParseResponse(response).words),
                                            WER(reference, Transcript))

LEMMA ScoreStarts == InitScore => ScoreInv
BY DEF InitScore, ScoreInv, Scored

LEMMA ScoreSteps == ScoreInv /\ [NextScore]_recitationVars => ScoreInv'
<1> SUFFICES ASSUME ScoreInv, [NextScore]_recitationVars PROVE ScoreInv'
  OBVIOUS
<1>1. CASE Score
  <2>1. /\ reference' = reference /\ response' = response
        /\ result' = [transcript |-> Transcript,
                      alignments |-> Align(reference, Transcript),
                      wer        |-> WER(reference, Transcript),
                      cer        |-> CER(reference, Transcript),
                      score      |-> ScorePronunciation(Align(reference, Transcript),
                                            WordConfidences(ParseResponse(response).words),
                                            WER(reference, Transcript))]
    BY <1>1 DEF Score, Transcript
  <2>2. Transcript' = Transcript
    BY <2>1 DEF Transcript
  <2> QED
    BY <2>1, <2>2 DEF ScoreInv
<1>2. CASE EngineFails
  BY <1>2 DEF EngineFails, ScoreInv, Scored
<1>3. CASE UNCHANGED recitationVars
  BY <1>3 DEF recitationVars, ScoreInv, Scored, Transcript
<1> QED
  BY <1>1, <1>2, <1>3 DEF NextScore

\* The parts of a score, for the words and the letters it compares.
LEMMA ScoreParts ==
  ASSUME ScoreInv, Scored
  PROVE  /\ Tokens(reference) \in Seq(Word) /\ Letters(reference) \in Seq(Characters)
         /\ Tokens(Transcript) \in Seq(Word) /\ Letters(Transcript) \in Seq(Characters)
         /\ Tokens(reference) # <<>> => Letters(reference) # <<>>
         /\ RowsTo(result.alignments, Tokens(reference), Tokens(Transcript),
                   Len(Tokens(reference)), Len(Tokens(Transcript)))
<1>1. reference \in Seq(Seq(Characters)) /\ response \in Responses
  BY RecitationConstants DEF ScoreInv
<1>2. Transcript \in Seq(Seq(Characters))
  BY <1>1, TranscriptIs DEF Transcript
<1>3. /\ Tokens(reference) \in Seq(Word) /\ Letters(reference) \in Seq(Characters)
      /\ Tokens(Transcript) \in Seq(Word) /\ Letters(Transcript) \in Seq(Characters)
      /\ Tokens(reference) # <<>> => Letters(reference) # <<>>
  BY <1>1, <1>2, TokensAre
<1>4. result.alignments
        = Traceback(Tokens(reference), Tokens(Transcript), Table(Tokens(reference), Tokens(Transcript)))
  BY DEF ScoreInv, Align
<1> QED
  BY <1>3, <1>4, RowsAre

LEMMA ScoresExact ==
  ASSUME ScoreInv
  PROVE  DistancesExact
<1> SUFFICES ASSUME Scored PROVE DistancesExact
  BY DEF DistancesExact
<1>a. PICK ref, hyp, refLetters, hypLetters, rows :
        /\ ref = Tokens(reference) /\ hyp = Tokens(result.transcript)
        /\ refLetters = Letters(reference) /\ hypLetters = Letters(result.transcript)
        /\ rows = result.alignments
  OBVIOUS
<1>1. result.transcript = Transcript /\ result.wer = WER(reference, Transcript) /\ result.cer = CER(reference, Transcript)
  BY DEF ScoreInv
<1>2. /\ ref \in Seq(Word) /\ hyp \in Seq(Word) /\ refLetters \in Seq(Characters) /\ hypLetters \in Seq(Characters)
      /\ RowsTo(rows, ref, hyp, Len(ref), Len(hyp))
  BY <1>a, <1>1, ScoreParts
<1>3. rows \in Seq(WordRows) /\ Words(rows, "refWord") = First(ref, Len(ref))
      /\ Words(rows, "hypWord") = First(hyp, Len(hyp))
      /\ Tally(rows, WrongRows) = Dist(ref, hyp, Len(ref), Len(hyp))
  BY <1>2 DEF RowsTo
<1>4. Words(rows, "refWord") = ref /\ Words(rows, "hypWord") = hyp
  BY <1>2, <1>3, FirstIs
<1>5. CountRows(rows, LAMBDA r : r.op # "match") = Distance(ref, hyp)
  <2>1. {k \in DOMAIN rows : rows[k].op # "match"} = {k \in DOMAIN rows : rows[k] \in WrongRows}
    <3>1. \A k \in DOMAIN rows : rows[k] \in WordRows
      BY <1>3, LenProperties, ElementOfSeq
    <3> QED
      BY <3>1 DEF WrongRows
  <2>2. Distance(ref, hyp) = Dist(ref, hyp, Len(ref), Len(hyp))
    BY <1>2, DistanceIsDist
  <2> QED
    BY <1>3, <2>1, <2>2 DEF CountRows, Tally
<1>6. ref # <<>> => result.wer = <<Distance(ref, hyp), Len(ref)>>
  <2>1. result.wer = Rate(LevenshteinMatrix(ref, hyp)[<<Len(ref), Len(hyp)>>], ref, hyp)
    BY <1>a, <1>1 DEF WER
  <2>2. LevenshteinMatrix(ref, hyp)[<<Len(ref), Len(hyp)>>] = Distance(ref, hyp)
    BY <1>2, LevenshteinIs, DistanceIsDist
  <2> QED
    BY <2>1, <2>2 DEF Rate
<1>7. ref # <<>> => result.cer = <<Distance(refLetters, hypLetters), Len(refLetters)>>
  <2>1. result.cer = Rate(Distance(refLetters, hypLetters), refLetters, hypLetters)
    <3>1. Letters(reference) \in Seq(Characters) /\ Letters(Transcript) \in Seq(Characters)
      BY <1>a, <1>1, <1>2
    <3> QED
      BY <1>a, <1>1, <1>2, <3>1, CerIs, DistanceIsDist
  <2>2. ref # <<>> => refLetters # <<>>
    BY <1>a, ScoreParts
  <2> QED
    BY <2>1, <2>2 DEF Rate
<1> QED
  BY <1>a, <1>4, <1>5, <1>6, <1>7 DEF DistancesExact

\* The rows shown spell both texts, and their corrections are as few as the
\* distance that the error rates count.
THEOREM ScoresAreExact == SpecScore => []DistancesExact
<1>1. InitScore => ScoreInv
  BY ScoreStarts
<1>2. ScoreInv /\ [NextScore]_recitationVars => ScoreInv'
  BY ScoreSteps
<1>3. ScoreInv => DistancesExact
  BY ScoresExact
<1> QED
  BY <1>1, <1>2, <1>3, PTL DEF SpecScore

-----------------------------------------------------------------------------
(* The score.                                                               *)

\* A text is at no distance from itself.
LEMMA DistToSelf ==
  ASSUME NEW a, NEW n \in Nat
  PROVE  Dist(a, a, n, n) = 0
<1> DEFINE p == <<1..n, 1..n>>
<1>1. p \in PairsTo(n, n)
  BY DEF PairsTo
<1>2. Cardinality(1..n) = n
  <2>1. Cardinality(1..n) = IF 1 > n THEN 0 ELSE n - 1 + 1
    BY FS_Interval
  <2> QED
    BY <2>1
<1>3. Mismatches(a, a, p) = 0
  <2>1. {k \in 1..Cardinality(p[1]) : a[Kth(p[1], k)] # a[Kth(p[2], k)]} = {}
    OBVIOUS
  <2> QED
    BY <2>1, FS_EmptySet DEF Mismatches
<1>4. CostTo(a, a, n, n, p) = 0
  BY <1>2, <1>3 DEF CostTo
<1>5. IsDistance(a, a, n, n, Dist(a, a, n, n)) /\ Dist(a, a, n, n) \in Nat
  BY DistIs
<1> HIDE DEF p
<1>6. Dist(a, a, n, n) <= 0
  BY <1>1, <1>4, <1>5 DEF IsDistance
<1> QED
  BY <1>5, <1>6

\* Rows without a correction spell the same words twice.
LEMMA NoneWrong ==
  ASSUME NEW rows, NEW ref \in Seq(Word), NEW hyp \in Seq(Word), RowsTo(rows, ref, hyp, Len(ref), Len(hyp))
  PROVE  Dist(ref, hyp, Len(ref), Len(hyp)) = 0 <=> ref = hyp
<1>1. Len(ref) \in Nat
  BY LenProperties
<1>2. ASSUME ref = hyp PROVE Dist(ref, hyp, Len(ref), Len(hyp)) = 0
  BY <1>1, <1>2, DistToSelf
<1>3. ASSUME Dist(ref, hyp, Len(ref), Len(hyp)) = 0 PROVE ref = hyp
  <2>1. /\ rows \in Seq(WordRows) /\ Tally(rows, WrongRows) = 0
        /\ Words(rows, "refWord") = First(ref, Len(ref)) /\ Words(rows, "hypWord") = First(hyp, Len(hyp))
        /\ \A k \in DOMAIN rows : rows[k].op = "match" => rows[k].refWord = rows[k].hypWord
    BY <1>3 DEF RowsTo
  <2>2. Len(rows) \in Nat /\ DOMAIN rows = 1..Len(rows) /\ \A k \in DOMAIN rows : rows[k] \in WordRows
    BY <2>1, LenProperties, ElementOfSeq
  <2> DEFINE Wrongs == {k \in DOMAIN rows : rows[k] \in WrongRows}
  <2>3. Wrongs = {}
    <3>1. Wrongs \in SUBSET (1..Len(rows)) /\ Cardinality(Wrongs) = 0
      BY <2>1, <2>2 DEF Tally
    <3> HIDE DEF Wrongs
    <3>2. IsFiniteSet(Wrongs)
      BY <2>2, <3>1, CardinalityTo
    <3> QED
      BY <3>1, <3>2, FS_EmptySet
  <2>4. \A k \in DOMAIN rows : rows[k].refWord = rows[k].hypWord
    BY <2>1, <2>2, <2>3 DEF WrongRows
  <2>5. [k \in DOMAIN rows |-> rows[k]["refWord"]] = [k \in DOMAIN rows |-> rows[k]["hypWord"]]
    BY <2>4
  <2>6. Words(rows, "refWord") = Words(rows, "hypWord")
    BY <2>5 DEF Words
  <2> QED
    BY <2>1, <2>6, FirstIs
<1> QED
  BY <1>2, <1>3

\* Clamped shares of the same whole, and their mean.
AreShares(n, d, e, x, y) ==
  /\ x \in 0..n /\ y \in 0..n /\ x <= y
  /\ (x = n <=> d = 0) /\ (y = n <=> e = 0)

LEMMA Shares ==
  ASSUME NEW n \in Nat, n # 0, NEW d \in Nat, NEW e \in Nat, e <= d
  PROVE  AreShares(n, d, e, Clamp(n - d, n)[1], Clamp(n - e, n)[1])
BY DEF AreShares, Clamp

IsMean(m, n, x, y) ==
  /\ m = <<x * n + y * n, 2 * n * n>>
  /\ x * n + y * n = 2 * n * n <=> x = n /\ y = n
  /\ x * n + y * n \in Nat /\ 2 * n * n \in Nat /\ 2 * n * n # 0 /\ x * n + y * n <= 2 * n * n

LEMMA Mean ==
  ASSUME NEW n \in Nat, n # 0, NEW x \in 0..n, NEW y \in 0..n
  PROVE  IsMean(Clamp(x * n + y * n, 2 * n * n), n, x, y)
<1>1. x * n + y * n = (x + y) * n /\ 2 * n * n = (2 * n) * n
  OBVIOUS
<1>2. x + y \in Nat /\ x + y <= 2 * n /\ (x + y = 2 * n <=> x = n /\ y = n)
  OBVIOUS
<1>a. PICK s : s = x + y
  OBVIOUS
<1>3. s * n \in Nat /\ (2 * n) * n \in Nat /\ s * n <= (2 * n) * n /\ (s * n = (2 * n) * n => s = 2 * n) /\ (2 * n) * n # 0
  <2>1. s \in Nat /\ s <= 2 * n
    BY <1>2, <1>a
  <2>2. \A k \in Nat : s + k = 2 * n => s * n + k * n = (2 * n) * n
    BY <2>1
  <2>3. PICK k \in Nat : s + k = 2 * n
    <3>1. 2 * n - s \in Nat /\ s + (2 * n - s) = 2 * n
      BY <2>1
    <3> QED
      BY <3>1
  <2>4. s * n + k * n = (2 * n) * n /\ s * n \in Nat /\ k * n \in Nat /\ (k * n = 0 => k = 0)
    BY <2>1, <2>2, <2>3
  <2>5. (2 * n) * n \in Nat /\ (2 * n) * n # 0
    OBVIOUS
  <2> QED
    BY <2>1, <2>3, <2>4, <2>5
<1>4. \A t, w : t \in Nat /\ w \in Nat /\ t <= w => Clamp(t, w) = <<t, w>>
  BY DEF Clamp
<1>5. x * n + y * n = s * n
  BY <1>1, <1>a
<1> QED
  BY <1>1, <1>2, <1>3, <1>4, <1>5, <1>a DEF IsMean

LEMMA ScoresFair ==
  ASSUME ScoreInv
  PROVE  ScoreIsFair
<1> SUFFICES ASSUME Scored, Tokens(reference) # <<>>
             PROVE  LET s == result.score
                    IN  /\ (s.overall[1] = s.overall[2]) <=> Tokens(reference) = Tokens(result.transcript)
                        /\ s.accuracy[1] * s.completeness[2] <= s.completeness[1] * s.accuracy[2]
  BY DEF ScoreIsFair
<1>a. PICK ref, hyp, rows, n, d, e, s :
        /\ ref = Tokens(reference) /\ hyp = Tokens(result.transcript) /\ rows = result.alignments
        /\ n = Len(ref) /\ d = Dist(ref, hyp, Len(ref), Len(hyp)) /\ e = Tally(rows, DeleteRows)
        /\ s = result.score
  OBVIOUS
<1>1. /\ result.transcript = Transcript /\ rows = Align(reference, Transcript)
      /\ s = ScorePronunciation(rows, WordConfidences(ParseResponse(response).words), WER(reference, Transcript))
  BY <1>a DEF ScoreInv
<1>2. /\ ref \in Seq(Word) /\ hyp \in Seq(Word) /\ RowsTo(rows, ref, hyp, Len(ref), Len(hyp))
  BY <1>a, <1>1, ScoreParts
<1>3. /\ rows \in Seq(WordRows) /\ Tally(rows, WrongRows) = d /\ Tally(rows, RefRows) = n
  BY <1>2, <1>a DEF RowsTo
<1>4. n \in Nat /\ n # 0 /\ d \in Nat
  BY <1>2, <1>a, DistIs, LenProperties, EmptySeq
<1>5. /\ \A k \in DOMAIN rows : rows[k] \in WordRows
      /\ Len(rows) \in Nat /\ DOMAIN rows = 1..Len(rows)
  BY <1>3, LenProperties, ElementOfSeq
<1>6. e \in Nat /\ e <= d
  <2> DEFINE Wrongs == {k \in DOMAIN rows : rows[k] \in WrongRows}
             Deletes == {k \in DOMAIN rows : rows[k] \in DeleteRows}
  <2>1. Deletes \in SUBSET Wrongs /\ Wrongs \in SUBSET (1..Len(rows))
    BY <1>5 DEF DeleteRows, WrongRows
  <2>2. e = Cardinality(Deletes) /\ d = Cardinality(Wrongs)
    BY <1>3, <1>a DEF Tally
  <2> HIDE DEF Deletes, Wrongs
  <2>3. IsFiniteSet(Wrongs)
    BY <1>5, <2>1, CardinalityTo
  <2>4. Cardinality(Deletes) <= Cardinality(Wrongs) /\ IsFiniteSet(Deletes)
    BY <2>1, <2>3, FS_Subset
  <2> QED
    BY <2>2, <2>4, FS_CardinalityType
<1>7. CountRows(rows, LAMBDA r : r.refWord # <<>>) = n /\ CountRows(rows, LAMBDA r : r.op = "delete") = e
  <2>1. {k \in DOMAIN rows : rows[k].refWord # <<>>} = {k \in DOMAIN rows : rows[k] \in RefRows}
        /\ {k \in DOMAIN rows : rows[k].op = "delete"} = {k \in DOMAIN rows : rows[k] \in DeleteRows}
    BY <1>5 DEF RefRows, DeleteRows
  <2> QED
    BY <1>3, <1>a, <2>1 DEF CountRows, Tally
<1>8. WER(reference, Transcript) = <<d, n>>
  <2>1. WER(reference, Transcript) = Rate(LevenshteinMatrix(ref, hyp)[<<Len(ref), Len(hyp)>>], ref, hyp)
    BY <1>a, <1>1 DEF WER
  <2>2. LevenshteinMatrix(ref, hyp)[<<Len(ref), Len(hyp)>>] = d
    BY <1>2, <1>a, LevenshteinIs
  <2> QED
    BY <2>1, <2>2, <1>a DEF Rate
<1>b. PICK x, y : x = Clamp(n - d, n)[1] /\ y = Clamp(n - e, n)[1]
  OBVIOUS
<1>9. /\ s.accuracy = <<x, n>> /\ s.completeness = <<y, n>>
      /\ s.overall = Clamp(x * n + y * n, 2 * n * n)
  <2>1. AtLeastOne(n) = n
    BY <1>4 DEF AtLeastOne
  <2>2. Clamp(n - d, n) = <<x, n>> /\ Clamp(n - e, n) = <<y, n>>
    BY <1>b DEF Clamp
  <2>3. <<d, n>>[1] = d /\ <<d, n>>[2] = n /\ <<x, n>>[1] = x /\ <<x, n>>[2] = n /\ <<y, n>>[1] = y /\ <<y, n>>[2] = n
    OBVIOUS
  <2>4. s = ScorePronunciation(rows, WordConfidences(ParseResponse(response).words), <<d, n>>)
    BY <1>1, <1>8
  <2>5. /\ s.accuracy = Clamp(<<d, n>>[2] - <<d, n>>[1], <<d, n>>[2])
        /\ s.completeness = Clamp(n - e, AtLeastOne(n))
        /\ s.overall = Clamp(s.accuracy[1] * s.completeness[2] + s.completeness[1] * s.accuracy[2],
                             2 * s.accuracy[2] * s.completeness[2])
    BY <1>7, <2>4 DEF ScorePronunciation
  <2>6. s.accuracy = <<x, n>> /\ s.completeness = <<y, n>>
    BY <2>1, <2>2, <2>3, <2>5
  <2> QED
    BY <2>3, <2>5, <2>6
<1>10. /\ x \in 0..n /\ y \in 0..n /\ x <= y
       /\ (x = n <=> d = 0) /\ (y = n <=> e = 0)
  <2>1. AreShares(n, d, e, x, y)
    BY <1>4, <1>6, <1>b, Shares
  <2> QED
    BY <2>1 DEF AreShares
<1>11. IsMean(s.overall, n, x, y)
  BY <1>4, <1>9, <1>10, Mean
<1>12. (s.overall[1] = s.overall[2]) <=> d = 0
  <2>1. d = 0 => e = 0
    BY <1>4, <1>6
  <2>2. s.overall[1] = s.overall[2] <=> x = n /\ y = n
    BY <1>11 DEF IsMean
  <2> QED
    BY <1>10, <2>1, <2>2
<1>13. d = 0 <=> ref = hyp
  BY <1>2, <1>a, NoneWrong
<1>14. s.accuracy[1] * s.completeness[2] <= s.completeness[1] * s.accuracy[2]
  <2>1. x * n <= y * n
    BY <1>4, <1>10
  <2> QED
    BY <1>9, <2>1
<1> QED
  BY <1>12, <1>13, <1>14, <1>a

-----------------------------------------------------------------------------
(* The result page.                                                         *)

IsDivided(a, b, q, s) == a = b * q + s /\ 0 <= s /\ s < b /\ q \in Nat /\ s \in Nat

LEMMA Division ==
  ASSUME NEW a \in Nat, NEW b \in Nat, b # 0
  PROVE  IsDivided(a, b, a \div b, a % b)
BY DEF IsDivided

\* The percentage of a share, as the code rounds it, is at most half a point off.
LEMMA Rounded ==
  ASSUME NEW a \in Nat, NEW b \in Nat, b # 0
  PROVE  /\ ToScoreOutOf100(<<a, b>>) \in Int
         /\ 200 * a - b <= 2 * b * ToScoreOutOf100(<<a, b>>)
         /\ 2 * b * ToScoreOutOf100(<<a, b>>) <= 200 * a + b
<1>a. PICK q, s : q = (200 * a + b) \div (2 * b) /\ s = (200 * a + b) % (2 * b)
  OBVIOUS
<1>b. PICK t, u : t = (200 * a) \div (2 * b) /\ u = (200 * a) % (2 * b)
  OBVIOUS
<1>1. 2 * b \in Nat /\ 2 * b # 0 /\ 200 * a + b \in Nat /\ 200 * a \in Nat
  OBVIOUS
<1>2. 200 * a + b = (2 * b) * q + s /\ 0 <= s /\ s < 2 * b /\ q \in Int /\ s \in Int
  <2>1. IsDivided(200 * a + b, 2 * b, q, s)
    BY <1>1, <1>a, Division
  <2> QED
    BY <2>1 DEF IsDivided
<1>3. 200 * a = (2 * b) * t + u /\ 0 <= u /\ u < 2 * b /\ t \in Int /\ u \in Int
  <2>1. IsDivided(200 * a, 2 * b, t, u)
    BY <1>1, <1>b, Division
  <2> QED
    BY <2>1 DEF IsDivided
<1>4. ToScoreOutOf100(<<a, b>>) = q \/ (u = b /\ ToScoreOutOf100(<<a, b>>) = q - 1)
  <2>a. PICK p, k : p = <<a, b>> /\ k = (1000 * a) \div b
    OBVIOUS
  <2>1. p[1] = a /\ p[2] = b
    BY <2>a
  <2>2. ToScoreOutOf100(p) = q - (IF u = b /\ k \in BelowHalf THEN 1 ELSE 0)
    BY <2>1, <2>a, <1>a, <1>b DEF ToScoreOutOf100
  <2> QED
    BY <1>2, <2>2, <2>a
<1>5. (2 * b) * q <= 200 * a + b /\ 200 * a - b <= (2 * b) * q
  <2>a. PICK w : w = (2 * b) * q
    OBVIOUS
  <2>1. w \in Int
    BY <1>1, <1>2, <2>a
  <2>2. 200 * a + b = w + s
    BY <1>2, <2>a
  <2> QED
    BY <1>2, <2>1, <2>2, <2>a
<1>6. ASSUME u = b PROVE (2 * b) * (q - 1) = 200 * a - b
  <2>1. 200 * a + b = (2 * b) * (t + 1)
    <3>1. (2 * b) * (t + 1) = (2 * b) * t + 2 * b
      BY <1>3
    <3> QED
      BY <1>3, <1>6, <3>1
  <2>2. q = t + 1
    <3>a. PICK z : z = q - (t + 1)
      OBVIOUS
    <3>1. z \in Int /\ q = z + (t + 1)
      BY <1>2, <1>3, <3>a
    <3>2. (2 * b) * q = (2 * b) * z + (2 * b) * (t + 1)
      BY <1>3, <3>1
    <3>3. (2 * b) * z + s = 0
      BY <1>2, <1>3, <2>1, <3>1, <3>2
    <3>4. z = 0
      <4>1. z >= 1 => (2 * b) * z >= 2 * b
        BY <3>1
      <4>2. z <= -1 => (2 * b) * z <= -(2 * b)
        BY <3>1
      <4>b. PICK w : w = (2 * b) * z
        OBVIOUS
      <4>3. w \in Int
        BY <3>1, <4>b
      <4> QED
        BY <1>2, <3>1, <3>3, <4>1, <4>2, <4>3, <4>b
    <3> QED
      BY <1>2, <1>3, <3>1, <3>4
  <2>3. q - 1 = t
    BY <1>3, <2>2
  <2> QED
    BY <1>3, <1>6, <2>3
<1>7. CASE u = b /\ ToScoreOutOf100(<<a, b>>) = q - 1
  <2>1. ToScoreOutOf100(<<a, b>>) = q - 1 /\ u = b
    BY <1>7
  <2>2. (2 * b) * (q - 1) = 200 * a - b /\ q - 1 \in Int
    BY <1>2, <1>6, <2>1
  <2>3. 2 * b * (q - 1) = (2 * b) * (q - 1)
    BY <2>2
  <2> QED
    BY <2>1, <2>2, <2>3
<1>8. CASE ToScoreOutOf100(<<a, b>>) = q
  <2>1. ToScoreOutOf100(<<a, b>>) = q
    BY <1>8
  <2>2. 2 * b * q = (2 * b) * q
    BY <1>2
  <2> QED
    BY <1>2, <1>5, <2>1, <2>2
<1> QED
  BY <1>4, <1>7, <1>8

\* So are the thousandths of the database.
LEMMA StoredIs ==
  ASSUME NEW a \in Nat, NEW b \in Nat, b # 0
  PROVE  \E t \in Nat : /\ Stored(<<a, b>>) = <<t, 1000>>
                        /\ 2000 * a - b <= (2 * b) * t /\ (2 * b) * t <= 2000 * a + b
<1>a. PICK q, s : q = (2000 * a + b) \div (2 * b) /\ s = (2000 * a + b) % (2 * b)
  OBVIOUS
<1>1. 2 * b \in Nat /\ 2 * b # 0 /\ 2000 * a + b \in Nat
  OBVIOUS
<1>2. 2000 * a + b = (2 * b) * q + s /\ 0 <= s /\ s < 2 * b /\ q \in Nat /\ s \in Int
  <2>1. IsDivided(2000 * a + b, 2 * b, q, s)
    BY <1>1, <1>a, Division
  <2> QED
    BY <2>1 DEF IsDivided
<1>3. Stored(<<a, b>>) = <<q, 1000>>
  BY <1>a DEF Stored
<1>b. PICK w : w = (2 * b) * q
  OBVIOUS
<1>4. w \in Int
  BY <1>2, <1>b
<1>5. 2000 * a - b <= w /\ w <= 2000 * a + b
  BY <1>2, <1>4, <1>b
<1> QED
  BY <1>2, <1>3, <1>5, <1>b

LEMMA Cancel ==
  ASSUME NEW x \in Int, NEW y \in Int, NEW n \in Nat, n # 0, x * n <= y * n
  PROVE  x <= y
OBVIOUS

\* The dial is near the share z of 2n, and so is the personal best.
IsNear(n, z, points, other) ==
  /\ 20 * (n * points) <= 1000 * z + 11 * n
  /\ 1000 * z - 11 * n <= 20 * (n * points)
  /\ points <= other + 1

\* What rounding z / 2n to t thousandths and to other points, and t thousandths
\* to points, says of the three.
IsRounded(n, z, t, points, other) ==
  /\ 2000 * (z * n) - 2 * n * n <= (2 * (2 * n * n)) * t
  /\ (2 * (2 * n * n)) * t <= 2000 * (z * n) + 2 * n * n
  /\ 200 * t - 1000 <= 2 * 1000 * points
  /\ 2 * 1000 * points <= 200 * t + 1000
  /\ 200 * (z * n) - 2 * n * n <= 2 * (2 * n * n) * other

LEMMA Near ==
  ASSUME NEW n \in Nat, n # 0, NEW z \in Nat, NEW t \in Nat, NEW points \in Int, NEW other \in Int,
         IsRounded(n, z, t, points, other)
  PROVE  IsNear(n, z, points, other)
<1> USE DEF IsRounded
<1>a. PICK u, v, w : u = n * t /\ v = n * points /\ w = n * other
  OBVIOUS
<1>1. u \in Int /\ v \in Int /\ w \in Int
  BY <1>a
<1>2. 2000 * z - 2 * n <= 4 * u
  <2>1. (2000 * z - 2 * n) * n = 2000 * (z * n) - 2 * n * n /\ (4 * u) * n = (2 * (2 * n * n)) * t
    BY <1>a
  <2>2. 2000 * z - 2 * n \in Int /\ 4 * u \in Int
    BY <1>1
  <2>3. (2000 * z - 2 * n) * n <= (4 * u) * n
    BY <2>1
  <2> QED
    BY <2>2, <2>3, Cancel
<1>3. 4 * u <= 2000 * z + 2 * n
  <2>1. (2000 * z + 2 * n) * n = 2000 * (z * n) + 2 * n * n /\ (4 * u) * n = (2 * (2 * n * n)) * t
    BY <1>a
  <2>2. 2000 * z + 2 * n \in Int /\ 4 * u \in Int
    BY <1>1
  <2>3. (4 * u) * n <= (2000 * z + 2 * n) * n
    BY <2>1
  <2> QED
    BY <2>2, <2>3, Cancel
<1>4. 200 * z - 2 * n <= 4 * w
  <2>1. (200 * z - 2 * n) * n = 200 * (z * n) - 2 * n * n /\ (4 * w) * n = 2 * (2 * n * n) * other
    BY <1>a
  <2>2. 200 * z - 2 * n \in Int /\ 4 * w \in Int
    BY <1>1
  <2>3. (200 * z - 2 * n) * n <= (4 * w) * n
    BY <2>1
  <2> QED
    BY <2>2, <2>3, Cancel
<1>5. 200 * u - 1000 * n <= 2000 * v /\ 2000 * v <= 200 * u + 1000 * n
  <2>1. n * (200 * t - 1000) <= n * (2 * 1000 * points) /\ n * (2 * 1000 * points) <= n * (200 * t + 1000)
    OBVIOUS
  <2>2. /\ n * (200 * t - 1000) = 200 * u - 1000 * n
        /\ n * (2 * 1000 * points) = 2000 * v
        /\ n * (200 * t + 1000) = 200 * u + 1000 * n
    BY <1>a
  <2> QED
    BY <2>1, <2>2
<1>6. 20 * v <= 1000 * z + 11 * n /\ 1000 * z - 11 * n <= 20 * v
  BY <1>1, <1>2, <1>3, <1>5
<1>7. points <= other + 1
  <2>1. 20 * v <= 20 * w + 21 * n
    BY <1>1, <1>4, <1>6
  <2> SUFFICES ASSUME points >= other + 2 PROVE FALSE
    OBVIOUS
  <2>2. n * points >= n * (other + 2) /\ n * (other + 2) = w + 2 * n
    BY <1>a
  <2> QED
    BY <1>1, <1>a, <2>1, <2>2
<1> QED
  BY <1>6, <1>7, <1>a DEF IsNear

LEMMA Between ==
  ASSUME NEW k \in Nat, NEW l \in Nat
  PROVE  IsFiniteSet((k + 1)..(k + l)) /\ Cardinality((k + 1)..(k + l)) = l
<1>1. IsFiniteSet((k + 1)..(k + l)) /\ Cardinality((k + 1)..(k + l)) = IF k + 1 > k + l THEN 0 ELSE (k + l) - (k + 1) + 1
  BY FS_Interval
<1> QED
  BY <1>1

\* The rows of a recital, kind by kind.
AreRows(rows, m, s, d, i) ==
  /\ DOMAIN rows = 1..(m + s + d + i) /\ Len(rows) = m + s + d + i
  /\ \A k \in 1..m : rows[k] = WordRow(<<"w">>, <<"w">>, "match")
  /\ \A k \in (m + 1)..(m + s) : rows[k] = WordRow(<<"w">>, <<"v">>, "substitute")
  /\ \A k \in (m + s + 1)..(m + s + d) : rows[k] = WordRow(<<"w">>, <<>>, "delete")
  /\ \A k \in (m + s + d + 1)..(m + s + d + i) : rows[k] = WordRow(<<>>, <<"v">>, "insert")

IsConcat(both, T, a, b, k, l) ==
  /\ both \in Seq(T) /\ Len(both) = k + l
  /\ \A n \in 1..(k + l) : both[n] = IF n <= k THEN a[n] ELSE b[n - k]

LEMMA Concat ==
  ASSUME NEW T, NEW a \in Seq(T), NEW b \in Seq(T)
  PROVE  IsConcat(a \o b, T, a, b, Len(a), Len(b))
BY ConcatProperties DEF IsConcat

LEMMA RowsOfAre ==
  ASSUME NEW r, NEW m \in Nat, NEW s \in Nat, NEW d \in Nat, NEW i \in Nat,
         r.match = m, r.substitute = s, r.delete = d, r.insert = i
  PROVE  AreRows(RowsOf(r), m, s, d, i)
<1>a. PICK x, y, z, u : /\ x = WordRow(<<"w">>, <<"w">>, "match") /\ y = WordRow(<<"w">>, <<"v">>, "substitute")
                        /\ z = WordRow(<<"w">>, <<>>, "delete") /\ u = WordRow(<<>>, <<"v">>, "insert")
  OBVIOUS
<1>b. PICK A, B, C, E, T : /\ A = [k \in 1..m |-> x] /\ B = [k \in 1..s |-> y]
                           /\ C = [k \in 1..d |-> z] /\ E = [k \in 1..i |-> u]
                           /\ T = {x, y, z, u}
  OBVIOUS
<1>1. RowsOf(r) = A \o B \o C \o E
  BY <1>a, <1>b DEF RowsOf
<1>2. /\ A \in Seq(T) /\ Len(A) = m /\ \A k \in 1..m : A[k] = x
      /\ B \in Seq(T) /\ Len(B) = s /\ \A k \in 1..s : B[k] = y
      /\ C \in Seq(T) /\ Len(C) = d /\ \A k \in 1..d : C[k] = z
      /\ E \in Seq(T) /\ Len(E) = i /\ \A k \in 1..i : E[k] = u
  <2>1. ASSUME NEW l \in Nat, NEW v \in T, NEW S, S = [k \in 1..l |-> v]
        PROVE  S \in Seq(T) /\ Len(S) = l /\ \A k \in 1..l : S[k] = v
    <3>1. S \in Seq(T)
      BY <2>1, IsASeq
    <3> QED
      BY <2>1, <3>1
  <2>2. x \in T /\ y \in T /\ z \in T /\ u \in T
    BY <1>b
  <2> QED
    BY <1>b, <2>1, <2>2
<1>c. PICK F, G, H : F = A \o B /\ G = F \o C /\ H = G \o E
  OBVIOUS
<1>3. /\ F \in Seq(T) /\ Len(F) = m + s
      /\ \A k \in 1..(m + s) : F[k] = IF k <= m THEN A[k] ELSE B[k - m]
  <2>1. IsConcat(F, T, A, B, m, s)
    BY <1>2, <1>c, Concat
  <2> QED
    BY <2>1 DEF IsConcat
<1>4. /\ G \in Seq(T) /\ Len(G) = m + s + d
      /\ \A k \in 1..(m + s + d) : G[k] = IF k <= m + s THEN F[k] ELSE C[k - (m + s)]
  <2>1. IsConcat(G, T, F, C, m + s, d)
    BY <1>2, <1>3, <1>c, Concat
  <2> QED
    BY <2>1 DEF IsConcat
<1>5. /\ H \in Seq(T) /\ Len(H) = m + s + d + i
      /\ \A k \in 1..(m + s + d + i) : H[k] = IF k <= m + s + d THEN G[k] ELSE E[k - (m + s + d)]
  <2>1. IsConcat(H, T, G, E, m + s + d, i)
    BY <1>2, <1>4, <1>c, Concat
  <2> QED
    BY <2>1 DEF IsConcat
<1>6. DOMAIN H = 1..(m + s + d + i)
  BY <1>5, LenProperties
<1>7. \A k \in 1..m : H[k] = x
  <2> SUFFICES ASSUME NEW k \in 1..m PROVE H[k] = x
    OBVIOUS
  <2>1. k \in 1..(m + s + d + i) /\ k \in 1..(m + s + d) /\ k \in 1..(m + s) /\ k <= m /\ k <= m + s /\ k <= m + s + d
    OBVIOUS
  <2> QED
    BY <1>2, <1>3, <1>4, <1>5, <2>1
<1>8. \A k \in (m + 1)..(m + s) : H[k] = y
  <2> SUFFICES ASSUME NEW k \in (m + 1)..(m + s) PROVE H[k] = y
    OBVIOUS
  <2>1. /\ k \in 1..(m + s + d + i) /\ k \in 1..(m + s + d) /\ k \in 1..(m + s)
        /\ ~(k <= m) /\ k <= m + s /\ k <= m + s + d /\ k - m \in 1..s
    OBVIOUS
  <2> QED
    BY <1>2, <1>3, <1>4, <1>5, <2>1
<1>9. \A k \in (m + s + 1)..(m + s + d) : H[k] = z
  <2> SUFFICES ASSUME NEW k \in (m + s + 1)..(m + s + d) PROVE H[k] = z
    OBVIOUS
  <2>1. /\ k \in 1..(m + s + d + i) /\ k \in 1..(m + s + d)
        /\ ~(k <= m + s) /\ k <= m + s + d /\ k - (m + s) \in 1..d
    OBVIOUS
  <2> QED
    BY <1>2, <1>4, <1>5, <2>1
<1>10. \A k \in (m + s + d + 1)..(m + s + d + i) : H[k] = u
  <2> SUFFICES ASSUME NEW k \in (m + s + d + 1)..(m + s + d + i) PROVE H[k] = u
    OBVIOUS
  <2>1. k \in 1..(m + s + d + i) /\ ~(k <= m + s + d) /\ k - (m + s + d) \in 1..i
    OBVIOUS
  <2> QED
    BY <1>2, <1>5, <2>1
<1>11. RowsOf(r) = H
  BY <1>1, <1>c
<1> QED
  BY <1>5, <1>6, <1>7, <1>8, <1>9, <1>10, <1>11, <1>a DEF AreRows

AreCounts(rows, m, s, d) ==
  /\ Cardinality({k \in DOMAIN rows : rows[k].refWord # <<>>}) = m + s + d
  /\ Cardinality({k \in DOMAIN rows : rows[k].op = "delete"}) = d
  /\ Cardinality({k \in DOMAIN rows : rows[k].op = "match"}) = m

LEMMA RowCounts ==
  ASSUME NEW rows, NEW m \in Nat, NEW s \in Nat, NEW d \in Nat, NEW i \in Nat, AreRows(rows, m, s, d, i)
  PROVE  AreCounts(rows, m, s, d)
<1>1. \A k \in DOMAIN rows : \/ k \in 1..m \/ k \in (m + 1)..(m + s)
                            \/ k \in (m + s + 1)..(m + s + d) \/ k \in (m + s + d + 1)..(m + s + d + i)
  BY DEF AreRows
<1>2. /\ \A k \in 1..m : rows[k].refWord # <<>> /\ rows[k].op = "match"
      /\ \A k \in (m + 1)..(m + s) : rows[k].refWord # <<>> /\ rows[k].op = "substitute"
      /\ \A k \in (m + s + 1)..(m + s + d) : rows[k].refWord # <<>> /\ rows[k].op = "delete"
      /\ \A k \in (m + s + d + 1)..(m + s + d + i) : rows[k].refWord = <<>> /\ rows[k].op = "insert"
  <2>1. /\ WordRow(<<"w">>, <<"w">>, "match").refWord # <<>> /\ WordRow(<<"w">>, <<"w">>, "match").op = "match"
        /\ WordRow(<<"w">>, <<"v">>, "substitute").refWord # <<>>
        /\ WordRow(<<"w">>, <<"v">>, "substitute").op = "substitute"
        /\ WordRow(<<>>, <<"v">>, "insert").refWord = <<>> /\ WordRow(<<>>, <<"v">>, "insert").op = "insert"
        /\ WordRow(<<"w">>, <<>>, "delete").refWord # <<>> /\ WordRow(<<"w">>, <<>>, "delete").op = "delete"
    BY DEF WordRow
  <2> QED
    BY <2>1 DEF AreRows
<1>3. /\ \A k \in 1..m : k \in DOMAIN rows
      /\ \A k \in (m + 1)..(m + s) : k \in DOMAIN rows
      /\ \A k \in (m + s + 1)..(m + s + d) : k \in DOMAIN rows
  BY DEF AreRows
<1>4. {k \in DOMAIN rows : rows[k].op = "match"} = 1..m
  BY <1>1, <1>2, <1>3
<1>5. {k \in DOMAIN rows : rows[k].op = "delete"} = (m + s + 1)..(m + s + d)
  BY <1>1, <1>2, <1>3
<1>6. {k \in DOMAIN rows : rows[k].refWord # <<>>} = 1..(m + s + d)
  <2>1. \A k \in 1..(m + s + d) : k \in 1..m \/ k \in (m + 1)..(m + s) \/ k \in (m + s + 1)..(m + s + d)
    OBVIOUS
  <2>2. /\ \A k \in 1..m : k \in 1..(m + s + d)
        /\ \A k \in (m + 1)..(m + s) : k \in 1..(m + s + d)
        /\ \A k \in (m + s + 1)..(m + s + d) : k \in 1..(m + s + d)
    OBVIOUS
  <2> QED
    BY <1>1, <1>2, <1>3, <2>1, <2>2
<1>7. Cardinality(1..m) = m /\ Cardinality(1..(m + s + d)) = m + s + d
  <2>1. \A l \in Nat : Cardinality(1..l) = l
    <3> SUFFICES ASSUME NEW l \in Nat PROVE Cardinality(1..l) = l
      OBVIOUS
    <3>1. Cardinality((0 + 1)..(0 + l)) = l /\ 0 + 1 = 1 /\ 0 + l = l
      BY Between
    <3> QED
      BY <3>1
  <2>2. m + s + d \in Nat
    OBVIOUS
  <2> QED
    BY <2>1, <2>2
<1>8. Cardinality((m + s + 1)..(m + s + d)) = d
  <2>1. m + s \in Nat
    OBVIOUS
  <2> QED
    BY <2>1, Between
<1> QED
  BY <1>4, <1>5, <1>6, <1>7, <1>8 DEF AreCounts

\* The score of a recital of n words, w of them wrong, d of them left out.
RecitalScore(score, n, w, d, x, z) ==
  /\ score.accuracy = <<x, n>> /\ score.completeness = <<n - d, n>>
  /\ score.overall = <<z * n, 2 * n * n>>
  /\ x \in 0..n /\ z = x + (n - d) /\ z \in Nat /\ z <= 2 * n /\ (w <= n => x = n - w)

LEMMA ScoreOfIs ==
  ASSUME NEW r, NEW m \in Nat, NEW s \in Nat, NEW d \in Nat, NEW i \in Nat,
         r.match = m, r.substitute = s, r.delete = d, r.insert = i,
         NEW n, n = m + s + d, n # 0, NEW w, w = s + d + i
  PROVE  \E x, z : RecitalScore(ScoreOf(r), n, w, d, x, z)
<1>1. AreRows(RowsOf(r), m, s, d, i)
  BY RowsOfAre
<1>a. PICK rows : rows = RowsOf(r)
  OBVIOUS
<1>2. CountRows(rows, LAMBDA q : q.refWord # <<>>) = n /\ CountRows(rows, LAMBDA q : q.op = "delete") = d
  <2>1. AreCounts(rows, m, s, d)
    BY <1>1, <1>a, RowCounts
  <2> QED
    BY <2>1 DEF AreCounts, CountRows
<1>3. WrongIn(r) = w /\ WordsOf(r) = n
  BY DEF WrongIn, WordsOf
<1>4. n \in Nat /\ w \in Nat /\ d <= n
  OBVIOUS
<1>b. PICK x, y, z : x = Clamp(n - w, n)[1] /\ y = n - d /\ z = x + y
  OBVIOUS
<1>5. x \in 0..n /\ (w <= n => x = n - w) /\ Clamp(n - w, n) = <<x, n>>
  BY <1>4, <1>b DEF Clamp
<1>6. y \in 0..n /\ Clamp(n - d, n) = <<y, n>>
  BY <1>4, <1>b DEF Clamp
<1>7. AtLeastOne(n) = n
  BY <1>4 DEF AtLeastOne
<1>c. PICK score : score = ScoreOf(r)
  OBVIOUS
<1>8. score = ScorePronunciation(rows, <<>>, <<w, n>>)
  BY <1>3, <1>a, <1>c DEF ScoreOf
<1>9. /\ score.accuracy = <<x, n>> /\ score.completeness = <<y, n>>
      /\ score.overall = Clamp(x * n + y * n, 2 * n * n)
  <2>1. <<w, n>>[1] = w /\ <<w, n>>[2] = n /\ <<x, n>>[1] = x /\ <<x, n>>[2] = n /\ <<y, n>>[1] = y /\ <<y, n>>[2] = n
    OBVIOUS
  <2>2. /\ score.accuracy = Clamp(<<w, n>>[2] - <<w, n>>[1], <<w, n>>[2])
        /\ score.completeness = Clamp(n - d, AtLeastOne(n))
        /\ score.overall = Clamp(score.accuracy[1] * score.completeness[2] + score.completeness[1] * score.accuracy[2],
                                 2 * score.accuracy[2] * score.completeness[2])
    BY <1>2, <1>8 DEF ScorePronunciation
  <2>3. score.accuracy = <<x, n>> /\ score.completeness = <<y, n>>
    BY <1>5, <1>6, <1>7, <2>1, <2>2
  <2> QED
    BY <2>1, <2>2, <2>3
<1>10. score.overall = <<z * n, 2 * n * n>> /\ z \in Nat /\ z <= 2 * n
  <2>1. IsMean(score.overall, n, x, y)
    BY <1>4, <1>5, <1>6, <1>9, Mean
  <2>2. x * n + y * n = z * n
    BY <1>4, <1>5, <1>6, <1>b
  <2>3. z \in Nat /\ z <= 2 * n
    BY <1>4, <1>5, <1>6, <1>b
  <2> QED
    BY <2>1, <2>2, <2>3 DEF IsMean
<1>11. RecitalScore(score, n, w, d, x, z)
  BY <1>5, <1>9, <1>10, <1>b DEF RecitalScore
<1> QED
  BY <1>11, <1>c

LEMMA MaxOfTwo ==
  ASSUME NEW x \in Int, NEW y \in Int
  PROVE  Max({x, y}) = IF x >= y THEN x ELSE y
<1>1. Max({x, y}) = CHOOSE u \in {x, y} : \A v \in {x, y} : u >= v
  BY DEF Max
<1>2. \E u \in {x, y} : \A v \in {x, y} : u >= v
  OBVIOUS
<1>a. PICK u : u = Max({x, y})
  OBVIOUS
<1>3. u \in {x, y} /\ \A v \in {x, y} : u >= v
  BY <1>1, <1>2, <1>a
<1> QED
  BY <1>3, <1>a

LEMMA MinOfTwo ==
  ASSUME NEW x \in Int, NEW y \in Int
  PROVE  Min({x, y}) = IF x <= y THEN x ELSE y
<1>1. Min({x, y}) = CHOOSE u \in {x, y} : \A v \in {x, y} : v >= u
  BY DEF Min
<1>2. \E u \in {x, y} : \A v \in {x, y} : v >= u
  OBVIOUS
<1>a. PICK u : u = Min({x, y})
  OBVIOUS
<1>3. u \in {x, y} /\ \A v \in {x, y} : v >= u
  BY <1>1, <1>2, <1>a
<1> QED
  BY <1>3, <1>a

\* The row is of the job last scored; the best score is at least what that job's
\* answer was worth; and the page, if it is open, shows the row.
OfRecital(recital) ==
  /\ row = [score |-> Stored(ScoreOf(recital).overall), evaluation |-> Evaluation(recital)]
  /\ ToScoreOutOf100(ScoreOf(recital).overall) <= best
  /\ \/ page = NoJob
     \/ page = ResultDetail(MapEvaluationToFeedback(row.evaluation, row.score), row.score)

PageInv ==
  /\ best \in Nat
  /\ \/ row = NoJob /\ page = NoJob
     \/ \E recital \in Recitals : OfRecital(recital)

\* The numbers of a recital.
LEMMA RecitalIs ==
  ASSUME NEW recital \in Recitals
  PROVE  \E m, s, d, i \in Nat :
           /\ recital.match = m /\ recital.substitute = s /\ recital.delete = d /\ recital.insert = i
           /\ m + s + d # 0
BY ResultPageConstants

LEMMA ScoreOfRecital ==
  ASSUME NEW recital \in Recitals
  PROVE  \E a, b \in Nat : b # 0 /\ ScoreOf(recital).overall = <<a, b>>
<1>1. PICK m, s, d, i \in Nat :
        /\ recital.match = m /\ recital.substitute = s /\ recital.delete = d /\ recital.insert = i
        /\ m + s + d # 0
  BY RecitalIs
<1>a. PICK n, w : n = m + s + d /\ w = s + d + i
  OBVIOUS
<1>2. n # 0 /\ n \in Nat
  BY <1>1, <1>a
<1>3. PICK x, z : RecitalScore(ScoreOf(recital), n, w, d, x, z)
  BY <1>1, <1>2, <1>a, ScoreOfIs
<1>4. ScoreOf(recital).overall = <<z * n, 2 * n * n>> /\ z \in Nat
  BY <1>3 DEF RecitalScore
<1>5. z * n \in Nat /\ 2 * n * n \in Nat /\ 2 * n * n # 0
  BY <1>2, <1>4
<1> QED
  BY <1>4, <1>5

LEMMA PageStarts == InitPage => PageInv
BY DEF InitPage, PageInv

LEMMA PageSteps == PageInv /\ [NextPage]_pageVars => PageInv'
<1> SUFFICES ASSUME PageInv, [NextPage]_pageVars PROVE PageInv'
  OBVIOUS
<1>1. ASSUME NEW recital \in Recitals, ScoreJob(recital) PROVE PageInv'
  <2>1. PICK a, b \in Nat : b # 0 /\ ScoreOf(recital).overall = <<a, b>>
    BY ScoreOfRecital
  <2>2. ToScoreOutOf100(ScoreOf(recital).overall) \in Int /\ best \in Nat
    BY <2>1, Rounded DEF PageInv
  <2>3. /\ row' = [score |-> Stored(ScoreOf(recital).overall), evaluation |-> Evaluation(recital)]
        /\ best' = Max({best, ToScoreOutOf100(ScoreOf(recital).overall)})
        /\ page' = NoJob
    BY <1>1 DEF ScoreJob
  <2>4. best' \in Nat /\ ToScoreOutOf100(ScoreOf(recital).overall) <= best'
    BY <2>2, <2>3, MaxOfTwo
  <2>5. OfRecital(recital)'
    BY <2>3, <2>4 DEF OfRecital
  <2> QED
    BY <2>4, <2>5 DEF PageInv
<1>2. CASE ShowResult
  <2>1. /\ row # NoJob /\ row' = row /\ best' = best
        /\ page' = ResultDetail(MapEvaluationToFeedback(row.evaluation, row.score), row.score)
    BY <1>2 DEF ShowResult
  <2>2. PICK recital \in Recitals : OfRecital(recital)
    BY <2>1 DEF PageInv
  <2>3. ResultDetail(MapEvaluationToFeedback(row.evaluation, row.score), row.score)'
          = ResultDetail(MapEvaluationToFeedback(row.evaluation, row.score), row.score)
    BY <2>1 DEF ResultDetail, SideStats
  <2>4. OfRecital(recital)'
    BY <2>1, <2>2, <2>3 DEF OfRecital
  <2> QED
    BY <2>1, <2>4 DEF PageInv
<1>3. CASE UNCHANGED pageVars
  <2>1. row' = row /\ best' = best /\ page' = page
    BY <1>3 DEF pageVars
  <2>2. ResultDetail(MapEvaluationToFeedback(row.evaluation, row.score), row.score)'
          = ResultDetail(MapEvaluationToFeedback(row.evaluation, row.score), row.score)
    BY <2>1 DEF ResultDetail, SideStats
  <2>3. ASSUME NEW recital \in Recitals, OfRecital(recital) PROVE OfRecital(recital)'
    BY <2>1, <2>2, <2>3 DEF OfRecital
  <2> QED
    BY <2>1, <2>3 DEF PageInv
<1> QED
  BY <1>1, <1>2, <1>3 DEF NextPage

\* What the tiles show of the rows.
LEMMA TilesShow ==
  ASSUME NEW recital, NEW m \in Nat, NEW s \in Nat, NEW d \in Nat, NEW i \in Nat,
         recital.match = m, recital.substitute = s, recital.delete = d, recital.insert = i,
         page.tiles = Tiles(MapEvaluationToFeedback(Evaluation(recital), Stored(ScoreOf(recital).overall)).wordAlignments)
  PROVE  Expected(page) = m + s + d /\ Missing(page) = d /\ Wrong(page) = s + d + i
<1>a. PICK rows, tiles : rows = RowsOf(recital) /\ tiles = page.tiles
  OBVIOUS
<1>1. AreRows(rows, m, s, d, i)
  BY <1>a, RowsOfAre
<1>2. AreCounts(rows, m, s, d)
  BY <1>1, RowCounts
<1>b. PICK words : words = [k \in DOMAIN rows |-> [refWord |-> WordOrNull(rows[k].refWord),
                                                  hypWord |-> WordOrNull(rows[k].hypWord),
                                                  op      |-> rows[k].op]]
  OBVIOUS
<1>3. tiles = Tiles(words)
  <2>1. Evaluation(recital).alignments = rows
    BY <1>a DEF Evaluation
  <2> QED
    BY <1>a, <1>b, <2>1 DEF MapEvaluationToFeedback
<1>4. DOMAIN tiles = DOMAIN rows
  BY <1>3, <1>b DEF Tiles
<1>5. ASSUME NEW k \in DOMAIN rows
      PROVE  /\ tiles[k].expected = WordOrNull(rows[k].refWord)
             /\ tiles[k].category = CategoryFor(rows[k].op)
  BY <1>3, <1>b DEF Tiles
<1>6. ASSUME NEW k \in DOMAIN rows
      PROVE  /\ rows[k].refWord \in {<<"w">>, <<>>}
             /\ rows[k].op \in {"match", "substitute", "delete", "insert"}
  <2>1. \/ k \in 1..m \/ k \in (m + 1)..(m + s)
        \/ k \in (m + s + 1)..(m + s + d) \/ k \in (m + s + d + 1)..(m + s + d + i)
    BY <1>1 DEF AreRows
  <2>2. \/ rows[k] = WordRow(<<"w">>, <<"w">>, "match") \/ rows[k] = WordRow(<<"w">>, <<"v">>, "substitute")
        \/ rows[k] = WordRow(<<"w">>, <<>>, "delete") \/ rows[k] = WordRow(<<>>, <<"v">>, "insert")
    BY <1>1, <2>1 DEF AreRows
  <2> QED
    BY <2>2 DEF WordRow
<1>7. {k \in DOMAIN tiles : tiles[k].expected # Null} = {k \in DOMAIN rows : rows[k].refWord # <<>>}
  <2>1. <<"w">> # Null /\ <<"w">> # <<>>
    BY DEF Null
  <2>2. \A x \in {<<"w">>, <<>>} : WordOrNull(x) # Null <=> x # <<>>
    BY <2>1 DEF WordOrNull
  <2> QED
    BY <1>4, <1>5, <1>6, <2>2
<1>8. \A op \in {"match", "substitute", "delete", "insert"} :
        (CategoryFor(op) = "missing" <=> op = "delete") /\ (CategoryFor(op) = "match" <=> op = "match")
  BY DEF CategoryFor
<1>9. /\ {k \in DOMAIN tiles : tiles[k].category = "missing"} = {k \in DOMAIN rows : rows[k].op = "delete"}
      /\ {k \in DOMAIN tiles : tiles[k].category = "match"} = {k \in DOMAIN rows : rows[k].op = "match"}
  BY <1>4, <1>5, <1>6, <1>8
<1>10. Len(tiles) = m + s + d + i
  <2>1. tiles = [k \in 1..(m + s + d + i) |-> tiles[k]]
    <3>1. DOMAIN rows = 1..(m + s + d + i)
      BY <1>1 DEF AreRows
    <3>2. tiles = [k \in DOMAIN words |-> [expected |-> words[k].refWord, heard |-> words[k].hypWord,
                                           category |-> CategoryFor(words[k].op)]]
      BY <1>3 DEF Tiles
    <3>3. DOMAIN words = DOMAIN rows
      BY <1>b
    <3> QED
      BY <3>1, <3>2, <3>3
  <2>2. m + s + d + i \in Nat
    OBVIOUS
  <2> QED
    BY <2>1, <2>2
<1>11. Expected(page) = m + s + d
  BY <1>2, <1>7, <1>a DEF Expected, AreCounts
<1>12. Missing(page) = d /\ CountTiles(page, "match") = m
  BY <1>2, <1>9, <1>a DEF Missing, CountTiles, AreCounts
<1>13. Wrong(page) = s + d + i
  BY <1>10, <1>12, <1>a DEF Wrong
<1> QED
  BY <1>11, <1>12, <1>13

LEMMA DialIs ==
  ASSUME NEW points \in Int
  PROVE  /\ ScoreDial(points) \in 0..100
         /\ \/ ScoreDial(points) = points
            \/ points < 0 /\ ScoreDial(points) = 0
            \/ points > 100 /\ ScoreDial(points) = 100
<1>1. Min({100, points}) = IF 100 <= points THEN 100 ELSE points
  BY MinOfTwo
<1>a. PICK x : x = Min({100, points})
  OBVIOUS
<1>2. x \in Int
  BY <1>1, <1>a
<1>3. ScoreDial(points) = IF 0 >= x THEN 0 ELSE x
  BY <1>2, <1>a, MaxOfTwo DEF ScoreDial
<1> QED
  BY <1>1, <1>3, <1>a

LEMMA PageIsTrue ==
  ASSUME PageInv
  PROVE  PageAgrees
<1> SUFFICES ASSUME page # NoJob PROVE PageAgrees
  BY DEF PageAgrees
<1>1. PICK recital \in Recitals : OfRecital(recital)
  BY DEF PageInv
<1>2. PICK m, s, d, i \in Nat :
        /\ recital.match = m /\ recital.substitute = s /\ recital.delete = d /\ recital.insert = i
        /\ m + s + d # 0
  BY RecitalIs
<1>a. PICK n, w : n = m + s + d /\ w = s + d + i
  OBVIOUS
<1>3. n \in Nat /\ n # 0 /\ w \in Nat /\ WrongIn(recital) = w /\ WordsOf(recital) = n /\ d <= n
  BY <1>2, <1>a DEF WrongIn, WordsOf
<1>b. PICK score, feedback : /\ score = ScoreOf(recital)
                             /\ feedback = MapEvaluationToFeedback(Evaluation(recital), Stored(score.overall))
  OBVIOUS
<1>4. PICK x, z : RecitalScore(score, n, w, d, x, z)
  BY <1>2, <1>3, <1>a, <1>b, ScoreOfIs
<1>5. /\ score.accuracy = <<x, n>> /\ score.completeness = <<n - d, n>>
      /\ score.overall = <<z * n, 2 * n * n>>
      /\ x \in 0..n /\ z = x + (n - d) /\ z \in Nat /\ z <= 2 * n /\ (w <= n => x = n - w)
  BY <1>4 DEF RecitalScore
<1>6. page = ResultDetail(feedback, Stored(score.overall)) /\ ToScoreOutOf100(score.overall) <= best
  BY <1>1, <1>b DEF OfRecital
<1>7. z * n \in Nat /\ 2 * n * n \in Nat /\ 2 * n * n # 0
  BY <1>3, <1>5
<1>8. PICK t \in Nat : /\ Stored(score.overall) = <<t, 1000>>
                       /\ 2000 * (z * n) - 2 * n * n <= (2 * (2 * n * n)) * t
                       /\ (2 * (2 * n * n)) * t <= 2000 * (z * n) + 2 * n * n
  BY <1>5, <1>7, StoredIs
<1>c. PICK points, other : points = ToScoreOutOf100(<<t, 1000>>) /\ other = ToScoreOutOf100(score.overall)
  OBVIOUS
<1>9. points \in Int /\ 200 * t - 1000 <= 2 * 1000 * points /\ 2 * 1000 * points <= 200 * t + 1000
  <2>1. 1000 \in Nat /\ 1000 # 0
    OBVIOUS
  <2> QED
    BY <1>c, <2>1, Rounded
<1>10. other \in Int /\ 200 * (z * n) - 2 * n * n <= 2 * (2 * n * n) * other
  BY <1>5, <1>7, <1>c, Rounded
<1>11. IsNear(n, z, points, other)
  <2>1. IsRounded(n, z, t, points, other)
    BY <1>5, <1>8, <1>9, <1>10 DEF IsRounded
  <2>2. n \in Nat /\ n # 0 /\ z \in Nat /\ t \in Nat /\ points \in Int /\ other \in Int
    BY <1>3, <1>5, <1>9, <1>10
  <2> QED
    BY <2>1, <2>2, Near
<1>12. /\ page.dial = ScoreDial(points)
       /\ page.accuracy = ToPercent(feedback.accuracy) /\ page.completeness = ToPercent(feedback.completeness)
       /\ page.wer = feedback.wer /\ page.tiles = Tiles(feedback.wordAlignments) /\ page.personalBest = best
  BY <1>6, <1>8, <1>c DEF ResultDetail, SideStats
<1>13. feedback.accuracy = <<x, n>> /\ feedback.completeness = <<n - d, n>> /\ feedback.wer = <<w, n>>
  <2>1. /\ Evaluation(recital).accuracy = <<x, n>> /\ Evaluation(recital).completeness = <<n - d, n>>
        /\ Evaluation(recital).wer = <<w, n>>
    BY <1>3, <1>5, <1>b DEF Evaluation
  <2> QED
    BY <1>b, <2>1 DEF MapEvaluationToFeedback
<1>14. \A y \in 0..n : ToPercent(<<y, n>>) = <<y, n>>
  BY <1>3 DEF ToPercent, Clamp
<1>15. page.accuracy = <<x, n>> /\ page.completeness = <<n - d, n>> /\ page.wer = <<w, n>>
  <2>1. n - d \in 0..n
    BY <1>2, <1>3
  <2> QED
    BY <1>5, <1>12, <1>13, <1>14, <2>1
<1>16. Expected(page) = n /\ Missing(page) = d /\ Wrong(page) = w
  BY <1>2, <1>12, <1>a, <1>b, TilesShow
<1>d. PICK dial, mean, v : dial = page.dial /\ mean = 100 * (2 * n - w - d) /\ v = n * points
  OBVIOUS
<1>17. /\ dial \in 0..100
       /\ \/ dial = points
          \/ points < 0 /\ dial = 0
          \/ points > 100 /\ dial = 100
  BY <1>9, <1>12, <1>d, DialIs
<1>18. 20 * v <= 1000 * z + 11 * n /\ 1000 * z - 11 * n <= 20 * v /\ points <= other + 1 /\ v \in Int
  BY <1>3, <1>9, <1>11, <1>d DEF IsNear
<1>19. ASSUME w <= n PROVE 2 * n * (dial - 1) <= mean /\ mean <= 2 * n * (dial + 1)
  <2>1. mean = 100 * z
    BY <1>2, <1>3, <1>5, <1>19, <1>d
  <2>a. PICK u : u = n * dial
    OBVIOUS
  <2>2. u \in Int /\ 2 * n * (dial - 1) = 2 * u - 2 * n /\ 2 * n * (dial + 1) = 2 * u + 2 * n
    BY <1>3, <1>17, <2>a
  <2>3. CASE dial = points
    <3>1. u = v
      BY <1>d, <2>3, <2>a
    <3> QED
      BY <1>3, <1>5, <1>18, <2>1, <2>2, <3>1
  <2>4. CASE points < 0 /\ dial = 0
    <3>1. u = 0 /\ v <= 0
      BY <1>3, <1>9, <1>d, <2>4, <2>a
    <3> QED
      BY <1>3, <1>5, <1>18, <2>1, <2>2, <3>1
  <2>5. CASE points > 100 /\ dial = 100
    <3>1. u = 100 * n /\ v >= 100 * n
      BY <1>3, <1>9, <1>d, <2>5, <2>a
    <3> QED
      BY <1>3, <1>5, <1>18, <2>1, <2>2, <3>1
  <2> QED
    BY <1>17, <2>3, <2>4, <2>5
<1>20. dial - 1 <= page.personalBest
  <2>1. best \in Nat /\ other <= best /\ page.personalBest = best
    BY <1>6, <1>12, <1>c DEF PageInv
  <2> QED
    BY <1>9, <1>10, <1>17, <1>18, <2>1
<1> QED
  BY <1>15, <1>16, <1>19, <1>20, <1>5, <1>d DEF PageAgrees

\* A behaviour of the rules is about one of them; the others stay as they began.
RulesInv ==
  /\ rule \in {"quota", "score", "page"}
  /\ QuotaInv /\ PageInv
  /\ rule = "score" => ScoreInv
  /\ rule # "score" => result = NotScored

LEMMA RulesStart == InitRules => RulesInv
<1> SUFFICES ASSUME InitRules PROVE RulesInv
  OBVIOUS
<1>1. QuotaInv /\ PageInv
  BY InitQuotaInv, PageStarts DEF InitRules
<1>2. rule = "score" => ScoreInv
  BY ScoreStarts DEF InitRules
<1> QED
  BY <1>1, <1>2 DEF InitRules, RulesInv

LEMMA RulesStep == RulesInv /\ [NextRules]_rulesVars => RulesInv'
<1> SUFFICES ASSUME RulesInv, [NextRules]_rulesVars PROVE RulesInv'
  OBVIOUS
<1>1. CASE rule = "quota" /\ NextQuota /\ UNCHANGED <<rule, recitationVars, pageVars>>
  <2>1. QuotaInv' /\ PageInv'
    BY <1>1, QuotaStep, PageSteps DEF RulesInv
  <2> QED
    BY <1>1, <2>1 DEF RulesInv, recitationVars
<1>2. CASE rule = "score" /\ NextScore /\ UNCHANGED <<rule, quotaVars, pageVars>>
  <2>1. QuotaInv' /\ PageInv' /\ ScoreInv'
    BY <1>2, QuotaStep, PageSteps, ScoreSteps DEF RulesInv
  <2> QED
    BY <1>2, <2>1 DEF RulesInv
<1>3. CASE rule = "page" /\ NextPage /\ UNCHANGED <<rule, quotaVars, recitationVars>>
  <2>1. QuotaInv' /\ PageInv'
    BY <1>3, QuotaStep, PageSteps DEF RulesInv
  <2> QED
    BY <1>3, <2>1 DEF RulesInv, recitationVars
<1>4. CASE UNCHANGED rulesVars
  <2>1. UNCHANGED <<quotaVars, recitationVars, pageVars>> /\ rule' = rule
    BY <1>4 DEF rulesVars
  <2>2. QuotaInv' /\ PageInv' /\ (rule = "score" => ScoreInv')
    BY <2>1, QuotaStep, PageSteps, ScoreSteps DEF RulesInv
  <2> QED
    BY <2>1, <2>2 DEF RulesInv, recitationVars
<1> QED
  BY <1>1, <1>2, <1>3, <1>4 DEF NextRules

LEMMA RulesInvariant == SpecRules => []RulesInv
BY RulesStart, RulesStep, PTL DEF SpecRules

\* While another rule is the one a behaviour is about, nothing is scored.
LEMMA RulesHold == RulesInv => QuotaExact /\ DistancesExact /\ ScoreShownFairly
<1> SUFFICES ASSUME RulesInv PROVE QuotaExact /\ DistancesExact /\ ScoreShownFairly
  OBVIOUS
<1>1. QuotaExact
  BY DEF RulesInv, QuotaInv, QuotaExact
<1>2. DistancesExact /\ ScoreIsFair
  <2>1. CASE rule = "score"
    BY <2>1, ScoresExact, ScoresFair DEF RulesInv
  <2>2. CASE rule # "score"
    <3>1. ~Scored
      BY <2>2 DEF RulesInv, Scored
    <3> QED
      BY <3>1 DEF DistancesExact, ScoreIsFair
  <2> QED
    BY <2>1, <2>2
<1>3. PageAgrees
  BY PageIsTrue DEF RulesInv
<1> QED
  BY <1>1, <1>2, <1>3 DEF ScoreShownFairly

\* A score is full exactly when the words heard are those of the verse and shows
\* no less than the share of words that were right, whatever the verse and the
\* answer; and the numbers of the result page are those of its tiles, however
\* many words the verse has (pronunciation.go, scoringJobs.ts, ResultDetail.tsx).
THEOREM ScoresAreFair == SpecRules => []ScoreShownFairly
BY RulesInvariant, RulesHold, PTL

\* In the behaviours the run checks, too, the rows spell both texts with as few
\* corrections as the error rates count (align.go, wer.go, cer.go).
THEOREM RulesAreExact == SpecRules => []DistancesExact
BY RulesInvariant, RulesHold, PTL
=============================================================================

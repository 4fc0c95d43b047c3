------------------------ MODULE ClientSessionProofs ------------------------
(***************************************************************************)
(* Both platforms, for any accounts, pairs, calls, refreshes and faults:   *)
(* the client replays no refresh token by itself, keeps tokens and profile *)
(* of one account together, and drops no session the BFF would still take. *)
(***************************************************************************)
EXTENDS ClientSession, TLAPS

-----------------------------------------------------------------------------
(* Shapes.                                                                  *)

PairsOK ==
  /\ pairs \in [Pairs -> Pair]
  /\ \A p \in Pairs : pairs[p].refresh = "unissued" <=> pairs[p].owner = None

CallsOK ==
  /\ calls \in [Calls -> Call]
  /\ \A c \in Calls : calls[c].pc \in {"first", "second"} => calls[c].pair # None
  /\ \A c \in Calls : calls[c].pc = "waiting" =>
       calls[c].flight # None /\ flights[calls[c].flight].pc # "idle"

\* A refresh presents a pair once it is sent and has an answer only then.
FlightsOK ==
  /\ flights \in [Flights -> Flight]
  /\ \A f \in Flights : flights[f].pc \in {"sent", "answered"} <=> flights[f].pair # None
  /\ \A f \in Flights : flights[f].answer # None => flights[f].pc = "answered"

SlotOK ==
  /\ inFlight \in Flights \cup {None}
  /\ inFlight # None => flights[inFlight].pc # "idle"

RestOK ==
  /\ platform \in Platforms
  /\ wire \subseteq Pairs /\ unshared \subseteq Pairs
  /\ tokens \in Pairs \cup {None} /\ user \in Accounts \cup {None}
  /\ faults \in 0..MaxFaults
  /\ tainted \in BOOLEAN

Shape == PairsOK /\ CallsOK /\ FlightsOK /\ SlotOK /\ RestOK

LEMMA ShapeTypes == Shape => TypeOK
BY DEF Shape, PairsOK, CallsOK, FlightsOK, SlotOK, RestOK, TypeOK

\* Whatever the client holds or has held was issued.
Holds(p) ==
  \/ p \in wire \/ tokens = p
  \/ \E c \in Calls : calls[c].pair = p
  \/ \E f \in Flights : p \in {flights[f].pair, flights[f].answer}

Issued == \A p \in Pairs : Holds(p) => pairs[p].refresh # "unissued"

LEMMA RecordsMade ==
  /\ IdleCall \in Call /\ IdleFlight \in Flight
  /\ IdleCall.pc = "idle" /\ IdleCall.pair = None /\ ~IdleCall.crossed
  /\ IdleFlight.pc = "idle" /\ IdleFlight.pair = None /\ IdleFlight.answer = None
  /\ ~IdleFlight.crossed /\ ~IdleFlight.loose
BY DEF IdleCall, IdleFlight, Call, Flight

LEMMA IssueTyped ==
  ASSUME NEW table \in [Pairs -> Pair], NEW p \in Pairs, NEW a \in Accounts \cup {None}
  PROVE  Issue(p, a, table) \in [Pairs -> Pair]
BY DEF Issue, Pair

LEMMA RevokeTyped ==
  ASSUME pairs \in [Pairs -> Pair], NEW a
  PROVE  RevokeAll(a) \in [Pairs -> Pair]
BY DEF RevokeAll, Pair

\* What the BFF may do to its pairs.  Nothing is forgotten, only the pair p that
\* is presented becomes used, and only the answer of an exchange becomes good.
Kept(p, q) ==
  /\ pairs'[q].owner = pairs[q].owner
  /\ pairs[q].refresh = "unissued" <=> pairs'[q].refresh = "unissued"
  /\ pairs'[q].refresh = "good" => pairs[q].refresh = "good"
  /\ pairs'[q].refresh = "used" => pairs[q].refresh = "used" \/ q = p
  /\ pairs[q].refresh = "revoked" => pairs'[q].refresh = "revoked"

\* Revocation takes all pairs of an account.
TakesAll(q) ==
  pairs'[q].refresh = "revoked" /\ pairs[q].refresh # "revoked" =>
    \A r \in Pairs : pairs'[r].owner = pairs[q].owner => pairs'[r].refresh = "revoked"

Answered(p, answer) ==
  /\ answer \in Pairs /\ p \in Pairs /\ p # answer
  /\ pairs[answer].refresh = "unissued" /\ pairs[p].refresh = "good"
  /\ pairs'[answer].refresh = "good" /\ pairs'[answer].owner = pairs[p].owner
  /\ pairs'[p].refresh = "used"

Moved(p, answer) ==
  /\ pairs' \in [Pairs -> Pair]
  /\ \A q \in Pairs : pairs'[q].refresh = "unissued" <=> pairs'[q].owner = None
  /\ \A q \in Pairs \ {answer} : Kept(p, q) /\ TakesAll(q)
  /\ answer # None => Answered(p, answer)

LEMMA ExchangeMoves ==
  ASSUME Shape, NEW p \in Pairs, pairs[p].refresh # "unissued",
         NEW answer \in Pairs \cup {None}, Exchange(p, answer)
  PROVE  Moved(p, answer) /\ (answer = None => pairs'[p].refresh = "revoked")
<1>a. pairs \in [Pairs -> Pair] /\ pairs[p].owner \in Accounts /\ None \notin Accounts \cup Pairs
  BY ClientNoneAssumption DEF Shape, PairsOK, Pair
<1>1. CASE /\ pairs[p].refresh = "good" /\ answer # None
           /\ pairs[answer].refresh = "unissued"
           /\ pairs' = Issue(answer, pairs[p].owner, [pairs EXCEPT ![p].refresh = "used"])
  <2>1. p # answer /\ answer \in Pairs
    BY <1>1
  <2> DEFINE table == [pairs EXCEPT ![p].refresh = "used"]
  <2>7. /\ table \in [Pairs -> Pair]
        /\ table[p].owner = pairs[p].owner /\ table[p].refresh = "used"
        /\ \A q \in Pairs : q # p => table[q] = pairs[q]
    BY <1>a DEF Pair
  <2>8. pairs' = Issue(answer, pairs[p].owner, table)
    BY <1>1
  <2> HIDE DEF table
  <2>2. /\ pairs' \in [Pairs -> Pair]
        /\ \A q \in Pairs : q \notin {p, answer} => pairs'[q] = pairs[q]
        /\ pairs'[p].owner = pairs[p].owner /\ pairs'[p].refresh = "used"
        /\ pairs'[answer].owner = pairs[p].owner /\ pairs'[answer].refresh = "good"
    BY <1>a, <2>1, <2>7, <2>8 DEF Issue, Pair
  <2>3. \A q \in Pairs \ {answer} : Kept(p, q)
    BY <1>1, <1>a, <2>1, <2>2 DEF Kept, Pair
  <2>4. \A q \in Pairs \ {answer} : TakesAll(q)
    BY <1>1, <1>a, <2>1, <2>2 DEF TakesAll, Pair
  <2>5. Answered(p, answer)
    BY <1>1, <1>a, <2>1, <2>2 DEF Answered, Pair
  <2>6. ASSUME NEW q \in Pairs
        PROVE  pairs'[q].refresh = "unissued" <=> pairs'[q].owner = None
    <3>1. CASE q \in {p, answer}
      BY <1>a, <2>2, <3>1
    <3>2. CASE q \notin {p, answer}
      BY <2>2, <3>2 DEF Shape, PairsOK
    <3> QED
      BY <3>1, <3>2
  <2> QED
    BY <1>1, <2>2, <2>3, <2>4, <2>5, <2>6 DEF Moved
<1>2. CASE pairs[p].refresh = "used" /\ answer = None /\ pairs' = RevokeAll(pairs[p].owner)
  BY <1>2, <1>a DEF RevokeAll, Moved, Kept, TakesAll, Pair, Shape, PairsOK
<1>3. CASE pairs[p].refresh = "revoked" /\ answer = None /\ pairs' = pairs
  BY <1>3, <1>a DEF Moved, Kept, TakesAll, Shape, PairsOK
<1> QED
  BY <1>1, <1>2, <1>3 DEF Exchange

LEMMA RevokeMoves ==
  ASSUME Shape, NEW a \in Accounts, pairs' = RevokeAll(a)
  PROVE  Moved(None, None)
<1>a. pairs \in [Pairs -> Pair] /\ None \notin Accounts \cup Pairs
  BY ClientNoneAssumption DEF Shape, PairsOK
<1> QED
  BY <1>a DEF RevokeAll, Moved, Kept, TakesAll, Pair, Shape, PairsOK

LEMMA ExpiryMoves ==
  ASSUME Shape, NEW p \in Pairs, pairs' = [pairs EXCEPT ![p].fresh = FALSE]
  PROVE  Moved(None, None)
<1>a. pairs \in [Pairs -> Pair] /\ None \notin Accounts \cup Pairs
  BY ClientNoneAssumption DEF Shape, PairsOK
<1> QED
  BY <1>a DEF Moved, Kept, TakesAll, Pair, Shape, PairsOK

-----------------------------------------------------------------------------
(* Every step keeps the shapes.                                             *)

LEMMA InitShape == Init => Shape /\ Issued
<1> SUFFICES ASSUME Init PROVE Shape /\ Issued
  OBVIOUS
<1>1. PairsOK
  BY DEF Init, PairsOK, Pair
<1>4. SlotOK
  BY DEF Init, SlotOK
<1>5. RestOK
  <2>1. faults \in 0..MaxFaults
    BY ClientFaultsAssumption DEF Init
  <2> QED
    BY <2>1 DEF Init, RestOK
<1>2. CallsOK /\ FlightsOK
  BY RecordsMade DEF Init, CallsOK, FlightsOK
<1>3. \A p \in Pairs : ~Holds(p)
  BY RecordsMade, ClientNoneAssumption DEF Init, Holds
<1> QED
  BY <1>1, <1>2, <1>3, <1>4, <1>5 DEF Shape, Issued

LEMMA NewSessionShape ==
  ASSUME Shape, NEW cs, NewSession(cs), UNCHANGED inFlight,
         cs = calls \/ \E c \in Calls : cs = [calls EXCEPT ![c] = IdleCall]
  PROVE  /\ CallsOK' /\ FlightsOK' /\ SlotOK' /\ tainted' = FALSE
         /\ \A c \in Calls : calls'[c].pair \in {calls[c].pair, None}
         /\ \A f \in Flights : /\ flights'[f].pair = flights[f].pair
                               /\ flights'[f].answer = flights[f].answer
<1>1. /\ cs \in [Calls -> Call]
      /\ \A c \in Calls : cs[c] = calls[c] \/ cs[c] = IdleCall
  BY RecordsMade DEF Shape, CallsOK
<1>2. \A f \in Flights : flights'[f] = [flights[f] EXCEPT !.crossed = flights[f].pc # "idle"]
  BY DEF NewSession
<1>3. /\ flights' \in [Flights -> Flight]
      /\ \A f \in Flights : /\ flights'[f].pc = flights[f].pc
                            /\ flights'[f].pair = flights[f].pair
                            /\ flights'[f].answer = flights[f].answer
  BY DEF NewSession, Shape, FlightsOK, Flight
<1>4. /\ calls' \in [Calls -> Call]
      /\ \A c \in Calls : /\ calls'[c].pc = cs[c].pc
                          /\ calls'[c].pair = cs[c].pair
                          /\ calls'[c].flight = cs[c].flight
  BY <1>1 DEF NewSession, Call
<1>5. FlightsOK' /\ SlotOK'
  BY <1>3 DEF Shape, FlightsOK, SlotOK
<1>6. CallsOK'
  <2> SUFFICES ASSUME NEW c \in Calls
               PROVE  /\ calls'[c].pc \in {"first", "second"} => calls'[c].pair # None
                      /\ calls'[c].pc = "waiting" =>
                           calls'[c].flight # None /\ flights'[calls'[c].flight].pc # "idle"
    BY <1>4 DEF CallsOK
  <2>1. CASE cs[c] = IdleCall
    BY <1>4, <2>1, RecordsMade
  <2>2. CASE cs[c] = calls[c]
    BY <1>3, <1>4, <2>2 DEF Shape, CallsOK, Call
  <2> QED
    BY <1>1, <2>1, <2>2
<1> QED
  <2>1. \A c \in Calls : calls'[c].pair \in {calls[c].pair, None}
    BY <1>1, <1>4, RecordsMade
  <2> QED
    BY <1>3, <1>5, <1>6, <2>1 DEF NewSession

\* What a caller of f is when f has landed.
LEMMA Resumed ==
  ASSUME Shape, NEW f \in Flights, NEW c \in Waiting(f)
  PROVE  /\ Rotated(f)[c].pc = "second" /\ Rotated(f)[c].pair = flights[f].answer
         /\ Rotated(f)[c].crossed <=> (calls[c].crossed \/ flights[f].crossed)
         /\ flights[f].answer # None => Rotated(f)[c] \in Call
         /\ Rejected(f)[c].pc = "dead" /\ Rejected(f)[c].pair = None
         /\ Rejected(f)[c].crossed <=> (calls[c].crossed \/ flights[f].crossed)
         /\ Rejected(f)[c] \in Call
         /\ Failed(f)[c] = IdleCall
<1> DEFINE crossed == calls[c].crossed \/ flights[f].crossed
<1>1. c \in Calls /\ crossed \in BOOLEAN /\ flights[f].answer \in Pairs \cup {None}
  BY DEF Waiting, Shape, CallsOK, FlightsOK, Flight
<1>2. /\ Rotated(f)[c] = [IdleCall EXCEPT !.pc = "second", !.pair = flights[f].answer,
                           !.crossed = crossed]
      /\ Rejected(f)[c] = [IdleCall EXCEPT !.pc = "dead", !.crossed = crossed]
      /\ Failed(f)[c] = IdleCall
  BY <1>1 DEF Rotated, Rejected, Failed
<1> HIDE DEF crossed
<1>3. /\ Rotated(f)[c].pc = "second" /\ Rotated(f)[c].pair = flights[f].answer
      /\ Rotated(f)[c].crossed = crossed
      /\ Rotated(f)[c] \in Call
  BY <1>1, <1>2 DEF IdleCall, Call
<1>4. /\ Rejected(f)[c].pc = "dead" /\ Rejected(f)[c].pair = None
      /\ Rejected(f)[c].crossed = crossed
      /\ Rejected(f)[c] \in Call
  BY <1>1, <1>2 DEF IdleCall, Call
<1> QED
  BY <1>2, <1>3, <1>4 DEF crossed

LEMMA LandShape ==
  ASSUME Shape, NEW f \in Flights, Land(f), flights[f].pc # "idle",
         \/ calls' = Rotated(f) /\ flights[f].answer # None
         \/ calls' = Rejected(f)
         \/ calls' = Failed(f)
  PROVE  /\ CallsOK' /\ FlightsOK' /\ SlotOK'
         /\ \A c \in Calls : calls'[c].pair \in {calls[c].pair, None, flights[f].answer}
         /\ \A g \in Flights : flights'[g] = flights[g] \/ flights'[g] = IdleFlight
<1>1. /\ flights' \in [Flights -> Flight]
      /\ flights'[f] = IdleFlight
      /\ \A g \in Flights \ {f} : flights'[g] = flights[g]
  BY RecordsMade DEF Land, Shape, FlightsOK
<1>2. FlightsOK'
  BY <1>1, RecordsMade DEF Shape, FlightsOK
<1>3. SlotOK'
  BY <1>1, ClientNoneAssumption DEF Land, Shape, SlotOK
<1>4. calls' \in [Calls -> Call]
  <2>1. calls \in [Calls -> Call]
    BY DEF Shape, CallsOK
  <2>2. CASE calls' = Rotated(f) /\ flights[f].answer # None
    <3>1. \A c \in Waiting(f) : Rotated(f)[c] \in Call
      BY <2>2, Resumed
    <3>2. \A c \in Calls \ Waiting(f) : Rotated(f)[c] = calls[c]
      BY DEF Rotated
    <3>3. \A c \in Calls : Rotated(f)[c] \in Call
      BY <2>1, <3>1, <3>2
    <3> QED
      BY <2>2, <3>3 DEF Rotated
  <2>3. calls' = Rejected(f) => calls' \in [Calls -> Call]
    BY <2>1, Resumed DEF Rejected
  <2>4. calls' = Failed(f) => calls' \in [Calls -> Call]
    BY <2>1, RecordsMade DEF Failed
  <2> QED
    BY <2>2, <2>3, <2>4
<1>5. ASSUME NEW c \in Calls, c \notin Waiting(f)
      PROVE  /\ calls'[c] = calls[c]
             /\ calls[c].pc = "waiting" => calls[c].flight \in Flights \ {f}
  BY <1>5 DEF Rotated, Rejected, Failed, Waiting, Shape, CallsOK, Call
<1>6. ASSUME NEW c \in Waiting(f)
      PROVE  /\ calls'[c].pc # "waiting"
             /\ calls'[c].pair \in {None, flights[f].answer}
             /\ calls'[c].pc \in {"first", "second"} => calls'[c].pair # None
  BY <1>6, Resumed, RecordsMade
<1>7. CallsOK'
  BY <1>1, <1>4, <1>5, <1>6 DEF Shape, CallsOK
<1> QED
  BY <1>1, <1>2, <1>3, <1>5, <1>6, <1>7

\* Steps of the BFF alone.
LEMMA MovedShape ==
  ASSUME Shape, Issued, NEW p, NEW answer, Moved(p, answer)
  PROVE  /\ PairsOK'
         /\ \A q \in Pairs : pairs[q].refresh # "unissued" => pairs'[q].refresh # "unissued"
<1>1. PairsOK'
  BY DEF Moved, PairsOK
<1>2. ASSUME NEW q \in Pairs, pairs[q].refresh # "unissued"
      PROVE  pairs'[q].refresh # "unissued"
  <2>1. CASE q \in Pairs \ {answer}
    BY <1>2, <2>1 DEF Moved, Kept
  <2>2. CASE q = answer
    BY <1>2, <2>2, ClientNoneAssumption DEF Moved, Answered
  <2> QED
    BY <2>1, <2>2
<1> QED
  BY <1>1, <1>2

LEMMA BffShape ==
  ASSUME Shape, Issued,
         \/ \E p \in Pairs : AccessExpires(p) \/ LateArrival(p)
         \/ \E a \in Accounts : RevokedElsewhere(a)
  PROVE  Shape' /\ Issued'
<1>1. /\ UNCHANGED <<platform, tokens, user, tainted, calls, flights, inFlight, unshared, faults>>
      /\ wire' \subseteq wire
  BY DEF AccessExpires, LateArrival, RevokedElsewhere, session, refresher
<1>2. PICK p, answer : Moved(p, answer)
  <2>1. CASE \E p \in Pairs : AccessExpires(p)
    BY <2>1, ExpiryMoves DEF AccessExpires
  <2>2. CASE \E p \in Pairs : LateArrival(p)
    BY <2>2, ExchangeMoves DEF LateArrival, Issued, Holds
  <2>3. CASE \E a \in Accounts : RevokedElsewhere(a)
    BY <2>3, RevokeMoves DEF RevokedElsewhere
  <2> QED
    BY <2>1, <2>2, <2>3
<1>3. PairsOK' /\ \A q \in Pairs : pairs[q].refresh # "unissued" => pairs'[q].refresh # "unissued"
  BY <1>2, MovedShape
<1>4. \A q \in Pairs : Holds(q)' => Holds(q)
  BY <1>1 DEF Holds
<1> QED
  BY <1>1, <1>3, <1>4 DEF Shape, CallsOK, FlightsOK, SlotOK, RestOK, Issued

\* Steps that only end or begin a session.
LEMMA SignInShape ==
  ASSUME Shape, Issued, NEW a \in Accounts, SignIn(a)
  PROVE  Shape' /\ Issued'
<1>1. PICK p \in Pairs : /\ pairs[p].refresh = "unissued" /\ pairs' = Issue(p, a, pairs)
                         /\ tokens' = p
  BY DEF SignIn
<1>2. /\ PairsOK' /\ pairs'[p].refresh = "good"
      /\ \A q \in Pairs \ {p} : pairs'[q] = pairs[q]
  BY <1>1, ClientNoneAssumption DEF Issue, Shape, PairsOK, Pair
<1>3. /\ CallsOK' /\ FlightsOK' /\ SlotOK' /\ tainted' = FALSE
      /\ \A c \in Calls : calls'[c].pair \in {calls[c].pair, None}
      /\ \A f \in Flights : /\ flights'[f].pair = flights[f].pair
                            /\ flights'[f].answer = flights[f].answer
  BY NewSessionShape DEF SignIn
<1>4. RestOK'
  BY <1>1, <1>3 DEF SignIn, Shape, RestOK
<1>5. \A q \in Pairs : Holds(q)' => Holds(q) \/ q = p
  BY <1>1, <1>3, ClientNoneAssumption DEF SignIn, Holds
<1>6. Issued'
  BY <1>2, <1>5 DEF Issued
<1> QED
  BY <1>2, <1>3, <1>4, <1>6 DEF Shape

LEMMA SignOutShape ==
  ASSUME Shape, Issued,
         \/ SignOut
         \/ \E c \in Calls : BeginSignedOut(c) \/ SecondUnauthorized(c) \/ DeadEnds(c)
  PROVE  Shape' /\ Issued'
<1>1. PICK cs : /\ SignedOut(cs)
                /\ cs = calls \/ \E c \in Calls : cs = [calls EXCEPT ![c] = IdleCall]
  BY DEF SignOut, BeginSignedOut, SecondUnauthorized, DeadEnds
<1>2. UNCHANGED <<platform, pairs, wire, inFlight, unshared, faults>>
  BY DEF SignOut, BeginSignedOut, SecondUnauthorized, DeadEnds, bff
<1>3. /\ CallsOK' /\ FlightsOK' /\ SlotOK' /\ tainted' = FALSE
      /\ \A c \in Calls : calls'[c].pair \in {calls[c].pair, None}
      /\ \A f \in Flights : /\ flights'[f].pair = flights[f].pair
                            /\ flights'[f].answer = flights[f].answer
  BY <1>1, <1>2, NewSessionShape DEF SignedOut
<1>4. PairsOK' /\ RestOK'
  BY <1>1, <1>2, <1>3 DEF SignedOut, Shape, PairsOK, RestOK
<1>5. \A q \in Pairs : Holds(q)' => Holds(q)
  BY <1>1, <1>2, <1>3, ClientNoneAssumption DEF SignedOut, Holds
<1> QED
  BY <1>2, <1>3, <1>4, <1>5 DEF Shape, Issued

\* Steps of one call.
LEMMA CallShape ==
  ASSUME Shape, Issued, NEW c \in Calls,
         Begin(c) \/ Succeed(c) \/ CallFails(c) \/ Unauthorized(c) \/ CallerCancelled(c)
  PROVE  Shape' /\ Issued'
<1>a. calls \in [Calls -> Call] /\ flights \in [Flights -> Flight]
  BY DEF Shape, CallsOK, FlightsOK
<1>1. CASE Begin(c)
  <2> DEFINE new == [IdleCall EXCEPT !.pc = "first", !.pair = tokens]
  <2>1. new \in Call /\ new.pc = "first" /\ new.pair = tokens /\ tokens \in Pairs
    BY <1>1 DEF Begin, IdleCall, Call, Shape, RestOK
  <2>2. /\ calls' = [calls EXCEPT ![c] = new] /\ tokens # None
        /\ UNCHANGED <<platform, pairs, wire, tokens, user, tainted, flights, inFlight, unshared,
                       faults>>
    BY <1>1 DEF Begin, bff, session, refresher
  <2> HIDE DEF new
  <2>3. CallsOK'
    BY <1>a, <2>1, <2>2 DEF Shape, CallsOK
  <2>4. \A q \in Pairs : Holds(q)' => Holds(q)
    BY <1>a, <2>1, <2>2 DEF Holds
  <2> QED
    BY <2>2, <2>3, <2>4 DEF Shape, PairsOK, FlightsOK, SlotOK, RestOK, Issued
<1>2. CASE Succeed(c) \/ CallFails(c)
  <2>1. /\ calls' = [calls EXCEPT ![c] = IdleCall]
        /\ UNCHANGED <<platform, pairs, wire, tokens, flights, inFlight, unshared, faults>>
    BY <1>2 DEF Succeed, CallFails, EndCall, bff, session, refresher
  <2>2. CallsOK'
    BY <1>a, <2>1, RecordsMade DEF Shape, CallsOK
  <2>3. user' \in Accounts \cup {None} /\ tainted' \in BOOLEAN
    <3>1. CASE UNCHANGED <<user, tainted>>
      BY <3>1 DEF Shape, RestOK
    <3>2. CASE Succeed(c) /\ UpdateUser(c)
      <4>1. calls[c].pair \in Pairs
        BY <1>a, <3>2 DEF Succeed, Shape, CallsOK, Call
      <4>2. pairs[calls[c].pair].owner \in Accounts \cup {None}
        BY <4>1 DEF Shape, PairsOK, Pair
      <4>3. calls[c].crossed \in BOOLEAN /\ tainted \in BOOLEAN
        BY <1>a DEF Call, Shape, RestOK
      <4> QED
        BY <3>2, <4>2, <4>3, <3>1 DEF UpdateUser
    <3> QED
      BY <1>2, <3>1, <3>2 DEF Succeed, CallFails, session
  <2>4. \A q \in Pairs : Holds(q)' => Holds(q)
    BY <1>a, <2>1, RecordsMade, ClientNoneAssumption DEF Holds
  <2> QED
    BY <2>1, <2>2, <2>3, <2>4 DEF Shape, PairsOK, FlightsOK, SlotOK, RestOK, Issued
<1>3. CASE Unauthorized(c)
  <2>1. UNCHANGED <<platform, pairs, wire, tokens, user, tainted, unshared, faults>>
    BY <1>3 DEF Unauthorized, Refresh, bff, session, refresher
  <2>2. PICK f \in Flights, locked \in BOOLEAN :
          /\ calls' = [calls EXCEPT ![c].pc = "waiting", ![c].flight = f, ![c].locked = locked]
          /\ inFlight' = f
          /\ \/ inFlight = f /\ flights' = flights
             \/ /\ flights[f].pc = "idle"
                /\ flights' = [flights EXCEPT ![f] = [IdleFlight EXCEPT !.pc = "starting"]]
    <3>1. CASE inFlight # None
      BY <1>3, <3>1 DEF Unauthorized, Refresh, refresher, Shape, SlotOK
    <3>2. CASE inFlight = None
      BY <1>3, <3>2 DEF Unauthorized, Refresh
    <3> QED
      BY <3>1, <3>2
  <2>3. /\ calls' \in [Calls -> Call]
        /\ calls'[c].pc = "waiting" /\ calls'[c].flight = f /\ calls'[c].pair = calls[c].pair
        /\ \A d \in Calls \ {c} : calls'[d] = calls[d]
    <3> DEFINE new == [calls[c] EXCEPT !.pc = "waiting", !.flight = f, !.locked = locked]
    <3>1. /\ new \in Call
          /\ new.pc = "waiting" /\ new.flight = f /\ new.pair = calls[c].pair
      BY <1>a DEF Call
    <3>2. calls' = [calls EXCEPT ![c] = new]
      BY <1>a, <2>2
    <3> HIDE DEF new
    <3> QED
      BY <1>a, <3>1, <3>2
  <2>4. /\ FlightsOK' /\ flights'[f].pc # "idle"
        /\ \A g \in Flights : \/ flights'[g] = flights[g]
                              \/ flights'[g].pc # "idle" /\ {flights'[g].pair, flights'[g].answer} = {None}
    <3>1. CASE inFlight = f /\ flights' = flights
      BY <3>1, ClientNoneAssumption DEF Shape, SlotOK, FlightsOK
    <3>2. CASE flights' = [flights EXCEPT ![f] = [IdleFlight EXCEPT !.pc = "starting"]]
      <4> DEFINE new == [IdleFlight EXCEPT !.pc = "starting"]
      <4>1. new \in Flight /\ new.pc = "starting" /\ new.pair = None /\ new.answer = None
        BY DEF IdleFlight, Flight
      <4>2. flights' = [flights EXCEPT ![f] = new]
        BY <3>2
      <4> HIDE DEF new
      <4> QED
        BY <1>a, <4>1, <4>2 DEF Shape, FlightsOK
    <3> QED
      BY <2>2, <3>1, <3>2
  <2>5. CallsOK'
    <3>1. \A d \in Calls \ {c} : calls[d].pc = "waiting" => calls[d].flight \in Flights
      BY <1>a DEF Shape, CallsOK, Call
    <3> QED
      BY <2>3, <2>4, <3>1, ClientNoneAssumption DEF Shape, CallsOK
  <2>6. SlotOK'
    BY <2>2, <2>4 DEF SlotOK
  <2>7. \A q \in Pairs : Holds(q)' => Holds(q)
    BY <2>1, <2>3, <2>4, ClientNoneAssumption DEF Holds
  <2> QED
    BY <2>1, <2>4, <2>5, <2>6, <2>7 DEF Shape, PairsOK, RestOK, Issued
<1>4. CASE CallerCancelled(c)
  <2>1. /\ calls' = [calls EXCEPT ![c] = IdleCall] /\ faults' \in 0..MaxFaults
        /\ UNCHANGED <<platform, pairs, wire, tokens, user, tainted>>
    BY <1>4, ClientFaultsAssumption
    DEF CallerCancelled, EndCall, Fault, bff, session, Shape, RestOK
  <2>2. CallsOK' /\ SlotOK' /\ FlightsOK' /\ unshared' \subseteq Pairs
        /\ \A g \in Flights : /\ flights'[g].pair = flights[g].pair
                              /\ flights'[g].answer = flights[g].answer
    <3>1. CASE UNCHANGED refresher
      BY <1>a, <2>1, <3>1, RecordsMade
      DEF refresher, Shape, CallsOK, FlightsOK, SlotOK, RestOK
    <3>2. ASSUME NEW f \in Flights, calls[c].flight = f, inFlight' = None,
                 flights' = [flights EXCEPT ![f].loose = TRUE],
                 unshared' = unshared \cup ({flights[f].pair} \ {None})
          PROVE  /\ CallsOK' /\ SlotOK' /\ FlightsOK' /\ unshared' \subseteq Pairs
                 /\ \A g \in Flights : /\ flights'[g].pair = flights[g].pair
                                       /\ flights'[g].answer = flights[g].answer
      <4>1. /\ flights' \in [Flights -> Flight]
            /\ \A g \in Flights : /\ flights'[g].pc = flights[g].pc
                                  /\ flights'[g].pair = flights[g].pair
                                  /\ flights'[g].answer = flights[g].answer
        BY <1>a, <3>2 DEF Flight
      <4>2. \A d \in Calls : calls[d].pc = "waiting" => calls[d].flight \in Flights
        BY <1>a DEF Shape, CallsOK, Call
      <4>3. CallsOK'
        BY <1>a, <2>1, <4>1, <4>2, RecordsMade DEF Shape, CallsOK
      <4>4. unshared' \subseteq Pairs
        BY <1>a, <3>2 DEF Flight, Shape, RestOK
      <4> QED
        BY <3>2, <4>1, <4>3, <4>4 DEF Shape, FlightsOK, SlotOK
    <3>3. calls[c].flight \in Flights
      BY <1>a, <1>4 DEF CallerCancelled, Shape, CallsOK, Call
    <3> QED
      BY <1>4, <3>1, <3>2, <3>3 DEF CallerCancelled
  <2>3. \A q \in Pairs : Holds(q)' => Holds(q)
    BY <1>a, <2>1, <2>2, RecordsMade, ClientNoneAssumption DEF Holds
  <2> QED
    BY <2>1, <2>2, <2>3 DEF Shape, PairsOK, RestOK, Issued
<1> QED
  BY <1>1, <1>2, <1>3, <1>4

\* Steps of one flight, and of the whole app.
LEMMA FlightShape ==
  ASSUME Shape, Issued, NEW f \in Flights,
         LoadTokens(f) \/ NoTokens(f) \/ Serve(f) \/ Deliver(f) \/ GiveUp(f)
  PROVE  Shape' /\ Issued'
<1>a. flights \in [Flights -> Flight] /\ flights[f] \in Flight
  BY DEF Shape, FlightsOK
<1>1. CASE LoadTokens(f)
  <2> DEFINE new == [flights[f] EXCEPT !.pc = "sent", !.pair = tokens, !.crossed = FALSE]
  <2>1. /\ new \in Flight /\ new.pc = "sent" /\ new.pair = tokens
        /\ new.answer = flights[f].answer /\ tokens \in Pairs
    BY <1>a, <1>1 DEF LoadTokens, Flight, Shape, RestOK
  <2>2. /\ flights' = [flights EXCEPT ![f] = new] /\ unshared' \subseteq Pairs
        /\ flights[f].answer = None /\ flights[f].pc = "starting"
        /\ UNCHANGED <<platform, pairs, wire, tokens, user, tainted, calls, inFlight, faults>>
    BY <1>a, <1>1, <2>1 DEF LoadTokens, bff, session, Shape, FlightsOK, RestOK
  <2> HIDE DEF new
  <2>3. FlightsOK' /\ SlotOK'
    BY <1>a, <2>1, <2>2, ClientNoneAssumption DEF Shape, FlightsOK, SlotOK
  <2>4. CallsOK'
    BY <1>a, <2>1, <2>2 DEF Shape, CallsOK, Call
  <2>5. \A q \in Pairs : Holds(q)' => Holds(q)
    BY <1>a, <2>1, <2>2, ClientNoneAssumption DEF Holds
  <2> QED
    BY <2>2, <2>3, <2>4, <2>5 DEF Shape, PairsOK, RestOK, Issued
<1>2. CASE NoTokens(f) \/ Deliver(f) \/ GiveUp(f)
  <2>1. Land(f) /\ flights[f].pc # "idle" /\ pairs' = pairs
    BY <1>2 DEF NoTokens, Deliver, GiveUp, bff
  <2>2. \/ calls' = Rotated(f) /\ flights[f].answer # None
        \/ calls' = Rejected(f)
        \/ calls' = Failed(f)
    BY <1>2 DEF NoTokens, Deliver, GiveUp
  <2>3. /\ CallsOK' /\ FlightsOK' /\ SlotOK'
        /\ \A c \in Calls : calls'[c].pair \in {calls[c].pair, None, flights[f].answer}
        /\ \A g \in Flights : flights'[g] = flights[g] \/ flights'[g] = IdleFlight
    BY <2>1, <2>2, LandShape
  <2>4. /\ platform' = platform /\ user' = user
        /\ wire' \subseteq wire \cup ({flights[f].pair} \ {None})
        /\ unshared' \subseteq unshared \cup ({flights[f].pair} \ {None})
        /\ tokens' \in {tokens, flights[f].answer}
        /\ tainted' \in {tainted, tainted \/ flights[f].crossed}
        /\ faults' \in 0..MaxFaults
    BY <1>2, ClientFaultsAssumption
    DEF NoTokens, Deliver, GiveUp, SaveRotated, bff, session, Fault, Shape, FlightsOK, RestOK
  <2>5. RestOK'
    BY <1>a, <2>4 DEF Shape, RestOK, Flight
  <2>6. \A q \in Pairs : Holds(q)' => Holds(q)
    BY <2>3, <2>4, RecordsMade, ClientNoneAssumption DEF Holds
  <2> QED
    BY <2>1, <2>3, <2>5, <2>6 DEF Shape, PairsOK, Issued
<1>3. CASE Serve(f)
  <2>1. PICK answer \in Pairs \cup {None} :
          /\ Exchange(flights[f].pair, answer)
          /\ flights' = [flights EXCEPT ![f].pc = "answered", ![f].answer = answer]
    BY <1>3 DEF Serve
  <2>2. flights[f].pair \in Pairs /\ flights[f].pc = "sent"
    BY <1>3, <1>a DEF Serve, Shape, FlightsOK, Flight
  <2>3. pairs[flights[f].pair].refresh # "unissued"
    BY <2>2 DEF Issued, Holds
  <2>4. Moved(flights[f].pair, answer)
    BY <2>1, <2>2, <2>3, ExchangeMoves
  <2>5. /\ flights' \in [Flights -> Flight]
        /\ flights'[f].pc = "answered" /\ flights'[f].answer = answer
        /\ flights'[f].pair = flights[f].pair
        /\ \A g \in Flights \ {f} : flights'[g] = flights[g]
    <3> DEFINE new == [flights[f] EXCEPT !.pc = "answered", !.answer = answer]
    <3>1. /\ new \in Flight /\ new.pc = "answered" /\ new.answer = answer
          /\ new.pair = flights[f].pair
      BY <1>a DEF Flight
    <3>2. flights' = [flights EXCEPT ![f] = new]
      BY <1>a, <2>1
    <3> HIDE DEF new
    <3> QED
      BY <1>a, <3>1, <3>2
  <2>6. UNCHANGED <<platform, wire, tokens, user, tainted, calls, inFlight, unshared, faults>>
    BY <1>3 DEF Serve, session
  <2>7. FlightsOK' /\ SlotOK' /\ CallsOK' /\ RestOK'
    <3>1. \A c \in Calls : calls[c].pc = "waiting" => calls[c].flight \in Flights
      BY DEF Shape, CallsOK, Call
    <3> QED
      BY <2>2, <2>5, <2>6, <3>1, ClientNoneAssumption
      DEF Shape, FlightsOK, SlotOK, CallsOK, RestOK
  <2>8. /\ PairsOK'
        /\ \A q \in Pairs : pairs[q].refresh # "unissued" => pairs'[q].refresh # "unissued"
    BY <2>4, MovedShape
  <2>9. \A q \in Pairs : Holds(q)' => Holds(q) \/ q = answer
    BY <2>5, <2>6 DEF Holds
  <2>10. answer # None => pairs'[answer].refresh # "unissued"
    BY <2>4 DEF Moved, Answered
  <2> QED
    BY <2>7, <2>8, <2>9, <2>10, ClientNoneAssumption DEF Shape, Issued
<1> QED
  BY <1>1, <1>2, <1>3

LEMMA RelaunchShape ==
  ASSUME Shape, Issued, Relaunch
  PROVE  Shape' /\ Issued'
<1>1. /\ CallsOK' /\ FlightsOK' /\ SlotOK'
  BY RecordsMade DEF Relaunch, CallsOK, FlightsOK, SlotOK
<1>2. \A f \in Sent : flights[f].pair \in Pairs
  BY DEF Sent, Shape, FlightsOK, Flight
<1>3. Presented \subseteq Pairs
  BY DEF Presented, Shape, FlightsOK, Flight
<1>4. faults' \in 0..MaxFaults
  BY ClientFaultsAssumption DEF Relaunch, Fault, Shape, RestOK
<1>5. RestOK' /\ PairsOK'
  BY <1>2, <1>3, <1>4 DEF Relaunch, Shape, RestOK, PairsOK
<1>6. \A q \in Pairs : Holds(q)' => Holds(q)
  BY RecordsMade, ClientNoneAssumption DEF Relaunch, Holds, Sent
<1> QED
  BY <1>1, <1>5, <1>6 DEF Relaunch, Shape, Issued

LEMMA ShapeStep == Shape /\ Issued /\ [Next]_vars => Shape' /\ Issued'
<1> SUFFICES ASSUME Shape, Issued, [Next]_vars PROVE Shape' /\ Issued'
  OBVIOUS
<1>1. CASE Next
  BY <1>1, BffShape, SignInShape, SignOutShape, CallShape, FlightShape, RelaunchShape DEF Next
<1>2. CASE UNCHANGED vars
  BY <1>2 DEF vars, Shape, PairsOK, CallsOK, FlightsOK, SlotOK, RestOK, Issued, Holds
<1> QED
  BY <1>1, <1>2

LEMMA AlwaysShaped == Spec => [](Shape /\ Issued)
BY InitShape, ShapeStep, PTL DEF Spec

\* Every step of requests, refreshes, sign-ins and sign-outs keeps the shapes, and
\* a call that waits waits for a refresh that is under way (TokenRefresher).
THEOREM ClientTypeCorrect == Spec => []TypeOK
BY AlwaysShaped, ShapeTypes, PTL

-----------------------------------------------------------------------------
(* No token is presented twice.                                             *)

\* A refresh beside which no other may start is the one in the slot.
Coalesced == \A f \in Flights : flights[f].pc # "idle" /\ ~flights[f].loose => inFlight = f

\* What is presented by a refresh that is not shared, or by two, is known to be.
UnsharedKnown ==
  /\ wire \subseteq unshared
  /\ \A f \in Flights : flights[f].loose /\ flights[f].pair # None => flights[f].pair \in unshared
  /\ \A f, g \in Flights : f # g /\ flights[f].pair = flights[g].pair /\ flights[f].pair # None
                           => flights[f].pair \in unshared

\* The stored token is used up only when its answer is about to replace it.
StoredSpent ==
  tokens # None /\ pairs[tokens].refresh = "used" =>
    \/ tokens \in unshared
    \/ \E g \in Flights : flights[g].pair = tokens /\ flights[g].answer # None

\* Nobody but the refresh it answers has the new pair.
AnswersNew ==
  \A f \in Flights : flights[f].answer # None =>
    /\ pairs[flights[f].answer].refresh # "used"
    /\ flights[f].answer \notin wire /\ tokens # flights[f].answer
    /\ \A g \in Flights : flights[g].pair # flights[f].answer
    /\ \A g \in Flights \ {f} : flights[g].answer # flights[f].answer

ReplayInv == Coalesced /\ UnsharedKnown /\ StoredSpent /\ AnswersNew /\ NoReplay

LEMMA InitReplay == Init => ReplayInv
<1> SUFFICES ASSUME Init PROVE ReplayInv
  OBVIOUS
<1>1. /\ \A f \in Flights : /\ flights[f].pc = "idle" /\ flights[f].pair = None
                            /\ flights[f].answer = None /\ ~flights[f].loose
      /\ wire = {} /\ tokens = None
  BY RecordsMade DEF Init
<1> QED
  BY <1>1 DEF ReplayInv, Coalesced, UnsharedKnown, StoredSpent, AnswersNew, NoReplay, Sent

\* Steps after which refreshes present what they did.
LEMMA QuietReplay ==
  ASSUME Shape, Issued, Shape', ReplayInv,
         \A f \in Flights : /\ flights'[f].pc = flights[f].pc
                            /\ flights'[f].pair = flights[f].pair
                            /\ flights'[f].answer = flights[f].answer
                            /\ flights'[f].loose = flights[f].loose,
         UNCHANGED <<inFlight, unshared>>, wire' \subseteq wire,
         \A q \in Pairs : pairs'[q].refresh = "used" => pairs[q].refresh = "used" \/ q \in wire,
         \/ tokens' \in {tokens, None}
         \/ tokens' \in Pairs /\ ~Holds(tokens') /\ pairs'[tokens'].refresh = "good"
  PROVE  ReplayInv'
<1>1. Coalesced' /\ UnsharedKnown'
  BY DEF ReplayInv, Coalesced, UnsharedKnown
<1>2. StoredSpent'
  BY DEF ReplayInv, StoredSpent, UnsharedKnown, Shape, RestOK
<1>3. AnswersNew'
  <2> SUFFICES ASSUME NEW f \in Flights, flights[f].answer # None
               PROVE  /\ pairs'[flights[f].answer].refresh # "used"
                      /\ flights[f].answer \notin wire' /\ tokens' # flights[f].answer
                      /\ \A g \in Flights : flights[g].pair # flights[f].answer
                      /\ \A g \in Flights \ {f} : flights[g].answer # flights[f].answer
    BY DEF AnswersNew
  <2>1. flights[f].answer \in Pairs
    BY DEF Shape, FlightsOK, Flight
  <2>2. Holds(flights[f].answer)
    BY DEF Holds
  <2> QED
    BY <2>1, <2>2 DEF ReplayInv, AnswersNew
<1>4. NoReplay'
  <2> SUFFICES ASSUME NEW f \in Flights, flights[f].pc = "sent",
                      pairs'[flights[f].pair].refresh = "used"
               PROVE  flights[f].pair \in unshared
    BY DEF NoReplay, Sent
  <2>1. flights[f].pair \in Pairs
    BY DEF Shape, FlightsOK, Flight
  <2> QED
    BY <2>1 DEF ReplayInv, NoReplay, Sent, UnsharedKnown
<1> QED
  BY <1>1, <1>2, <1>3, <1>4 DEF ReplayInv

LEMMA NewSessionFlights ==
  ASSUME Shape, NEW cs, NewSession(cs)
  PROVE  \A f \in Flights : /\ flights'[f].pc = flights[f].pc
                            /\ flights'[f].pair = flights[f].pair
                            /\ flights'[f].answer = flights[f].answer
                            /\ flights'[f].loose = flights[f].loose
                            /\ flights'[f].crossed <=> flights[f].pc # "idle"
BY DEF NewSession, Shape, FlightsOK, Flight

LEMMA QuietSteps ==
  ASSUME Shape, Issued, Shape', ReplayInv,
         \/ \E p \in Pairs : AccessExpires(p) \/ LateArrival(p)
         \/ \E a \in Accounts : RevokedElsewhere(a) \/ SignIn(a)
         \/ SignOut
         \/ \E c \in Calls : \/ Begin(c) \/ BeginSignedOut(c) \/ Succeed(c) \/ CallFails(c)
                             \/ SecondUnauthorized(c) \/ DeadEnds(c)
  PROVE  ReplayInv'
<1>1. CASE \E p \in Pairs : LateArrival(p)
  <2>1. PICK p \in Pairs : LateArrival(p)
    BY <1>1
  <2>2. PICK answer \in Pairs \cup {None} : Exchange(p, answer)
    BY <2>1 DEF LateArrival
  <2>3. Moved(p, answer) /\ p \in wire
    BY <2>1, <2>2, ExchangeMoves DEF LateArrival, Issued, Holds
  <2>4. \A q \in Pairs : pairs'[q].refresh = "used" => pairs[q].refresh = "used" \/ q \in wire
    <3>1. \A q \in Pairs \ {answer} :
            pairs'[q].refresh = "used" => pairs[q].refresh = "used" \/ q \in wire
      BY <2>3 DEF Moved, Kept
    <3>2. answer # None => pairs'[answer].refresh = "good"
      BY <2>3 DEF Moved, Answered
    <3> QED
      BY <3>1, <3>2, ClientNoneAssumption
  <2>5. UNCHANGED <<tokens, flights, inFlight, unshared>> /\ wire' \subseteq wire
    BY <2>1 DEF LateArrival, session, refresher
  <2> QED
    BY <2>4, <2>5, QuietReplay
<1>2. CASE (\E p \in Pairs : AccessExpires(p)) \/ (\E a \in Accounts : RevokedElsewhere(a))
  <2>1. Moved(None, None)
    BY <1>2, ExpiryMoves, RevokeMoves DEF AccessExpires, RevokedElsewhere
  <2>2. \A q \in Pairs : pairs'[q].refresh = "used" => pairs[q].refresh = "used"
    BY <2>1, ClientNoneAssumption DEF Moved, Kept
  <2>3. UNCHANGED <<tokens, flights, inFlight, unshared, wire>>
    BY <1>2 DEF AccessExpires, RevokedElsewhere, session, refresher
  <2> QED
    BY <2>2, <2>3, QuietReplay
<1>3. CASE \E a \in Accounts : SignIn(a)
  <2>1. PICK a \in Accounts, p \in Pairs :
          /\ pairs[p].refresh = "unissued" /\ pairs' = Issue(p, a, pairs) /\ tokens' = p
    BY <1>3 DEF SignIn
  <2>2. ~Holds(p)
    BY <2>1 DEF Issued
  <2>3. /\ pairs'[p].refresh = "good"
        /\ \A q \in Pairs : pairs'[q].refresh = "used" => pairs[q].refresh = "used"
    BY <2>1 DEF Issue, Shape, PairsOK, Pair
  <2>4. NewSession(calls) /\ UNCHANGED <<inFlight, unshared, wire>>
    BY <1>3 DEF SignIn
  <2> QED
    BY <2>1, <2>2, <2>3, <2>4, NewSessionFlights, QuietReplay
<1>4. CASE SignOut \/ \E c \in Calls : BeginSignedOut(c) \/ SecondUnauthorized(c) \/ DeadEnds(c)
  <2>1. PICK cs : SignedOut(cs)
    BY <1>4 DEF SignOut, BeginSignedOut, SecondUnauthorized, DeadEnds
  <2>2. NewSession(cs) /\ tokens' = None
    BY <2>1 DEF SignedOut
  <2>3. UNCHANGED <<pairs, inFlight, unshared, wire>>
    BY <1>4 DEF SignOut, BeginSignedOut, SecondUnauthorized, DeadEnds, bff
  <2> QED
    BY <2>2, <2>3, NewSessionFlights, QuietReplay
<1>5. CASE \E c \in Calls : Begin(c) \/ Succeed(c) \/ CallFails(c)
  <2>1. UNCHANGED <<pairs, wire, tokens, flights, inFlight, unshared>>
    BY <1>5 DEF Begin, Succeed, CallFails, bff, session, refresher
  <2> QED
    BY <2>1, QuietReplay
<1> QED
  BY <1>1, <1>2, <1>3, <1>4, <1>5

\* A refresh starts, or one in the slot stops being shared.
LEMMA SlotSteps ==
  ASSUME Shape, Issued, Shape', ReplayInv, NEW c \in Calls,
         Unauthorized(c) \/ CallerCancelled(c)
  PROVE  ReplayInv'
<1>a. UNCHANGED <<pairs, wire, tokens>> /\ flights \in [Flights -> Flight]
  BY DEF Unauthorized, CallerCancelled, bff, session, Shape, FlightsOK
<1>1. CASE UNCHANGED refresher
  BY <1>a, <1>1, QuietReplay DEF refresher
<1>2. CASE Unauthorized(c) /\ inFlight = None
  <2>1. PICK f \in Flights :
          /\ flights[f].pc = "idle" /\ inFlight' = f /\ unshared' = unshared
          /\ flights' = [flights EXCEPT ![f] = [IdleFlight EXCEPT !.pc = "starting"]]
    BY <1>2 DEF Unauthorized, Refresh
  <2>2. /\ flights'[f].pair = None /\ flights'[f].answer = None /\ flights'[f].pc = "starting"
        /\ \A g \in Flights \ {f} : flights'[g] = flights[g]
    BY <1>a, <2>1 DEF IdleFlight
  <2>3. flights[f].pair = None /\ flights[f].answer = None
    BY <2>1 DEF Shape, FlightsOK
  <2>4. Coalesced'
    BY <1>2, <2>1, <2>2, ClientNoneAssumption DEF ReplayInv, Coalesced
  <2>5. UnsharedKnown'
    BY <1>a, <2>1, <2>2 DEF ReplayInv, UnsharedKnown
  <2>6. StoredSpent'
    BY <1>a, <2>1, <2>2, <2>3 DEF ReplayInv, StoredSpent
  <2>7. AnswersNew'
    BY <1>a, <2>1, <2>2, <2>3 DEF ReplayInv, AnswersNew
  <2>8. NoReplay'
    BY <1>a, <2>1, <2>2 DEF ReplayInv, NoReplay, Sent
  <2> QED
    BY <2>4, <2>5, <2>6, <2>7, <2>8 DEF ReplayInv
<1>3. CASE /\ CallerCancelled(c)
           /\ inFlight = calls[c].flight /\ inFlight' = None
           /\ flights' = [flights EXCEPT ![calls[c].flight].loose = TRUE]
           /\ unshared' = unshared \cup ({flights[calls[c].flight].pair} \ {None})
  <2>1. PICK f \in Flights : calls[c].flight = f
    BY <1>3 DEF CallerCancelled, Shape, CallsOK, Call
  <2>2. /\ flights'[f].loose
        /\ \A g \in Flights : /\ flights'[g].pc = flights[g].pc
                              /\ flights'[g].pair = flights[g].pair
                              /\ flights'[g].answer = flights[g].answer
        /\ \A g \in Flights \ {f} : flights'[g].loose = flights[g].loose
    BY <1>a, <1>3, <2>1 DEF Flight
  <2>3. unshared \subseteq unshared' /\ (flights[f].pair # None => flights[f].pair \in unshared')
    BY <1>3, <2>1
  <2>4. Coalesced'
    BY <1>3, <2>1, <2>2 DEF ReplayInv, Coalesced
  <2>5. UnsharedKnown'
    BY <1>a, <2>2, <2>3 DEF ReplayInv, UnsharedKnown
  <2>6. StoredSpent'
    BY <1>a, <2>2, <2>3 DEF ReplayInv, StoredSpent
  <2>7. AnswersNew'
    BY <1>a, <2>2 DEF ReplayInv, AnswersNew
  <2>8. NoReplay'
    BY <1>a, <2>2, <2>3 DEF ReplayInv, NoReplay, Sent
  <2> QED
    BY <2>4, <2>5, <2>6, <2>7, <2>8 DEF ReplayInv
<1> QED
  BY <1>1, <1>2, <1>3 DEF Unauthorized, Refresh, CallerCancelled

\* The refresh presents what is stored now.  If that is used up, another one that
\* is not shared has presented it.
LEMMA LoadReplay ==
  ASSUME Shape, Issued, Shape', ReplayInv, NEW f \in Flights, LoadTokens(f)
  PROVE  ReplayInv'
<1>1. /\ tokens \in Pairs /\ tokens # None /\ flights[f].pc = "starting"
      /\ flights[f].pair = None /\ flights[f].answer = None
      /\ UNCHANGED <<pairs, wire, tokens, inFlight>>
      /\ unshared \subseteq unshared' /\ (flights[f].loose => tokens \in unshared')
  BY DEF LoadTokens, bff, session, Shape, FlightsOK, RestOK
<1>2. /\ flights'[f].pc = "sent" /\ flights'[f].pair = tokens /\ flights'[f].answer = None
      /\ flights'[f].loose = flights[f].loose
      /\ \A g \in Flights \ {f} : flights'[g] = flights[g]
  <2>1. flights' = [flights EXCEPT ![f].pc = "sent", ![f].pair = tokens, ![f].crossed = FALSE]
    BY DEF LoadTokens
  <2>2. flights \in [Flights -> Flight]
    BY DEF Shape, FlightsOK
  <2> QED
    BY <1>1, <2>1, <2>2 DEF Flight
<1>3. ASSUME NEW g \in Flights, g # f, flights[g].pair = tokens
      PROVE  tokens \in unshared'
  <2>1. flights[g].pc # "idle"
    BY <1>1, <1>3 DEF Shape, FlightsOK
  <2>2. flights[g].loose \/ flights[f].loose
    BY <1>1, <1>3, <2>1 DEF ReplayInv, Coalesced
  <2> QED
    BY <1>1, <1>3, <2>2 DEF ReplayInv, UnsharedKnown
<1>4. pairs[tokens].refresh = "used" => tokens \in unshared'
  BY <1>1, <1>3 DEF ReplayInv, StoredSpent
<1>5. Coalesced'
  BY <1>1, <1>2 DEF ReplayInv, Coalesced
<1>6. UnsharedKnown'
  <2>1. wire' \subseteq unshared'
    BY <1>1 DEF ReplayInv, UnsharedKnown
  <2>2. \A g \in Flights : flights'[g].loose /\ flights'[g].pair # None => flights'[g].pair \in unshared'
    BY <1>1, <1>2 DEF ReplayInv, UnsharedKnown
  <2>3. ASSUME NEW g \in Flights, NEW h \in Flights, g # h,
               flights'[g].pair = flights'[h].pair, flights'[g].pair # None
        PROVE  flights'[g].pair \in unshared'
    <3>1. CASE g = f
      BY <1>2, <1>3, <2>3, <3>1
    <3>2. CASE h = f
      BY <1>2, <1>3, <2>3, <3>2
    <3>3. CASE f \notin {g, h}
      BY <1>1, <1>2, <2>3, <3>3 DEF ReplayInv, UnsharedKnown
    <3> QED
      BY <3>1, <3>2, <3>3
  <2> QED
    BY <2>1, <2>2, <2>3 DEF UnsharedKnown
<1>7. StoredSpent'
  BY <1>1, <1>4 DEF StoredSpent
<1>8. AnswersNew'
  BY <1>1, <1>2 DEF ReplayInv, AnswersNew
<1>9. NoReplay'
  BY <1>1, <1>2, <1>4 DEF ReplayInv, NoReplay, Sent
<1> QED
  BY <1>5, <1>6, <1>7, <1>8, <1>9 DEF ReplayInv

LEMMA ServeReplay ==
  ASSUME Shape, Issued, Shape', ReplayInv, NEW f \in Flights, Serve(f)
  PROVE  ReplayInv'
<1>1. PICK answer \in Pairs \cup {None} :
        /\ Exchange(flights[f].pair, answer)
        /\ flights' = [flights EXCEPT ![f].pc = "answered", ![f].answer = answer]
  BY DEF Serve
<1>2. flights[f].pair \in Pairs /\ flights[f].pc = "sent" /\ flights[f].answer = None
  BY DEF Serve, Shape, FlightsOK, Flight
<1>3. pairs[flights[f].pair].refresh # "unissued"
  BY <1>2 DEF Issued, Holds
<1>4. Moved(flights[f].pair, answer)
  BY <1>1, <1>2, <1>3, ExchangeMoves
<1>5. UNCHANGED <<wire, tokens, inFlight, unshared>>
  BY DEF Serve, session
<1>6. /\ flights'[f].pc = "answered" /\ flights'[f].answer = answer
      /\ flights'[f].pair = flights[f].pair /\ flights'[f].loose = flights[f].loose
      /\ \A g \in Flights \ {f} : flights'[g] = flights[g]
  <2>1. flights \in [Flights -> Flight]
    BY DEF Shape, FlightsOK
  <2> QED
    BY <1>1, <2>1 DEF Flight
<1>7. answer # None => /\ answer \in Pairs /\ ~Holds(answer)
                       /\ pairs'[answer].refresh = "good"
  BY <1>4 DEF Moved, Answered, Issued
<1>8. \A q \in Pairs : pairs'[q].refresh = "used" =>
        pairs[q].refresh = "used" \/ (q = flights[f].pair /\ answer # None)
  <2>1. \A q \in Pairs \ {answer} :
          pairs'[q].refresh = "used" => pairs[q].refresh = "used" \/ q = flights[f].pair
    BY <1>4 DEF Moved, Kept
  <2>2. answer = None => pairs'[flights[f].pair].refresh = "revoked"
    BY <1>1, <1>2, <1>3, ExchangeMoves
  <2> QED
    BY <1>7, <2>1, <2>2, ClientNoneAssumption
<1>9. Coalesced' /\ UnsharedKnown'
  BY <1>2, <1>5, <1>6 DEF ReplayInv, Coalesced, UnsharedKnown
<1>10. StoredSpent'
  BY <1>2, <1>5, <1>6, <1>8 DEF ReplayInv, StoredSpent, Shape, RestOK
<1>11. AnswersNew'
  <2> SUFFICES ASSUME NEW g \in Flights, flights'[g].answer # None
               PROVE  /\ pairs'[flights'[g].answer].refresh # "used"
                      /\ flights'[g].answer \notin wire /\ tokens # flights'[g].answer
                      /\ \A h \in Flights : flights'[h].pair # flights'[g].answer
                      /\ \A h \in Flights \ {g} : flights'[h].answer # flights'[g].answer
    BY <1>5 DEF AnswersNew
  <2>1. CASE g = f
    BY <1>2, <1>5, <1>6, <1>7, <2>1 DEF Holds
  <2>2. CASE g # f
    <3>1. flights[g].answer \in Pairs /\ Holds(flights[g].answer) /\ flights[g].answer # None
      BY <1>6, <2>2 DEF Shape, FlightsOK, Flight, Holds
    <3> QED
      BY <1>2, <1>5, <1>6, <1>7, <1>8, <2>2, <3>1 DEF ReplayInv, AnswersNew
  <2> QED
    BY <2>1, <2>2
<1>12. NoReplay'
  <2> SUFFICES ASSUME NEW g \in Flights, g # f, flights[g].pc = "sent",
                      pairs'[flights[g].pair].refresh = "used"
               PROVE  flights[g].pair \in unshared
    BY <1>5, <1>6 DEF NoReplay, Sent
  <2>1. flights[g].pair \in Pairs /\ flights[g].pair # None
    BY ClientNoneAssumption DEF Shape, FlightsOK, Flight
  <2> QED
    BY <1>8, <2>1 DEF ReplayInv, NoReplay, Sent, UnsharedKnown
<1> QED
  BY <1>9, <1>10, <1>11, <1>12 DEF ReplayInv

LEMMA LandReplay ==
  ASSUME Shape, Issued, Shape', ReplayInv, NEW f \in Flights,
         NoTokens(f) \/ Deliver(f) \/ GiveUp(f)
  PROVE  ReplayInv'
<1>1. /\ flights'[f] = IdleFlight /\ (inFlight = f \/ inFlight' = inFlight)
      /\ \A g \in Flights \ {f} : flights'[g] = flights[g]
      /\ pairs' = pairs /\ unshared \subseteq unshared'
  BY DEF NoTokens, Deliver, GiveUp, Land, bff, Shape, FlightsOK
<1>2. Coalesced'
  BY <1>1, RecordsMade DEF ReplayInv, Coalesced
<1>3. /\ wire' \subseteq wire \cup ({flights[f].pair} \ {None})
      /\ GiveUp(f) => tokens' = tokens /\ flights[f].pair \in unshared'
      /\ ~GiveUp(f) => wire' = wire
  BY DEF NoTokens, Deliver, GiveUp, bff, session, Shape, FlightsOK
<1>4. UnsharedKnown'
  BY <1>1, <1>3, RecordsMade DEF ReplayInv, UnsharedKnown
<1>5. /\ tokens' = tokens \/ (tokens' = flights[f].answer /\ flights[f].answer # None)
      /\ Deliver(f) /\ flights[f].answer # None /\ tokens # None => tokens' = flights[f].answer
  BY DEF NoTokens, Deliver, GiveUp, SaveRotated, session
<1>6. StoredSpent'
  <2>1. CASE tokens' = flights[f].answer /\ flights[f].answer # None
    BY <1>1, <2>1 DEF ReplayInv, StoredSpent, AnswersNew
  <2>2. CASE tokens' = tokens /\ tokens' # flights[f].answer
    <3> SUFFICES ASSUME tokens # None, pairs[tokens].refresh = "used", tokens \notin unshared'
                 PROVE  \E g \in Flights : flights'[g].pair = tokens /\ flights'[g].answer # None
      BY <1>1, <2>2 DEF StoredSpent
    <3>1. PICK g \in Flights : flights[g].pair = tokens /\ flights[g].answer # None
      BY <1>1 DEF ReplayInv, StoredSpent
    <3>2. g # f
      <4>1. flights[g].pc = "answered"
        BY <3>1 DEF Shape, FlightsOK
      <4>2. g = f => Deliver(f) /\ flights[f].answer # None
        BY <1>3, <3>1, <4>1 DEF NoTokens
      <4> QED
        BY <1>5, <2>2, <4>2
    <3> QED
      BY <1>1, <3>1, <3>2
  <2>3. CASE tokens' = None
    BY <2>3 DEF StoredSpent
  <2> QED
    BY <1>5, <2>1, <2>2, <2>3
<1>7. AnswersNew'
  <2> SUFFICES ASSUME NEW g \in Flights, g # f, flights[g].answer # None
               PROVE  /\ pairs[flights[g].answer].refresh # "used"
                      /\ flights[g].answer \notin wire' /\ tokens' # flights[g].answer
                      /\ \A h \in Flights : flights'[h].pair # flights[g].answer
                      /\ \A h \in Flights \ {g} : flights'[h].answer # flights[g].answer
    BY <1>1, RecordsMade DEF AnswersNew
  <2> QED
    BY <1>1, <1>3, <1>5, RecordsMade DEF ReplayInv, AnswersNew
<1>8. NoReplay'
  BY <1>1, RecordsMade DEF ReplayInv, NoReplay, Sent
<1> QED
  BY <1>2, <1>4, <1>6, <1>7, <1>8 DEF ReplayInv

LEMMA RelaunchReplay ==
  ASSUME Shape, Issued, Shape', ReplayInv, Relaunch
  PROVE  ReplayInv'
<1>1. /\ \A f \in Flights : flights'[f] = IdleFlight
      /\ UNCHANGED <<pairs, tokens>> /\ unshared' = unshared \cup Presented
      /\ wire' = wire \cup {flights[f].pair : f \in Sent}
  BY DEF Relaunch
<1>2. Coalesced' /\ AnswersNew' /\ NoReplay'
  BY <1>1, RecordsMade DEF Coalesced, AnswersNew, NoReplay, Sent
<1>3. \A f \in Flights : flights[f].pair # None => flights[f].pair \in unshared'
  BY <1>1 DEF Presented, Shape, FlightsOK
<1>4. UnsharedKnown'
  <2>1. wire' \subseteq unshared'
    BY <1>1 DEF ReplayInv, UnsharedKnown, Sent, Presented
  <2> QED
    BY <1>1, <2>1, RecordsMade DEF UnsharedKnown
<1>5. StoredSpent'
  BY <1>1, <1>3 DEF ReplayInv, StoredSpent
<1> QED
  BY <1>2, <1>4, <1>5 DEF ReplayInv

LEMMA ReplayStep == Shape /\ Issued /\ Shape' /\ ReplayInv /\ [Next]_vars => ReplayInv'
<1> SUFFICES ASSUME Shape, Issued, Shape', ReplayInv, [Next]_vars PROVE ReplayInv'
  OBVIOUS
<1>1. CASE Next
  BY <1>1, QuietSteps, SlotSteps, LoadReplay, ServeReplay, LandReplay, RelaunchReplay DEF Next
<1>2. CASE UNCHANGED vars
  BY <1>2, QuietReplay DEF vars
<1> QED
  BY <1>1, <1>2

\* However calls join, are cancelled and are relaunched, the app itself presents
\* a used token only when the answer to the first use was lost or a caller that
\* had been through the mutex went away (coalescing and save-before-return in
\* TokenRefresher).
THEOREM ClientNeverReplays == Spec => []NoReplay
<1>1. ReplayInv => NoReplay
  BY DEF ReplayInv
<1> QED
  BY <1>1, InitReplay, AlwaysShaped, ReplayStep, PTL DEF Spec


-----------------------------------------------------------------------------
(* One session at a time.                                                   *)

\* The BFF takes no pair of the user any more.
Ended == \A p \in Pairs : pairs[p].owner = user => ~Alive(p)

\* A pair of the session: once it is revoked, the session has ended.
Mine(p) == pairs[p].owner = user /\ (pairs[p].refresh = "revoked" => Ended)

StoredMine == /\ tokens = None <=> user = None
              /\ tokens # None => Mine(tokens)

CallMine(c) == calls[c].pc # "idle" /\ ~calls[c].crossed =>
  /\ tokens # None
  /\ calls[c].pc \in {"first", "second"} => Mine(calls[c].pair)
  /\ calls[c].pc = "dead" => Ended

FlightMine(f) == flights[f].pair # None /\ ~flights[f].crossed =>
  /\ tokens # None
  /\ Mine(flights[f].pair)
  /\ flights[f].answer # None => Mine(flights[f].answer)

\* What began in this session works on pairs of this session, unless an answer to
\* an earlier one was stored.
AllMine == ~tainted =>
  /\ StoredMine
  /\ \A c \in Calls : CallMine(c)
  /\ \A f \in Flights : FlightMine(f)

Refused == \A f \in Flights : flights[f].pc = "answered" /\ flights[f].answer = None =>
  pairs[flights[f].pair].refresh = "revoked"

SessionInv == AllMine /\ Refused

LEMMA SessionHolds == Shape /\ SessionInv => SessionConsistent /\ DeadMeansDead
<1> SUFFICES ASSUME Shape, SessionInv PROVE SessionConsistent /\ DeadMeansDead
  OBVIOUS
<1>1. SessionConsistent
  BY DEF SessionInv, AllMine, StoredMine, Mine, SessionConsistent
<1>2. ASSUME NEW c \in Calls, calls[c].pc = "dead", ~calls[c].crossed, ~tainted
      PROVE  tokens # None /\ ~Alive(tokens)
  <2>1. StoredMine /\ CallMine(c)
    BY <1>2 DEF SessionInv, AllMine
  <2>2. tokens # None /\ Ended
    BY <1>2, <2>1 DEF CallMine
  <2>3. tokens \in Pairs /\ pairs[tokens].owner = user
    BY <2>1, <2>2 DEF StoredMine, Mine, Shape, RestOK
  <2> QED
    BY <2>2, <2>3 DEF Ended
<1> QED
  BY <1>1, <1>2 DEF DeadMeansDead

LEMMA InitSession == Init => SessionInv
<1> SUFFICES ASSUME Init PROVE SessionInv
  OBVIOUS
<1>1. /\ \A c \in Calls : calls[c].pc = "idle"
      /\ \A f \in Flights : flights[f].pc = "idle" /\ flights[f].pair = None
      /\ tokens = None /\ user = None
  BY RecordsMade DEF Init
<1> QED
  BY <1>1 DEF SessionInv, AllMine, StoredMine, CallMine, FlightMine, Refused

\* What the BFF does keeps to what is known of the pairs of the session.
LEMMA MovedMine ==
  ASSUME Shape, NEW p, NEW answer, Moved(p, answer), user' = user
  PROVE  /\ Ended => Ended'
         /\ \A q \in Pairs : pairs[q].refresh # "unissued" /\ Mine(q) => Mine(q)'
<1>1. ASSUME Ended PROVE Ended'
  <2> SUFFICES ASSUME NEW q \in Pairs, pairs'[q].owner = user, pairs'[q].refresh = "good"
               PROVE  FALSE
    BY DEF Ended, Alive
  <2>1. CASE q # answer
    BY <1>1, <2>1 DEF Moved, Kept, Ended, Alive
  <2>2. CASE q = answer
    BY <1>1, <2>2, ClientNoneAssumption DEF Moved, Answered, Ended, Alive
  <2> QED
    BY <2>1, <2>2
<1>2. ASSUME NEW q \in Pairs, pairs[q].refresh # "unissued", Mine(q)
      PROVE  Mine(q)'
  <2>1. q # answer
    BY <1>2, ClientNoneAssumption DEF Moved, Answered
  <2>2. Kept(p, q) /\ TakesAll(q)
    BY <2>1 DEF Moved
  <2>3. pairs'[q].owner = user
    BY <1>2, <2>2 DEF Kept, Mine
  <2>4. ASSUME pairs'[q].refresh = "revoked"
        PROVE  Ended'
    <3>1. CASE pairs[q].refresh = "revoked"
      BY <1>1, <1>2, <3>1 DEF Mine
    <3>2. CASE pairs[q].refresh # "revoked"
      <4>1. \A r \in Pairs : pairs'[r].owner = user => pairs'[r].refresh = "revoked"
        BY <1>2, <2>2, <2>4, <3>2 DEF TakesAll, Mine
      <4> QED
        BY <4>1 DEF Ended, Alive
    <3> QED
      BY <3>1, <3>2
  <2> QED
    BY <2>3, <2>4 DEF Mine
<1> QED
  BY <1>1, <1>2

\* A new session crosses everything that is under way.
LEMMA NewSessionMine ==
  ASSUME Shape, Shape', Issued, SessionInv, NEW cs, NewSession(cs), UNCHANGED inFlight,
         cs = calls \/ \E c \in Calls : cs = [calls EXCEPT ![c] = IdleCall],
         StoredMine',
         \A q \in Pairs : pairs[q].refresh # "unissued" => pairs'[q] = pairs[q]
  PROVE  SessionInv'
<1>1. ASSUME NEW c \in Calls PROVE calls'[c].crossed <=> calls'[c].pc # "idle"
  <2> DEFINE busy == cs[c].pc # "idle"
  <2>1. cs[c] \in Call
    BY RecordsMade DEF Shape, CallsOK
  <2>2. calls'[c] = [cs[c] EXCEPT !.crossed = busy] /\ busy \in BOOLEAN
    BY DEF NewSession
  <2> HIDE DEF busy
  <2>3. calls'[c].crossed = busy /\ calls'[c].pc = cs[c].pc
    BY <2>1, <2>2 DEF Call
  <2> QED
    BY <2>3 DEF busy
<1>2. \A f \in Flights : /\ flights'[f].pc = flights[f].pc
                         /\ flights'[f].pair = flights[f].pair
                         /\ flights'[f].answer = flights[f].answer
                         /\ flights'[f].crossed <=> flights[f].pc # "idle"
  BY NewSessionFlights
<1>3. \A c \in Calls : CallMine(c)'
  BY <1>1 DEF CallMine
<1>4. \A f \in Flights : FlightMine(f)'
  BY <1>2 DEF FlightMine, Shape, FlightsOK
<1>5. Refused'
  <2> SUFFICES ASSUME NEW f \in Flights, flights[f].pc = "answered", flights[f].answer = None
               PROVE  pairs'[flights[f].pair].refresh = "revoked"
    BY <1>2 DEF Refused
  <2>1. flights[f].pair \in Pairs
    BY DEF Shape, FlightsOK, Flight
  <2> QED
    BY <2>1 DEF SessionInv, Refused
<1> QED
  BY <1>3, <1>4, <1>5 DEF SessionInv, AllMine

LEMMA BoundarySteps ==
  ASSUME Shape, Shape', Issued, SessionInv,
         \/ \E a \in Accounts : SignIn(a)
         \/ SignOut
         \/ \E c \in Calls : BeginSignedOut(c) \/ SecondUnauthorized(c) \/ DeadEnds(c)
  PROVE  SessionInv'
<1>1. CASE \E a \in Accounts : SignIn(a)
  <2>1. PICK a \in Accounts, p \in Pairs :
          /\ pairs[p].refresh = "unissued" /\ pairs' = Issue(p, a, pairs) /\ tokens' = p
          /\ user' = a /\ NewSession(calls) /\ UNCHANGED inFlight
    BY <1>1 DEF SignIn
  <2>2. /\ pairs'[p].owner = a /\ pairs'[p].refresh = "good"
        /\ \A q \in Pairs \ {p} : pairs'[q] = pairs[q]
    BY <2>1 DEF Issue, Shape, PairsOK
  <2>3. StoredMine'
    BY <2>1, <2>2, ClientNoneAssumption DEF StoredMine, Mine
  <2> QED
    BY <2>1, <2>2, <2>3, NewSessionMine
<1>2. CASE SignOut \/ \E c \in Calls : BeginSignedOut(c) \/ SecondUnauthorized(c) \/ DeadEnds(c)
  <2>1. PICK cs : /\ SignedOut(cs)
                  /\ cs = calls \/ \E c \in Calls : cs = [calls EXCEPT ![c] = IdleCall]
    BY <1>2 DEF SignOut, BeginSignedOut, SecondUnauthorized, DeadEnds
  <2>2. UNCHANGED <<pairs, inFlight>>
    BY <1>2 DEF SignOut, BeginSignedOut, SecondUnauthorized, DeadEnds, bff
  <2>3. StoredMine'
    BY <2>1 DEF SignedOut, StoredMine
  <2> QED
    BY <2>1, <2>2, <2>3, NewSessionMine DEF SignedOut
<1> QED
  BY <1>1, <1>2

LEMMA BackgroundSteps ==
  ASSUME Shape, Shape', Issued, SessionInv,
         \/ \E p \in Pairs : AccessExpires(p) \/ LateArrival(p)
         \/ \E a \in Accounts : RevokedElsewhere(a)
  PROVE  SessionInv'
<1>1. UNCHANGED <<tokens, user, tainted, calls, flights>>
  BY DEF AccessExpires, LateArrival, RevokedElsewhere, session, refresher
<1>2. PICK p, answer : Moved(p, answer)
  BY ExpiryMoves, ExchangeMoves, RevokeMoves
  DEF AccessExpires, LateArrival, RevokedElsewhere, Issued, Holds
<1>3. /\ Ended => Ended'
      /\ \A q \in Pairs : Holds(q) /\ Mine(q) => Mine(q)'
  BY <1>1, <1>2, MovedMine DEF Issued
<1>4. StoredMine => StoredMine'
  BY <1>1, <1>3 DEF StoredMine, Holds, Shape, RestOK
<1>5. ASSUME NEW c \in Calls, CallMine(c) PROVE CallMine(c)'
  <2>1. calls[c].pc \in {"first", "second"} => calls[c].pair \in Pairs /\ Holds(calls[c].pair)
    BY DEF Shape, CallsOK, Call, Holds
  <2> QED
    BY <1>1, <1>3, <1>5, <2>1 DEF CallMine
<1>6. ASSUME NEW f \in Flights, FlightMine(f) PROVE FlightMine(f)'
  <2>1. /\ flights[f].pair # None => flights[f].pair \in Pairs /\ Holds(flights[f].pair)
        /\ flights[f].answer # None => flights[f].answer \in Pairs /\ Holds(flights[f].answer)
    BY DEF Shape, FlightsOK, Flight, Holds
  <2> QED
    BY <1>1, <1>3, <1>6, <2>1 DEF FlightMine
<1>7. Refused'
  <2> SUFFICES ASSUME NEW f \in Flights, flights[f].pc = "answered", flights[f].answer = None
               PROVE  pairs'[flights[f].pair].refresh = "revoked"
    BY <1>1 DEF Refused
  <2>1. /\ flights[f].pair \in Pairs /\ pairs[flights[f].pair].refresh = "revoked"
    BY DEF Shape, FlightsOK, Flight, SessionInv, Refused
  <2> QED
    BY <1>2, <2>1, ClientNoneAssumption DEF Moved, Kept, Answered
<1> QED
  BY <1>1, <1>4, <1>5, <1>6, <1>7 DEF SessionInv, AllMine

\* Calls that begin, end, join a refresh or go away; none but Succeed touches what
\* is stored.
LEMMA CallSteps ==
  ASSUME Shape, Shape', Issued, SessionInv, NEW c \in Calls,
         Begin(c) \/ CallFails(c) \/ Unauthorized(c) \/ CallerCancelled(c)
  PROVE  SessionInv'
<1>a. calls \in [Calls -> Call] /\ flights \in [Flights -> Flight]
  BY DEF Shape, CallsOK, FlightsOK
<1>1. UNCHANGED <<pairs, tokens, user, tainted>>
  BY DEF Begin, CallFails, Unauthorized, CallerCancelled, bff, session
<1>2. /\ Ended' <=> Ended
      /\ \A q : Mine(q)' <=> Mine(q)
  BY <1>1 DEF Ended, Mine, Alive
<1>3. StoredMine' <=> StoredMine
  BY <1>1, <1>2 DEF StoredMine
<1>4. /\ \A d \in Calls \ {c} : calls'[d] = calls[d]
      /\ \/ calls'[c].pc = "idle"
         \/ calls'[c].pc = "waiting" /\ calls[c].pc = "first" /\ calls'[c].crossed = calls[c].crossed
         \/ calls'[c].pc = "first" /\ calls'[c].pair = tokens /\ tokens # None
  <2>1. CASE Begin(c)
    BY <1>a, <2>1 DEF Begin, IdleCall
  <2>2. CASE CallFails(c) \/ CallerCancelled(c)
    BY <1>a, <2>2, RecordsMade DEF CallFails, CallerCancelled, EndCall
  <2>3. CASE Unauthorized(c)
    <3>1. PICK f, locked :
            calls' = [calls EXCEPT ![c].pc = "waiting", ![c].flight = f, ![c].locked = locked]
      BY <2>3 DEF Unauthorized, Refresh
    <3>2. calls'[c] = [calls[c] EXCEPT !.pc = "waiting", !.flight = f, !.locked = locked]
      BY <1>a, <3>1
    <3>3. calls'[c].pc = "waiting" /\ calls'[c].crossed = calls[c].crossed
      BY <1>a, <3>2 DEF Call
    <3> QED
      BY <1>a, <2>3, <3>1, <3>3 DEF Unauthorized
  <2> QED
    BY <2>1, <2>2, <2>3
<1>5. ASSUME ~tainted, NEW d \in Calls PROVE CallMine(d)'
  <2>1. CallMine(d) /\ StoredMine
    BY <1>5 DEF SessionInv, AllMine
  <2> QED
    BY <1>1, <1>2, <1>4, <2>1 DEF CallMine, StoredMine
<1>6. \A f \in Flights : \/ /\ flights'[f].pair = flights[f].pair
                            /\ flights'[f].answer = flights[f].answer
                            /\ flights'[f].pc = flights[f].pc
                            /\ flights'[f].crossed = flights[f].crossed
                         \/ flights'[f].pair = None /\ flights'[f].pc = "starting"
  <2>1. CASE UNCHANGED refresher
    BY <2>1 DEF refresher
  <2>2. CASE Unauthorized(c)
    <3>1. CASE inFlight # None
      BY <2>1, <2>2, <3>1 DEF Unauthorized, Refresh
    <3>2. CASE inFlight = None
      <4>1. PICK g \in Flights :
              flights' = [flights EXCEPT ![g] = [IdleFlight EXCEPT !.pc = "starting"]]
        BY <2>2, <3>2 DEF Unauthorized, Refresh
      <4>2. flights'[g].pair = None /\ flights'[g].pc = "starting"
        BY <1>a, <4>1 DEF IdleFlight
      <4>3. \A f \in Flights \ {g} : flights'[f] = flights[f]
        BY <1>a, <4>1
      <4> QED
        BY <4>2, <4>3
    <3> QED
      BY <3>1, <3>2
  <2>3. CASE CallerCancelled(c)
    BY <1>a, <2>1, <2>3 DEF CallerCancelled, Flight
  <2> QED
    BY <2>1, <2>2, <2>3 DEF Begin, CallFails
<1>7. ASSUME ~tainted, NEW f \in Flights PROVE FlightMine(f)'
  BY <1>1, <1>2, <1>6, <1>7 DEF SessionInv, AllMine, FlightMine
<1>8. Refused'
  BY <1>1, <1>6 DEF SessionInv, Refused
<1> QED
  BY <1>1, <1>3, <1>5, <1>7, <1>8 DEF SessionInv, AllMine

\* A profile that an edit was answered with is of the session the edit began in.
LEMMA SucceedStep ==
  ASSUME Shape, Shape', Issued, SessionInv, NEW c \in Calls, Succeed(c)
  PROVE  SessionInv'
<1>1. /\ UNCHANGED <<pairs, tokens, flights>> /\ calls' = [calls EXCEPT ![c] = IdleCall]
      /\ calls[c].pc \in {"first", "second"}
  BY DEF Succeed, EndCall, bff, refresher
<1>2. ASSUME ~tainted' PROVE ~tainted /\ user' = user
  <2>1. CASE UNCHANGED <<user, tainted>>
    BY <1>2, <2>1
  <2>2. CASE /\ user' = pairs[calls[c].pair].owner
             /\ tainted' = (tainted \/ calls[c].crossed)
    <3>1. ~tainted /\ ~calls[c].crossed
      BY <1>2, <2>2
    <3>2. Mine(calls[c].pair)
      BY <1>1, <3>1 DEF SessionInv, AllMine, CallMine
    <3> QED
      BY <2>2, <3>1, <3>2 DEF Mine
  <2> QED
    BY <2>1, <2>2 DEF Succeed, UpdateUser
<1>3. ASSUME ~tainted'
      PROVE  StoredMine' /\ (\A d \in Calls : CallMine(d)') /\ (\A f \in Flights : FlightMine(f)')
  <2>1. ~tainted /\ user' = user
    BY <1>2, <1>3
  <2>2. /\ Ended' <=> Ended
        /\ \A q : Mine(q)' <=> Mine(q)
    BY <1>1, <2>1 DEF Ended, Mine, Alive
  <2>3. StoredMine' /\ \A f \in Flights : FlightMine(f)'
    BY <1>1, <2>1, <2>2 DEF SessionInv, AllMine, StoredMine, FlightMine
  <2>4. \A d \in Calls : calls'[d] = calls[d] \/ calls'[d].pc = "idle"
    BY <1>1, RecordsMade DEF Shape, CallsOK
  <2>5. \A d \in Calls : CallMine(d)'
    BY <1>1, <2>1, <2>2, <2>4 DEF SessionInv, AllMine, CallMine
  <2> QED
    BY <2>3, <2>5
<1>4. Refused'
  BY <1>1 DEF SessionInv, Refused
<1> QED
  BY <1>3, <1>4 DEF SessionInv, AllMine

LEMMA LoadSession ==
  ASSUME Shape, Shape', Issued, SessionInv, NEW f \in Flights, LoadTokens(f)
  PROVE  SessionInv'
<1>a. flights \in [Flights -> Flight]
  BY DEF Shape, FlightsOK
<1>1. UNCHANGED <<pairs, tokens, user, tainted, calls>> /\ tokens # None
      /\ flights[f].answer = None
  BY DEF LoadTokens, bff, session, Shape, FlightsOK
<1>2. /\ flights'[f].pc = "sent" /\ flights'[f].pair = tokens
      /\ flights'[f].answer = None
      /\ \A g \in Flights \ {f} : flights'[g] = flights[g]
  BY <1>a, <1>1 DEF LoadTokens, Flight
<1>3. /\ Ended' <=> Ended
      /\ \A q : Mine(q)' <=> Mine(q)
  BY <1>1 DEF Ended, Mine, Alive
<1>4. ASSUME ~tainted
      PROVE  StoredMine' /\ (\A c \in Calls : CallMine(c)') /\ (\A g \in Flights : FlightMine(g)')
  <2>1. StoredMine /\ (\A c \in Calls : CallMine(c)) /\ (\A g \in Flights : FlightMine(g))
    BY <1>4 DEF SessionInv, AllMine
  <2>2. StoredMine' /\ \A c \in Calls : CallMine(c)'
    BY <1>1, <1>3, <2>1 DEF StoredMine, CallMine
  <2>3. \A g \in Flights : FlightMine(g)'
    BY <1>1, <1>2, <1>3, <2>1 DEF StoredMine, FlightMine
  <2> QED
    BY <2>2, <2>3
<1>5. Refused'
  BY <1>1, <1>2 DEF SessionInv, Refused
<1> QED
  BY <1>1, <1>4, <1>5 DEF SessionInv, AllMine

LEMMA ServeSession ==
  ASSUME Shape, Shape', Issued, SessionInv, NEW f \in Flights, Serve(f)
  PROVE  SessionInv'
<1>1. PICK answer \in Pairs \cup {None} :
        /\ Exchange(flights[f].pair, answer)
        /\ flights' = [flights EXCEPT ![f].pc = "answered", ![f].answer = answer]
  BY DEF Serve
<1>2. flights[f].pair \in Pairs /\ flights[f].pair # None
  BY ClientNoneAssumption DEF Serve, Shape, FlightsOK, Flight
<1>3. pairs[flights[f].pair].refresh # "unissued"
  BY <1>2 DEF Issued, Holds
<1>4. /\ Moved(flights[f].pair, answer)
      /\ answer = None => pairs'[flights[f].pair].refresh = "revoked"
  BY <1>1, <1>2, <1>3, ExchangeMoves
<1>5. UNCHANGED <<tokens, user, tainted, calls>>
  BY DEF Serve, session
<1>6. /\ flights'[f].pc = "answered" /\ flights'[f].answer = answer
      /\ flights'[f].pair = flights[f].pair /\ flights'[f].crossed = flights[f].crossed
      /\ \A g \in Flights \ {f} : flights'[g] = flights[g]
  <2>1. flights \in [Flights -> Flight]
    BY DEF Shape, FlightsOK
  <2> QED
    BY <1>1, <2>1 DEF Flight
<1>7. /\ Ended => Ended'
      /\ \A q \in Pairs : Holds(q) /\ Mine(q) => Mine(q)'
  BY <1>4, <1>5, MovedMine DEF Issued
<1>8. StoredMine => StoredMine'
  BY <1>5, <1>7 DEF StoredMine, Holds, Shape, RestOK
<1>9. ASSUME NEW c \in Calls, CallMine(c) PROVE CallMine(c)'
  <2>1. calls[c].pc \in {"first", "second"} => calls[c].pair \in Pairs /\ Holds(calls[c].pair)
    BY DEF Shape, CallsOK, Call, Holds
  <2> QED
    BY <1>5, <1>7, <1>9, <2>1 DEF CallMine
<1>10. ASSUME NEW g \in Flights, FlightMine(g) PROVE FlightMine(g)'
  <2>1. /\ flights[g].pair # None => flights[g].pair \in Pairs /\ Holds(flights[g].pair)
        /\ flights[g].answer # None => flights[g].answer \in Pairs /\ Holds(flights[g].answer)
    BY DEF Shape, FlightsOK, Flight, Holds
  <2>2. CASE g # f
    BY <1>5, <1>6, <1>7, <1>10, <2>1, <2>2 DEF FlightMine
  <2>3. CASE g = f
    <3>1. ASSUME flights[f].pair # None, ~flights[f].crossed, answer # None
          PROVE  Mine(answer)'
      <4>1. Mine(flights[f].pair)
        BY <1>10, <2>3, <3>1 DEF FlightMine
      <4>2. pairs'[answer].owner = user /\ pairs'[answer].refresh = "good"
        BY <1>4, <3>1, <4>1 DEF Moved, Answered, Mine
      <4> QED
        BY <1>5, <4>2 DEF Mine
    <3> QED
      BY <1>2, <1>5, <1>6, <1>7, <1>10, <2>1, <2>3, <3>1 DEF FlightMine
  <2> QED
    BY <2>2, <2>3
<1>11. Refused'
  <2> SUFFICES ASSUME NEW g \in Flights, flights'[g].pc = "answered", flights'[g].answer = None
               PROVE  pairs'[flights'[g].pair].refresh = "revoked"
    BY DEF Refused
  <2>1. CASE g = f
    BY <1>4, <1>6, <2>1
  <2>2. CASE g # f
    <3>1. flights[g].pair \in Pairs /\ pairs[flights[g].pair].refresh = "revoked"
      BY <1>6, <2>2 DEF Shape, FlightsOK, Flight, SessionInv, Refused
    <3> QED
      BY <1>4, <1>6, <2>2, <3>1, ClientNoneAssumption DEF Moved, Kept, Answered
  <2> QED
    BY <2>1, <2>2
<1> QED
  BY <1>5, <1>8, <1>9, <1>10, <1>11 DEF SessionInv, AllMine

LEMMA LandSession ==
  ASSUME Shape, Shape', Issued, SessionInv, NEW f \in Flights,
         NoTokens(f) \/ Deliver(f) \/ GiveUp(f)
  PROVE  SessionInv'
<1>1. /\ flights'[f] = IdleFlight /\ pairs' = pairs /\ user' = user
      /\ \A g \in Flights \ {f} : flights'[g] = flights[g]
  BY DEF NoTokens, Deliver, GiveUp, Land, bff, session, Shape, FlightsOK
<1>2. Refused'
  BY <1>1, RecordsMade DEF SessionInv, Refused
<1>3. /\ Ended' <=> Ended
      /\ \A q : Mine(q)' <=> Mine(q)
  BY <1>1 DEF Ended, Mine, Alive
<1>4. ASSUME ~tainted'
      PROVE  StoredMine' /\ (\A c \in Calls : CallMine(c)') /\ (\A g \in Flights : FlightMine(g)')
  <2>1. /\ ~tainted
        /\ \/ tokens' = tokens
           \/ /\ tokens' = flights[f].answer /\ flights[f].answer # None
              /\ ~flights[f].crossed
    <3>1. CASE NoTokens(f) \/ GiveUp(f)
      BY <1>4, <3>1 DEF NoTokens, GiveUp, session
    <3>2. CASE Deliver(f) /\ UNCHANGED <<tokens, tainted>>
      BY <1>4, <3>2
    <3>3. CASE /\ flights[f].answer # None /\ tokens' = flights[f].answer
               /\ tainted' = (tainted \/ flights[f].crossed)
      BY <1>4, <3>3
    <3> QED
      BY <3>1, <3>2, <3>3 DEF Deliver, SaveRotated
  <2>2. StoredMine /\ (\A c \in Calls : CallMine(c)) /\ (\A g \in Flights : FlightMine(g))
    BY <2>1 DEF SessionInv, AllMine
  <2>3. flights[f].answer # None => flights[f].pair # None
    BY DEF Shape, FlightsOK
  <2>4. tokens' = tokens \/ (tokens # None /\ tokens' # None /\ Mine(tokens'))
    BY <2>1, <2>2, <2>3 DEF FlightMine
  <2>5. StoredMine'
    BY <1>1, <1>3, <2>2, <2>4 DEF StoredMine
  <2>6. \A g \in Flights : FlightMine(g)'
    BY <1>1, <1>3, <2>2, <2>4, RecordsMade DEF FlightMine
  <2>7. ASSUME NEW c \in Calls, c \notin Waiting(f) PROVE CallMine(c)'
    <3>1. calls'[c] = calls[c]
      BY <2>7 DEF NoTokens, Deliver, GiveUp, Rotated, Rejected, Failed
    <3> QED
      BY <1>3, <2>2, <2>4, <3>1 DEF CallMine
  <2>8. ASSUME NEW c \in Waiting(f) PROVE CallMine(c)'
    <3>1. CallMine(c) /\ calls[c].pc = "waiting"
      BY <2>2 DEF Waiting
    <3>2. CASE NoTokens(f)
      <4>1. calls'[c].crossed
        BY <2>8, <3>1, <3>2, Resumed DEF NoTokens, CallMine
      <4> QED
        BY <4>1 DEF CallMine
    <3>3. CASE GiveUp(f)
      BY <2>8, <3>3, Resumed, RecordsMade DEF GiveUp, CallMine
    <3>4. CASE Deliver(f) /\ flights[f].answer # None
      <4>1. /\ calls'[c].pc = "second" /\ calls'[c].pair = flights[f].answer
            /\ ~calls'[c].crossed => ~calls[c].crossed /\ ~flights[f].crossed
        BY <2>8, <3>4, Resumed DEF Deliver
      <4>2. ~calls'[c].crossed => Mine(flights[f].answer) /\ tokens # None
        BY <2>2, <2>3, <3>4, <4>1 DEF FlightMine
      <4> QED
        BY <1>3, <2>4, <4>1, <4>2 DEF CallMine
    <3>5. CASE Deliver(f) /\ flights[f].answer = None
      <4>1. /\ calls'[c].pc = "dead"
            /\ ~calls'[c].crossed => ~calls[c].crossed /\ ~flights[f].crossed
        BY <2>8, <3>5, Resumed DEF Deliver
      <4>2. flights[f].pair # None /\ pairs[flights[f].pair].refresh = "revoked"
        BY <3>5 DEF Deliver, Shape, FlightsOK, SessionInv, Refused
      <4>3. ~calls'[c].crossed => Ended /\ tokens # None
        BY <2>2, <4>1, <4>2 DEF FlightMine, Mine
      <4> QED
        BY <1>3, <2>4, <4>1, <4>3 DEF CallMine
    <3> QED
      BY <3>2, <3>3, <3>4, <3>5
  <2> QED
    BY <2>5, <2>6, <2>7, <2>8
<1> QED
  BY <1>2, <1>4 DEF SessionInv, AllMine

LEMMA RelaunchSession ==
  ASSUME Shape, Shape', Issued, SessionInv, Relaunch
  PROVE  SessionInv'
<1>1. /\ \A c \in Calls : calls'[c].pc = "idle"
      /\ \A f \in Flights : flights'[f].pc = "idle" /\ flights'[f].pair = None
      /\ UNCHANGED <<pairs, tokens, tainted>>
      /\ user' = IF tokens = None THEN None ELSE user
  BY RecordsMade DEF Relaunch
<1>2. ASSUME ~tainted PROVE StoredMine'
  <2>1. StoredMine /\ user' = user
    BY <1>1, <1>2 DEF SessionInv, AllMine, StoredMine
  <2> QED
    BY <1>1, <2>1 DEF StoredMine, Mine, Ended, Alive
<1> QED
  BY <1>1, <1>2 DEF SessionInv, AllMine, CallMine, FlightMine, Refused

LEMMA SessionStep == Shape /\ Issued /\ Shape' /\ SessionInv /\ [Next]_vars => SessionInv'
<1> SUFFICES ASSUME Shape, Issued, Shape', SessionInv, [Next]_vars PROVE SessionInv'
  OBVIOUS
<1>1. CASE Next
  BY <1>1, BoundarySteps, BackgroundSteps, CallSteps, SucceedStep, LoadSession, ServeSession,
    LandSession, RelaunchSession DEF Next
<1>2. CASE UNCHANGED vars
  BY <1>2 DEF vars, SessionInv, AllMine, StoredMine, CallMine, FlightMine, Refused, Mine, Ended,
    Alive
<1> QED
  BY <1>1, <1>2

LEMMA AlwaysOneSession == Spec => [](Shape /\ SessionInv)
BY InitSession, AlwaysShaped, SessionStep, PTL DEF Spec

\* Stored tokens and the stored profile are of one account, whatever interleaves,
\* unless an answer to a request of an earlier session wrote one of them
\* (SessionStore, DataStoreAuthSession).
THEOREM ClientStaysConsistent == Spec => []SessionConsistent
BY AlwaysOneSession, SessionHolds, PTL

\* A call that is about to drop its own session drops one the BFF has ended: no
\* lost answer and no refresh that raced signs the user out (AuthHTTPClient).
THEOREM ClientKeepsLive == Spec => []DeadMeansDead
BY AlwaysOneSession, SessionHolds, PTL
=============================================================================

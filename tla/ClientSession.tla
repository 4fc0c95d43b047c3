--------------------------- MODULE ClientSession ---------------------------
(***************************************************************************)
(* The session of a native client: TokenRefresher, the authenticated HTTP  *)
(* clients (AuthHTTPClient on iOS, DefaultAuthedHttpClient on Android) and *)
(* the stored session (SessionStore with TokenStore, DataStoreAuthSession),*)
(* against a BFF that rotates refresh tokens and takes a second use for a  *)
(* replay.  The BFF is one step per exchange here; Auth looks inside it.   *)
(*                                                                         *)
(* A call c is one authenticated request of the app.  A flight f is one    *)
(* POST /auth/refresh with the task that awaits it and saves its answer;   *)
(* inFlight is the field that lets concurrent callers share it.            *)
(***************************************************************************)
EXTENDS Naturals, FiniteSets

CONSTANTS
  Platforms,  \* subset of {"ios", "android"}
  Accounts,
  Pairs,      \* token pairs, an access and a refresh token each
  Calls, Flights,
  MaxFaults,  \* bound on lost answers, restarts and cancelled callers
  None

ASSUME PlatformsAssumption == Platforms \subseteq {"ios", "android"}
ASSUME ClientFaultsAssumption == MaxFaults \in Nat
ASSUME ClientNoneAssumption == None \notin Accounts \cup Pairs \cup Flights

VARIABLES
  platform,
  pairs,     \* the BFF: what it knows of every pair
  wire,      \* refresh requests the client gave up, which may still arrive
  tokens,    \* the stored pair
  user,      \* the stored profile, which the UI shows
  calls, flights, inFlight,
  faults,
  unshared,  \* history: pairs presented by a flight whose answer is lost or
             \* that later callers do not share
  tainted    \* history: the stored session was written by an answer to a
             \* request of an earlier session

vars == <<platform, pairs, wire, tokens, user, calls, flights, inFlight, faults,
          unshared, tainted>>
bff == <<pairs, wire>>
session == <<tokens, user, tainted>>
refresher == <<flights, inFlight, unshared>>

-----------------------------------------------------------------------------
Pair == [owner: Accounts \cup {None}, refresh: {"unissued", "good", "used", "revoked"},
         fresh: BOOLEAN]
Alive(p) == pairs[p].refresh = "good"

\* locked: it went through the mutex of TokenRefresher.refresh (Android), and its
\* finally block empties the slot.  crossed is history: the session changed since
\* the request began.
Call == [pc: {"idle", "first", "waiting", "second", "dead"}, pair: Pairs \cup {None},
         flight: Flights \cup {None}, locked: BOOLEAN, crossed: BOOLEAN]
IdleCall == [pc |-> "idle", pair |-> None, flight |-> None, locked |-> FALSE,
             crossed |-> FALSE]

\* loose is history: later callers start a flight of their own beside it.
Flight == [pc: {"idle", "starting", "sent", "answered"}, pair: Pairs \cup {None},
           answer: Pairs \cup {None}, crossed: BOOLEAN, loose: BOOLEAN]
IdleFlight == [pc |-> "idle", pair |-> None, answer |-> None, crossed |-> FALSE,
               loose |-> FALSE]

Waiting(f) == {c \in Calls : calls[c].pc = "waiting" /\ calls[c].flight = f}
Sent == {f \in Flights : flights[f].pc = "sent"}
Presented == {flights[f].pair : f \in {g \in Flights : flights[g].pc \in {"sent", "answered"}}}

\* Bound: a call begins only while a pair is left for every refresh in sight.
PairsLeft == Cardinality({p \in Pairs : pairs[p].refresh = "unissued"})
             > Cardinality({c \in Calls : calls[c].pc # "idle"}) + Cardinality(wire)
               + Cardinality({f \in Flights : flights[f].pc # "idle"})

Init ==
  /\ platform \in Platforms
  /\ pairs = [p \in Pairs |-> [owner |-> None, refresh |-> "unissued", fresh |-> FALSE]]
  /\ wire = {}
  /\ tokens = None /\ user = None
  /\ calls = [c \in Calls |-> IdleCall]
  /\ flights = [f \in Flights |-> IdleFlight]
  /\ inFlight = None
  /\ faults = 0
  /\ unshared = {}
  /\ tainted = FALSE

Ios == platform = "ios"
Fault == faults < MaxFaults /\ faults' = faults + 1
EndCall(c) == calls' = [calls EXCEPT ![c] = IdleCall]

\* The session changes: every request under way belongs to an earlier one now.
\* cs are the calls as they are otherwise.
NewSession(cs) ==
  /\ calls' = [c \in Calls |-> [cs[c] EXCEPT !.crossed = cs[c].pc # "idle"]]
  /\ flights' = [f \in Flights |-> [flights[f] EXCEPT !.crossed = flights[f].pc # "idle"]]
  /\ tainted' = FALSE

-----------------------------------------------------------------------------
(* The BFF, as the clients see it.                                          *)

Issue(p, a, table) == [table EXCEPT ![p] = [owner |-> a, refresh |-> "good", fresh |-> TRUE]]
RevokeAll(a) == [p \in Pairs |-> IF pairs[p].owner = a
                                 THEN [pairs[p] EXCEPT !.refresh = "revoked"] ELSE pairs[p]]

\* What presenting p does, and the answer: a new pair, or None for a 401.
Exchange(p, answer) ==
  \/ /\ pairs[p].refresh = "good" /\ answer # None
     /\ pairs[answer].refresh = "unissued"
     /\ pairs' = Issue(answer, pairs[p].owner, [pairs EXCEPT ![p].refresh = "used"])
  \/ /\ pairs[p].refresh = "used" /\ answer = None
     /\ pairs' = RevokeAll(pairs[p].owner)
  \/ /\ pairs[p].refresh = "revoked" /\ answer = None
     /\ pairs' = pairs

\* 15 minutes.
AccessExpires(p) ==
  /\ pairs[p].fresh
  /\ pairs' = [pairs EXCEPT ![p].fresh = FALSE]
  /\ UNCHANGED <<platform, wire, session, calls, refresher, faults>>

\* The account is deleted, or a token of it replayed, from another device.
RevokedElsewhere(a) ==
  /\ \E p \in Pairs : pairs[p].owner = a /\ Alive(p)
  /\ pairs' = RevokeAll(a)
  /\ UNCHANGED <<platform, wire, session, calls, refresher, faults>>

\* A request the client no longer waits for arrives.
LateArrival(p) ==
  /\ p \in wire
  /\ \E answer \in Pairs \cup {None} : Exchange(p, answer)
  /\ wire' = wire \ {p}
  /\ UNCHANGED <<platform, session, calls, refresher, faults>>

-----------------------------------------------------------------------------
(* Variants with a plausible mistake; no action of Next uses them.          *)

\* Only the token items are removed.
SignedOutKeepingUser(cs) == tokens' = None /\ user' = user /\ NewSession(cs)

\* Every caller starts a refresh of its own.
RefreshUncoalesced(c) ==
  \E f \in Flights :
    /\ flights[f].pc = "idle"
    /\ flights' = [flights EXCEPT ![f] = [IdleFlight EXCEPT !.pc = "starting"]]
    /\ inFlight' = f
    /\ calls' = [calls EXCEPT ![c].pc = "waiting", ![c].flight = f, ![c].locked = ~Ios]
    /\ UNCHANGED unshared

\* A transient failure is taken for a rejection.
FailedAsDead(f) ==
  [c \in Calls |-> IF c \in Waiting(f) THEN [calls[c] EXCEPT !.pc = "dead"] ELSE calls[c]]

-----------------------------------------------------------------------------
(* The stored session.                                                      *)

SignedOut(cs) == tokens' = None /\ user' = None /\ NewSession(cs)

\* completeAuthentication, or AuthSession.save, after a sign-in.
SignIn(a) ==
  /\ user = None /\ PairsLeft
  /\ \E p \in Pairs :
       /\ pairs[p].refresh = "unissued"
       /\ pairs' = Issue(p, a, pairs)
       /\ tokens' = p
  /\ user' = a
  /\ NewSession(calls)
  /\ UNCHANGED <<platform, wire, inFlight, unshared, faults>>

SignOut ==
  /\ user # None
  /\ SignedOut(calls)
  /\ UNCHANGED <<platform, bff, inFlight, unshared, faults>>

\* TokenRefresher saves its answer: saveTokens writes whatever is there,
\* updateTokens only into a session.
SaveRotated(f) ==
  IF Ios \/ tokens # None
  THEN tokens' = flights[f].answer /\ tainted' = (tainted \/ flights[f].crossed)
  ELSE UNCHANGED <<tokens, tainted>>

\* updateUser with the profile an edit was answered with; the same difference.
UpdateUser(c) ==
  IF Ios \/ user # None
  THEN user' = pairs[calls[c].pair].owner /\ tainted' = (tainted \/ calls[c].crossed)
  ELSE UNCHANGED <<user, tainted>>

-----------------------------------------------------------------------------
(* Authenticated calls: AuthHTTPClient.send and DefaultAuthedHttpClient.send.  *)
(* Android's BearerAuthInterceptor does the same for GraphQL; the one of iOS  *)
(* differs in reading the stored pair again for its second attempt.           *)

Begin(c) ==
  /\ calls[c].pc = "idle" /\ tokens # None /\ PairsLeft
  /\ calls' = [calls EXCEPT ![c] = [IdleCall EXCEPT !.pc = "first", !.pair = tokens]]
  /\ UNCHANGED <<platform, bff, session, refresher, faults>>

\* No stored token: the hook fires (iOS).
BeginSignedOut(c) ==
  /\ Ios /\ calls[c].pc = "idle" /\ tokens = None /\ user # None
  /\ SignedOut(calls)
  /\ UNCHANGED <<platform, bff, inFlight, unshared, faults>>

\* Any answer but 401; the call may have been an edit of the profile.
Succeed(c) ==
  /\ calls[c].pc \in {"first", "second"} /\ pairs[calls[c].pair].fresh
  /\ UpdateUser(c) \/ UNCHANGED <<user, tainted>>
  /\ EndCall(c)
  /\ UNCHANGED <<platform, bff, tokens, refresher, faults>>

\* The network fails, or the caller is cancelled while it waits for it.
CallFails(c) ==
  /\ calls[c].pc \in {"first", "second"}
  /\ EndCall(c)
  /\ UNCHANGED <<platform, bff, session, refresher, faults>>

\* TokenRefresher.refresh up to its await.  On Android a caller that finds the
\* slot taken joins before the mutex or, having raced, under it.
Refresh(c) ==
  \/ /\ inFlight # None
     /\ \E locked \in IF Ios THEN {FALSE} ELSE BOOLEAN :
          calls' = [calls EXCEPT ![c].pc = "waiting", ![c].flight = inFlight,
                                 ![c].locked = locked]
     /\ UNCHANGED refresher
  \/ /\ inFlight = None
     /\ \E f \in Flights :
          /\ flights[f].pc = "idle"
          /\ flights' = [flights EXCEPT ![f] = [IdleFlight EXCEPT !.pc = "starting"]]
          /\ inFlight' = f
          /\ calls' = [calls EXCEPT ![c].pc = "waiting", ![c].flight = f, ![c].locked = ~Ios]
     /\ UNCHANGED unshared

Unauthorized(c) ==
  /\ calls[c].pc = "first" /\ ~pairs[calls[c].pair].fresh
  /\ Refresh(c)
  /\ UNCHANGED <<platform, bff, session, faults>>

\* The rotated token is refused too.
SecondUnauthorized(c) ==
  /\ calls[c].pc = "second" /\ ~pairs[calls[c].pair].fresh
  /\ SignedOut([calls EXCEPT ![c] = IdleCall])
  /\ UNCHANGED <<platform, bff, inFlight, unshared, faults>>

\* The refresh was refused: the session is dropped.
DeadEnds(c) ==
  /\ calls[c].pc = "dead"
  /\ SignedOut([calls EXCEPT ![c] = IdleCall])
  /\ UNCHANGED <<platform, bff, inFlight, unshared, faults>>

\* Android: the screen that called goes away.  Its await is cancelled, not the
\* refresh, and its finally block empties the slot when it finds the mutex free.
CallerCancelled(c) ==
  /\ ~Ios /\ calls[c].pc = "waiting" /\ Fault
  /\ LET f == calls[c].flight IN
       \/ /\ calls[c].locked /\ inFlight = f
          /\ inFlight' = None
          /\ flights' = [flights EXCEPT ![f].loose = TRUE]
          /\ unshared' = unshared \cup ({flights[f].pair} \ {None})
       \/ UNCHANGED refresher
  /\ EndCall(c)
  /\ UNCHANGED <<platform, bff, session>>

-----------------------------------------------------------------------------
(* Flights: performRefresh and the task that runs it.                       *)

Land(f) ==
  /\ flights' = [flights EXCEPT ![f] = IdleFlight]
  /\ inFlight' = IF inFlight = f THEN None ELSE inFlight

\* What callers of f go on with.
Rotated(f) ==
  [c \in Calls |-> IF c \in Waiting(f)
                   THEN [IdleCall EXCEPT !.pc = "second", !.pair = flights[f].answer,
                           !.crossed = calls[c].crossed \/ flights[f].crossed]
                   ELSE calls[c]]
Rejected(f) ==
  [c \in Calls |-> IF c \in Waiting(f)
                   THEN [IdleCall EXCEPT !.pc = "dead",
                           !.crossed = calls[c].crossed \/ flights[f].crossed]
                   ELSE calls[c]]
Failed(f) == [c \in Calls |-> IF c \in Waiting(f) THEN IdleCall ELSE calls[c]]

LoadTokens(f) ==
  /\ flights[f].pc = "starting" /\ tokens # None
  /\ flights' = [flights EXCEPT ![f].pc = "sent", ![f].pair = tokens, ![f].crossed = FALSE]
  /\ unshared' = IF flights[f].loose THEN unshared \cup {tokens} ELSE unshared
  /\ UNCHANGED <<platform, bff, session, calls, inFlight, faults>>

NoTokens(f) ==
  /\ flights[f].pc = "starting" /\ tokens = None
  /\ calls' = Rejected(f)
  /\ Land(f)
  /\ UNCHANGED <<platform, bff, session, unshared, faults>>

Serve(f) ==
  /\ flights[f].pc = "sent"
  /\ \E answer \in Pairs \cup {None} :
       /\ Exchange(flights[f].pair, answer)
       /\ flights' = [flights EXCEPT ![f].pc = "answered", ![f].answer = answer]
  /\ UNCHANGED <<platform, wire, session, calls, inFlight, unshared, faults>>

Deliver(f) ==
  /\ flights[f].pc = "answered"
  /\ IF flights[f].answer # None
     THEN SaveRotated(f) /\ calls' = Rotated(f)
     ELSE UNCHANGED <<tokens, tainted>> /\ calls' = Rejected(f)
  /\ Land(f)
  /\ UNCHANGED <<platform, bff, user, unshared, faults>>

\* A timeout, no network or a 5xx: the request may have arrived, may still
\* arrive, or never does.
GiveUp(f) ==
  /\ flights[f].pc \in {"sent", "answered"} /\ Fault
  /\ wire' = IF flights[f].pc = "sent" THEN wire \cup {flights[f].pair} ELSE wire
  /\ unshared' = unshared \cup {flights[f].pair}
  /\ calls' = Failed(f)
  /\ Land(f)
  /\ UNCHANGED <<platform, pairs, session>>

\* The app is killed and started again: SessionStore.init, sessionFlow.
Relaunch ==
  /\ Fault
  /\ calls' = [c \in Calls |-> IdleCall]
  /\ flights' = [f \in Flights |-> IdleFlight]
  /\ inFlight' = None
  /\ wire' = wire \cup {flights[f].pair : f \in Sent}
  /\ unshared' = unshared \cup Presented
  /\ user' = IF tokens = None THEN None ELSE user
  /\ UNCHANGED <<platform, pairs, tokens, tainted>>

-----------------------------------------------------------------------------
Next ==
  \/ \E p \in Pairs : AccessExpires(p) \/ LateArrival(p)
  \/ \E a \in Accounts : RevokedElsewhere(a) \/ SignIn(a)
  \/ SignOut
  \/ \E c \in Calls :
       \/ Begin(c) \/ BeginSignedOut(c) \/ Succeed(c) \/ CallFails(c)
       \/ Unauthorized(c) \/ SecondUnauthorized(c) \/ DeadEnds(c) \/ CallerCancelled(c)
  \/ \E f \in Flights : LoadTokens(f) \/ NoTokens(f) \/ Serve(f) \/ Deliver(f) \/ GiveUp(f)
  \/ Relaunch

Spec == Init /\ [][Next]_vars

-----------------------------------------------------------------------------
(* Properties.                                                              *)

\* Shapes, and that a call that waits waits for a refresh that is under way.
TypeOK ==
  /\ platform \in Platforms
  /\ pairs \in [Pairs -> Pair]
  /\ wire \subseteq Pairs /\ unshared \subseteq Pairs
  /\ tokens \in Pairs \cup {None} /\ user \in Accounts \cup {None}
  /\ calls \in [Calls -> Call] /\ flights \in [Flights -> Flight]
  /\ inFlight \in Flights \cup {None}
  /\ faults \in 0..MaxFaults
  /\ tainted \in BOOLEAN
  /\ \A c \in Calls : calls[c].pc \in {"first", "second"} => calls[c].pair # None
  /\ \A c \in Calls : calls[c].pc = "waiting" =>
       calls[c].flight # None /\ flights[calls[c].flight].pc # "idle"

\* The app replays no refresh token by itself: a token it presents has been
\* used before only when the answer to that use was lost or a caller that had
\* been through the mutex went away (coalescing and save-before-return in
\* TokenRefresher).
NoReplay ==
  \A f \in Sent : pairs[flights[f].pair].refresh = "used" => flights[f].pair \in unshared

\* Tokens and profile are stored together and are of one account, whatever
\* interleaves, unless an answer to a request of an earlier session wrote one
\* of them (SessionStore, DataStoreAuthSession).
SessionConsistent ==
  tainted \/ /\ tokens = None <=> user = None
             /\ tokens # None => pairs[tokens].owner = user

\* A call whose refresh was refused, in its own session and one that holds its
\* own tokens, is about to drop a session whose refresh token the BFF would not
\* take either: losing the network never signs the user out.
DeadMeansDead ==
  \A c \in Calls : calls[c].pc = "dead" /\ ~calls[c].crossed /\ ~tainted
                     => tokens # None /\ ~Alive(tokens)

\* TokenRefresher.kt: "Concurrent callers share the same in-flight [Deferred],
\* so only one POST /auth/refresh fires per rotation window".
OneRefreshPerWindow ==
  \A f, g \in Sent : f # g => flights[f].pair # flights[g].pair
=============================================================================

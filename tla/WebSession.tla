----------------------------- MODULE WebSession -----------------------------
(***************************************************************************)
(* The session of the web app: the two auth cookies of a browser, the      *)
(* requests of its tabs to the Next.js server, and what bffFetch           *)
(* (apps/web/app/lib/bff-fetch.ts) does for each of them at the BFF.       *)
(*                                                                         *)
(* A request works on the cookies it was sent with.  A server action sends *)
(* its changes back with the answer; the render of a server component may  *)
(* not change a cookie: Next.js throws.  A tab has at most one action and  *)
(* one render under way; nothing orders them, nor the tabs.                *)
(*                                                                         *)
(* Pair i is the access and the refresh token issued together; cookies     *)
(* name pairs by their number, 0 is no cookie.                             *)
(***************************************************************************)
EXTENDS Naturals, Sequences, FiniteSets

CONSTANTS
  Users, Tabs,
  MaxPairs,   \* bound on the token pairs the BFF issues
  MaxFaults,  \* bound on failures, lost answers and revocations from elsewhere
  None

ASSUME WebSessionAssumption == None \notin Users /\ MaxPairs \in Nat /\ MaxFaults \in Nat

Slots == Tabs \X {"action", "render"}
Ops == {"signIn", "data", "account", "delete", "signOut"}

VARIABLES
  pairs,      \* the BFF: every pair it issued
  jar,        \* the cookies of the browser
  req,        \* per slot: the request under way
  view,       \* per tab: whom the page it shows is signed in as
  faults,
  \* History, read by no guard:
  disturbed,  \* what happened to the browser's session so far
  out         \* the browser signed out and did not sign in again

vars == <<pairs, jar, req, view, faults, disturbed, out>>

Pair == [user: Users, access: {"valid", "expired"}, refresh: {"live", "used", "revoked"}]
Cookies == [access: 0..MaxPairs, refresh: 0..MaxPairs]
NoCookies == [access |-> 0, refresh |-> 0]
CookiesOf(i) == [access |-> i, refresh |-> i]

\* before: the cookies it was sent with; jar: as it left them; set: they changed.
\* user: whom it signs in or, for a render, shows.
Idle == [op |-> "none", at |-> "idle", before |-> NoCookies, jar |-> NoCookies,
         set |-> FALSE, user |-> None]
Request == [op: Ops, at: {"sent", "refresh", "retry", "answered"}, before: Cookies,
            jar: Cookies, set: BOOLEAN, user: Users \cup {None}]

Busy == {s \in Slots : req[s].at # "idle"}
Rendering(s) == s[2] = "render"
ValidAccess(i) == i # 0 /\ pairs[i].access = "valid"

\* getCurrentSession only looks into the access token.
SessionUser(cookies) ==
  IF ValidAccess(cookies.access) THEN pairs[cookies.access].user ELSE None

Init ==
  /\ pairs = <<>> /\ jar = NoCookies
  /\ req = [s \in Slots |-> Idle]
  /\ view = [t \in Tabs |-> None]
  /\ faults = 0
  /\ disturbed = {} /\ out = FALSE

Fault == faults < MaxFaults /\ faults' = faults + 1
Disturb(why) == disturbed' = disturbed \cup why
At(s, pc) == req[s].at = pc
Step(s, changes) == req' = [req EXCEPT ![s] = changes]

-----------------------------------------------------------------------------
(* Variants with a plausible mistake; no action of Next uses them.          *)

\* The retry has the new token, the browser keeps the spent one.
NotPersisted(r, i) == [r EXCEPT !.jar = CookiesOf(i), !.at = "retry"]

\* Renders change cookies as actions do, as they would in a route handler.
NeverReadOnly(s) == FALSE

\* Any 401 signs out, also that of a wrong or late call of /auth/me.
UnauthorizedDrops(s) ==
  /\ req[s].at \in {"sent", "retry"} /\ ~ValidAccess(req[s].jar.access)
  /\ req[s].op \in {"data", "account", "delete"}
  /\ Step(s, [req[s] EXCEPT !.at = "answered", !.jar = NoCookies, !.set = TRUE])
  /\ UNCHANGED <<pairs, jar, view, faults, disturbed, out>>

-----------------------------------------------------------------------------
(* The cookie store of a request (auth-cookies.ts).                         *)

\* Next.js: cookies().set and delete throw while a server component renders.
ReadOnly(s) == Rendering(s)

SetAuthCookies(r, i) == [r EXCEPT !.jar = CookiesOf(i), !.set = TRUE]
Persisted(r, i) == [SetAuthCookies(r, i) EXCEPT !.at = "retry"]
ClearAuthCookies(r) == [r EXCEPT !.jar = NoCookies, !.set = TRUE]

\* The request ends with the cookies as they are.
Ended(s) == [req[s] EXCEPT !.at = "answered"]

\* bffFetch gives up: cleared cookies and the 401, or in a render the error
\* that the page swallows (fetchSuggestionFromBff).
Dropped(s, r) ==
  IF ReadOnly(s) THEN [r EXCEPT !.at = "answered"]
  ELSE [ClearAuthCookies(r) EXCEPT !.at = "answered"]

-----------------------------------------------------------------------------
(* The BFF.                                                                 *)

Issue(table, u) == Append(table, [user |-> u, access |-> "valid", refresh |-> "live"])
RevokeAll(u) == [i \in DOMAIN pairs |->
  IF pairs[i].user = u THEN [pairs[i] EXCEPT !.refresh = "revoked"] ELSE pairs[i]]

\* POST /auth/refresh for pair i: a new pair, or a 401.
Rotate(i) == pairs[i].refresh = "live"
             /\ pairs' = Issue([pairs EXCEPT ![i].refresh = "used"], pairs[i].user)
Reject(i) == \/ pairs[i].refresh = "used" /\ pairs' = RevokeAll(pairs[i].user)
             \/ pairs[i].refresh = "revoked" /\ UNCHANGED pairs

-----------------------------------------------------------------------------
(* Requests.                                                                *)

\* Bound: a request begins while every request under way can have its pair.
Room == Len(pairs) + Cardinality(Busy) < MaxPairs

Begin(s, op, u) ==
  /\ At(s, "idle") /\ Room
  /\ Step(s, [Idle EXCEPT !.op = op, !.at = "sent", !.before = jar, !.jar = jar, !.user = u])
  /\ disturbed' = disturbed \cup
       (IF ~Rendering(s) /\ \E o \in Busy : ~Rendering(o) THEN {"overlap"} ELSE {})
  /\ UNCHANGED <<pairs, jar, view, faults, out>>

\* The forms of the sign-in pages, the buttons of a signed-in page, its reads
\* and writes of /me, and the home page, which asks for a suggestion.
BeginSignIn(t) == \E u \in Users : Begin(<<t, "action">>, "signIn", u)
BeginAction(t) ==
  view[t] # None /\ \E op \in Ops \ {"signIn"} : Begin(<<t, "action">>, op, None)
BeginRender(t) == Begin(<<t, "render">>, "data", SessionUser(jar))

Bearer(s) == req[s].jar.access

\* signUpAction, signInAction and signInWithGoogleAction: cookies on success;
\* whatever the BFF answers else, the cookies stay.
ServeSignIn(s) ==
  /\ At(s, "sent") /\ req[s].op = "signIn"
  /\ \/ /\ pairs' = Issue(pairs, req[s].user)
        /\ Step(s, SetAuthCookies(Ended(s), Len(pairs) + 1))
     \/ UNCHANGED pairs /\ Step(s, Ended(s))
  /\ UNCHANGED <<jar, view, faults, disturbed, out>>

\* signOutAction tells the BFF nothing.
ServeSignOut(s) ==
  /\ At(s, "sent") /\ req[s].op = "signOut"
  /\ Step(s, ClearAuthCookies(Ended(s)))
  /\ UNCHANGED <<pairs, jar, view, faults, disturbed, out>>

\* The request is authorised.
Serve(s) ==
  /\ req[s].at \in {"sent", "retry"} /\ req[s].op \in {"data", "account"}
  /\ ValidAccess(Bearer(s))
  /\ Step(s, Ended(s))
  /\ UNCHANGED <<pairs, jar, view, faults, disturbed, out>>

\* deleteAccountAction
ServeDelete(s) ==
  /\ At(s, "sent") /\ req[s].op = "delete" /\ ValidAccess(Bearer(s))
  /\ LET u == pairs[Bearer(s)].user IN
       /\ pairs' = RevokeAll(u)
       /\ Step(s, ClearAuthCookies(Ended(s)))
  /\ Disturb({"deleted"})
  /\ UNCHANGED <<jar, view, faults, out>>

\* 401.  The urls with /auth/ are not refreshed, and a retry is not repeated.
Unauthorized(s) ==
  /\ req[s].at \in {"sent", "retry"} /\ req[s].op \in {"data", "account", "delete"}
  /\ ~ValidAccess(Bearer(s))
  /\ Step(s, IF At(s, "sent") /\ req[s].op = "data" THEN [req[s] EXCEPT !.at = "refresh"]
             ELSE Ended(s))
  /\ UNCHANGED <<pairs, jar, view, faults, disturbed, out>>

\* tryRefreshAccessToken: readRefreshToken found none.
NoRefreshToken(s) ==
  /\ At(s, "refresh") /\ req[s].jar.refresh = 0
  /\ Step(s, Dropped(s, req[s]))
  /\ UNCHANGED <<pairs, jar, view, faults, disturbed, out>>

\* Rotated and persisted; in a render setAuthCookies throws, and the pair that
\* was issued is gone with the request.
Refresh(s) ==
  LET i == req[s].jar.refresh IN
  /\ At(s, "refresh") /\ i # 0
  /\ Rotate(i)
  /\ IF ReadOnly(s)
     THEN Step(s, Dropped(s, req[s])) /\ Disturb({"render"})
     ELSE /\ Step(s, Persisted(req[s], Len(pairs) + 1))
          /\ UNCHANGED disturbed
  /\ UNCHANGED <<jar, view, faults, out>>

RefreshRejected(s) ==
  LET i == req[s].jar.refresh IN
  /\ At(s, "refresh") /\ i # 0
  /\ Reject(i)
  /\ Step(s, Dropped(s, req[s]))
  /\ Disturb(IF Rendering(s) THEN {"render"} ELSE {})
  /\ UNCHANGED <<jar, view, faults, out>>

\* The exchange fails, maybe after the BFF has rotated: taken for a rejection.
RefreshFails(s) ==
  LET i == req[s].jar.refresh IN
  /\ At(s, "refresh") /\ i # 0 /\ Fault
  /\ Rotate(i) \/ UNCHANGED pairs
  /\ Step(s, Dropped(s, req[s]))
  /\ Disturb({"failed"})
  /\ UNCHANGED <<jar, view, out>>

\* The call itself fails, or the BFF does: the action throws.
CallFails(s) ==
  /\ req[s].at \in {"sent", "retry"} /\ req[s].op # "signOut" /\ Fault
  /\ Step(s, Ended(s))
  /\ UNCHANGED <<pairs, jar, view, disturbed, out>>

\* The browser gets the answer, and with it the cookies an action changed; a
\* render shows the session it found.
Answer(s) ==
  /\ At(s, "answered")
  /\ Step(s, Idle)
  /\ LET r == req[s] IN
       /\ jar' = IF r.set THEN r.jar ELSE jar
       /\ view' = IF Rendering(s) THEN [view EXCEPT ![s[1]] = r.user] ELSE view
       /\ out' = IF r.set /\ r.op = "signIn" THEN FALSE ELSE out \/ (r.set /\ r.jar = NoCookies)
  /\ UNCHANGED <<pairs, faults, disturbed>>

\* The tab is closed or reloaded, or the connection lost.
LoseAnswer(s) ==
  /\ At(s, "answered") /\ Fault
  /\ Step(s, Idle)
  /\ Disturb(IF req[s].set THEN {"lost"} ELSE {})
  /\ UNCHANGED <<pairs, jar, view, out>>

\* 15 minutes: the token is void, and its cookie goes at the same time.
AccessExpires(i) ==
  /\ i \in DOMAIN pairs /\ pairs[i].access = "valid"
  /\ pairs' = [pairs EXCEPT ![i].access = "expired"]
  /\ jar' = IF jar.access = i THEN [jar EXCEPT !.access = 0] ELSE jar
  /\ UNCHANGED <<req, view, faults, disturbed, out>>

\* Another device deletes the account or replays a token of it.
RevokedElsewhere(u) ==
  /\ Fault
  /\ pairs' = RevokeAll(u)
  /\ Disturb({"revoked"})
  /\ UNCHANGED <<jar, req, view, out>>

Next ==
  \/ \E t \in Tabs : BeginSignIn(t) \/ BeginAction(t) \/ BeginRender(t)
  \/ \E s \in Slots :
       \/ ServeSignIn(s) \/ ServeSignOut(s) \/ Serve(s) \/ ServeDelete(s) \/ Unauthorized(s)
       \/ NoRefreshToken(s) \/ Refresh(s) \/ RefreshRejected(s) \/ RefreshFails(s)
       \/ CallFails(s) \/ Answer(s) \/ LoseAnswer(s)
  \/ \E i \in 1..MaxPairs : AccessExpires(i)
  \/ \E u \in Users : RevokedElsewhere(u)

Spec == Init /\ [][Next]_vars

-----------------------------------------------------------------------------
(* Properties.                                                              *)

TypeOK ==
  /\ pairs \in Seq(Pair) /\ Len(pairs) <= MaxPairs
  /\ jar \in Cookies
  /\ req \in [Slots -> Request \cup {Idle}]
  /\ view \in [Tabs -> Users \cup {None}]
  /\ faults \in 0..MaxFaults
  /\ disturbed \subseteq {"overlap", "render", "failed", "lost", "revoked", "deleted"}
  /\ out \in BOOLEAN

\* The refresh cookie the browser keeps is one the BFF still takes, or an
\* action is under way with its successor, unless two tabs overlapped, a render
\* spent it, an answer was lost, or the account's tokens were revoked (bffFetch).
DeadSessionExplained ==
  jar.refresh # 0 /\ disturbed = {} =>
    \/ pairs[jar.refresh].refresh = "live"
    \/ \E s \in Busy : req[s].set /\ req[s].before.refresh = jar.refresh

\* A browser that signed out stays signed out: no late answer to an earlier
\* request brings the cookies back, unless the tabs overlapped.
SignedOutStays == out /\ "overlap" \notin disturbed => jar = NoCookies

\* Cookies are dropped by a sign-out, a deletion, or for a reason.
SessionKept ==
  [][jar.refresh # 0 /\ jar'.refresh = 0 =>
       disturbed # {} \/ \E s \in Slots : req[s].op = "signOut" /\ req'[s] = Idle]_vars

\* bff-fetch.ts: the rotated pair is persisted back to the cookie store, so
\* that no token the browser keeps was already spent, as long as requests do
\* not overlap and nothing fails.
RotationPersisted ==
  jar.refresh # 0 /\ Busy = {} /\ disturbed \subseteq {"render"} =>
    pairs[jar.refresh].refresh # "used"
=============================================================================

-------------------------------- MODULE Auth --------------------------------
(***************************************************************************)
(* Accounts and sessions of the BFF: apps/bff/src/auth/ and the            *)
(* /auth/refresh handler of apps/bff/src/rest/rest.ts.                     *)
(*                                                                         *)
(* Every HTTP request runs in a slot r of Requests.  A handler awaits the  *)
(* database between its statements, so one SQL statement (with the         *)
(* JavaScript that follows it up to the next await) is one action, and the *)
(* statements of different requests interleave.  req[r] holds where the    *)
(* handler stands and what it has read; an answer returns the slot to      *)
(* Idle.  Answers that follow a read and change nothing (400, 401, 404,    *)
(* 409, 422) need no action.                                               *)
(***************************************************************************)
EXTENDS Naturals, FiniteSets

CONSTANTS
  Users,      \* ids the database may hand out (never reused)
  Emails, Passwords, Profiles, Subjects,
  Tokens,     \* refresh tokens: every JWT carries a fresh jti
  Requests,   \* slots: the number of requests served at the same time
  Ops,        \* the operations clients call in this instance
  MaxFaults,  \* bound on statements that fail or processes that die
  None

AllOps == {"signup", "login", "google", "refresh", "delete",
           "email", "password", "profile"}

ASSUME OpsAssumption == Ops \subseteq AllOps
ASSUME FaultsAssumption == MaxFaults \in Nat
ASSUME NoneAssumption ==
  None \notin Users \cup Emails \cup Passwords \cup Profiles \cup Subjects \cup Tokens

VARIABLES
  users,      \* table users, by id
  identities, \* table oauth_identities: subject -> user id
  tokens,     \* table refresh_tokens, by token
  req,        \* the request in every slot
  faults,     \* faults so far (bounded by MaxFaults)
  \* History variables, read by no guard:
  parent,     \* the token a token was exchanged for
  overtaken,  \* requests whose reads are older than a revocation for their user
  escaped     \* tokens such requests inserted after the revocation

vars == <<users, identities, tokens, req, faults, parent, overtaken, escaped>>
history == <<parent, overtaken, escaped>>

-----------------------------------------------------------------------------
(* Rows.  status folds deleted_at and the clock: "live" is NULL, "grace" is *)
(* less than 30 days ago, "expired" is more.                                *)

Statuses == {"unused", "live", "grace", "expired", "purged"}

UserRow == [status: Statuses, email: Emails \cup {None},
            password: Passwords \cup {None}, profile: Profiles \cup {None}]
NoUser(status) == [status |-> status, email |-> None, password |-> None, profile |-> None]

TokenRow == [row: {"unissued", "stored", "purged"}, user: Users \cup {None},
             used: BOOLEAN, revoked: BOOLEAN]
NoToken(row) == [row |-> row, user |-> None, used |-> FALSE, revoked |-> FALSE]

Stored(u) == users[u].status \in {"live", "grace", "expired"}
Live(u) == users[u].status = "live"
SoftDeleted(u) == users[u].status \in {"grace", "expired"}
EmailFree(e) == \A u \in Users : Stored(u) => users[u].email # e

TokensOf(u) == {t \in Tokens : tokens[t].row = "stored" /\ tokens[t].user = u}
Usable(t) == tokens[t].row = "stored" /\ ~tokens[t].used /\ ~tokens[t].revoked

-----------------------------------------------------------------------------
(* Requests.                                                                *)

\* The statement a request is about to run.
Pcs == {"idle", "insertUser", "reactivate", "mark", "issue", "revokeDeleted",
        "revokeReplayed", "setPassword", "setEmail", "googleEmail",
        "insertGoogleUser", "reactivateLink", "link", "raced"}

Request == [pc: Pcs, user: Users \cup {None}, email: Emails \cup {None},
            password: Passwords \cup {None}, subject: Subjects \cup {None},
            verified: BOOLEAN, token: Tokens \cup {None}]

Idle == [pc |-> "idle", user |-> None, email |-> None, password |-> None,
         subject |-> None, verified |-> FALSE, token |-> None]

\* Requests of user u that will insert a refresh token without looking at
\* the account again.
Issuing(u) == {r \in Requests : req[r].user = u /\ req[r].pc \in {"mark", "issue", "link"}}

Begin(r, request) == req[r] = Idle /\ req' = [req EXCEPT ![r] = request]
Answer(r) == req' = [req EXCEPT ![r] = Idle] /\ overtaken' = overtaken \ {r}

\* Bounds: a request that will take a new token or a new user id arrives only
\* while ids are left for it, so that no request is stuck for want of one.
TokensLeft == Cardinality({t \in Tokens : tokens[t].row = "unissued"})
              > Cardinality({r \in Requests : req[r].pc \notin
                   {"idle", "revokeDeleted", "revokeReplayed", "setPassword", "setEmail"}})
UsersLeft == Cardinality({u \in Users : users[u].status = "unused"})
             > Cardinality({r \in Requests : req[r].pc \in
                   {"insertUser", "googleEmail", "insertGoogleUser"}})

\* An access token for u can be in somebody's hands.
SignedInOnce(u) == TokensOf(u) # {}

Init ==
  /\ users = [u \in Users |-> NoUser("unused")]
  /\ identities = [s \in Subjects |-> None]
  /\ tokens = [t \in Tokens |-> NoToken("unissued")]
  /\ req = [r \in Requests |-> Idle]
  /\ faults = 0
  /\ parent = [t \in Tokens |-> None]
  /\ overtaken = {}
  /\ escaped = {}

-----------------------------------------------------------------------------
(* Plausible mistakes: variants of actions below, used by no definition.    *)
(* Each shows that a property notices the mistake.                          *)

\* The revocation skips tokens that were not used yet.
RevokeUsed(r) ==
  /\ req[r].pc \in {"revokeDeleted", "revokeReplayed"}
  /\ tokens' = [t \in Tokens |-> IF t \in TokensOf(req[r].user) /\ tokens[t].used
                                 THEN [tokens[t] EXCEPT !.revoked = TRUE]
                                 ELSE tokens[t]]
  /\ Answer(r)
  /\ UNCHANGED <<users, identities, faults, parent, escaped>>

\* The new token is issued without marking the old one.
RefreshNoMark(r) ==
  /\ req[r].pc = "mark"
  /\ req' = [req EXCEPT ![r].pc = "issue"]
  /\ UNCHANGED <<users, identities, tokens, faults, history>>

\* users.email without its unique index.
UpdateEmailTaken(r) ==
  /\ req[r].pc = "setEmail"
  /\ users' = IF Live(req[r].user)
              THEN [users EXCEPT ![req[r].user].email = req[r].email]
              ELSE users
  /\ Answer(r)
  /\ UNCHANGED <<identities, tokens, faults, parent, escaped>>

\* updateUserPassword without AND deleted_at IS NULL.
UpdatePasswordAnyRow(r) ==
  /\ req[r].pc = "setPassword"
  /\ users' = IF Stored(req[r].user)
              THEN [users EXCEPT ![req[r].user].password = req[r].password]
              ELSE users
  /\ Answer(r)
  /\ UNCHANGED <<identities, tokens, faults, parent, escaped>>

\* The 23505 branch tries the insert again.
GoogleRacedRetry(r) ==
  /\ req[r].pc = "raced"
  /\ req' = [req EXCEPT ![r].pc = "link"]
  /\ UNCHANGED <<users, identities, tokens, faults, history>>

\* oauth_identities without ON DELETE CASCADE.
PurgeUsersAndTokens ==
  LET gone == {u \in Users : users[u].status = "expired"} IN
  /\ gone # {}
  /\ users' = [u \in Users |-> IF u \in gone THEN NoUser("purged") ELSE users[u]]
  /\ tokens' = [t \in Tokens |-> IF tokens[t].user \in gone
                                 THEN NoToken("purged") ELSE tokens[t]]
  /\ UNCHANGED <<identities, req, faults, history>>

\* The purge forgets the grace window.
PurgeAllDeleted ==
  LET gone == {u \in Users : SoftDeleted(u)} IN
  /\ gone # {}
  /\ users' = [u \in Users |-> IF u \in gone THEN NoUser("purged") ELSE users[u]]
  /\ tokens' = [t \in Tokens |-> IF tokens[t].user \in gone
                                 THEN NoToken("purged") ELSE tokens[t]]
  /\ identities' = [s \in Subjects |-> IF identities[s] \in gone
                                       THEN None ELSE identities[s]]
  /\ UNCHANGED <<req, faults, history>>

-----------------------------------------------------------------------------
(* issueAuthSuccess, and the same lines at the end of /auth/refresh: insert *)
(* a refresh_tokens row, then answer.  The foreign key refuses the row when *)
(* the user was purged meanwhile (answer 502).                              *)

Issue(r) ==
  /\ req[r].pc = "issue"
  /\ IF Stored(req[r].user)
     THEN \E t \in Tokens :
            /\ tokens[t].row = "unissued"
            /\ tokens' = [tokens EXCEPT ![t] = [row |-> "stored", user |-> req[r].user,
                                                used |-> FALSE, revoked |-> FALSE]]
            /\ parent' = [parent EXCEPT ![t] = req[r].token]
            /\ escaped' = IF r \in overtaken THEN escaped \cup {t} ELSE escaped
     ELSE UNCHANGED <<tokens, parent, escaped>>
  /\ Answer(r)
  /\ UNCHANGED <<users, identities, faults>>

-----------------------------------------------------------------------------
(* POST /auth/signup *)

SignupFind(r, e, p) ==
  /\ "signup" \in Ops /\ UsersLeft /\ TokensLeft
  /\ EmailFree(e)
  /\ Begin(r, [Idle EXCEPT !.pc = "insertUser", !.email = e, !.password = p])
  /\ UNCHANGED <<users, identities, tokens, faults, history>>

\* A unique violation on users.email is an unhandled error: 502.
SignupInsert(r) ==
  /\ req[r].pc = "insertUser"
  /\ IF EmailFree(req[r].email)
     THEN \E u \in Users, pf \in Profiles :
            /\ users[u].status = "unused"
            /\ users' = [users EXCEPT ![u] = [status |-> "live", email |-> req[r].email,
                                              password |-> req[r].password, profile |-> pf]]
            /\ req' = [req EXCEPT ![r] = [Idle EXCEPT !.pc = "issue", !.user = u]]
            /\ UNCHANGED overtaken
     ELSE Answer(r) /\ UNCHANGED users
  /\ UNCHANGED <<identities, tokens, faults, parent, escaped>>

-----------------------------------------------------------------------------
(* POST /auth/login: the read sees soft-deleted rows and the password is    *)
(* verified against the hash it returned.  A Google-only account (NULL      *)
(* hash) never verifies.                                                    *)

LoginFind(r, u, p) ==
  /\ "login" \in Ops /\ TokensLeft
  /\ Stored(u) /\ users[u].password = p
  /\ Begin(r, [Idle EXCEPT !.pc = "reactivate", !.user = u])
  /\ UNCHANGED <<users, identities, tokens, faults, history>>

\* reactivateUser: WHERE id = $1 AND deleted_at IS NOT NULL
Reactivated(u) == IF SoftDeleted(u) THEN [users EXCEPT ![u].status = "live"] ELSE users

Reactivate(r) ==
  /\ req[r].pc = "reactivate"
  /\ users' = Reactivated(req[r].user)
  /\ req' = [req EXCEPT ![r].pc = "issue"]
  /\ UNCHANGED <<identities, tokens, faults, history>>

-----------------------------------------------------------------------------
(* POST /auth/refresh.  jwt.verify ran before; the row decides.             *)

\* A request that presents an escaped token is as late as the one that made it.
RefreshFind(r, t) ==
  /\ "refresh" \in Ops /\ TokensLeft
  /\ Usable(t)
  /\ Begin(r, [Idle EXCEPT !.pc = "mark", !.user = tokens[t].user, !.token = t])
  /\ overtaken' = IF t \in escaped THEN overtaken \cup {r} ELSE overtaken
  /\ UNCHANGED <<users, identities, tokens, faults, parent, escaped>>

\* A token that was used already: a replay, which revokes the whole family.
RefreshFindReplay(r, t) ==
  /\ "refresh" \in Ops
  /\ tokens[t].row = "stored" /\ tokens[t].used /\ ~tokens[t].revoked
  /\ Begin(r, [Idle EXCEPT !.pc = "revokeReplayed", !.user = tokens[t].user])
  /\ UNCHANGED <<users, identities, tokens, faults, history>>

\* markRefreshTokenUsed: WHERE used_at IS NULL, and nobody looks at rowCount.
RefreshMark(r) ==
  /\ req[r].pc = "mark"
  /\ tokens' = IF tokens[req[r].token].row = "stored"
               THEN [tokens EXCEPT ![req[r].token].used = TRUE]
               ELSE tokens
  /\ req' = [req EXCEPT ![r].pc = "issue"]
  /\ UNCHANGED <<users, identities, faults, history>>

-----------------------------------------------------------------------------
(* DELETE /auth/me: soft-delete, then revoke every token of the user.       *)

DeleteAccount(r, u) ==
  /\ "delete" \in Ops /\ SignedInOnce(u)
  /\ Live(u)
  /\ users' = [users EXCEPT ![u].status = "grace"]
  /\ Begin(r, [Idle EXCEPT !.pc = "revokeDeleted", !.user = u])
  /\ UNCHANGED <<identities, tokens, faults, history>>

\* revokeAllRefreshTokensForUser, after a soft-delete or a replay.
RevokeAll(r) ==
  /\ req[r].pc \in {"revokeDeleted", "revokeReplayed"}
  /\ tokens' = [t \in Tokens |-> IF t \in TokensOf(req[r].user)
                                 THEN [tokens[t] EXCEPT !.revoked = TRUE]
                                 ELSE tokens[t]]
  /\ req' = [req EXCEPT ![r] = Idle]
  /\ overtaken' = (overtaken \cup Issuing(req[r].user)) \ {r}
  /\ UNCHANGED <<users, identities, faults, parent, escaped>>

-----------------------------------------------------------------------------
(* The signed-in edits.  Each verifies the current password against the row *)
(* it read, and its UPDATE is limited to rows that are still live.          *)

ChangePasswordVerify(r, u, old, new) ==
  /\ "password" \in Ops /\ SignedInOnce(u)
  /\ Live(u) /\ users[u].password = old
  /\ Begin(r, [Idle EXCEPT !.pc = "setPassword", !.user = u, !.password = new])
  /\ UNCHANGED <<users, identities, tokens, faults, history>>

UpdatePassword(r) ==
  /\ req[r].pc = "setPassword"
  /\ users' = IF Live(req[r].user)
              THEN [users EXCEPT ![req[r].user].password = req[r].password]
              ELSE users
  /\ Answer(r)
  /\ UNCHANGED <<identities, tokens, faults, parent, escaped>>

ChangeEmailVerify(r, u, old, e) ==
  /\ "email" \in Ops /\ SignedInOnce(u)
  /\ Live(u) /\ users[u].password = old /\ users[u].email # e
  /\ Begin(r, [Idle EXCEPT !.pc = "setEmail", !.user = u, !.email = e])
  /\ UNCHANGED <<users, identities, tokens, faults, history>>

\* 0 rows: 404.  A unique violation: 'conflict', 409.
UpdateEmail(r) ==
  /\ req[r].pc = "setEmail"
  /\ users' = IF Live(req[r].user) /\ EmailFree(req[r].email)
              THEN [users EXCEPT ![req[r].user].email = req[r].email]
              ELSE users
  /\ Answer(r)
  /\ UNCHANGED <<identities, tokens, faults, parent, escaped>>

\* PATCH /auth/me is one statement.
UpdateProfile(u, pf) ==
  /\ "profile" \in Ops /\ SignedInOnce(u)
  /\ Live(u)
  /\ users' = [users EXCEPT ![u].profile = pf]
  /\ UNCHANGED <<identities, tokens, req, faults, history>>

-----------------------------------------------------------------------------
(* POST /auth/google with a verified credential: subject s, email e, and    *)
(* whether Google reports the email verified.                               *)

GoogleFindIdentity(r, s, e, verified) ==
  /\ "google" \in Ops /\ UsersLeft /\ TokensLeft
  /\ Begin(r, IF identities[s] # None
              THEN [Idle EXCEPT !.pc = "reactivate", !.user = identities[s]]
              ELSE [Idle EXCEPT !.pc = "googleEmail", !.subject = s, !.email = e,
                                !.verified = verified])
  /\ UNCHANGED <<users, identities, tokens, faults, history>>

GoogleFindEmail(r) ==
  /\ req[r].pc = "googleEmail"
  /\ \/ /\ EmailFree(req[r].email)
        /\ req' = [req EXCEPT ![r].pc = "insertGoogleUser"]
        /\ UNCHANGED overtaken
     \/ \E u \in Users :
          /\ Stored(u) /\ users[u].email = req[r].email
          /\ IF req[r].verified
             THEN /\ req' = [req EXCEPT ![r].pc = "reactivateLink", ![r].user = u]
                  /\ UNCHANGED overtaken
             ELSE Answer(r)   \* 409 link_required
  /\ UNCHANGED <<users, identities, tokens, faults, parent, escaped>>

\* createUserFromOAuth: both rows or none (ROLLBACK, 502).
GoogleInsertUser(r) ==
  /\ req[r].pc = "insertGoogleUser"
  /\ IF EmailFree(req[r].email) /\ identities[req[r].subject] = None
     THEN \E u \in Users, pf \in Profiles :
            /\ users[u].status = "unused"
            /\ users' = [users EXCEPT ![u] = [status |-> "live", email |-> req[r].email,
                                              password |-> None, profile |-> pf]]
            /\ identities' = [identities EXCEPT ![req[r].subject] = u]
            /\ req' = [req EXCEPT ![r] = [Idle EXCEPT !.pc = "issue", !.user = u]]
            /\ UNCHANGED overtaken
     ELSE Answer(r) /\ UNCHANGED <<users, identities>>
  /\ UNCHANGED <<tokens, faults, parent, escaped>>

GoogleReactivate(r) ==
  /\ req[r].pc = "reactivateLink"
  /\ users' = Reactivated(req[r].user)
  /\ req' = [req EXCEPT ![r].pc = "link"]
  /\ UNCHANGED <<identities, tokens, faults, history>>

\* linkOAuthIdentity.  The unique index speaks before the foreign key.
GoogleLink(r) ==
  /\ req[r].pc = "link"
  /\ \/ /\ identities[req[r].subject] # None
        /\ req' = [req EXCEPT ![r].pc = "raced"]
        /\ UNCHANGED <<identities, overtaken>>
     \/ /\ identities[req[r].subject] = None /\ Stored(req[r].user)
        /\ identities' = [identities EXCEPT ![req[r].subject] = req[r].user]
        /\ req' = [req EXCEPT ![r].pc = "issue"]
        /\ UNCHANGED overtaken
     \/ /\ identities[req[r].subject] = None /\ ~Stored(req[r].user)
        /\ Answer(r)
        /\ UNCHANGED identities
  /\ UNCHANGED <<users, tokens, faults, parent, escaped>>

\* The 23505 branch: sign in as whoever holds the identity now.  This branch
\* does not reactivate; when it finds a soft-deleted account its request
\* counts as overtaken.
GoogleRaced(r) ==
  /\ req[r].pc = "raced"
  /\ LET u == identities[req[r].subject] IN
       IF u = None
       THEN Answer(r)
       ELSE /\ req' = [req EXCEPT ![r].pc = "issue", ![r].user = u]
            /\ overtaken' = IF SoftDeleted(u) THEN overtaken \cup {r} ELSE overtaken
  /\ UNCHANGED <<users, identities, tokens, faults, parent, escaped>>

-----------------------------------------------------------------------------
(* The clock, the purge job and failures.                                   *)

GraceEnds(u) ==
  /\ users[u].status = "grace"
  /\ users' = [users EXCEPT ![u].status = "expired"]
  /\ UNCHANGED <<identities, tokens, req, faults, history>>

\* One DELETE statement; the foreign keys cascade.
Purge ==
  LET gone == {u \in Users : users[u].status = "expired"} IN
  /\ gone # {}
  /\ users' = [u \in Users |-> IF u \in gone THEN NoUser("purged") ELSE users[u]]
  /\ tokens' = [t \in Tokens |-> IF tokens[t].user \in gone
                                 THEN NoToken("purged") ELSE tokens[t]]
  /\ identities' = [s \in Subjects |-> IF identities[s] \in gone
                                       THEN None ELSE identities[s]]
  /\ UNCHANGED <<req, faults, history>>

\* A statement fails or the process dies: the handler goes no further.  A
\* deletion that dies before its second statement revokes nothing, ever: a
\* second DELETE /auth/me finds no live row.
Fault(r) ==
  /\ faults < MaxFaults /\ req[r].pc # "idle"
  /\ faults' = faults + 1
  /\ req' = [req EXCEPT ![r] = Idle]
  /\ IF req[r].pc = "revokeDeleted"
     THEN /\ escaped' = escaped \cup {t \in TokensOf(req[r].user) : Usable(t)}
          /\ overtaken' = (overtaken \cup Issuing(req[r].user)) \ {r}
     ELSE /\ overtaken' = overtaken \ {r}
          /\ UNCHANGED escaped
  /\ UNCHANGED <<users, identities, tokens, parent>>

-----------------------------------------------------------------------------
\* The next statement of a request that was accepted.
Proceed(r) ==
  \/ Issue(r) \/ SignupInsert(r) \/ Reactivate(r) \/ RefreshMark(r) \/ RevokeAll(r)
  \/ UpdatePassword(r) \/ UpdateEmail(r)
  \/ GoogleFindEmail(r) \/ GoogleInsertUser(r) \/ GoogleReactivate(r)
  \/ GoogleLink(r) \/ GoogleRaced(r)

Arrive(r) ==
  \/ \E e \in Emails, p \in Passwords : SignupFind(r, e, p)
  \/ \E u \in Users, p \in Passwords : LoginFind(r, u, p)
  \/ \E t \in Tokens : RefreshFind(r, t) \/ RefreshFindReplay(r, t)
  \/ \E u \in Users : DeleteAccount(r, u)
  \/ \E u \in Users, old, new \in Passwords : ChangePasswordVerify(r, u, old, new)
  \/ \E u \in Users, old \in Passwords, e \in Emails : ChangeEmailVerify(r, u, old, e)
  \/ \E s \in Subjects, e \in Emails, v \in BOOLEAN : GoogleFindIdentity(r, s, e, v)

Next ==
  \/ \E r \in Requests : Arrive(r) \/ Proceed(r) \/ Fault(r)
  \/ \E u \in Users, pf \in Profiles : UpdateProfile(u, pf)
  \/ \E u \in Users : GraceEnds(u)
  \/ Purge

Spec == Init /\ [][Next]_vars

\* The event loop runs every accepted request on, time passes, and the purge
\* job fires at startup and every 24 hours.
Fairness ==
  /\ \A r \in Requests : WF_vars(Proceed(r))
  /\ \A u \in Users : WF_vars(GraceEnds(u))
  /\ WF_vars(Purge)

FairSpec == Spec /\ Fairness
-----------------------------------------------------------------------------
(* Properties.                                                              *)

\* Rows, requests and history have the shape the code gives them.
TypeOK ==
  /\ users \in [Users -> UserRow]
  /\ identities \in [Subjects -> Users \cup {None}]
  /\ tokens \in [Tokens -> TokenRow]
  /\ req \in [Requests -> Request]
  /\ faults \in 0..MaxFaults
  /\ parent \in [Tokens -> Tokens \cup {None}]
  /\ overtaken \subseteq Requests
  /\ escaped \subseteq Tokens

\* DELETE /auth/me signs the account out everywhere: once its second statement
\* ran, a soft-deleted account has no token that /auth/refresh would accept,
\* except those inserted by a request that had done its reads before the
\* revocation (or descended from such a token, or left by a deletion that died
\* between its two statements, or handed out by the 23505 branch of
\* /auth/google).
SignedOutUnlessOvertaken ==
  \A u \in Users, t \in Tokens :
    (SoftDeleted(u) /\ t \in TokensOf(u) /\ Usable(t)) =>
      \/ t \in escaped
      \/ \E r \in Requests : req[r].pc = "revokeDeleted" /\ req[r].user = u

\* Rotation is crash-safe: a token that has a successor is marked used, at
\* whatever point handlers die, so that presenting it again is a replay.
UsedBeforeSuccessor ==
  \A t \in Tokens :
    parent[t] # None => tokens[parent[t]].used \/ tokens[parent[t]].row = "purged"

\* No two accounts hold one e-mail address, soft-deleted ones included,
\* whichever of sign-up, Google sign-in and e-mail change raced for it.
EmailsDistinct ==
  \A u, v \in Users :
    (u # v /\ Stored(u) /\ Stored(v)) => users[u].email # users[v].email

\* The purge leaves no token and no identity of an account behind, and no handler
\* that had read the account before inserts one for it afterwards.
NoOrphans ==
  /\ \A t \in Tokens : tokens[t].row = "stored" => Stored(tokens[t].user)
  /\ \A s \in Subjects : identities[s] # None => Stored(identities[s])

\* Accounts stay apart and whole, whatever handlers race: one address each, and
\* no token or identity of an account that is gone (users.ts, oauth-identities.ts).
AccountsIntact == EmailsDistinct /\ NoOrphans

\* An address Google has not verified never gets a Google identity linked to an
\* account that was there before, even one created between the two reads.
UnverifiedNeverLinks ==
  [][\A s \in Subjects : identities[s] = None /\ identities'[s] # None =>
       \/ users[identities'[s]].status = "unused"
       \/ \E r \in Requests : req[r].subject = s /\ req[r].verified]_vars

\* While an account is soft-deleted nothing but its status changes: an edit
\* that verified its password before the deletion writes no column after it.
DeletedRowsFrozen ==
  [][\A u \in Users : SoftDeleted(u) /\ users'[u].status # "purged" =>
       users'[u] = [users[u] EXCEPT !.status = users'[u].status]]_vars

\* Every accepted request is answered.
RequestsEnd == \A r \in Requests : req[r] # Idle ~> req[r] = Idle

\* The tables, the handlers and the purge job together keep the promise of
\* AccountLifecycle, liveness included.
Stage(status) == CASE status = "unused" -> "none"  [] status = "live" -> "open"
                   [] status = "grace" -> "closed" [] status = "expired" -> "lapsed"
                   [] OTHER -> "erased"
Lifecycle == INSTANCE AccountLifecycle
             WITH Accounts <- Users, stage <- [u \in Users |-> Stage(users[u].status)]
LifecycleKept == Lifecycle!Spec

\* Both: what becomes of an account, and who gets into it (UnverifiedNeverLinks).
AccountsKept == UnverifiedNeverLinks /\ LifecycleKept

-----------------------------------------------------------------------------
(* Statements of the repository's comments and documents that the code does *)
(* not keep (see the findings in the README).                               *)

\* db/migrations/20260515235901_refresh_tokens.up.sql: "/auth/refresh must
\* reject any token that has already been redeemed".
RedeemedOnce ==
  \A t1, t2 \in Tokens : t1 # t2 /\ parent[t1] = parent[t2] => parent[t1] = None

\* ADR 0024, 2: a deletion invalidates every issued refresh token "so other
\* devices lose their session immediately"; routes.ts: "a race that re-issues a
\* token between the two queries still ends up revoked".
DeletedMeansSignedOut ==
  \A u \in Users, t \in Tokens :
    (SoftDeleted(u) /\ t \in TokensOf(u) /\ Usable(t)) =>
      \E r \in Requests : req[r].pc = "revokeDeleted" /\ req[r].user = u

\* routes.ts, /auth/google: "`includeDeleted` reactivates a soft-deleted account
\* on sign-in, matching the password path".
GoogleSignInRestores ==
  [][\A r \in Requests : req[r].pc = "raced" /\ req'[r].pc = "issue"
       => ~SoftDeleted(req'[r].user)]_vars
=============================================================================

----------------------------- MODULE AuthProofs -----------------------------
(* Theorems about Auth, for any sets of users, tokens and requests and any   *)
(* number of faults.                                                        *)
EXTENDS Auth, TLAPS

\* Rows, requests and history keep their shape through every statement of
\* every handler.
LEMMA TypeInit == Init => TypeOK
BY FaultsAssumption DEF Init, TypeOK, UserRow, TokenRow, Request, NoUser, NoToken, Idle,
   Statuses, Pcs

\* Answering a request puts Idle, a well-formed request, into its slot.
LEMMA AnswerType ==
  ASSUME TypeOK, NEW r \in Requests, Answer(r)
  PROVE  req' \in [Requests -> Request] /\ overtaken' \subseteq Requests
BY DEF TypeOK, Answer, Idle, Request, Pcs

LEMMA TypeStep == TypeOK /\ [Next]_vars => TypeOK'
<1> SUFFICES ASSUME TypeOK, [Next]_vars PROVE TypeOK'
  OBVIOUS
<1>1. ASSUME NEW r \in Requests, Issue(r) PROVE TypeOK'
  <2>1. req' \in [Requests -> Request] /\ overtaken' \subseteq Requests
    BY <1>1, AnswerType DEF Issue
  <2>2. req[r].user \in Users \cup {None} /\ req[r].token \in Tokens \cup {None}
    BY DEF TypeOK, Request
  <2>3. tokens' \in [Tokens -> TokenRow]
    <3>1. [row |-> "stored", user |-> req[r].user, used |-> FALSE, revoked |-> FALSE]
            \in TokenRow
      BY <2>2 DEF TokenRow
    <3> QED
      BY <1>1, <3>1 DEF Issue, TypeOK
  <2>4. parent' \in [Tokens -> Tokens \cup {None}] /\ escaped' \subseteq Tokens
    BY <1>1, <2>2 DEF Issue, TypeOK
  <2> QED
    BY <1>1, <2>1, <2>3, <2>4 DEF Issue, TypeOK
<1>2. ASSUME NEW r \in Requests, Arrive(r) PROVE TypeOK'
  <2> USE DEF TypeOK, Begin, Idle, Request, Pcs, history
  <2>1. ASSUME NEW e \in Emails, NEW p \in Passwords, SignupFind(r, e, p) PROVE TypeOK'
    BY <2>1 DEF SignupFind
  <2>2. ASSUME NEW u \in Users, NEW p \in Passwords, LoginFind(r, u, p) PROVE TypeOK'
    BY <2>2 DEF LoginFind
  <2>3. ASSUME NEW t \in Tokens, RefreshFind(r, t) PROVE TypeOK'
    BY <2>3 DEF RefreshFind, TokenRow
  <2>4. ASSUME NEW t \in Tokens, RefreshFindReplay(r, t) PROVE TypeOK'
    BY <2>4 DEF RefreshFindReplay, TokenRow
  <2>5. ASSUME NEW u \in Users, DeleteAccount(r, u) PROVE TypeOK'
    <3>1. users' \in [Users -> UserRow]
      BY <2>5 DEF DeleteAccount, UserRow, Statuses
    <3> QED
      BY <2>5, <3>1 DEF DeleteAccount
  <2>6. ASSUME NEW u \in Users, NEW old \in Passwords, NEW new \in Passwords,
               ChangePasswordVerify(r, u, old, new)
        PROVE TypeOK'
    BY <2>6 DEF ChangePasswordVerify
  <2>7. ASSUME NEW u \in Users, NEW old \in Passwords, NEW e \in Emails,
               ChangeEmailVerify(r, u, old, e)
        PROVE TypeOK'
    BY <2>7 DEF ChangeEmailVerify
  <2>8. ASSUME NEW s \in Subjects, NEW e \in Emails, NEW v \in BOOLEAN,
               GoogleFindIdentity(r, s, e, v)
        PROVE TypeOK'
    BY <2>8 DEF GoogleFindIdentity
  <2> QED
    BY <1>2, <2>1, <2>2, <2>3, <2>4, <2>5, <2>6, <2>7, <2>8 DEF Arrive
<1>3. ASSUME NEW r \in Requests, Proceed(r) PROVE TypeOK'
  <2>0. req[r] \in Request
    BY DEF TypeOK
  <2>1. CASE SignupInsert(r)
    <3>1. CASE EmailFree(req[r].email)
      <4>1. PICK u \in Users, pf \in Profiles :
              /\ users' = [users EXCEPT ![u] =
                   [status |-> "live", email |-> req[r].email,
                    password |-> req[r].password, profile |-> pf]]
              /\ req' = [req EXCEPT ![r] = [Idle EXCEPT !.pc = "issue", !.user = u]]
              /\ overtaken' = overtaken
        BY <2>1, <3>1 DEF SignupInsert
      <4>2. [status |-> "live", email |-> req[r].email, password |-> req[r].password,
             profile |-> pf] \in UserRow
        BY <2>0 DEF Request, UserRow, Statuses
      <4>3. [Idle EXCEPT !.pc = "issue", !.user = u] \in Request
        BY DEF Idle, Request, Pcs
      <4> QED
        BY <2>1, <4>1, <4>2, <4>3 DEF SignupInsert, TypeOK
    <3>2. CASE ~EmailFree(req[r].email)
      BY <2>1, <3>2, AnswerType DEF SignupInsert, TypeOK
    <3> QED
      BY <3>1, <3>2
  <2>2. CASE Reactivate(r)
    <3>1. users' \in [Users -> UserRow]
      BY <2>2 DEF Reactivate, Reactivated, TypeOK, UserRow, Statuses
    <3> QED
      BY <2>0, <2>2, <3>1 DEF Reactivate, TypeOK, Request, Pcs, history
  <2>3. CASE RefreshMark(r)
    <3>1. tokens' \in [Tokens -> TokenRow]
      BY <2>3 DEF RefreshMark, TypeOK, TokenRow
    <3> QED
      BY <2>0, <2>3, <3>1 DEF RefreshMark, TypeOK, Request, Pcs, history
  <2>4. CASE RevokeAll(r)
    <3>1. tokens' \in [Tokens -> TokenRow]
      BY <2>4 DEF RevokeAll, TypeOK, TokenRow
    <3>2. req' \in [Requests -> Request]
      BY <2>4 DEF RevokeAll, TypeOK, Idle, Request, Pcs
    <3> QED
      BY <2>4, <3>1, <3>2 DEF RevokeAll, TypeOK, Issuing
  <2>5. CASE UpdatePassword(r)
    <3>1. users' \in [Users -> UserRow]
      <4>1. req[r].password \in Passwords \cup {None}
        BY <2>0 DEF Request
      <4> QED
        BY <2>5, <4>1 DEF UpdatePassword, TypeOK, UserRow
    <3> QED
      BY <2>5, <3>1, AnswerType DEF UpdatePassword, TypeOK
  <2>6. CASE UpdateEmail(r)
    <3>1. users' \in [Users -> UserRow]
      <4>1. req[r].email \in Emails \cup {None}
        BY <2>0 DEF Request
      <4> QED
        BY <2>6, <4>1 DEF UpdateEmail, TypeOK, UserRow
    <3> QED
      BY <2>6, <3>1, AnswerType DEF UpdateEmail, TypeOK
  <2>7. CASE GoogleFindEmail(r)
    <3>1. req' \in [Requests -> Request] /\ overtaken' \subseteq Requests
      BY <2>0, <2>7, AnswerType DEF GoogleFindEmail, TypeOK, Request, Pcs
    <3> QED
      BY <2>7, <3>1 DEF GoogleFindEmail, TypeOK
  <2>8. CASE GoogleInsertUser(r)
    <3> DEFINE Wins == EmailFree(req[r].email) /\ identities[req[r].subject] = None
    <3>1. CASE Wins
      <4>1. PICK u \in Users, pf \in Profiles :
              /\ users' = [users EXCEPT ![u] =
                   [status |-> "live", email |-> req[r].email, password |-> None,
                    profile |-> pf]]
              /\ identities' = [identities EXCEPT ![req[r].subject] = u]
              /\ req' = [req EXCEPT ![r] = [Idle EXCEPT !.pc = "issue", !.user = u]]
              /\ overtaken' = overtaken
        BY <2>8, <3>1 DEF GoogleInsertUser
      <4>2. [status |-> "live", email |-> req[r].email, password |-> None,
             profile |-> pf] \in UserRow
        BY <2>0 DEF Request, UserRow, Statuses
      <4>3. [Idle EXCEPT !.pc = "issue", !.user = u] \in Request
        BY DEF Idle, Request, Pcs
      <4> QED
        BY <2>8, <4>1, <4>2, <4>3 DEF GoogleInsertUser, TypeOK
    <3>2. CASE ~Wins
      BY <2>8, <3>2, AnswerType DEF GoogleInsertUser, TypeOK
    <3> QED
      BY <3>1, <3>2
  <2>9. CASE GoogleReactivate(r)
    <3>1. users' \in [Users -> UserRow]
      BY <2>9 DEF GoogleReactivate, Reactivated, TypeOK, UserRow, Statuses
    <3> QED
      BY <2>0, <2>9, <3>1 DEF GoogleReactivate, TypeOK, Request, Pcs, history
  <2>10. CASE GoogleLink(r)
    <3>1. req' \in [Requests -> Request] /\ overtaken' \subseteq Requests
      <4>1. [req[r] EXCEPT !.pc = "raced"] \in Request
        BY <2>0 DEF Request, Pcs
      <4>2. [req[r] EXCEPT !.pc = "issue"] \in Request
        BY <2>0 DEF Request, Pcs
      <4> QED
        BY <2>10, <4>1, <4>2, AnswerType DEF GoogleLink, TypeOK
    <3>2. identities' \in [Subjects -> Users \cup {None}]
      BY <2>0, <2>10 DEF GoogleLink, TypeOK, Request
    <3> QED
      BY <2>10, <3>1, <3>2 DEF GoogleLink, TypeOK
  <2>11. CASE GoogleRaced(r)
    <3>1. req' \in [Requests -> Request] /\ overtaken' \subseteq Requests
      BY <2>0, <2>11, AnswerType DEF GoogleRaced, TypeOK, Request, Pcs
    <3> QED
      BY <2>11, <3>1 DEF GoogleRaced, TypeOK
  <2> QED
    BY <1>1, <1>3, <2>1, <2>2, <2>3, <2>4, <2>5, <2>6, <2>7, <2>8, <2>9, <2>10, <2>11
    DEF Proceed
<1>4. ASSUME NEW r \in Requests, Fault(r) PROVE TypeOK'
  BY <1>4, FaultsAssumption DEF Fault, TypeOK, Idle, Request, Pcs, Issuing, TokensOf
<1>5. ASSUME NEW u \in Users, NEW pf \in Profiles, UpdateProfile(u, pf) PROVE TypeOK'
  BY <1>5 DEF UpdateProfile, TypeOK, UserRow, history
<1>6. ASSUME NEW u \in Users, GraceEnds(u) PROVE TypeOK'
  BY <1>6 DEF GraceEnds, TypeOK, UserRow, Statuses, history
<1>7. CASE Purge
  <2>1. users' \in [Users -> UserRow]
    BY <1>7 DEF Purge, TypeOK, UserRow, Statuses, NoUser
  <2>2. tokens' \in [Tokens -> TokenRow]
    BY <1>7 DEF Purge, TypeOK, TokenRow, NoToken
  <2>3. identities' \in [Subjects -> Users \cup {None}]
    BY <1>7 DEF Purge, TypeOK
  <2> QED
    BY <1>7, <2>1, <2>2, <2>3 DEF Purge, TypeOK, history
<1>8. CASE UNCHANGED vars
  BY <1>8 DEF vars, TypeOK
<1> QED
  BY <1>2, <1>3, <1>4, <1>5, <1>6, <1>7, <1>8 DEF Next

\* Type correctness.
THEOREM TypeCorrect == Spec => []TypeOK
BY TypeInit, TypeStep, PTL DEF Spec

-----------------------------------------------------------------------------
(* Deletion signs the account out everywhere.                               *)

\* A deletion of u has still to run its second statement.
Revoking(u) == \E r \in Requests : req[r].pc = "revokeDeleted" /\ req[r].user = u

\* What a request will insert is accounted for before it is inserted.
IssuersCovered ==
  \A u \in Users : \A r \in Issuing(u) :
    SoftDeleted(u) => r \in overtaken \/ Revoking(u)

SignedOutInv == TypeOK /\ SignedOutUnlessOvertaken /\ IssuersCovered

\* A step that deletes no account, ends no deletion, and adds neither a usable
\* token nor an issuing request to a soft-deleted account keeps the invariant.
LEMMA QuietStep ==
  ASSUME SignedOutInv, TypeOK', escaped \subseteq escaped',
         \A u \in Users : SoftDeleted(u)' =>
           /\ SoftDeleted(u)
           /\ Revoking(u) => Revoking(u)'
           /\ \A t \in Tokens :
                (t \in TokensOf(u))' /\ Usable(t)' => t \in TokensOf(u) /\ Usable(t)
           /\ \A r \in Issuing(u)' : r \in Issuing(u) /\ (r \in overtaken => r \in overtaken')
  PROVE  SignedOutInv'
BY DEF SignedOutInv, SignedOutUnlessOvertaken, IssuersCovered, Revoking
\* A request that arrives and reads, but neither deletes nor redeems.
LEMMA QuietArrival ==
  ASSUME SignedOutInv, TypeOK', NEW r \in Requests, NEW x,
         Begin(r, x), x.pc \notin {"mark", "issue", "link"},
         UNCHANGED <<users, tokens, overtaken, escaped>>
  PROVE  SignedOutInv'
<1>1. /\ req[r] = Idle
      /\ \A q \in Requests : req'[q] = IF q = r THEN x ELSE req[q]
  BY DEF Begin, SignedOutInv, TypeOK
<1>2. \A u \in Users : Revoking(u) => Revoking(u)'
  BY <1>1 DEF Revoking, Idle
<1>3. \A u \in Users : Issuing(u)' \subseteq Issuing(u)
  BY <1>1 DEF Issuing
<1> QED
  BY <1>2, <1>3, QuietStep DEF SoftDeleted, TokensOf, Usable

\* A statement of request r that leaves the tables' tokens and statuses alone
\* or makes accounts live, and after which r, if it will issue at all, issues for
\* the same user as before or for one that is not soft-deleted or is accounted
\* for.
LEMMA QuietStatement ==
  ASSUME SignedOutInv, TypeOK', NEW r \in Requests, NEW x,
         req[r].pc # "revokeDeleted",
         req' = [req EXCEPT ![r] = x],
         \A u \in Users : SoftDeleted(u)' => SoftDeleted(u),
         \A u \in Users : SoftDeleted(u)' /\ r \in Issuing(u)' => r \in Issuing(u),
         \A t \in Tokens : tokens'[t] # tokens[t] => ~Usable(t)',
         overtaken \ {r} \subseteq overtaken',
         x.pc # "idle" => overtaken' = overtaken,
         UNCHANGED escaped
  PROVE  SignedOutInv'
<1>1. \A q \in Requests : req'[q] = IF q = r THEN x ELSE req[q]
  BY DEF SignedOutInv, TypeOK
<1>2. \A u \in Users : Revoking(u) => Revoking(u)'
  BY <1>1 DEF Revoking
<1>3. ASSUME NEW u \in Users, NEW q \in Issuing(u)', SoftDeleted(u)'
      PROVE  q \in Issuing(u) /\ (q \in overtaken => q \in overtaken')
  BY <1>1, <1>3 DEF Issuing
<1>4. \A u \in Users, t \in Tokens :
        (t \in TokensOf(u))' /\ Usable(t)' => t \in TokensOf(u) /\ Usable(t)
  BY DEF TokensOf, Usable
<1> QED
  BY <1>2, <1>3, <1>4, QuietStep

\* The step that ends a deletion of v, by revoking or by dying: what is left of
\* v's sessions is accounted for.
LEMMA OvertakingStep ==
  ASSUME SignedOutInv, TypeOK', NEW r \in Requests,
         req[r].pc \in {"revokeDeleted", "revokeReplayed"},
         \A q \in Requests : req'[q] = IF q = r THEN Idle ELSE req[q],
         users' = users, escaped \subseteq escaped',
         \A t \in TokensOf(req[r].user) : Usable(t)' => t \in escaped',
         \A t \in Tokens : tokens'[t] = tokens[t] \/ (t \in TokensOf(req[r].user) /\ ~Usable(t)'),
         overtaken' = (overtaken \cup Issuing(req[r].user)) \ {r}
  PROVE  SignedOutInv'
<1>1. \A u \in Users : u # req[r].user /\ Revoking(u) => Revoking(u)'
  BY DEF Revoking
<1>2. \A u \in Users : Issuing(u)' = Issuing(u) \ {r}
  BY DEF Issuing, Idle
<1>3. \A u \in Users : r \notin Issuing(u)
  BY DEF Issuing
<1>4. IssuersCovered'
  BY <1>1, <1>2, <1>3 DEF SignedOutInv, IssuersCovered, SoftDeleted
<1>5. ASSUME NEW u \in Users, NEW t \in Tokens,
             SoftDeleted(u)', (t \in TokensOf(u))', Usable(t)'
      PROVE  t \in escaped' \/ Revoking(u)'
  <2>1. SoftDeleted(u) /\ t \in TokensOf(u) /\ Usable(t)
    BY <1>5 DEF SoftDeleted, TokensOf, Usable
  <2>2. t \in escaped \/ Revoking(u)
    BY <2>1 DEF SignedOutInv, SignedOutUnlessOvertaken, Revoking
  <2> QED
    BY <1>1, <1>5, <2>1, <2>2
<1> QED
  BY <1>4, <1>5 DEF SignedOutInv, SignedOutUnlessOvertaken, Revoking

LEMMA SignedOutStep == SignedOutInv /\ TypeOK' /\ [Next]_vars => SignedOutInv'
<1> SUFFICES ASSUME SignedOutInv, TypeOK', [Next]_vars PROVE SignedOutInv'
  OBVIOUS
<1>0. TypeOK
  BY DEF SignedOutInv
<1>1. ASSUME NEW r \in Requests, Issue(r) PROVE SignedOutInv'
  <2>1. /\ req[r].pc = "issue"
        /\ \A q \in Requests : req'[q] = IF q = r THEN Idle ELSE req[q]
        /\ overtaken' = overtaken \ {r}
        /\ users' = users
    BY <1>1, <1>0 DEF Issue, Answer, TypeOK
  <2>2. \A u \in Users : Revoking(u) <=> Revoking(u)'
    BY <2>1 DEF Revoking, Idle
  <2>3. \A u \in Users : Issuing(u)' = Issuing(u) \ {r}
    BY <2>1 DEF Issuing, Idle
  <2>4. CASE ~Stored(req[r].user)
    BY <1>1, <2>1, <2>2, <2>3, <2>4, QuietStep
    DEF Issue, SoftDeleted, TokensOf, Usable
  <2>5. CASE Stored(req[r].user)
    <3>1. PICK t \in Tokens :
            /\ tokens' = [tokens EXCEPT ![t] = [row |-> "stored", user |-> req[r].user,
                                                used |-> FALSE, revoked |-> FALSE]]
            /\ escaped' = IF r \in overtaken THEN escaped \cup {t} ELSE escaped
      BY <1>1, <2>5 DEF Issue
    <3>2. ASSUME NEW u \in Users, NEW c \in Tokens,
                 SoftDeleted(u)', (c \in TokensOf(u))', Usable(c)'
          PROVE  c \in escaped' \/ Revoking(u)'
      <4>1. SoftDeleted(u)
        BY <2>1, <3>2 DEF SoftDeleted
      <4>2. CASE c = t
        <5>1. r \in Issuing(u)
          BY <1>0, <2>1, <3>1, <3>2, <4>2 DEF Issuing, TokensOf, TypeOK
        <5> QED
          BY <2>2, <3>1, <4>1, <4>2, <5>1 DEF SignedOutInv, IssuersCovered
      <4>3. CASE c # t
        <5>1. c \in TokensOf(u) /\ Usable(c)
          BY <1>0, <3>1, <3>2, <4>3 DEF TokensOf, Usable, TypeOK
        <5> QED
          BY <2>2, <3>1, <4>1, <5>1 DEF SignedOutInv, SignedOutUnlessOvertaken, Revoking
      <4> QED
        BY <4>2, <4>3
    <3>3. IssuersCovered'
      BY <2>1, <2>2, <2>3 DEF SignedOutInv, IssuersCovered, SoftDeleted
    <3>4. SignedOutUnlessOvertaken'
      BY <3>2 DEF SignedOutUnlessOvertaken, Revoking
    <3> QED
      BY <3>3, <3>4 DEF SignedOutInv
  <2> QED
    BY <2>4, <2>5
<1>2. ASSUME NEW r \in Requests, Arrive(r) PROVE SignedOutInv'
  <2> USE DEF history, Idle
  <2>1. ASSUME NEW e \in Emails, NEW p \in Passwords, SignupFind(r, e, p) PROVE SignedOutInv'
    BY <2>1, QuietArrival DEF SignupFind
  <2>2. ASSUME NEW u \in Users, NEW p \in Passwords, LoginFind(r, u, p) PROVE SignedOutInv'
    BY <2>2, QuietArrival DEF LoginFind
  <2>3. ASSUME NEW t \in Tokens, RefreshFind(r, t) PROVE SignedOutInv'
    <3>1. /\ req[r] = Idle /\ Usable(t)
          /\ \A q \in Requests :
               req'[q] = IF q = r THEN [Idle EXCEPT !.pc = "mark", !.user = tokens[t].user,
                                                    !.token = t]
                                  ELSE req[q]
          /\ overtaken' = IF t \in escaped THEN overtaken \cup {r} ELSE overtaken
          /\ UNCHANGED <<users, tokens, escaped>>
      BY <1>0, <2>3 DEF RefreshFind, Begin, TypeOK
    <3>2. \A u \in Users : Revoking(u) => Revoking(u)'
      BY <3>1 DEF Revoking
    <3>3. SignedOutUnlessOvertaken'
      BY <3>1, <3>2 DEF SignedOutInv, SignedOutUnlessOvertaken, SoftDeleted, TokensOf, Usable,
         Revoking
    <3>4. ASSUME NEW u \in Users, NEW q \in Issuing(u)', SoftDeleted(u)'
          PROVE  q \in overtaken' \/ Revoking(u)'
      <4>1. CASE q = r
        <5>1. t \in TokensOf(u) /\ SoftDeleted(u)
          BY <3>1, <3>4, <4>1 DEF Issuing, TokensOf, Usable, SoftDeleted
        <5>2. t \in escaped \/ Revoking(u)
          BY <3>1, <5>1 DEF SignedOutInv, SignedOutUnlessOvertaken, Revoking
        <5> QED
          BY <3>1, <3>2, <4>1, <5>2
      <4>2. CASE q # r
        <5>1. q \in Issuing(u) /\ SoftDeleted(u)
          BY <3>1, <3>4, <4>2 DEF Issuing, SoftDeleted
        <5> QED
          BY <3>1, <3>2, <5>1 DEF SignedOutInv, IssuersCovered
      <4> QED
        BY <4>1, <4>2
    <3> QED
      BY <3>3, <3>4 DEF SignedOutInv, IssuersCovered
  <2>4. ASSUME NEW t \in Tokens, RefreshFindReplay(r, t) PROVE SignedOutInv'
    BY <2>4, QuietArrival DEF RefreshFindReplay
  <2>5. ASSUME NEW u \in Users, DeleteAccount(r, u) PROVE SignedOutInv'
    <3>1. /\ req[r] = Idle
          /\ \A q \in Requests :
               req'[q] = IF q = r THEN [Idle EXCEPT !.pc = "revokeDeleted", !.user = u]
                                  ELSE req[q]
          /\ \A v \in Users : v # u => users'[v] = users[v]
          /\ UNCHANGED <<tokens, overtaken, escaped>>
      BY <1>0, <2>5 DEF DeleteAccount, Begin, TypeOK
    <3>2. \A v \in Users : v = u \/ Revoking(v) => Revoking(v)'
      <4>1. \A v \in Users : Revoking(v) => Revoking(v)'
        BY <3>1 DEF Revoking
      <4>2. Revoking(u)'
        BY <3>1 DEF Revoking
      <4> QED
        BY <4>1, <4>2
    <3>3. \A v \in Users : Issuing(v)' \subseteq Issuing(v)
      BY <3>1 DEF Issuing
    <3>4. SignedOutUnlessOvertaken'
      BY <3>1, <3>2 DEF SignedOutInv, SignedOutUnlessOvertaken, SoftDeleted, TokensOf, Usable,
         Revoking
    <3>5. IssuersCovered'
      BY <3>1, <3>2, <3>3 DEF SignedOutInv, IssuersCovered, SoftDeleted
    <3> QED
      BY <3>4, <3>5 DEF SignedOutInv
  <2>6. ASSUME NEW u \in Users, NEW old \in Passwords, NEW new \in Passwords,
               ChangePasswordVerify(r, u, old, new)
        PROVE SignedOutInv'
    BY <2>6, QuietArrival DEF ChangePasswordVerify
  <2>7. ASSUME NEW u \in Users, NEW old \in Passwords, NEW e \in Emails,
               ChangeEmailVerify(r, u, old, e)
        PROVE SignedOutInv'
    BY <2>7, QuietArrival DEF ChangeEmailVerify
  <2>8. ASSUME NEW s \in Subjects, NEW e \in Emails, NEW v \in BOOLEAN,
               GoogleFindIdentity(r, s, e, v)
        PROVE SignedOutInv'
    <3> DEFINE x == IF identities[s] # None
              THEN [Idle EXCEPT !.pc = "reactivate", !.user = identities[s]]
              ELSE [Idle EXCEPT !.pc = "googleEmail", !.subject = s, !.email = e,
                                !.verified = v]
    <3>1. x.pc \notin {"mark", "issue", "link"}
      OBVIOUS
    <3>2. Begin(r, x) /\ UNCHANGED <<users, tokens, overtaken, escaped>>
      BY <2>8 DEF GoogleFindIdentity
    <3> HIDE DEF x
    <3> QED
      BY <3>1, <3>2, QuietArrival
  <2> QED
    BY <1>2, <2>1, <2>2, <2>3, <2>4, <2>5, <2>6, <2>7, <2>8 DEF Arrive
<1>3. ASSUME NEW r \in Requests, Proceed(r) PROVE SignedOutInv'
  <2> DEFINE answered == Idle
  <2>0. /\ answered.pc = "idle"
        /\ req' = [req EXCEPT ![r] = answered] => \A u \in Users : r \notin Issuing(u)'
    BY <1>0 DEF TypeOK, Idle, Issuing
  <2>1. CASE SignupInsert(r)
    <3>1. CASE EmailFree(req[r].email)
      <4>1. PICK u \in Users, pf \in Profiles :
              /\ users' = [users EXCEPT ![u] =
                   [status |-> "live", email |-> req[r].email,
                    password |-> req[r].password, profile |-> pf]]
              /\ req' = [req EXCEPT ![r] = [Idle EXCEPT !.pc = "issue", !.user = u]]
              /\ overtaken' = overtaken
        BY <2>1, <3>1 DEF SignupInsert
      <4>2. \A v \in Users : SoftDeleted(v)' => SoftDeleted(v) /\ v # u
        BY <1>0, <4>1 DEF TypeOK, SoftDeleted
      <4>3. \A v \in Users : r \in Issuing(v)' => v = u
        BY <1>0, <4>1 DEF TypeOK, Issuing, Idle
      <4> QED
        BY <2>1, <4>1, <4>2, <4>3, QuietStatement DEF SignupInsert
    <3>2. CASE ~EmailFree(req[r].email)
      BY <2>0, <2>1, <3>2, QuietStatement DEF SignupInsert, Answer, SoftDeleted
    <3> QED
      BY <3>1, <3>2
  <2>2. CASE Reactivate(r)
    <3>1. \A u \in Users : SoftDeleted(u)' => SoftDeleted(u) /\ u # req[r].user
      BY <1>0, <2>2 DEF Reactivate, Reactivated, TypeOK, UserRow, SoftDeleted
    <3>2. \A u \in Users : r \in Issuing(u)' => u = req[r].user
      BY <1>0, <2>2 DEF Reactivate, TypeOK, Request, Issuing
    <3> QED
      BY <2>2, <3>1, <3>2, QuietStatement DEF Reactivate, history
  <2>3. CASE RefreshMark(r)
    <3>1. \A u \in Users : r \in Issuing(u)' => r \in Issuing(u)
      BY <1>0, <2>3 DEF RefreshMark, TypeOK, Request, Issuing
    <3>2. \A t \in Tokens : tokens'[t] # tokens[t] => ~Usable(t)'
      BY <1>0, <2>3 DEF RefreshMark, TypeOK, TokenRow, Usable
    <3> QED
      BY <2>3, <3>1, <3>2, QuietStatement DEF RefreshMark, history, SoftDeleted
  <2>4. CASE RevokeAll(r)
    <3>1. \A q \in Requests : req'[q] = IF q = r THEN Idle ELSE req[q]
      BY <1>0, <2>4 DEF RevokeAll, TypeOK
    <3>2. \A t \in TokensOf(req[r].user) : ~Usable(t)'
      BY <1>0, <2>4 DEF RevokeAll, TypeOK, TokenRow, TokensOf, Usable
    <3>3. \A t \in Tokens : t \notin TokensOf(req[r].user) => tokens'[t] = tokens[t]
      BY <2>4 DEF RevokeAll
    <3> QED
      BY <2>4, <3>1, <3>2, <3>3, OvertakingStep DEF RevokeAll, TokensOf
  <2>5. CASE UpdatePassword(r)
    <3>1. \A u \in Users : SoftDeleted(u)' => SoftDeleted(u)
      BY <1>0, <2>5 DEF UpdatePassword, TypeOK, UserRow, SoftDeleted
    <3> QED
      BY <2>0, <2>5, <3>1, QuietStatement DEF UpdatePassword, Answer
  <2>6. CASE UpdateEmail(r)
    <3>1. \A u \in Users : SoftDeleted(u)' => SoftDeleted(u)
      BY <1>0, <2>6 DEF UpdateEmail, TypeOK, UserRow, SoftDeleted
    <3> QED
      BY <2>0, <2>6, <3>1, QuietStatement DEF UpdateEmail, Answer
  <2>7. CASE GoogleFindEmail(r)
    <3>1. CASE Answer(r)
      BY <2>0, <2>7, <3>1, QuietStatement DEF GoogleFindEmail, Answer, SoftDeleted
    <3>2. CASE ~Answer(r)
      <4>1. PICK x : /\ req' = [req EXCEPT ![r] = x] /\ overtaken' = overtaken
                     /\ x.pc \in {"insertGoogleUser", "reactivateLink"}
        BY <1>0, <2>7, <3>2 DEF GoogleFindEmail, TypeOK, Request
      <4>2. \A u \in Users : r \notin Issuing(u)'
        BY <1>0, <4>1 DEF TypeOK, Issuing
      <4> QED
        BY <2>7, <4>1, <4>2, QuietStatement DEF GoogleFindEmail, SoftDeleted
    <3> QED
      BY <3>1, <3>2
  <2>8. CASE GoogleInsertUser(r)
    <3> DEFINE Wins == EmailFree(req[r].email) /\ identities[req[r].subject] = None
    <3>1. CASE Wins
      <4>1. PICK u \in Users, pf \in Profiles :
              /\ users' = [users EXCEPT ![u] =
                   [status |-> "live", email |-> req[r].email, password |-> None,
                    profile |-> pf]]
              /\ req' = [req EXCEPT ![r] = [Idle EXCEPT !.pc = "issue", !.user = u]]
              /\ overtaken' = overtaken
        BY <2>8, <3>1 DEF GoogleInsertUser
      <4>2. \A v \in Users : SoftDeleted(v)' => SoftDeleted(v) /\ v # u
        BY <1>0, <4>1 DEF TypeOK, SoftDeleted
      <4>3. \A v \in Users : r \in Issuing(v)' => v = u
        BY <1>0, <4>1 DEF TypeOK, Issuing, Idle
      <4> QED
        BY <2>8, <4>1, <4>2, <4>3, QuietStatement DEF GoogleInsertUser
    <3>2. CASE ~Wins
      BY <2>0, <2>8, <3>2, QuietStatement DEF GoogleInsertUser, Answer, SoftDeleted
    <3> QED
      BY <3>1, <3>2
  <2>9. CASE GoogleReactivate(r)
    <3>1. \A u \in Users : SoftDeleted(u)' => SoftDeleted(u) /\ u # req[r].user
      BY <1>0, <2>9 DEF GoogleReactivate, Reactivated, TypeOK, UserRow, SoftDeleted
    <3>2. \A u \in Users : r \in Issuing(u)' => u = req[r].user
      BY <1>0, <2>9 DEF GoogleReactivate, TypeOK, Request, Issuing
    <3> QED
      BY <2>9, <3>1, <3>2, QuietStatement DEF GoogleReactivate, history
  <2>10. CASE GoogleLink(r)
    <3>1. CASE Answer(r)
      BY <2>0, <2>10, <3>1, QuietStatement DEF GoogleLink, Answer, SoftDeleted
    <3>2. CASE ~Answer(r)
      <4>1. PICK x : /\ req' = [req EXCEPT ![r] = x] /\ overtaken' = overtaken
                     /\ x.pc \in {"raced", "issue"} /\ x.user = req[r].user
        BY <1>0, <2>10, <3>2 DEF GoogleLink, TypeOK, Request
      <4>2. \A u \in Users : r \in Issuing(u)' => r \in Issuing(u)
        BY <1>0, <2>10, <4>1 DEF GoogleLink, TypeOK, Issuing
      <4> QED
        BY <2>10, <4>1, <4>2, QuietStatement DEF GoogleLink, SoftDeleted
    <3> QED
      BY <3>1, <3>2
  <2>11. CASE GoogleRaced(r)
    <3> DEFINE u == identities[req[r].subject]
    <3>1. CASE u = None
      BY <2>0, <2>11, <3>1, QuietStatement DEF GoogleRaced, Answer, SoftDeleted
    <3>2. CASE u # None
      <4>1. /\ \A q \in Requests \ {r} : req'[q] = req[q]
            /\ req[r].pc = "raced" /\ req'[r].pc = "issue" /\ req'[r].user = u
            /\ overtaken' = IF SoftDeleted(u) THEN overtaken \cup {r} ELSE overtaken
            /\ UNCHANGED <<users, tokens, escaped>>
        BY <1>0, <2>11, <3>2 DEF GoogleRaced, TypeOK, Request
      <4>2. \A v \in Users : Revoking(v) <=> Revoking(v)'
        BY <4>1 DEF Revoking
      <4>3. ASSUME NEW v \in Users, NEW q \in Issuing(v)', SoftDeleted(v)'
            PROVE  q \in overtaken' \/ Revoking(v)'
        BY <4>1, <4>2, <4>3 DEF SignedOutInv, IssuersCovered, Issuing, SoftDeleted
      <4>4. SignedOutUnlessOvertaken'
        BY <4>1, <4>2 DEF SignedOutInv, SignedOutUnlessOvertaken, SoftDeleted, TokensOf,
           Usable, Revoking
      <4> QED
        BY <4>3, <4>4 DEF SignedOutInv, IssuersCovered
    <3> QED
      BY <3>1, <3>2
  <2> QED
    BY <1>1, <1>3, <2>1, <2>2, <2>3, <2>4, <2>5, <2>6, <2>7, <2>8, <2>9, <2>10, <2>11
    DEF Proceed
<1>4. ASSUME NEW r \in Requests, Fault(r) PROVE SignedOutInv'
  <2>1. \A q \in Requests : req'[q] = IF q = r THEN Idle ELSE req[q]
    BY <1>0, <1>4 DEF Fault, TypeOK
  <2>2. UNCHANGED <<users, tokens>>
    BY <1>4 DEF Fault
  <2>3. CASE req[r].pc # "revokeDeleted"
    <3>1. Idle.pc = "idle" /\ \A u \in Users : r \notin Issuing(u)'
      BY <2>1 DEF Issuing, Idle
    <3> QED
      BY <1>4, <2>2, <2>3, <3>1, QuietStatement DEF Fault, SoftDeleted
  <2>4. CASE req[r].pc = "revokeDeleted"
    <3>1. \A t \in TokensOf(req[r].user) : Usable(t)' => t \in escaped'
      BY <1>4, <2>2, <2>4 DEF Fault, Usable
    <3> QED
      BY <1>4, <2>1, <2>2, <2>4, <3>1, OvertakingStep DEF Fault
  <2> QED
    BY <2>3, <2>4
<1>5. ASSUME NEW u \in Users, NEW pf \in Profiles, UpdateProfile(u, pf) PROVE SignedOutInv'
  <2>1. \A v \in Users : users'[v].status = users[v].status
    BY <1>0, <1>5 DEF UpdateProfile, TypeOK, UserRow
  <2> QED
    BY <1>5, <2>1, QuietStep
    DEF UpdateProfile, history, SoftDeleted, Revoking, TokensOf, Usable, Issuing
<1>6. ASSUME NEW u \in Users, GraceEnds(u) PROVE SignedOutInv'
  <2>1. \A v \in Users : SoftDeleted(v)' => SoftDeleted(v)
    BY <1>0, <1>6 DEF GraceEnds, TypeOK, UserRow, SoftDeleted
  <2> QED
    BY <1>6, <2>1, QuietStep
    DEF GraceEnds, history, Revoking, TokensOf, Usable, Issuing
<1>7. CASE Purge
  <2>1. \A v \in Users : SoftDeleted(v)' => SoftDeleted(v)
    BY <1>0, <1>7 DEF Purge, TypeOK, UserRow, SoftDeleted, NoUser
  <2>2. \A t \in Tokens, v \in Users :
          (t \in TokensOf(v))' /\ Usable(t)' => t \in TokensOf(v) /\ Usable(t)
    BY <1>0, <1>7 DEF Purge, TypeOK, TokenRow, TokensOf, Usable, NoToken
  <2> QED
    BY <1>7, <2>1, <2>2, QuietStep DEF Purge, history, Revoking, Issuing
<1>8. CASE UNCHANGED vars
  BY <1>8, QuietStep DEF vars, SoftDeleted, Revoking, TokensOf, Usable, Issuing
<1> QED
  BY <1>2, <1>3, <1>4, <1>5, <1>6, <1>7, <1>8 DEF Next
\* Once a deletion has run both statements, the account has no usable refresh
\* token but those of requests it overtook.
THEOREM SignedOut == Spec => []SignedOutUnlessOvertaken
<1>1. Init => SignedOutInv
  <2>1. SUFFICES ASSUME Init PROVE SignedOutInv
    OBVIOUS
  <2>2. \A u \in Users : ~SoftDeleted(u)
    BY <2>1 DEF Init, SoftDeleted, NoUser
  <2> QED
    BY <2>1, <2>2, TypeInit DEF SignedOutInv, SignedOutUnlessOvertaken, IssuersCovered
<1>2. SignedOutInv /\ [Next]_vars => SignedOutInv'
  BY TypeStep, SignedOutStep DEF SignedOutInv
<1>3. SignedOutInv => SignedOutUnlessOvertaken
  BY DEF SignedOutInv
<1> QED
  BY <1>1, <1>2, <1>3, PTL DEF Spec
-----------------------------------------------------------------------------
(* Rotation survives faults: mark first, then issue.                        *)

Spent(t) == tokens[t].row = "purged" \/ (tokens[t].row = "stored" /\ tokens[t].used)

\* The token a refresh request was presented with was issued once, and is spent
\* by the time the request issues.
PresentedSpent ==
  \A r \in Requests : req[r].token # None =>
    /\ tokens[req[r].token].row # "unissued"
    /\ req[r].pc # "mark" => Spent(req[r].token)

RotationInv ==
  /\ TypeOK
  /\ PresentedSpent
  /\ \A t \in Tokens : parent[t] # None => Spent(parent[t])

\* No statement unspends a token or takes its row back to unissued.
LEMMA SpentStays ==
  ASSUME TypeOK, [Next]_vars, NEW t \in Tokens
  PROVE  /\ Spent(t) => Spent(t)'
         /\ tokens[t].row # "unissued" => tokens'[t].row # "unissued"
<1>1. CASE tokens' = tokens
  BY <1>1 DEF Spent
<1>2. ASSUME NEW r \in Requests, Issue(r) PROVE Spent(t) => Spent(t)'
  BY <1>2 DEF Issue, TypeOK, Spent
<1>2a. ASSUME NEW r \in Requests, Issue(r)
       PROVE tokens[t].row # "unissued" => tokens'[t].row # "unissued"
  BY <1>2a DEF Issue, TypeOK
<1>3. CASE \E r \in Requests : RefreshMark(r)
  BY <1>3 DEF RefreshMark, TypeOK, TokenRow, Spent
<1>4. CASE \E r \in Requests : RevokeAll(r)
  BY <1>4 DEF RevokeAll, TypeOK, TokenRow, Spent
<1>5. CASE Purge
  BY <1>5 DEF Purge, TypeOK, NoToken, Spent
<1>6. ASSUME NEW r \in Requests, Arrive(r) PROVE tokens' = tokens
  BY <1>6 DEF Arrive, SignupFind, LoginFind, RefreshFind, RefreshFindReplay, DeleteAccount,
     ChangePasswordVerify, ChangeEmailVerify, GoogleFindIdentity
<1>7. ASSUME NEW r \in Requests, Proceed(r)
      PROVE Issue(r) \/ RefreshMark(r) \/ RevokeAll(r) \/ tokens' = tokens
  BY <1>7 DEF Proceed, SignupInsert, Reactivate, UpdatePassword, UpdateEmail, GoogleFindEmail,
     GoogleInsertUser, GoogleReactivate, GoogleLink, GoogleRaced, history
<1>8. ASSUME NEW r \in Requests, Fault(r) PROVE tokens' = tokens
  BY <1>8 DEF Fault
<1>9. \/ Purge \/ tokens' = tokens \/ \E r \in Requests : Arrive(r) \/ Proceed(r) \/ Fault(r)
  BY DEF Next, vars, UpdateProfile, GraceEnds
<1> QED
  BY <1>1, <1>2, <1>2a, <1>3, <1>4, <1>5, <1>6, <1>7, <1>8, <1>9

\* Only a refresh that arrives brings a token; only RefreshMark leaves "mark"
\* with one.
LEMMA PresentedStep ==
  ASSUME TypeOK, [Next]_vars, NEW q \in Requests, req'[q].token # None
  PROVE  \/ \E t \in Tokens : RefreshFind(q, t) /\ req'[q].token = t /\ req'[q].pc = "mark"
         \/ RefreshMark(q) /\ req'[q].token = req[q].token
         \/ /\ req'[q].token = req[q].token
            /\ req[q].pc = "mark" => req'[q].pc = "mark"
<1> DEFINE Kept == /\ req'[q].token = req[q].token
                   /\ req[q].pc = "mark" => req'[q].pc = "mark"
<1>1. CASE req' = req
  BY <1>1
<1>2. ASSUME NEW r \in Requests, r # q, NEW x, req' = [req EXCEPT ![r] = x] PROVE Kept
  BY <1>2 DEF TypeOK
<1>3. ASSUME NEW r \in Requests, Arrive(r)
      PROVE  (\E t \in Tokens : RefreshFind(q, t) /\ req'[q].token = t /\ req'[q].pc = "mark")
             \/ Kept
  <2> USE DEF TypeOK, Begin, Idle
  <2>1. ASSUME NEW t \in Tokens, RefreshFind(r, t), r = q
        PROVE req'[q].token = t /\ req'[q].pc = "mark"
    BY <2>1 DEF RefreshFind
  <2>2. ASSUME NEW x, Begin(r, x), x.token = None PROVE Kept
    BY <2>2
  <2>3. ASSUME NEW x, Begin(r, x), r # q PROVE Kept
    BY <2>3
  <2>4. ASSUME NEW t \in Tokens, RefreshFind(r, t), r # q PROVE Kept
    BY <2>3, <2>4 DEF RefreshFind
  <2>5. CASE \E t \in Tokens : RefreshFind(r, t)
    BY <2>1, <2>4, <2>5
  <2>6. CASE \E e \in Emails, p \in Passwords : SignupFind(r, e, p)
    BY <2>6, <2>2 DEF SignupFind
  <2>7. CASE \E u \in Users, p \in Passwords : LoginFind(r, u, p)
    BY <2>7, <2>2 DEF LoginFind
  <2>8. CASE \E t \in Tokens : RefreshFindReplay(r, t)
    BY <2>8, <2>2 DEF RefreshFindReplay
  <2>9. CASE \E u \in Users : DeleteAccount(r, u)
    BY <2>9, <2>2 DEF DeleteAccount
  <2>10. CASE \E u \in Users, old, new \in Passwords : ChangePasswordVerify(r, u, old, new)
    BY <2>10, <2>2 DEF ChangePasswordVerify
  <2>11. CASE \E u \in Users, old \in Passwords, e \in Emails : ChangeEmailVerify(r, u, old, e)
    BY <2>11, <2>2 DEF ChangeEmailVerify
  <2>12. CASE \E s \in Subjects, e \in Emails, v \in BOOLEAN : GoogleFindIdentity(r, s, e, v)
    BY <2>12 DEF GoogleFindIdentity
  <2> QED
    BY <1>3, <2>5, <2>6, <2>7, <2>8, <2>9, <2>10, <2>11, <2>12 DEF Arrive
<1>4. ASSUME NEW r \in Requests, Proceed(r) 
      PROVE  Kept \/ (RefreshMark(q) /\ req'[q].token = req[q].token)
  <2> USE DEF TypeOK, Request
  <2>1. CASE Answer(r)
    BY <2>1 DEF Answer, Idle
  <2>2. CASE RefreshMark(r)
    BY <2>2 DEF RefreshMark
  <2>3. CASE (SignupInsert(r) \/ GoogleInsertUser(r)) /\ ~Answer(r)
    <3>1. PICK u \in Users : req' = [req EXCEPT ![r] = [Idle EXCEPT !.pc = "issue", !.user = u]]
      BY <2>3 DEF SignupInsert, GoogleInsertUser
    <3>2. req[r].pc # "mark"
      BY <2>3 DEF SignupInsert, GoogleInsertUser
    <3> QED
      BY <3>1, <3>2 DEF Idle
  <2>5. CASE RevokeAll(r)
    BY <2>5 DEF RevokeAll, Idle
  <2>6. CASE (GoogleFindEmail(r) \/ GoogleLink(r) \/ GoogleRaced(r)) /\ ~Answer(r)
    BY <2>6 DEF GoogleFindEmail, GoogleLink, GoogleRaced
  <2>7. CASE Reactivate(r) \/ GoogleReactivate(r)
    BY <2>7 DEF Reactivate, GoogleReactivate
  <2> QED
    BY <1>4, <2>1, <2>2, <2>3, <2>5, <2>6, <2>7
    DEF Proceed, Issue, UpdatePassword, UpdateEmail
<1>5. ASSUME NEW r \in Requests, Fault(r) PROVE Kept
  BY <1>5 DEF Fault, TypeOK, Idle
<1>6. \/ req' = req \/ \E r \in Requests : Arrive(r) \/ Proceed(r) \/ Fault(r)
  BY DEF Next, vars, UpdateProfile, GraceEnds, Purge
<1> QED
  BY <1>1, <1>3, <1>4, <1>5, <1>6

LEMMA RotationStep == RotationInv /\ [Next]_vars => RotationInv'
<1> SUFFICES ASSUME RotationInv, [Next]_vars PROVE RotationInv'
  OBVIOUS
<1>0. TypeOK /\ TypeOK'
  BY TypeStep DEF RotationInv
<1>1. ASSUME NEW q \in Requests, req'[q].token # None
      PROVE  /\ tokens'[req'[q].token].row # "unissued"
             /\ req'[q].pc # "mark" => Spent(req[q].token)'
  <2>0. PICK p \in Tokens : p = req'[q].token
    BY <1>0, <1>1 DEF TypeOK, Request
  <2>0a. SUFFICES /\ tokens'[p].row # "unissued"
                  /\ req'[q].pc # "mark" => Spent(p)'
    BY <2>0 DEF Spent
  <2>1. CASE \E t \in Tokens : RefreshFind(q, t) /\ req'[q].token = t /\ req'[q].pc = "mark"
    BY <2>0, <2>1 DEF RefreshFind, Usable
  <2>2. CASE RefreshMark(q) /\ req'[q].token = req[q].token
    <3>1. p = req[q].token /\ tokens[p].row # "unissued"
      BY <1>1, <2>0, <2>2 DEF RotationInv, PresentedSpent
    <3>2. tokens[p].row \in {"stored", "purged"}
      BY <1>0, <3>1 DEF TypeOK, TokenRow
    <3> QED
      BY <1>0, <2>2, <3>1, <3>2 DEF RefreshMark, TypeOK, TokenRow, Spent
  <2>3. CASE /\ req'[q].token = req[q].token
             /\ req[q].pc = "mark" => req'[q].pc = "mark"
    <3>1. tokens[p].row # "unissued" /\ (req[q].pc # "mark" => Spent(p))
      BY <1>1, <2>0, <2>3 DEF RotationInv, PresentedSpent
    <3> QED
      BY <1>0, <2>3, <3>1, SpentStays
  <2> QED
    BY <1>0, <1>1, <2>1, <2>2, <2>3, PresentedStep
<1>2. ASSUME NEW t \in Tokens, parent'[t] # None PROVE Spent(parent[t])'
  <2>1. \/ parent'[t] = parent[t]
        \/ \E r \in Requests : Issue(r) /\ parent'[t] = req[r].token /\ req[r].pc = "issue"
    <3>1. parent' = parent \/ \E r \in Requests : Issue(r)
      <4>1. ASSUME NEW r \in Requests, Arrive(r) PROVE parent' = parent
        BY <4>1 DEF Arrive, SignupFind, LoginFind, RefreshFind, RefreshFindReplay,
           DeleteAccount, ChangePasswordVerify, ChangeEmailVerify, GoogleFindIdentity, history
      <4>2. ASSUME NEW r \in Requests, Proceed(r) PROVE Issue(r) \/ parent' = parent
        BY <4>2 DEF Proceed, SignupInsert, Reactivate, RefreshMark, RevokeAll, UpdatePassword,
           UpdateEmail, GoogleFindEmail, GoogleInsertUser, GoogleReactivate, GoogleLink,
           GoogleRaced, history
      <4> QED
        BY <4>1, <4>2 DEF Next, vars, Fault, UpdateProfile, GraceEnds, Purge, history
    <3>2. ASSUME NEW r \in Requests, Issue(r)
          PROVE parent'[t] = parent[t] \/ parent'[t] = req[r].token
      BY <1>0, <3>2 DEF Issue, TypeOK
    <3> QED
      BY <3>1, <3>2 DEF Issue
  <2>2. PICK p \in Tokens : p = parent'[t]
    BY <1>0, <1>2 DEF TypeOK
  <2>3. Spent(p)
    BY <1>2, <2>1, <2>2 DEF RotationInv, PresentedSpent
  <2>4. Spent(p)'
    BY <1>0, <2>3, SpentStays
  <2> QED
    BY <2>2, <2>4 DEF Spent
<1> QED
  BY <1>0, <1>1, <1>2 DEF RotationInv, PresentedSpent

\* A refresh token that has a successor is used (or was purged with its
\* account), wherever handlers die.
THEOREM RotationSafe == Spec => []UsedBeforeSuccessor
<1>1. Init => RotationInv
  BY TypeInit DEF Init, RotationInv, PresentedSpent, Idle
<1>2. RotationInv => UsedBeforeSuccessor
  BY DEF RotationInv, UsedBeforeSuccessor, Spent
<1> QED
  BY <1>1, <1>2, RotationStep, PTL DEF Spec

-----------------------------------------------------------------------------
(* What the tables hold: rows, accounts and what refers to them.            *)

\* What the statements of handlers do to the row of one user; every step of Auth
\* is one of these, for each user.
RowStep(u) ==
  \/ users'[u] = users[u]
  \/ /\ users[u].status = "unused" /\ users'[u].status = "live"
     /\ EmailFree(users'[u].email)
     /\ \A v \in Users \ {u} : users'[v] = users[v]
  \/ /\ Live(u) /\ Live(u)'
     /\ \/ users'[u].email = users[u].email
        \/ EmailFree(users'[u].email) /\ \A v \in Users \ {u} : users'[v] = users[v]
  \/ users'[u] = [users[u] EXCEPT !.status = "live"] /\ SoftDeleted(u)
  \/ users'[u] = [users[u] EXCEPT !.status = "grace"] /\ Live(u)
  \/ users'[u] = [users[u] EXCEPT !.status = "expired"] /\ users[u].status = "grace"
  \/ users'[u] = NoUser("purged") /\ users[u].status = "expired" /\ Purge

\* Every row goes through the stages of an account one at a time.
LEMMA RowSteps == TypeOK /\ [Next]_vars => \A u \in Users : RowStep(u)
<1> SUFFICES ASSUME TypeOK, [Next]_vars, NEW u \in Users PROVE RowStep(u)
  OBVIOUS
<1>0. users \in [Users -> UserRow]
  BY DEF TypeOK
<1>1. CASE users' = users
  BY <1>1 DEF RowStep
<1>2. ASSUME NEW r \in Requests, SignupInsert(r) \/ GoogleInsertUser(r) PROVE RowStep(u)
  <2>1. CASE users' = users
    BY <1>1, <2>1
  <2>2. CASE users' # users
    <3>1. PICK v \in Users, p \in Passwords \cup {None}, pf \in Profiles :
            /\ users[v].status = "unused" /\ EmailFree(req[r].email)
            /\ users' = [users EXCEPT ![v] = [status |-> "live", email |-> req[r].email,
                                              password |-> p, profile |-> pf]]
      <4>1. req[r].password \in Passwords \cup {None}
        BY DEF TypeOK, Request
      <4> QED
        BY <1>2, <2>2, <4>1 DEF SignupInsert, GoogleInsertUser
    <3> QED
      BY <1>0, <3>1 DEF RowStep
  <2> QED
    BY <2>1, <2>2
<1>3. ASSUME NEW r \in Requests, Reactivate(r) \/ GoogleReactivate(r) PROVE RowStep(u)
  BY <1>0, <1>3 DEF Reactivate, GoogleReactivate, Reactivated, RowStep
<1>4. ASSUME NEW r \in Requests, UpdatePassword(r) PROVE RowStep(u)
  BY <1>0, <1>4 DEF UpdatePassword, RowStep, Live, UserRow
<1>5. ASSUME NEW r \in Requests, UpdateEmail(r) PROVE RowStep(u)
  BY <1>0, <1>5 DEF UpdateEmail, RowStep, Live, UserRow
<1>6. ASSUME NEW r \in Requests, NEW v \in Users, DeleteAccount(r, v) PROVE RowStep(u)
  BY <1>0, <1>6 DEF DeleteAccount, RowStep
<1>7. ASSUME NEW v \in Users, NEW pf \in Profiles, UpdateProfile(v, pf) PROVE RowStep(u)
  BY <1>0, <1>7 DEF UpdateProfile, RowStep, Live, UserRow
<1>8. ASSUME NEW v \in Users, GraceEnds(v) PROVE RowStep(u)
  BY <1>0, <1>8 DEF GraceEnds, RowStep
<1>9. CASE Purge
  BY <1>0, <1>9 DEF Purge, RowStep
<1>10. ASSUME NEW r \in Requests, Arrive(r), \A v \in Users : ~DeleteAccount(r, v)
       PROVE  users' = users
  BY <1>10 DEF Arrive, SignupFind, LoginFind, RefreshFind, RefreshFindReplay,
     ChangePasswordVerify, ChangeEmailVerify, GoogleFindIdentity
<1>11. ASSUME NEW r \in Requests,
              Issue(r) \/ RefreshMark(r) \/ RevokeAll(r) \/ GoogleFindEmail(r)
                \/ GoogleLink(r) \/ GoogleRaced(r) \/ Fault(r)
       PROVE  users' = users
  BY <1>11 DEF Issue, RefreshMark, RevokeAll, GoogleFindEmail, GoogleLink, GoogleRaced, Fault
<1>12. CASE UNCHANGED vars
  BY <1>1, <1>12 DEF vars
<1> QED
  BY <1>1, <1>2, <1>3, <1>4, <1>5, <1>6, <1>7, <1>8, <1>9, <1>10, <1>11, <1>12
  DEF Next, Proceed

-----------------------------------------------------------------------------
(* One account per address.                                                  *)

\* Addresses stay distinct: the unique index looks before every insert and
\* every change of an address.
LEMMA EmailsStep == TypeOK /\ EmailsDistinct /\ [Next]_vars => EmailsDistinct'
<1> SUFFICES ASSUME TypeOK, EmailsDistinct, [Next]_vars,
                    NEW u \in Users, NEW v \in Users, u # v, Stored(u)', Stored(v)'
             PROVE  users'[u].email # users'[v].email
  BY DEF EmailsDistinct
<1>0. users \in [Users -> UserRow]
  BY DEF TypeOK
<1>1. \A w \in Users : Stored(w)' =>
        \/ Stored(w) /\ users'[w].email = users[w].email
        \/ EmailFree(users'[w].email) /\ \A x \in Users \ {w} : users'[x] = users[x]
  <2> SUFFICES ASSUME NEW w \in Users, Stored(w)'
               PROVE  \/ Stored(w) /\ users'[w].email = users[w].email
                      \/ EmailFree(users'[w].email) /\ \A x \in Users \ {w} : users'[x] = users[x]
    OBVIOUS
  <2>1. RowStep(w)
    BY RowSteps
  <2>2. users[w] \in UserRow /\ users'[w].status # "purged"
    BY <1>0 DEF Stored
  <2> QED
    BY <2>1, <2>2 DEF RowStep, Stored, SoftDeleted, Live, NoUser, UserRow
<1>2. CASE Stored(u) /\ users'[u].email = users[u].email
           /\ Stored(v) /\ users'[v].email = users[v].email
  BY <1>2 DEF EmailsDistinct
<1>3. ASSUME NEW w \in Users, NEW x \in Users, w # x, Stored(x)',
             EmailFree(users'[w].email), users'[x] = users[x]
      PROVE  users'[w].email # users'[x].email
  BY <1>3 DEF EmailFree, Stored
<1> QED
  BY <1>1, <1>2, <1>3

-----------------------------------------------------------------------------
(* Nothing is left of an account that is gone.                               *)

\* What refers to an account refers to one that is stored.
Held ==
  /\ \A t \in Tokens : tokens[t].row = "stored" =>
       tokens[t].user \in Users /\ Stored(tokens[t].user)
  /\ \A s \in Subjects : identities[s] # None => Stored(identities[s])

\* A handler about to write for an account has found one, a handler of a Google
\* sign-in carries its subject, and one that links has seen a verified address.
HandlersKnow ==
  \A r \in Requests :
    /\ req[r].pc \in {"reactivate", "mark", "issue", "reactivateLink", "link"} =>
         req[r].user \in Users
    /\ req[r].pc \in {"googleEmail", "insertGoogleUser", "reactivateLink", "link", "raced"} =>
         req[r].subject \in Subjects
    /\ req[r].pc \in {"reactivateLink", "link"} => req[r].verified

RowsInv == TypeOK /\ EmailsDistinct /\ Held /\ HandlersKnow

\* The knowledge of a handler that moves on or answers.
LEMMA KnowsNext ==
  ASSUME HandlersKnow, TypeOK, NEW r \in Requests, NEW x,
         req' = [req EXCEPT ![r] = x],
         x.pc \in {"reactivate", "mark", "issue", "reactivateLink", "link"} => x.user \in Users,
         x.pc \in {"googleEmail", "insertGoogleUser", "reactivateLink", "link", "raced"} =>
           x.subject \in Subjects,
         x.pc \in {"reactivateLink", "link"} => x.verified
  PROVE  HandlersKnow'
BY DEF HandlersKnow, TypeOK

LEMMA KnowStep == RowsInv /\ [Next]_vars => HandlersKnow'
<1> SUFFICES ASSUME RowsInv, [Next]_vars PROVE HandlersKnow'
  OBVIOUS
<1> USE DEF RowsInv
<1>1. CASE UNCHANGED req
  BY <1>1 DEF HandlersKnow
<1>2. ASSUME NEW r \in Requests, req' = [req EXCEPT ![r] = Idle] PROVE HandlersKnow'
  BY <1>2, KnowsNext DEF Idle
<1>3. ASSUME NEW r \in Requests, Arrive(r) PROVE HandlersKnow'
  <2>1. ASSUME NEW t \in Tokens, RefreshFind(r, t) PROVE HandlersKnow'
    <3>1. tokens[t].user \in Users
      BY <2>1 DEF RefreshFind, Usable, Held
    <3> QED
      BY <2>1, <3>1, KnowsNext DEF RefreshFind, Begin, Idle
  <2>2. ASSUME NEW s \in Subjects, NEW e \in Emails, NEW v \in BOOLEAN,
               GoogleFindIdentity(r, s, e, v)
        PROVE  HandlersKnow'
    <3>1. identities[s] \in Users \cup {None}
      BY DEF TypeOK
    <3>2. CASE identities[s] # None
      <4>1. req' = [req EXCEPT ![r] = [Idle EXCEPT !.pc = "reactivate", !.user = identities[s]]]
        BY <2>2, <3>2 DEF GoogleFindIdentity, Begin
      <4> QED
        BY <3>1, <3>2, <4>1, KnowsNext DEF Idle
    <3>3. CASE identities[s] = None
      <4>1. req' = [req EXCEPT ![r] = [Idle EXCEPT !.pc = "googleEmail", !.subject = s,
                                                   !.email = e, !.verified = v]]
        BY <2>2, <3>3 DEF GoogleFindIdentity, Begin
      <4> QED
        BY <4>1, KnowsNext DEF Idle
    <3> QED
      BY <3>2, <3>3
  <2>3. ASSUME NEW e \in Emails, NEW p \in Passwords, SignupFind(r, e, p) PROVE HandlersKnow'
    BY <2>3, KnowsNext DEF SignupFind, Begin, Idle
  <2>4. ASSUME NEW u \in Users, NEW p \in Passwords, LoginFind(r, u, p) PROVE HandlersKnow'
    BY <2>4, KnowsNext DEF LoginFind, Begin, Idle
  <2>5. ASSUME NEW t \in Tokens, RefreshFindReplay(r, t) PROVE HandlersKnow'
    BY <2>5, KnowsNext DEF RefreshFindReplay, Begin, Idle
  <2>6. ASSUME NEW u \in Users, DeleteAccount(r, u) PROVE HandlersKnow'
    BY <2>6, KnowsNext DEF DeleteAccount, Begin, Idle
  <2>7. ASSUME NEW u \in Users, NEW old \in Passwords, NEW new \in Passwords,
               ChangePasswordVerify(r, u, old, new)
        PROVE  HandlersKnow'
    BY <2>7, KnowsNext DEF ChangePasswordVerify, Begin, Idle
  <2>8. ASSUME NEW u \in Users, NEW old \in Passwords, NEW e \in Emails,
               ChangeEmailVerify(r, u, old, e)
        PROVE  HandlersKnow'
    BY <2>8, KnowsNext DEF ChangeEmailVerify, Begin, Idle
  <2> QED
    BY <1>3, <2>1, <2>2, <2>3, <2>4, <2>5, <2>6, <2>7, <2>8 DEF Arrive
<1>4. ASSUME NEW r \in Requests, Proceed(r) PROVE HandlersKnow'
  <2>0. /\ req[r] \in Request /\ req \in [Requests -> Request]
    BY DEF TypeOK
  <2>1. CASE req' = [req EXCEPT ![r] = Idle]
    BY <1>2, <2>1
  <2>2. CASE Reactivate(r) \/ RefreshMark(r)
    <3>1. req' = [req EXCEPT ![r] = [req[r] EXCEPT !.pc = "issue"]] /\ req[r].user \in Users
      BY <2>0, <2>2 DEF Reactivate, RefreshMark, HandlersKnow
    <3> QED
      BY <2>0, <3>1, KnowsNext DEF Request
  <2>3. CASE SignupInsert(r) \/ GoogleInsertUser(r)
    <3>1. CASE \E u \in Users : req' = [req EXCEPT ![r] = [Idle EXCEPT !.pc = "issue", !.user = u]]
      BY <3>1, KnowsNext DEF Idle
    <3> QED
      BY <2>1, <2>3, <3>1 DEF SignupInsert, GoogleInsertUser, Answer
  <2>4. CASE GoogleFindEmail(r)
    <3>1. req[r].subject \in Subjects
      BY <2>4 DEF GoogleFindEmail, HandlersKnow
    <3>2. CASE req' = [req EXCEPT ![r] = [req[r] EXCEPT !.pc = "insertGoogleUser"]]
      BY <2>0, <3>1, <3>2, KnowsNext DEF Request
    <3>3. ASSUME NEW u \in Users, req[r].verified,
                 req' = [req EXCEPT ![r] = [req[r] EXCEPT !.pc = "reactivateLink", !.user = u]]
          PROVE  HandlersKnow'
      BY <2>0, <3>1, <3>3, KnowsNext DEF Request
    <3> QED
      BY <2>0, <2>1, <2>4, <3>2, <3>3 DEF GoogleFindEmail, Answer, Request
  <2>5. CASE GoogleReactivate(r)
    <3>1. /\ req' = [req EXCEPT ![r] = [req[r] EXCEPT !.pc = "link"]]
          /\ req[r].user \in Users /\ req[r].subject \in Subjects /\ req[r].verified
      BY <2>0, <2>5 DEF GoogleReactivate, HandlersKnow
    <3> QED
      BY <2>0, <3>1, KnowsNext DEF Request
  <2>6. CASE GoogleLink(r)
    <3>1. req[r].user \in Users /\ req[r].subject \in Subjects
      BY <2>6 DEF GoogleLink, HandlersKnow
    <3>2. ASSUME NEW pc \in {"raced", "issue"}, req' = [req EXCEPT ![r] = [req[r] EXCEPT !.pc = pc]]
          PROVE  HandlersKnow'
      BY <2>0, <3>1, <3>2, KnowsNext DEF Request
    <3> QED
      BY <2>0, <2>1, <2>6, <3>2 DEF GoogleLink, Answer
  <2>7. CASE GoogleRaced(r)
    <3>1. identities[req[r].subject] \in Users \cup {None}
      BY <2>7 DEF GoogleRaced, HandlersKnow, TypeOK
    <3>2. ASSUME NEW u \in Users,
                 req' = [req EXCEPT ![r] = [req[r] EXCEPT !.pc = "issue", !.user = u]]
          PROVE  HandlersKnow'
      BY <2>0, <3>2, KnowsNext DEF Request
    <3> QED
      BY <2>0, <2>1, <2>7, <3>1, <3>2 DEF GoogleRaced, Answer
  <2>8. CASE Issue(r) \/ RevokeAll(r) \/ UpdatePassword(r) \/ UpdateEmail(r)
    BY <2>1, <2>8 DEF Issue, RevokeAll, UpdatePassword, UpdateEmail, Answer
  <2> QED
    BY <1>4, <2>2, <2>3, <2>4, <2>5, <2>6, <2>7, <2>8 DEF Proceed
<1>5. ASSUME NEW r \in Requests, Fault(r) PROVE HandlersKnow'
  BY <1>2, <1>5 DEF Fault
<1> QED
  BY <1>1, <1>3, <1>4, <1>5 DEF Next, UpdateProfile, GraceEnds, Purge, vars

\* The statements that write tokens, and those that write identities.
LEMMA OthersKeepTokens ==
  ASSUME [Next]_vars, ~Purge, tokens' # tokens
  PROVE  \E r \in Requests : Issue(r) \/ RefreshMark(r) \/ RevokeAll(r)
BY DEF Next, Arrive, Proceed, SignupFind, LoginFind, RefreshFind, RefreshFindReplay,
   DeleteAccount, ChangePasswordVerify, ChangeEmailVerify, GoogleFindIdentity,
   SignupInsert, Reactivate, UpdatePassword, UpdateEmail, GoogleFindEmail,
   GoogleInsertUser, GoogleReactivate, GoogleLink, GoogleRaced, Fault, UpdateProfile,
   GraceEnds, vars

LEMMA OthersKeepIdentities ==
  ASSUME [Next]_vars, ~Purge, identities' # identities
  PROVE  \E r \in Requests : GoogleInsertUser(r) \/ GoogleLink(r)
BY DEF Next, Arrive, Proceed, SignupFind, LoginFind, RefreshFind, RefreshFindReplay,
   DeleteAccount, ChangePasswordVerify, ChangeEmailVerify, GoogleFindIdentity,
   Issue, SignupInsert, Reactivate, RefreshMark, RevokeAll, UpdatePassword, UpdateEmail,
   GoogleFindEmail, GoogleReactivate, GoogleRaced, Fault, UpdateProfile, GraceEnds, vars

LEMMA HeldStep == RowsInv /\ [Next]_vars => Held'
<1> SUFFICES ASSUME RowsInv, [Next]_vars PROVE Held'
  OBVIOUS
<1> USE DEF RowsInv
<1>0. /\ users \in [Users -> UserRow] /\ tokens \in [Tokens -> TokenRow]
      /\ identities \in [Subjects -> Users \cup {None}]
  BY DEF TypeOK
<1>1. CASE Purge
  <2>1. \A u \in Users : Stored(u) /\ users[u].status # "expired" => Stored(u)'
    BY <1>0, <1>1 DEF Purge, Stored
  <2> QED
    BY <1>0, <1>1, <2>1 DEF Purge, Held, NoToken, Stored
<1>2. CASE ~Purge
  <2>1. \A u \in Users : Stored(u) => Stored(u)'
    BY <1>0, <1>2, RowSteps DEF RowStep, Stored, SoftDeleted, Live, UserRow
  <2>2. ASSUME NEW t \in Tokens, tokens'[t].row = "stored"
        PROVE  \/ tokens[t].row = "stored" /\ tokens'[t].user = tokens[t].user
               \/ tokens'[t].user \in Users /\ Stored(tokens'[t].user)
    <3>1. CASE tokens' = tokens
      BY <2>2, <3>1
    <3>2. ASSUME NEW r \in Requests, Issue(r)
          PROVE  \/ tokens[t].row = "stored" /\ tokens'[t].user = tokens[t].user
                 \/ tokens'[t].user \in Users /\ Stored(tokens'[t].user)
      <4>1. req[r].user \in Users
        BY <3>2 DEF Issue, HandlersKnow
      <4> QED
        BY <1>0, <2>2, <3>2, <4>1 DEF Issue
    <3>3. ASSUME NEW r \in Requests, RefreshMark(r) \/ RevokeAll(r)
          PROVE  tokens[t].row = "stored" /\ tokens'[t].user = tokens[t].user
      BY <1>0, <2>2, <3>3 DEF RefreshMark, RevokeAll, TokenRow
    <3> QED
      BY <1>2, <3>1, <3>2, <3>3, OthersKeepTokens
  <2>3. ASSUME NEW s \in Subjects, identities'[s] # None
        PROVE  identities'[s] = identities[s] \/ Stored(identities[s])'
    <3>1. CASE identities' = identities
      BY <3>1
    <3>2. ASSUME NEW r \in Requests, GoogleInsertUser(r), identities' # identities
          PROVE  identities'[s] = identities[s] \/ Stored(identities[s])'
      <4>1. PICK u \in Users, pf \in Profiles :
              /\ users' = [users EXCEPT ![u] = [status |-> "live", email |-> req[r].email,
                                                password |-> None, profile |-> pf]]
              /\ identities' = [identities EXCEPT ![req[r].subject] = u]
        BY <3>2 DEF GoogleInsertUser
      <4>2. users'[u].status = "live"
        BY <1>0, <4>1
      <4>3. identities'[s] = identities[s] \/ identities'[s] = u
        BY <1>0, <4>1
      <4> QED
        BY <4>2, <4>3 DEF Stored
    <3>3. ASSUME NEW r \in Requests, GoogleLink(r)
          PROVE  identities'[s] = identities[s] \/ Stored(identities[s])'
      BY <1>0, <3>3 DEF GoogleLink, Stored
    <3> QED
      BY <1>2, <3>1, <3>2, <3>3, OthersKeepIdentities
  <2> QED
    BY <1>0, <2>1, <2>2, <2>3 DEF Held
<1> QED
  BY <1>1, <1>2

LEMMA RowsStep == RowsInv /\ TypeOK' /\ [Next]_vars => RowsInv'
BY EmailsStep, HeldStep, KnowStep DEF RowsInv

\* Accounts stay apart and whole: one account per address, and nothing that
\* refers to an account that is gone, however sign-ups, Google sign-ins, changes
\* of address, deletions and purges interleave.
THEOREM AccountsStayIntact == Spec => []AccountsIntact
<1>1. Init => RowsInv
  BY TypeInit DEF RowsInv, Init, EmailsDistinct, Held, HandlersKnow, Stored, NoUser, NoToken, Idle
<1>2. RowsInv => AccountsIntact
  BY DEF RowsInv, AccountsIntact, NoOrphans, Held
<1> QED
  BY <1>1, <1>2, RowsStep, TypeCorrect, PTL DEF Spec

-----------------------------------------------------------------------------
(* What steps may never do.                                                  *)

\* A soft-deleted row changes in its status only: the edits look at deleted_at
\* in the statement that writes.
THEOREM DeletedStayFrozen == Spec => DeletedRowsFrozen
<1>1. TypeOK /\ [Next]_vars =>
        \A u \in Users : SoftDeleted(u) /\ users'[u].status # "purged" =>
          users'[u] = [users[u] EXCEPT !.status = users'[u].status]
  <2> SUFFICES ASSUME TypeOK, [Next]_vars, NEW u \in Users, SoftDeleted(u),
                      users'[u].status # "purged"
               PROVE  users'[u] = [users[u] EXCEPT !.status = users'[u].status]
    OBVIOUS
  <2>1. users[u] \in UserRow
    BY DEF TypeOK
  <2>2. RowStep(u)
    BY RowSteps
  <2> QED
    BY <2>1, <2>2 DEF RowStep, SoftDeleted, Live, NoUser, UserRow
<1> QED
  BY <1>1, TypeCorrect, PTL DEF Spec, DeletedRowsFrozen

\* An unverified address never links: the branch that links has looked.
THEOREM UnverifiedStaysOut == Spec => UnverifiedNeverLinks
<1>1. RowsInv /\ [Next]_vars =>
        \A s \in Subjects : identities[s] = None /\ identities'[s] # None =>
          \/ users[identities'[s]].status = "unused"
          \/ \E r \in Requests : req[r].subject = s /\ req[r].verified
  <2> SUFFICES ASSUME RowsInv, [Next]_vars, NEW s \in Subjects,
                      identities[s] = None, identities'[s] # None
               PROVE  \/ users[identities'[s]].status = "unused"
                      \/ \E r \in Requests : req[r].subject = s /\ req[r].verified
    OBVIOUS
  <2>0. identities \in [Subjects -> Users \cup {None}]
    BY DEF RowsInv, TypeOK
  <2>1. ASSUME NEW r \in Requests, GoogleInsertUser(r)
        PROVE  users[identities'[s]].status = "unused"
    BY <2>0, <2>1 DEF GoogleInsertUser
  <2>2. ASSUME NEW r \in Requests, GoogleLink(r)
        PROVE  req[r].subject = s /\ req[r].verified
    BY <2>0, <2>2 DEF GoogleLink, RowsInv, HandlersKnow
  <2>3. ~Purge
    BY <2>0 DEF Purge
  <2> QED
    BY <2>1, <2>2, <2>3, OthersKeepIdentities
<1>2. Spec => []RowsInv
  <2>1. Init => RowsInv
    BY TypeInit DEF RowsInv, Init, EmailsDistinct, Held, HandlersKnow, Stored, NoUser, NoToken, Idle
  <2> QED
    BY <2>1, RowsStep, TypeCorrect, PTL DEF Spec
<1> QED
  BY <1>1, <1>2, PTL DEF Spec, UnverifiedNeverLinks

-----------------------------------------------------------------------------
(* The handlers and the purge implement AccountLifecycle.                    *)

\* One account moves from one status to another; the others stay.
Moves(u, from, to) ==
  /\ users[u].status = from /\ users'[u].status = to
  /\ \A v \in Users \ {u} : users'[v].status = users[v].status

LEMMA StatusSteps ==
  TypeOK /\ [Next]_vars =>
    \/ \A u \in Users : users'[u].status = users[u].status
    \/ \E u \in Users :
         \/ Moves(u, "unused", "live") \/ Moves(u, "live", "grace")
         \/ Moves(u, "grace", "live") \/ Moves(u, "expired", "live")
         \/ Moves(u, "grace", "expired")
    \/ Purge
<1> DEFINE Same == \A u \in Users : users'[u].status = users[u].status
           Moved == \E u \in Users :
                      \/ Moves(u, "unused", "live") \/ Moves(u, "live", "grace")
                      \/ Moves(u, "grace", "live") \/ Moves(u, "expired", "live")
                      \/ Moves(u, "grace", "expired")
<1> SUFFICES ASSUME TypeOK, [Next]_vars, ~Purge PROVE Same \/ Moved
  OBVIOUS
<1>0. users \in [Users -> UserRow]
  BY DEF TypeOK
<1>1. CASE users' = users
  BY <1>1
<1>2. ASSUME NEW r \in Requests, SignupInsert(r) \/ GoogleInsertUser(r) PROVE Same \/ Moved
  <2>1. CASE users' = users
    BY <1>1, <2>1
  <2>2. CASE users' # users
    <3>1. PICK v \in Users, p \in Passwords \cup {None}, pf \in Profiles :
            /\ users[v].status = "unused"
            /\ users' = [users EXCEPT ![v] = [status |-> "live", email |-> req[r].email,
                                              password |-> p, profile |-> pf]]
      <4>1. req[r].password \in Passwords \cup {None}
        BY DEF TypeOK, Request
      <4> QED
        BY <1>2, <2>2, <4>1 DEF SignupInsert, GoogleInsertUser
    <3>2. Moves(v, "unused", "live")
      BY <1>0, <3>1 DEF Moves
    <3> QED
      BY <3>2
  <2> QED
    BY <2>1, <2>2
<1>3. ASSUME NEW r \in Requests, Reactivate(r) \/ GoogleReactivate(r) PROVE Same \/ Moved
  <2>1. users' = Reactivated(req[r].user)
    BY <1>3 DEF Reactivate, GoogleReactivate
  <2>2. CASE req[r].user \in Users /\ SoftDeleted(req[r].user)
    <3>1. users' = [users EXCEPT ![req[r].user].status = "live"]
      BY <2>1, <2>2 DEF Reactivated
    <3>2. /\ users'[req[r].user].status = "live"
          /\ \A v \in Users \ {req[r].user} : users'[v] = users[v]
      BY <1>0, <2>2, <3>1 DEF UserRow
    <3>3. Moves(req[r].user, "grace", "live") \/ Moves(req[r].user, "expired", "live")
      BY <2>2, <3>2 DEF SoftDeleted, Moves
    <3> QED
      BY <2>2, <3>3
  <2>3. CASE ~(req[r].user \in Users /\ SoftDeleted(req[r].user))
    BY <1>0, <2>1, <2>3 DEF Reactivated
  <2> QED
    BY <2>2, <2>3
<1>4. ASSUME NEW r \in Requests, UpdatePassword(r) \/ UpdateEmail(r) PROVE Same
  BY <1>0, <1>4 DEF UpdatePassword, UpdateEmail, UserRow
<1>5. ASSUME NEW r \in Requests, NEW u \in Users, DeleteAccount(r, u) PROVE Moved
  <2>1. Moves(u, "live", "grace")
    BY <1>0, <1>5 DEF DeleteAccount, Moves, Live, UserRow
  <2> QED
    BY <2>1
<1>6. ASSUME NEW u \in Users, NEW pf \in Profiles, UpdateProfile(u, pf) PROVE Same
  BY <1>0, <1>6 DEF UpdateProfile, UserRow
<1>7. ASSUME NEW u \in Users, GraceEnds(u) PROVE Moved
  <2>1. Moves(u, "grace", "expired")
    BY <1>0, <1>7 DEF GraceEnds, Moves, UserRow
  <2> QED
    BY <2>1
<1> HIDE DEF Same, Moved
<1> QED
  BY <1>1, <1>2, <1>3, <1>4, <1>5, <1>6, <1>7
  DEF Next, Arrive, Proceed, SignupFind, LoginFind, RefreshFind, RefreshFindReplay,
      ChangePasswordVerify, ChangeEmailVerify, GoogleFindIdentity, Issue, RefreshMark,
      RevokeAll, GoogleFindEmail, GoogleLink, GoogleRaced, Fault, vars

\* What ADR 0024 promises of an account, but for liveness: the tables, whichever
\* handlers write them, take every account through its stages one at a time, and
\* only the purge erases, all lapsed accounts at once.
THEOREM LifecycleImplemented == Spec => Lifecycle!SafeSpec
<1> DEFINE Staged == [u \in Users |-> Stage(users[u].status)]
<1>1. Init => Lifecycle!Init
  BY DEF Init, Lifecycle!Init, Stage, NoUser
<1>2. TypeOK /\ [Next]_vars => [Lifecycle!Next]_Staged
  <2> SUFFICES ASSUME TypeOK, [Next]_vars PROVE Lifecycle!Next \/ Staged' = Staged
    OBVIOUS
  <2>0. users \in [Users -> UserRow]
    BY DEF TypeOK
  <2>1. CASE \A u \in Users : users'[u].status = users[u].status
    BY <2>1
  <2>2. ASSUME NEW u \in Users, NEW from, NEW to, Moves(u, from, to)
        PROVE  Staged' = [Staged EXCEPT ![u] = Stage(to)] /\ Staged[u] = Stage(from)
    BY <2>2 DEF Moves
  <2>3. ASSUME NEW u \in Users, Moves(u, "unused", "live") PROVE Lifecycle!Open(u)
    BY <2>2, <2>3 DEF Lifecycle!Open, Lifecycle!Move, Stage
  <2>4. ASSUME NEW u \in Users, Moves(u, "live", "grace") PROVE Lifecycle!Close(u)
    BY <2>2, <2>4 DEF Lifecycle!Close, Lifecycle!Move, Stage
  <2>5. ASSUME NEW u \in Users, Moves(u, "grace", "live") \/ Moves(u, "expired", "live")
        PROVE  Lifecycle!Restore(u)
    BY <2>2, <2>5 DEF Lifecycle!Restore, Lifecycle!Move, Stage
  <2>6. ASSUME NEW u \in Users, Moves(u, "grace", "expired") PROVE Lifecycle!Lapse(u)
    BY <2>2, <2>6 DEF Lifecycle!Lapse, Lifecycle!Move, Stage
  <2>7. ASSUME Purge PROVE Lifecycle!Erase
    <3>1. PICK u \in Users : users[u].status = "expired"
      BY <2>7 DEF Purge
    <3>2. \A v \in Users :
            users'[v].status = IF users[v].status = "expired" THEN "purged" ELSE users[v].status
      BY <2>0, <2>7 DEF Purge, NoUser
    <3>3. \A v \in Users : (Staged[v] = "lapsed") <=> (users[v].status = "expired")
      BY DEF Stage
    <3>4. Staged' = [v \in Users |-> IF Staged[v] = "lapsed" THEN "erased" ELSE Staged[v]]
      BY <3>2, <3>3 DEF Stage
    <3> QED
      BY <3>1, <3>3, <3>4 DEF Lifecycle!Erase
  <2> QED
    BY <2>1, <2>3, <2>4, <2>5, <2>6, <2>7, StatusSteps DEF Lifecycle!Next
<1> QED
  BY <1>1, <1>2, TypeCorrect, PTL DEF Spec, Lifecycle!SafeSpec
=============================================================================

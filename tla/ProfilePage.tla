---------------------------- MODULE ProfilePage -----------------------------
(***************************************************************************)
(* The profile page of the web app: its dialogs (edit profile, change      *)
(* email, update password, delete account), the card of the practice       *)
(* preferences, the sign-out button, and the rows of the BFF behind them.  *)
(*                                                                         *)
(* The page was rendered with the values props; a dialog opens with them.  *)
(* Next.js runs the server actions of a tab, and the refreshes of the      *)
(* page, one at a time: todo is that queue.  Its head is first served (the *)
(* BFF runs it) and then answered (the code after the await runs).  Values *)
(* are 0 and 1; 0 is the default of a column and what stands for null, and  *)
(* the user has changed every column before.                               *)
(***************************************************************************)
EXTENDS Naturals, Sequences, FiniteSets

CONSTANTS
  Prefs,         \* the columns of user_preferences followed
  MaxTodo,       \* bound on the calls that wait: the user submits no more
  MaxTrouble     \* bound on calls that fail and changes made by another device

Fields == {"displayName", "level"}
Dialogs == {"edit", "email", "password", "delete"}
Values == 0..1

VARIABLES
  row,        \* the BFF: the user's row
  prefRow,    \* the BFF: the user's preferences
  deleted,    \* the BFF: the account is marked for deletion
  props,      \* the values the page was rendered with
  card,       \* the preferences the card shows
  previous,   \* the snapshot save() would roll back to
  open,       \* dialogs that are open
  pending,    \* transitions that wait: dialogs, "prefs", "signOut"
  todo,
  left,       \* the page was left for the signed-out home page or sign-in
  trouble,    \* calls that failed and changes of another device so far
  \* History, read by no guard:
  doubt,      \* preferences the card cannot know
  disturbed,  \* a call failed after it was served, a load failed, or another device wrote
  saved       \* the draft of the dialog that last closed as saved, and if it was made on a
              \* page that showed the saves before it

rows == <<row, prefRow, deleted>>
shown == <<props, card, previous, open, pending, left>>
profileVars == <<rows, shown, todo, trouble, doubt, disturbed, saved>>

NoPatch == [f \in {} |-> 0]

Queued(op) == \E i \in DOMAIN todo : todo[i].op = op

\* draft: what the form showed, and current: on a page with no refresh due; sent:
\* the patch; ok, row: the answer; since: the preferences another device changed
\* after the call was served.
Draft(values) == [values |-> values, current |-> ~Queued("refresh")]
Action(op, draft, sent) ==
  [op |-> op, draft |-> draft, sent |-> sent, served |-> FALSE, ok |-> FALSE, row |-> NoPatch, since |-> {}]

\* What a render of the page shows: the stored row or, when /auth/me fails, the
\* claims of the token, which know no level; the preferences or their defaults.
Fallback == [f \in Fields |-> 0]

InitProfile ==
  /\ row = [f \in Fields |-> 1]
  /\ prefRow = [p \in Prefs |-> 1]
  /\ deleted = FALSE
  /\ props \in {row, [Fallback EXCEPT !["displayName"] = row["displayName"]]}
  /\ card \in {prefRow, [p \in Prefs |-> 0]}
  /\ previous = card
  /\ open = {} /\ pending = {}
  /\ todo = <<>> /\ left = FALSE
  /\ trouble = 0
  /\ doubt = IF card = prefRow THEN {} ELSE Prefs
  /\ disturbed = (props # row)
  /\ saved = Draft(NoPatch)

-----------------------------------------------------------------------------
(* Variants with a plausible mistake; no action of Next uses them.          *)

\* The catch of save() shows the error and forgets the snapshot.
RolledBackNot == card

\* Every column of the profile is written, the unsent ones with their default.
PatchAll(old, patch) ==
  [f \in DOMAIN old |-> IF f \in DOMAIN patch THEN patch[f] ELSE 0]

-----------------------------------------------------------------------------
(* The user.  A dialog covers the page, so the rest waits until it closes.  *)

OnPage == ~left /\ open = {}

\* openDialog clears the drafts; a call that a closed dialog left behind is
\* still pending.
OpenDialog(d) ==
  /\ OnPage
  /\ open' = {d}
  /\ saved' = Draft(NoPatch)
  /\ UNCHANGED <<rows, props, card, previous, pending, todo, left, trouble, doubt, disturbed>>

\* Escape, the overlay, or the close button: none of them asks for pending.
CloseDialog(d) ==
  /\ ~left /\ d \in open
  /\ open' = {}
  /\ UNCHANGED <<rows, props, card, previous, pending, todo, left, trouble, doubt, disturbed, saved>>

Enqueue(call) == Len(todo) < MaxTodo /\ todo' = Append(todo, call)

\* A form the browser finds wrong only shows why.
CanSubmit(d) == ~left /\ d \in open /\ d \notin pending

Submit(d, draft, sent) ==
  /\ CanSubmit(d)
  /\ pending' = pending \cup {d}
  /\ Enqueue(Action(d, Draft(draft), sent))
  /\ UNCHANGED <<rows, props, card, previous, open, left, trouble, doubt, disturbed, saved>>

\* Only what differs from the values of the page is sent; if nothing does, the
\* dialog closes without a call.
SubmitProfile(draft) ==
  LET changed == {f \in DOMAIN draft : draft[f] # props[f]} IN
  IF changed # {}
  THEN Submit("edit", draft, [f \in changed |-> draft[f]])
  ELSE /\ CanSubmit("edit")
       /\ open' = {}
       /\ saved' = Draft(draft)
       /\ UNCHANGED <<rows, props, card, previous, pending, todo, left, trouble, doubt, disturbed>>

\* The new email, and the passwords, are followed no further than their calls.
SubmitEmail == Submit("email", NoPatch, NoPatch)
SubmitPassword == Submit("password", NoPatch, NoPatch)
ConfirmDelete == Submit("delete", NoPatch, NoPatch)

\* save() of the card: shown at once, with a snapshot to return to.
SavePreference(p) ==
  LET patch == [q \in {p} |-> 1 - card[p]] IN
  /\ OnPage /\ "prefs" \notin pending
  /\ previous' = card
  /\ card' = [card EXCEPT ![p] = patch[p]]
  /\ pending' = pending \cup {"prefs"}
  /\ Enqueue(Action("prefs", Draft(patch), patch))
  /\ UNCHANGED <<rows, props, open, left, trouble, doubt, disturbed, saved>>

SignOut ==
  /\ OnPage /\ "signOut" \notin pending
  /\ pending' = pending \cup {"signOut"}
  /\ Enqueue(Action("signOut", Draft(NoPatch), NoPatch))
  /\ UNCHANGED <<rows, props, card, previous, open, left, trouble, doubt, disturbed, saved>>

-----------------------------------------------------------------------------
(* The BFF.                                                                 *)

\* updateUserProfile and upsertUserPreferences write the columns sent.
Patched(old, patch) == [f \in DOMAIN old |-> IF f \in DOMAIN patch THEN patch[f] ELSE old[f]]

Authorised == ~deleted
Serve(ok, answer) ==
  /\ ~left /\ todo # <<>> /\ ~Head(todo).served
  /\ todo' = [todo EXCEPT ![1].served = TRUE, ![1].ok = ok, ![1].row = answer]
  /\ UNCHANGED <<shown, trouble, doubt, saved>>

ServeProfile ==
  /\ Authorised /\ todo # <<>> /\ Head(todo).op \in {"edit", "email"}
  /\ row' = Patched(row, Head(todo).sent)
  /\ Serve(TRUE, row')
  /\ UNCHANGED <<prefRow, deleted, disturbed>>

ServePassword ==
  /\ Authorised /\ todo # <<>> /\ Head(todo).op = "password"
  /\ Serve(TRUE, NoPatch)
  /\ UNCHANGED <<rows, disturbed>>

ServePreferences ==
  /\ Authorised /\ todo # <<>> /\ Head(todo).op = "prefs"
  /\ prefRow' = Patched(prefRow, Head(todo).sent)
  /\ Serve(TRUE, prefRow')
  /\ UNCHANGED <<row, deleted, disturbed>>

ServeDelete ==
  /\ Authorised /\ todo # <<>> /\ Head(todo).op = "delete"
  /\ deleted' = TRUE
  /\ Serve(TRUE, NoPatch)
  /\ UNCHANGED <<row, prefRow, disturbed>>

\* The page is rendered again.  A session that has ended shows its claims, or
\* redirects to sign-in once its cookies are gone.
ServeRefresh ==
  /\ todo # <<>> /\ Head(todo).op = "refresh"
  /\ \/ Serve(TRUE, IF Authorised THEN row ELSE Fallback)
     \/ ~Authorised /\ Serve(FALSE, NoPatch)
  /\ disturbed' = (disturbed \/ ~Authorised)
  /\ UNCHANGED rows

\* Answered 401; or a wrong current password (422), an email that is taken (409)
Refuse ==
  /\ todo # <<>> /\ Head(todo).op \notin {"refresh", "signOut"}
  /\ ~Authorised \/ Head(todo).op \in {"email", "password"}
  /\ Serve(FALSE, NoPatch)
  /\ UNCHANGED <<rows, disturbed>>

ServeSignOut ==
  /\ todo # <<>> /\ Head(todo).op = "signOut"
  /\ Serve(TRUE, NoPatch)
  /\ UNCHANGED <<rows, disturbed>>

\* The call fails before or after the BFF has run it; the browser cannot tell.
CallFails ==
  /\ trouble < MaxTrouble /\ trouble' = trouble + 1
  /\ ~left /\ todo # <<>> /\ Head(todo).op \notin {"signOut", "refresh"}
  /\ Head(todo).served => Head(todo).ok
  /\ todo' = [todo EXCEPT ![1].served = TRUE, ![1].ok = FALSE]
  /\ doubt' = doubt \cup (IF Head(todo).served THEN DOMAIN Head(todo).sent \cap Prefs ELSE {})
  /\ disturbed' = (disturbed \/ Head(todo).served)
  /\ UNCHANGED <<rows, shown, saved>>

\* Another device of the user writes one column.
Elsewhere ==
  /\ ~left /\ trouble < MaxTrouble /\ trouble' = trouble + 1
  /\ \/ /\ \E f \in Fields : row' = [row EXCEPT ![f] = 1 - @]
        /\ UNCHANGED <<prefRow, todo, doubt>>
     \/ \E p \in Prefs :
          /\ prefRow' = [prefRow EXCEPT ![p] = 1 - @]
          /\ doubt' = doubt \cup {p}
          /\ todo' = IF todo # <<>> /\ Head(todo).served
                     THEN [todo EXCEPT ![1].since = @ \cup {p}] ELSE todo
          /\ UNCHANGED row
  /\ disturbed' = TRUE
  /\ UNCHANGED <<deleted, shown, saved>>

-----------------------------------------------------------------------------
(* What follows the await.  An answer belongs to a dialog, not to one       *)
(* opening of it: it closes the one that is open by then.                   *)

Answered(ops) == todo # <<>> /\ Head(todo).served /\ Head(todo).op \in ops /\ ~left
RolledBack == previous

\* Saved: the dialog closes, and a changed profile refreshes the page.
AnswerDialog ==
  LET d == Head(todo).op IN
  /\ Answered({"edit", "email", "password"})
  /\ pending' = pending \ {d}
  /\ IF Head(todo).ok
     THEN /\ open' = open \ {d}
          /\ todo' = IF d = "password" THEN Tail(todo)
                     ELSE Append(Tail(todo), Action("refresh", Draft(NoPatch), NoPatch))
          /\ saved' = Head(todo).draft
     ELSE /\ todo' = Tail(todo)
          /\ UNCHANGED <<open, saved>>
  /\ UNCHANGED <<rows, props, card, previous, left, trouble, doubt, disturbed>>

\* The row of the answer, or the snapshot
AnswerPreferences ==
  /\ Answered({"prefs"})
  /\ todo' = Tail(todo)
  /\ pending' = pending \ {"prefs"}
  /\ IF Head(todo).ok
     THEN card' = Head(todo).row /\ doubt' = Head(todo).since
     ELSE card' = RolledBack /\ UNCHANGED doubt
  /\ UNCHANGED <<rows, props, previous, open, left, trouble, disturbed, saved>>

\* Signed out or deleted: cookies and cache go, and so does the page.  A failed
\* deletion only shows an error, in a dialog that may be closed by then.
AnswerEnd ==
  LET op == Head(todo).op IN
  /\ Answered({"signOut", "delete"})
  /\ todo' = Tail(todo)
  /\ pending' = pending \ {op}
  /\ IF Head(todo).ok
     THEN left' = TRUE
     ELSE UNCHANGED left
  /\ UNCHANGED <<rows, props, card, previous, open, trouble, doubt, disturbed, saved>>

AnswerRefresh ==
  /\ Answered({"refresh"})
  /\ todo' = Tail(todo)
  /\ IF Head(todo).ok
     THEN props' = Head(todo).row /\ UNCHANGED left
     ELSE left' = TRUE /\ UNCHANGED props
  /\ UNCHANGED <<rows, card, previous, open, pending, trouble, doubt, disturbed, saved>>

NextProfile ==
  \/ \E d \in Dialogs : OpenDialog(d) \/ CloseDialog(d)
  \/ \E draft \in [Fields -> Values] : SubmitProfile(draft)
  \/ SubmitEmail \/ SubmitPassword \/ ConfirmDelete \/ SignOut
  \/ \E p \in Prefs : SavePreference(p)
  \/ ServeProfile \/ ServePassword \/ ServePreferences \/ ServeDelete \/ ServeRefresh
  \/ ServeSignOut \/ Refuse \/ CallFails \/ Elsewhere
  \/ AnswerDialog \/ AnswerPreferences \/ AnswerEnd \/ AnswerRefresh

SpecProfile == InitProfile /\ [][NextProfile]_profileVars

-----------------------------------------------------------------------------
(* Properties.                                                              *)

\* PracticePreferencesCard: the card never lies about what is stored.  Between
\* saves each preference it shows is the stored one, except those whose answer
\* was lost after the BFF wrote them, those another device has written since the
\* last answer, and all of them after a load that fell back to the defaults.
CardShowsStored ==
  ~left /\ "prefs" \notin pending => \A p \in Prefs \ doubt : card[p] = prefRow[p]

\* A dialog that closes as saved has saved what it showed, the fields it did not
\* send included, as long as its draft was made on a page that showed the row and
\* the saves before it, and nobody else writes (EditProfileButton.onSubmit).
SavedMeansStored ==
  [][saved' # saved /\ saved'.current /\ ~disturbed =>
       \A f \in DOMAIN saved'.values : row[f] = saved'.values[f]]_profileVars
=============================================================================

------------------------------- MODULE SignIn -------------------------------
(***************************************************************************)
(* The sign-in and sign-up forms of the web app (AuthForm.tsx) with their  *)
(* Google button (GoogleSignInButton.tsx), up to the page they lead to.    *)
(* The two ways in are attempts of their own: the popup of Google stays    *)
(* open while a password is sent, and answers after the form is gone.      *)
(*                                                                         *)
(* Next.js runs the server actions of a tab one at a time: calls is that   *)
(* queue.  Each way in is taken for another account, the worst case.       *)
(***************************************************************************)
EXTENDS Toasts

CONSTANT MaxTries   \* bound on the attempts

VARIABLES
  google,    \* the Google client: "loading", "ready" or "failed"
  popup,     \* its popup is open
  calls,     \* [by, step, answer]: the server actions that wait
  session,   \* whose session the cookies hold
  cache,     \* whose history localStorage holds
  error,     \* the form shows an error
  tried,     \* an attempt was sent since the form last refused its own fields
  tries

signInVars == <<google, popup, calls, session, cache, error, tried, tries>>
entryVars == <<toastVars, signInVars>>

InitSignIn ==
  /\ InitToasts
  /\ google = "loading" /\ popup = FALSE
  /\ calls = <<>> /\ session = "nobody"
  /\ cache \in {"nobody", "guest"}
  /\ error = FALSE /\ tried = FALSE /\ tries = 0

OnForm == Here.page = "form"
EntryCall(by, step, revived) == [by |-> by, step |-> step, revived |-> revived, answer |-> "none"]

\* The button of the form waits for the transition of either way in, the Google
\* button for its own.
FormPending == \E i \in DOMAIN calls : calls[i].by = "password" \/ calls[i].step = "refresh"
GooglePending == \E i \in DOMAIN calls : calls[i].by = "google" /\ calls[i].step = "enter"

Enter(by) == tries < MaxTries /\ tries' = tries + 1 /\ tried' = TRUE
             /\ calls' = Append(calls, EntryCall(by, "enter", FALSE))

-----------------------------------------------------------------------------
(* Variants with a plausible mistake; no action of Next uses them.          *)

\* The history cached before is left to the refresh to replace.
CacheKept == cache

-----------------------------------------------------------------------------
(* The form.                                                                *)

SubmitForm ==
  /\ OnForm /\ ~FormPending
  /\ \/ Enter("password") /\ error' = FALSE
     \/ error' = TRUE /\ tried' = FALSE /\ UNCHANGED <<calls, tries>>   \* a short password, the terms
  /\ UNCHANGED <<google, popup, session, cache, toastVars>>

LoadGoogle ==
  /\ google = "loading"
  /\ \/ google' = "ready" /\ UNCHANGED error
     \/ google' = "failed" /\ error' = (error \/ OnForm)
  /\ UNCHANGED <<popup, calls, session, cache, tried, tries, toastVars>>

ClickGoogle ==
  /\ OnForm /\ ~GooglePending
  /\ IF google = "ready" THEN popup' = TRUE /\ UNCHANGED error ELSE error' = TRUE /\ UNCHANGED popup
  /\ UNCHANGED <<google, calls, session, cache, tried, tries, toastVars>>

\* The popup is closed, is refused, or brings a code, wherever the tab is by then.
PopupEnds ==
  /\ popup /\ popup' = FALSE
  /\ \/ UNCHANGED <<calls, error, tried, tries>>
     \/ error' = (error \/ OnForm) /\ UNCHANGED <<calls, tried, tries>>
     \/ Enter("google") /\ UNCHANGED error
  /\ UNCHANGED <<google, session, cache, toastVars>>

-----------------------------------------------------------------------------
(* The server actions, and what follows them.                               *)

\* signInAction, signUpAction and signInWithGoogleAction: the cookies of a new
\* session come with the answer.  A revived account had been deleted.
ServeEntry ==
  /\ calls # <<>> /\ Head(calls).step = "enter" /\ Head(calls).answer = "none"
  /\ \/ /\ \E revived \in BOOLEAN :
             calls' = [calls EXCEPT ![1].answer = "ok", ![1].revived = revived]
        /\ session' = Head(calls).by
     \/ calls' = [calls EXCEPT ![1].answer = "refused"] /\ UNCHANGED session
  /\ UNCHANGED <<google, popup, cache, error, tried, tries, toastVars>>

\* refreshAllFromBff reads with the cookies of the moment, and forgives a failure.
ServeReread ==
  /\ calls # <<>> /\ Head(calls).step = "refresh" /\ Head(calls).answer = "none"
  /\ \E answer \in {session, "refused"} : calls' = [calls EXCEPT ![1].answer = answer]
  /\ UNCHANGED <<google, popup, session, cache, error, tried, tries, toastVars>>

Cleared == "nobody"
AnswerEntry ==
  /\ calls # <<>> /\ Head(calls).step = "enter" /\ Head(calls).answer # "none"
  /\ LET call == Head(calls) IN
     IF call.answer = "ok"
     THEN /\ cache' = Cleared
          /\ calls' = Append(Tail(calls), EntryCall(call.by, "refresh", call.revived))
          /\ error' = (error /\ call.by = "password")
     ELSE /\ calls' = Tail(calls)
          /\ error' = (error \/ OnForm)
          /\ UNCHANGED cache
  /\ UNCHANGED <<google, popup, session, tried, tries, toastVars>>

\* completeAuth replaces whatever page the tab shows.
AnswerReread ==
  /\ calls # <<>> /\ Head(calls).step = "refresh" /\ Head(calls).answer # "none"
  /\ cache' = IF Head(calls).answer = "refused" THEN cache ELSE Head(calls).answer
  /\ calls' = Tail(calls)
  /\ IF Head(calls).revived
     THEN Go("replace", Arrival("welcome")) /\ arrivals' = Append(arrivals, "welcome")
     ELSE Go("replace", Plain("home")) /\ UNCHANGED arrivals
  /\ UNCHANGED <<google, popup, session, error, tried, tries, hist, at, visible, stripped>>

NextSignIn ==
  \/ SubmitForm \/ LoadGoogle \/ ClickGoogle \/ PopupEnds
  \/ ServeEntry \/ ServeReread \/ AnswerEntry \/ AnswerReread
  \/ NextToasts /\ UNCHANGED signInVars

SpecSignIn == InitSignIn /\ [][NextSignIn]_entryVars

-----------------------------------------------------------------------------
(* Properties.                                                              *)

\* However the two ways in overlap: when no server action waits, the history in
\* localStorage is of the account the cookies hold, or empty, also when the
\* refresh failed.
CacheIsOwners == calls = <<>> /\ session # "nobody" => cache \in {"nobody", session}

\* Nor is the form left silent: once all is answered it shows an error, or the
\* tab has left it, and it has not stayed on the form signed in.
FormSpeaks ==
  calls = <<>> /\ going = <<>> /\ OnForm /\ tried => error /\ session = "nobody"
=============================================================================

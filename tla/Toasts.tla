------------------------------- MODULE Toasts -------------------------------
(***************************************************************************)
(* The toasts of the web app: WelcomeBackToast.tsx in the shell of the     *)
(* app's pages, CompletionToast.tsx on the home page.  The parameter of an *)
(* address asks for a toast, ?welcome-back=1 after a sign-in that revived  *)
(* an account and ?completed=<surah> after the last verse of a surah; the  *)
(* toast strips it once dismissed.  An address has one of them at most.    *)
(*                                                                         *)
(* A navigation of the router takes time, and the next one takes its       *)
(* place; the history of the tab is walked at once.                        *)
(***************************************************************************)
EXTENDS Naturals, Sequences

CONSTANTS
  Completed,    \* the surahs that may be completed
  MaxArrivals,  \* bound on the addresses with a parameter
  MaxHistory    \* bound on the history of the tab

VARIABLES
  hist, at,   \* the history of the tab and the entry shown
  going,      \* the navigation under way, if any
  visible,    \* the toast of the entry shown is visible
  arrivals,   \* history: the parameters of the addresses asked for
  stripped    \* history: the arrivals whose parameter was stripped

toastVars == <<hist, at, going, visible, arrivals, stripped>>

\* arrival tells apart two addresses that are the same.
Plain(page) == [page |-> page, param |-> "none", arrival |-> 0]
Arrival(param) == [page |-> "home", param |-> param, arrival |-> Len(arrivals) + 1]
Here == hist[at]
Asks(entry) == entry.param # "none"

InitToasts ==
  /\ hist = <<Plain("form")>> /\ at = 1
  /\ going = <<>> /\ visible = FALSE
  /\ arrivals = <<>> /\ stripped = {}

\* router.push, router.replace or a link
Go(how, entry) == going' = <<[how |-> how, to |-> entry]>>

\* The toast follows the parameter when it changes; the same parameter leaves it
\* as it is.
Synced(entry) == IF entry.param = Here.param THEN visible ELSE Asks(entry)

-----------------------------------------------------------------------------
(* Variants with a plausible mistake; no action of Next uses them.          *)

\* The parameter is stripped with router.push.
LandedAsPush(how, to) == Append(SubSeq(hist, 1, at), to)

-----------------------------------------------------------------------------

Landed(how, to) ==
  IF how = "push" THEN Append(SubSeq(hist, 1, at), to) ELSE [hist EXCEPT ![at] = to]

Land ==
  /\ going # <<>>
  /\ LET nav == Head(going) IN
     /\ hist' = Landed(nav.how, nav.to)
     /\ at' = IF Len(hist') = Len(hist) /\ nav.how # "push" THEN at ELSE Len(hist')
     /\ visible' = Synced(nav.to)
     /\ stripped' = IF nav.how = "strip" THEN stripped \cup {Here.arrival} ELSE stripped
  /\ going' = <<>>
  /\ UNCHANGED arrivals

\* The timer, which a pointer or the focus pauses, Escape or the cross.  The
\* effect that follows strips the parameter.
Dismiss ==
  /\ visible
  /\ visible' = FALSE
  /\ Go("strip", [Here EXCEPT !.param = "none", !.arrival = 0])
  /\ UNCHANGED <<hist, at, arrivals, stripped>>

InApp == Here.page # "form"

\* Continue after the last verse of a surah
Finish(surah) ==
  /\ Here.page = "result" /\ Len(hist) < MaxHistory /\ Len(arrivals) < MaxArrivals
  /\ Go("push", Arrival(surah))
  /\ arrivals' = Append(arrivals, surah)
  /\ UNCHANGED <<hist, at, visible, stripped>>

\* The other links of the app
Follow(page) ==
  /\ InApp /\ Len(hist) < MaxHistory
  /\ Go("push", Plain(page))
  /\ UNCHANGED <<hist, at, visible, arrivals, stripped>>

\* Back and forward: what was under way is dropped.
Walk(to) ==
  /\ InApp /\ to # at
  /\ at' = to
  /\ visible' = Synced(hist[to])
  /\ going' = <<>>
  /\ UNCHANGED <<hist, arrivals, stripped>>
Reload ==
  /\ InApp
  /\ visible' = Asks(Here)
  /\ going' = <<>>
  /\ UNCHANGED <<hist, at, arrivals, stripped>>

NextToasts ==
  \/ Land \/ Dismiss \/ Reload
  \/ \E surah \in Completed : Finish(surah)
  \/ \E page \in {"home", "result"} : Follow(page)
  \/ \E to \in DOMAIN hist : Walk(to)

-----------------------------------------------------------------------------
(* Properties.                                                              *)

\* A toast whose parameter was stripped is not shown again, by back, forward or
\* reload.  And with no navigation under way an address that asks for a toast
\* shows it, unless one with the same parameter was asked for before: it can
\* overtake the stripping of that one, and is then neither shown nor stripped.
ToastOnce ==
  /\ visible => Asks(Here) /\ Here.arrival \notin stripped
  /\ going = <<>> /\ Asks(Here) /\ ~visible =>
       \E i, j \in DOMAIN arrivals : i # j /\ arrivals[i] = Here.param /\ arrivals[j] = Here.param
=============================================================================

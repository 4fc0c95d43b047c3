------------------------------ MODULE HomePage ------------------------------
(***************************************************************************)
(* Where the web app shows the verse practised last: the cards of the home *)
(* page (ContinueCard, SuggestedCard, SurahGrid) and the practice link of  *)
(* the navigation (TopNav), each with a hook of its own on localStorage    *)
(* (useLocalStorageState.ts).  A hook reads when it is mounted and when    *)
(* another tab writes; the browser announces no write of the tab itself.   *)
(*                                                                         *)
(* The last practice is known by its surah.                                *)
(***************************************************************************)
EXTENDS Progress

CONSTANT MaxWrites   \* bound on the changes of localStorage

VARIABLES
  loaded,    \* the home page has its list of surahs, and so its cards
  page,      \* "home", or "practice" for any other page of the app
  gate,      \* _signedIn, which the session of the page sets
  last,      \* localStorage: the surah practised last, or None
  announced,    \* the storage events to deliver
  nav,       \* what the hook of TopNav holds
  cards,     \* what those of the cards hold
  offered,   \* the BFF's suggestion that came with the page, or None
  silent,    \* history: the readers that missed a change of this tab since they read
  writes

homeVars == <<loaded, page, gate, last, announced, nav, cards, offered, silent, writes>>

Cards == {"continue", "suggested", "grid"}
Readers == Cards \cup {"nav"}

\* The getters answer nothing while the gate is shut.
GetLastPracticed == IF gate THEN last ELSE None

\* The best scores the grid reads besides, and its filters, are left out.
BuildSnapshot == GetLastPracticed
ReadBy(c) == IF c = "grid" THEN BuildSnapshot ELSE GetLastPracticed

CardsShown == page = "home" /\ loaded

InitHome ==
  /\ page = "practice" /\ loaded = TRUE /\ gate \in BOOLEAN
  /\ last \in Surahs \cup {None}
  /\ nav = GetLastPracticed /\ cards = [c \in Cards |-> None] /\ offered = None
  /\ announced = 0 /\ silent = {} /\ writes = 0

Write(value) == writes < MaxWrites /\ writes' = writes + 1 /\ last' = value

-----------------------------------------------------------------------------
(* Variants with a plausible mistake; no action of Next uses them.          *)

\* The card of the suggestion reads only when it is mounted.
FollowersButOne == {"continue", "grid"}

-----------------------------------------------------------------------------
(* classify.ts                                                              *)

PickSuggestion(continued) ==
  LET candidates == ShortMeccan \ {continued} IN
  IF offered # None THEN offered
  ELSE IF candidates = {} \/ FallbackSurah \in candidates THEN FallbackSurah
  ELSE Min(candidates)

-----------------------------------------------------------------------------

\* The cards are mounted and read, if the surahs were fetched; the suggestion may
\* be missing (a guest, a failure).
Mount ==
  /\ loaded' \in BOOLEAN
  /\ cards' = [c \in Cards |-> ReadBy(c)]
  /\ offered' \in Surahs \cup {None}
  /\ silent' = silent \ Cards
Visit ==
  /\ page = "practice" /\ page' = "home" /\ Mount
  /\ UNCHANGED <<gate, last, announced, nav, writes>>
Retry ==
  /\ page = "home" /\ ~loaded /\ Mount
  /\ UNCHANGED <<page, gate, last, announced, nav, writes>>
Leave ==
  /\ page = "home" /\ page' = "practice"
  /\ UNCHANGED <<loaded, gate, last, announced, nav, cards, offered, silent, writes>>

\* A practice in this tab, or the answer to the background refresh of a getter
WriteHere ==
  /\ gate
  /\ \E surah \in Surahs \cup {None} : surah # last /\ Write(surah)
  /\ silent' = Readers
  /\ UNCHANGED <<loaded, page, gate, announced, nav, cards, offered>>

\* The same in another tab, or its sign-out
WriteElsewhere ==
  /\ \E surah \in Surahs \cup {None} : surah # last /\ Write(surah)
  /\ announced' = announced + 1
  /\ UNCHANGED <<loaded, page, gate, nav, cards, offered, silent>>

Followers == Cards
OnStorage ==
  /\ announced > 0 /\ announced' = announced - 1
  /\ nav' = GetLastPracticed
  /\ cards' = [c \in Cards |-> IF CardsShown /\ c \in Followers THEN ReadBy(c) ELSE cards[c]]
  /\ silent' = silent \ (IF CardsShown THEN Readers ELSE {"nav"})
  /\ UNCHANGED <<loaded, page, gate, last, offered, writes>>

\* onSignOut clears localStorage and replaces the page by the home page, which is
\* mounted if it was not shown; the gate shuts when the page comes without a session.
SignOutHere ==
  /\ gate /\ Write(None)
  /\ page' = "home"
  /\ IF page = "home"
     THEN silent' = Readers /\ UNCHANGED <<loaded, cards, offered>>
     ELSE /\ loaded' \in BOOLEAN
          /\ cards' = [c \in Cards |-> None] /\ offered' = None
          /\ silent' = {"nav"}
  /\ UNCHANGED <<gate, announced, nav>>
SessionGone ==
  /\ gate /\ gate' = FALSE
  /\ loaded' \in BOOLEAN
  /\ cards' = IF loaded THEN cards ELSE [c \in Cards |-> None]
  /\ silent' = IF loaded THEN Readers ELSE {"nav"}
  /\ offered' = None
  /\ UNCHANGED <<page, last, announced, nav, writes>>

\* The sign-in form has another layout: all is mounted anew after it.
SignInHere ==
  /\ ~gate /\ gate' = TRUE
  /\ \E surah \in Surahs \cup {None} :
       /\ Write(surah)
       /\ nav' = surah /\ cards' = [c \in Cards |-> surah]
  /\ page' = "home" /\ loaded' \in BOOLEAN /\ offered' \in Surahs \cup {None}
  /\ silent' = {}
  /\ UNCHANGED announced

NextHome ==
  \/ Visit \/ Retry \/ Leave \/ WriteHere \/ WriteElsewhere \/ OnStorage
  \/ SignOutHere \/ SessionGone \/ SignInHere

SpecHome == InitHome /\ [][NextHome]_homeVars

-----------------------------------------------------------------------------
(* Properties.                                                              *)

\* The cards of the home page speak of one surah, whatever other tabs write while
\* they are shown; what they and the navigation show is what is stored, once the
\* storage events are delivered, unless this tab changed it; and a suggestion of
\* the page's own is not the surah to continue while another one would do.
CardsAgree ==
  /\ CardsShown =>
       /\ \A c, d \in Cards : cards[c] = cards[d]
       /\ announced = 0 /\ silent \cap Cards = {} => cards["continue"] = GetLastPracticed
       /\ offered = None /\ ShortMeccan \ {cards["continue"]} # {} =>
            PickSuggestion(cards["suggested"]) # cards["continue"]
  /\ announced = 0 /\ "nav" \notin silent => nav = GetLastPracticed

\* storage.ts:143-145: "so the previous identity's last-practiced and best-scores
\* never bleed into the next session".  Signed out on the home page, the cards of
\* the tab keep what they read (see the README).
SignedOutShowsNothing == ~gate => nav = None /\ (CardsShown => cards["continue"] = None)
=============================================================================

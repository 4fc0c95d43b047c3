---------------------------- MODULE ScoringQuota ----------------------------
(***************************************************************************)
(* The hourly limit of scoring jobs: consumeScoringQuota of the BFF and    *)
(* its in-memory map, which a restart empties.  createScoringJob calls it  *)
(* before anything else, so a request that then fails has been counted.    *)
(***************************************************************************)
EXTENDS Integers, FiniteSets

CONSTANTS
  Users,
  WindowMs,    \* WINDOW_MS, in ticks of the model's clock
  MaxJobs,     \* MAX_JOBS_PER_WINDOW
  MaxNow,      \* bound on the clock
  MaxCalls,    \* bound on the calls of a user
  MaxRestarts  \* bound on restarts

ASSUME QuotaAssumption == WindowMs \in Nat \ {0} /\ MaxJobs \in Nat \ {0}

VARIABLES
  now,         \* Date.now(), taken not to step back
  recentJobs,  \* the map: per user the calls whose times are listed, in no order
  boot,        \* how often the process has restarted
  calls        \* history: per user all calls, as [nth, at, boot, admitted]

quotaVars == <<now, recentJobs, boot, calls>>

InitQuota ==
  /\ now = 0
  /\ recentJobs = [u \in Users |-> {}]
  /\ boot = 0
  /\ calls = [u \in Users |-> {}]

\* Variants with a plausible mistake; no action of Next uses them.
\* The elapsed time is compared the wrong way round at the edge of the window.
InWindowShort(u) == {call \in recentJobs[u] : now - call.at < WindowMs - 1}

InWindow(u) == {call \in recentJobs[u] : now - call.at < WindowMs}

Made(u, admitted) ==
  [nth |-> Cardinality(calls[u]) + 1, at |-> now, boot |-> boot, admitted |-> admitted]
Record(u, admitted) == calls' = [calls EXCEPT ![u] = @ \cup {Made(u, admitted)}]

Reject(u) == /\ recentJobs' = [recentJobs EXCEPT ![u] = InWindow(u)]
             /\ Record(u, FALSE)

Admit(u) == /\ recentJobs' = [recentJobs EXCEPT ![u] = InWindow(u) \cup {Made(u, TRUE)}]
            /\ Record(u, TRUE)

ConsumeScoringQuota(u) ==
  /\ Cardinality(calls[u]) < MaxCalls
  /\ \/ Cardinality(InWindow(u)) >= MaxJobs /\ Reject(u)
     \/ Cardinality(InWindow(u)) < MaxJobs /\ Admit(u)
  /\ UNCHANGED <<now, boot>>

Restart == /\ boot < MaxRestarts
           /\ boot' = boot + 1
           /\ recentJobs' = [u \in Users |-> {}]
           /\ UNCHANGED <<now, calls>>

Tick == /\ now < MaxNow
        /\ now' = now + 1
        /\ UNCHANGED <<recentJobs, boot, calls>>

NextQuota == Tick \/ Restart \/ \E u \in Users : ConsumeScoringQuota(u)

SpecQuota == InitQuota /\ [][NextQuota]_quotaVars

-----------------------------------------------------------------------------
(* Properties.                                                              *)

\* The calls of u admitted by boot b in the WindowMs that end with tick t.
Admitted(u, b, t) ==
  {call \in calls[u] : /\ call.admitted /\ call.boot = b
                       /\ t - WindowMs < call.at /\ call.at <= t}

\* No window of WINDOW_MS, wherever it starts, holds more than
\* MAX_JOBS_PER_WINDOW admitted calls of a user of one process
\* (consumeScoringQuota forgets what it drops from the list).
WithinLimit ==
  \A u \in Users, b \in 0..boot, t \in 0..now : Cardinality(Admitted(u, b, t)) <= MaxJobs

\* A call is refused only when the window that ends with it is full: neither
\* refused calls nor older ones count against it.
RefusedOnlyAtLimit ==
  \A u \in Users : \A call \in calls[u] :
    ~call.admitted => Cardinality(Admitted(u, call.boot, call.at)) = MaxJobs

\* The quota admits what it should and no more (consumeScoringQuota).
QuotaExact == WithinLimit /\ RefusedOnlyAtLimit
=============================================================================

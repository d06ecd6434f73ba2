------------------------------ MODULE Profile ------------------------------
(***************************************************************************)
(* The profile and the facts it was built from (memory_service/summary.py, *)
(* with the routes of api.py and the erasers that pull facts out of it).   *)
(*                                                                         *)
(* The profile is a cache of the ledger: a build picks the facts that are  *)
(* in use, spends minutes in model calls, and saves.  Facts are held,      *)
(* erased and approved meanwhile.  Two things keep a pulled fact from      *)
(* staying in the profile: _build_lock, which spans a build from its pick  *)
(* to its save, and ProfileRefresh, which is asked for a rebuild after the *)
(* ledger change has been committed.  This module puts the two together    *)
(* with the handlers, the plain builds (a distill's and the owner's), the  *)
(* version history, a shutdown, a crash and the startup check.             *)
(*                                                                         *)
(* Facts carry only what decides whether the profile may show them.  What  *)
(* select_for_summary picks among the facts in use (pinned, durable and    *)
(* active pools, budgets) is left open: any set of them.                   *)
(***************************************************************************)
EXTENDS ProfileRefresh

CONSTANTS
  Fact,      \* ids a fact can get
  Builder,   \* job threads that build the profile outside ProfileRefresh
  NoThread,  \* nobody holds _build_lock
  MaxCrashes \* bound: how often the process dies

ASSUME ProfileAssumption ==
  /\ NoThread \notin Builder \cup Worker
  /\ Builder \cap Worker = {}
  /\ MaxCrashes \in Nat

Thread == Builder \cup Worker

VARIABLES
  status,    \* status[f]: "unborn", "used", "held" (quarantined) or "erased"
  profile,   \* summary_sources.fact_ids: the facts the profile was built from
  versions,  \* the source_fact_ids of every row of summary_versions
  lock,      \* the holder of _build_lock, or NoThread
  build,     \* build[t]: "none", "pick" (about to choose facts), "draft"
             \* (in the model calls, its choice made)
  picked,    \* picked[t]: the facts t's build chose
  up,        \* the process is running
  crashes,   \* history: how often it has died, to bound the model
  reverted   \* history: the owner put a version back that cites pulled facts,
             \* and no pass or build has saved since

lvars == <<status, profile, versions, lock, build, picked, up, crashes, reverted>>
vars == <<rvars, lvars>>

\* A fact the profile may no longer show: held_in_profile's test.
Pulled(f) == status[f] \in {"held", "erased"}
HeldInProfile == {f \in profile : Pulled(f)}

LedgerOK ==
  /\ status \in [Fact -> {"unborn", "used", "held", "erased"}]
  /\ profile \in SUBSET Fact
  /\ versions \in SUBSET SUBSET Fact
  /\ lock \in Thread \cup {NoThread}
  /\ build \in [Thread -> {"none", "pick", "draft"}]
  /\ picked \in [Thread -> SUBSET Fact]
  /\ up \in BOOLEAN /\ reverted \in BOOLEAN

TypeOK == RefreshTypeOK /\ LedgerOK /\ crashes \in 0..MaxCrashes

Init ==
  /\ RefreshInit
  /\ status = [f \in Fact |-> "unborn"]
  /\ profile = {} /\ versions = {}
  /\ lock = NoThread
  /\ build = [t \in Thread |-> "none"]
  /\ picked = [t \in Thread |-> {}]
  /\ up = TRUE /\ crashes = 0 /\ reverted = FALSE

-----------------------------------------------------------------------------
(* The ledger changes, each committed before its handler asks for a        *)
(* refresh: what is still to be called is in soonCalls and nowCalls.       *)

Serving == up /\ ~closed

\* A fact is saved, in use or held from the start by a wall or the write gate.
AddFact(f) ==
  /\ Serving /\ status[f] = "unborn"
  /\ \E s \in {"used", "held"} : status' = [status EXCEPT ![f] = s]
  /\ UNCHANGED <<rvars, profile, versions, lock, build, picked, up, crashes, reverted>>

\* POST /facts/quarantine: the eligible facts are held in one commit, and only
\* when there were some is soon() called.
Quarantine(S) ==
  /\ Serving /\ S # {} /\ \A f \in S : status[f] = "used"
  /\ status' = [f \in Fact |-> IF f \in S THEN "held" ELSE status[f]]
  /\ AskSoon
  /\ UNCHANGED <<profile, versions, lock, build, picked, up, crashes, reverted>>

\* DELETE /facts/{id}: the row goes, and now() is called.
HardDelete(f) ==
  /\ Serving /\ status[f] \in {"used", "held"}
  /\ status' = [status EXCEPT ![f] = "erased"]
  /\ AskNow
  /\ UNCHANGED <<profile, versions, lock, build, picked, up, crashes, reverted>>

\* Mutant of HoldSourceOf: nobody asks for a refresh.
HoldSourceOfSilently(S) ==
  /\ Serving /\ S # {} /\ \A f \in S : status[f] = "used"
  /\ status' = [f \in Fact |-> IF f \in S THEN "held" ELSE status[f]]
  /\ UNCHANGED <<rvars, profile, versions, lock, build, picked, up, crashes, reverted>>

\* An erased message or a forgotten person takes its facts in use into review;
\* now() is called when there were some.
HoldSourceOf(S) ==
  /\ Serving /\ S # {} /\ \A f \in S : status[f] = "used"
  /\ status' = [f \in Fact |-> IF f \in S THEN "held" ELSE status[f]]
  /\ AskNow
  /\ UNCHANGED <<profile, versions, lock, build, picked, up, crashes, reverted>>

\* POST /facts/{id}/approve: the fact is back in use; the profile is left alone.
Approve(f) ==
  /\ Serving /\ status[f] = "held"
  /\ status' = [status EXCEPT ![f] = "used"]
  /\ UNCHANGED <<rvars, profile, versions, lock, build, picked, up, crashes, reverted>>

-----------------------------------------------------------------------------
(* Builds. *)

\* Mutant of TakeLock: a build does not wait for the one under way.
TakeLockOver(t) == lock' = t

TakeLock(t) == lock = NoThread /\ lock' = t

\* A distill that added facts, or POST /summary/regenerate, calls regenerate().
BuildStarts(b) ==
  /\ up /\ build[b] = "none"
  /\ TakeLock(b)
  /\ build' = [build EXCEPT ![b] = "pick"]
  /\ UNCHANGED <<rvars, status, profile, versions, picked, up, crashes, reverted>>

\* The refresh job checks the live profile under the lock ...
CheckFindsPulled(w) ==
  /\ PassBegins(w) /\ TakeLock(w)
  /\ HeldInProfile # {}
  /\ build' = [build EXCEPT ![w] = "pick"]
  /\ UNCHANGED <<status, profile, versions, picked, up, crashes, reverted>>

\* Mutant of CheckFindsNothing: the check does not wait for a build under way.
CheckBesideABuild(w) ==
  /\ PassBegins(w)
  /\ HeldInProfile = {}
  /\ UNCHANGED lvars

\* ... and when it cites nothing that was pulled, releases it without building.
CheckFindsNothing(w) ==
  /\ PassBegins(w) /\ lock = NoThread
  /\ HeldInProfile = {}
  /\ UNCHANGED lvars

\* In a pass that is not building, drop_held returns, or raises on the way.
NothingToBuild(w) ==
  /\ job[w] = "pass" /\ build[w] = "none"
  /\ \E ok \in BOOLEAN : PassEnds(w, ok)
  /\ UNCHANGED lvars

\* select_for_summary: some of the facts in use now, none only if there are none.
Pick(t) ==
  /\ up /\ build[t] = "pick"
  /\ LET inUse == {f \in Fact : status[f] = "used"} IN
       \E S \in SUBSET inUse :
         /\ S = {} => inUse = {}
         /\ picked' = [picked EXCEPT ![t] = S]
  /\ build' = [build EXCEPT ![t] = "draft"]
  /\ UNCHANGED <<rvars, status, profile, versions, lock, up, crashes, reverted>>

\* What the job thread does to the class when its build ends.
BuildReturns(t, ok) == IF t \in Worker THEN PassEnds(t, ok) ELSE UNCHANGED rvars

\* The profile and its sources are saved, and a version row when there is text;
\* an empty pick clears the profile and keeps no version.
Save(t) ==
  /\ up /\ build[t] = "draft"
  /\ profile' = picked[t]
  /\ versions' = IF picked[t] = {} THEN versions ELSE versions \cup {picked[t]}
  /\ lock' = NoThread
  /\ build' = [build EXCEPT ![t] = "none"]
  /\ picked' = [picked EXCEPT ![t] = {}]
  /\ reverted' = FALSE
  /\ BuildReturns(t, TRUE)
  /\ UNCHANGED <<status, up, crashes>>

\* A model call fails or is cut off, or the database refuses: nothing is saved.
BuildFails(t) ==
  /\ up /\ build[t] # "none"
  /\ lock' = NoThread
  /\ build' = [build EXCEPT ![t] = "none"]
  /\ picked' = [picked EXCEPT ![t] = {}]
  /\ BuildReturns(t, FALSE)
  /\ UNCHANGED <<status, profile, versions, up, crashes, reverted>>

\* POST /summary/versions/{id}/restore: without the lock and without a check.
RestoreVersion(v) ==
  /\ Serving /\ v \in versions
  /\ profile' = v
  /\ reverted' = (\E f \in v : Pulled(f))
  /\ UNCHANGED <<rvars, status, versions, lock, build, picked, up, crashes>>

-----------------------------------------------------------------------------
(* The process. *)

\* The steps of ProfileRefresh that touch nothing else.
Refresh(A) == up /\ A /\ UNCHANGED lvars

\* The shutdown hook; the process that runs it dies.
Shutdown == crashes < MaxCrashes /\ Refresh(Close)

\* The process dies, after close() or without it: every thread, timer and lock
\* is gone; the database stays.
Crash ==
  /\ up /\ crashes < MaxCrashes
  /\ up' = FALSE
  /\ crashes' = crashes + 1
  /\ timer' = "none" /\ soonCalls' = 0 /\ nowCalls' = 0
  /\ running' = FALSE /\ again' = FALSE /\ closed' = TRUE
  /\ job' = [w \in Worker |-> "none"]
  /\ lock' = NoThread
  /\ build' = [t \in Thread |-> "none"]
  /\ picked' = [t \in Thread |-> {}]
  /\ UNCHANGED <<history, status, profile, versions, reverted>>

\* Mutant of Restart: no startup check.
RestartUnchecked ==
  /\ ~up
  /\ up' = TRUE /\ closed' = FALSE
  /\ timer' = "none" /\ unserved' = FALSE
  /\ dropped' = FALSE /\ failed' = FALSE /\ reverted' = FALSE
  /\ UNCHANGED <<soonCalls, nowCalls, running, again, job, requests, status,
                 profile, versions, lock, build, picked, crashes>>

\* create_app: a profile that cites a pulled fact arms the timer again.
Restart ==
  /\ ~up
  /\ up' = TRUE
  /\ closed' = FALSE
  /\ timer' = IF HeldInProfile # {} THEN "armed" ELSE "none"
  /\ unserved' = (HeldInProfile # {})
  /\ dropped' = FALSE /\ failed' = FALSE /\ reverted' = FALSE
  /\ UNCHANGED <<soonCalls, nowCalls, running, again, job, requests, status,
                 profile, versions, lock, build, picked, crashes>>

-----------------------------------------------------------------------------
Next ==
  \/ \E f \in Fact : AddFact(f) \/ HardDelete(f) \/ Approve(f)
  \/ \E S \in SUBSET Fact : Quarantine(S) \/ HoldSourceOf(S)
  \/ \E b \in Builder : BuildStarts(b)
  \/ \E t \in Thread : Pick(t) \/ Save(t) \/ BuildFails(t)
  \/ \E w \in Worker :
       CheckFindsPulled(w) \/ CheckFindsNothing(w) \/ NothingToBuild(w)
  \/ \E v \in versions : RestoreVersion(v)
  \/ Refresh(Soon) \/ Refresh(TimerFires) \/ Refresh(Now) \/ Shutdown
  \/ \E w \in Worker : Refresh(PassCannotOpen(w)) \/ Refresh(Finish(w))
  \/ Crash \/ Restart

Safe == Init /\ [][Next]_vars

(***************************************************************************)
(* Fairness: that of ProfileRefresh, and that builds that have begun end   *)
(* (every model call has a timeout), that the lock's waiters get it (strong*)
(* fairness: other builds may keep taking it), and that the supervisor     *)
(* restarts the service.  A shutdown that has begun ends the process.      *)
(* Nobody has to start a build, hold, erase or approve.                    *)
(***************************************************************************)
Fairness ==
  /\ WF_vars(Refresh(Soon)) /\ WF_vars(Refresh(TimerFires)) /\ WF_vars(Refresh(Now))
  /\ \A w \in Worker :
       /\ SF_vars(CheckFindsPulled(w) \/ CheckFindsNothing(w)
               \/ Refresh(PassCannotOpen(w)))
       /\ WF_vars(NothingToBuild(w))
       /\ WF_vars(Refresh(Finish(w)))
  /\ \A t \in Thread : WF_vars(Pick(t)) /\ WF_vars(Save(t) \/ BuildFails(t))
  /\ WF_vars(Restart) /\ WF_vars(closed /\ Crash)

Spec == Safe /\ Fairness

-----------------------------------------------------------------------------
(* Properties. *)

\* _build_lock: one thread between the pick and the save, and it holds the lock.
OneBuild == \A t \in Thread : build[t] # "none" => lock = t

\* A worker's rebuild that has not chosen its facts, or chose them without f.
RebuildLeavesOut(f) ==
  \E w \in Worker : \/ build[w] = "pick"
                    \/ build[w] = "draft" /\ f \notin picked[w]

\* The profile never shows a held or erased fact without something under way to
\* take it out: a refresh still coming, or a rebuild that left it out.  The
\* exceptions are named: the refresh could not start, the rebuild failed, the owner
\* restored an old version, or the process is stopping, which the startup check makes
\* good.
PulledFactOnItsWayOut ==
  \A f \in HeldInProfile :
    Coming \/ RebuildLeavesOut(f) \/ dropped \/ failed \/ reverted \/ closed

\* A build in flight that chose a fact before it was pulled cannot be the last
\* word: when it saves, a refresh is still coming that will look at what it saved;
\* unless that could not start, or the process is stopping.
StaleBuildNotLast ==
  \A t \in Thread : \A f \in picked[t] : Pulled(f) => Coming \/ dropped \/ closed

\* A pulled fact leaves the profile, through any crash and restart, unless a
\* refresh cannot start, a rebuild fails or the owner puts it back (a version restored, an approval).
PulledFactLeaves ==
  \A f \in Fact :
    f \in HeldInProfile ~> (f \notin HeldInProfile \/ dropped \/ failed \/ reverted)

=============================================================================

--------------------------- MODULE ProfileProofs ---------------------------
(***************************************************************************)
(* Proofs about the profile, for any facts, threads, requests and crashes. *)
(*                                                                         *)
(* Of ProfileRefresh: its types, that one job runs at a time, that no      *)
(* request is forgotten, and that the class implements the safety part of  *)
(* Coalescer.                                                              *)
(*                                                                         *)
(* Of Profile: one build at a time, a stale build is never the last word,  *)
(* and a pulled fact that the profile still shows is on its way out. The   *)
(* last one is not inductive. A build saves whatever it picked, so a fact  *)
(* pulled meanwhile must already be covered while the build is in flight   *)
(* (StaleBuildNotLast); a refresh may spend that cover only when no build  *)
(* is in flight, which is what the lock is for (LockHeld, PickKept); and a *)
(* pass that ends well may only take back the excuse of an earlier failure *)
(* because that was taken back when it began (PassIsFresh).                *)
(***************************************************************************)
EXTENDS Profile, TLAPS

-----------------------------------------------------------------------------
(* ProfileRefresh. *)

(* The counters and the flags are typed apart: no prover has both the       *)
(* arithmetic of the one and the Boolean variables of the other.            *)

LEMMA CountsOKStep ==
  ASSUME RefreshTypeOK, [RefreshNext]_rvars
  PROVE  CountsOK'
<1> USE RefreshAssumption DEF RefreshAssumption, RefreshTypeOK, CountsOK, history
<1>1. CASE AskSoon \/ AskNow
  BY <1>1 DEF AskSoon, AskNow, Asked
<1>2. CASE Soon \/ TimerFires \/ Close
  BY <1>2 DEF Soon, TimerFires, Close
<1>3. CASE NowClosed \/ NowFolds \/ NowFailsToStart
  BY <1>3 DEF NowClosed, NowFolds, NowFailsToStart
<1>4. ASSUME NEW w \in Worker, NowStarts(w) PROVE CountsOK'
  BY <1>4 DEF NowStarts
<1>5. ASSUME NEW w \in Worker, PassBegins(w) \/ PassCannotOpen(w) PROVE CountsOK'
  BY <1>5 DEF PassBegins, PassCannotOpen
<1>6. ASSUME NEW w \in Worker, NEW ok \in BOOLEAN, PassEnds(w, ok) PROVE CountsOK'
  BY <1>6 DEF PassEnds
<1>7. ASSUME NEW w \in Worker, Finish(w) PROVE CountsOK'
  BY <1>7 DEF Finish, GoesRoundAgain, Stops
<1>8. CASE UNCHANGED rvars
  BY <1>8 DEF rvars
<1> QED
  BY <1>1, <1>2, <1>3, <1>4, <1>5, <1>6, <1>7, <1>8 DEF RefreshNext, Now

LEMMA FlagsOKStep ==
  ASSUME RefreshTypeOK, [RefreshNext]_rvars
  PROVE  FlagsOK'
<1> USE DEF RefreshTypeOK, FlagsOK, JobPhase, history
<1>1. CASE AskSoon \/ AskNow
  BY <1>1 DEF AskSoon, AskNow, Asked
<1>2. CASE Soon \/ TimerFires \/ Close
  BY <1>2 DEF Soon, TimerFires, Close
<1>3. CASE NowClosed \/ NowFolds \/ NowFailsToStart
  BY <1>3 DEF NowClosed, NowFolds, NowFailsToStart
<1>4. ASSUME NEW w \in Worker, NowStarts(w) PROVE FlagsOK'
  BY <1>4 DEF NowStarts
<1>5. ASSUME NEW w \in Worker, PassBegins(w) \/ PassCannotOpen(w) PROVE FlagsOK'
  BY <1>5 DEF PassBegins, PassCannotOpen
<1>6. ASSUME NEW w \in Worker, NEW ok \in BOOLEAN, PassEnds(w, ok) PROVE FlagsOK'
  BY <1>6 DEF PassEnds
<1>7. ASSUME NEW w \in Worker, Finish(w) PROVE FlagsOK'
  BY <1>7 DEF Finish, GoesRoundAgain, Stops
<1>8. CASE UNCHANGED rvars
  BY <1>8 DEF rvars
<1> QED
  BY <1>1, <1>2, <1>3, <1>4, <1>5, <1>6, <1>7, <1>8 DEF RefreshNext, Now

LEMMA RefreshTypeInit == RefreshInit => RefreshTypeOK
<1>1. RefreshInit => CountsOK
  BY RefreshAssumption DEF RefreshAssumption, RefreshInit, CountsOK
<1>2. RefreshInit => FlagsOK
  BY DEF RefreshInit, FlagsOK, JobPhase
<1> QED
  BY <1>1, <1>2 DEF RefreshTypeOK

\* The types hold throughout.
THEOREM RefreshTypes == RefreshSafe => []RefreshTypeOK
<1>1. RefreshTypeOK /\ [RefreshNext]_rvars => RefreshTypeOK'
  BY CountsOKStep, FlagsOKStep DEF RefreshTypeOK
<1> QED
  BY <1>1, RefreshTypeInit, PTL DEF RefreshSafe

-----------------------------------------------------------------------------
(* One job at a time is inductive by itself, given the types: now() starts  *)
(* a thread only when the flag says none is alive, and the flag is lowered  *)
(* only by the one thread there is.                                         *)

LEMMA OneJobStep ==
  ASSUME RefreshTypeOK, OneJob, [RefreshNext]_rvars
  PROVE  OneJob'
<1> USE DEF RefreshTypeOK, FlagsOK, JobPhase, OneJob, Alive, history
<1>1. CASE AskSoon \/ AskNow \/ Soon \/ TimerFires \/ Close
  BY <1>1 DEF AskSoon, AskNow, Asked, Soon, TimerFires, Close
<1>2. CASE NowClosed \/ NowFolds \/ NowFailsToStart
  BY <1>2 DEF NowClosed, NowFolds, NowFailsToStart
<1>3. ASSUME NEW w \in Worker, NowStarts(w) PROVE OneJob'
  BY <1>3 DEF NowStarts
<1>4. ASSUME NEW w \in Worker, PassBegins(w) \/ PassCannotOpen(w) PROVE OneJob'
  BY <1>4 DEF PassBegins, PassCannotOpen
<1>5. ASSUME NEW w \in Worker, NEW ok \in BOOLEAN, PassEnds(w, ok) PROVE OneJob'
  BY <1>5 DEF PassEnds
<1>6. ASSUME NEW w \in Worker, GoesRoundAgain(w) PROVE OneJob'
  BY <1>6 DEF GoesRoundAgain
<1>7. ASSUME NEW w \in Worker, Stops(w) PROVE OneJob'
  BY <1>7 DEF Stops
<1>8. CASE UNCHANGED rvars
  BY <1>8 DEF rvars
<1> QED
  BY <1>1, <1>2, <1>3, <1>4, <1>5, <1>6, <1>7, <1>8 DEF RefreshNext, Now, Finish

\* The flag and the threads agree, and no two job threads exist.
THEOREM OneJobAtATime == RefreshSafe => []OneJob
<1>1. RefreshInit => OneJob
  BY DEF RefreshInit, OneJob, Alive
<1>2. RefreshTypeOK /\ OneJob /\ [RefreshNext]_rvars => OneJob'
  BY OneJobStep
<1> QED
  BY <1>1, <1>2, RefreshTypes, PTL DEF RefreshSafe

-----------------------------------------------------------------------------
(* A request is handed on, never dropped: from the waiting call to the      *)
(* timer, from the timer's thread to a job or to the flag, and from the     *)
(* flag back to the job.  A job that stops with the flag up stops because   *)
(* the service has closed.                                                  *)

LEMMA RememberedStep ==
  ASSUME RefreshTypeOK, RequestRemembered, [RefreshNext]_rvars
  PROVE  RequestRemembered'
<1> USE DEF RefreshTypeOK, FlagsOK, JobPhase, RequestRemembered, Coming, history
<1>0. /\ AskSoon => soonCalls' > 0
      /\ AskNow \/ TimerFires => nowCalls' > 0
  BY DEF CountsOK, AskSoon, AskNow, TimerFires
<1>1. CASE AskSoon \/ AskNow
  BY <1>0, <1>1 DEF AskSoon, AskNow, Asked
<1>2. CASE Soon \/ TimerFires \/ Close
  BY <1>0, <1>2 DEF Soon, TimerFires, Close
<1>3. CASE NowClosed \/ NowFolds \/ NowFailsToStart
  BY <1>3 DEF NowClosed, NowFolds, NowFailsToStart
<1>4. ASSUME NEW w \in Worker, NowStarts(w) PROVE RequestRemembered'
  BY <1>4 DEF NowStarts
<1>5. ASSUME NEW w \in Worker, PassBegins(w) \/ PassCannotOpen(w)
      PROVE  RequestRemembered'
  BY <1>5 DEF PassBegins, PassCannotOpen
<1>6. ASSUME NEW w \in Worker, NEW ok \in BOOLEAN, PassEnds(w, ok)
      PROVE  RequestRemembered'
  BY <1>6 DEF PassEnds
<1>7. ASSUME NEW w \in Worker, GoesRoundAgain(w) PROVE RequestRemembered'
  BY <1>7 DEF GoesRoundAgain
<1>8. ASSUME NEW w \in Worker, Stops(w) PROVE RequestRemembered'
  BY <1>8 DEF Stops
<1>9. CASE UNCHANGED rvars
  BY <1>9 DEF rvars
<1> QED
  BY <1>1, <1>2, <1>3, <1>4, <1>5, <1>6, <1>7, <1>8, <1>9
  DEF RefreshNext, Now, Finish

\* A request that no pass has seen yet still has something coming for it.
THEOREM NoRequestForgotten == RefreshSafe => []RequestRemembered
<1>1. RefreshInit => RequestRemembered
  BY DEF RefreshInit, RequestRemembered
<1>2. RefreshTypeOK /\ RequestRemembered /\ [RefreshNext]_rvars => RequestRemembered'
  BY RememberedStep
<1> QED
  BY <1>1, <1>2, RefreshTypes, PTL DEF RefreshSafe

-----------------------------------------------------------------------------
(* The class implements Coalescer: a call that asks is Request, the start   *)
(* of a pass is Begin, its end End, a thread or a connection that cannot be *)
(* had is Lose, and everything else is a stutter.                           *)

LEMMA PromiseStep ==
  ASSUME RefreshTypeOK, OneJob, [RefreshNext]_rvars
  PROVE  [Promise!ANext]_(Promise!avars)
<1> USE DEF RefreshTypeOK, FlagsOK, JobPhase, OneJob, Alive, InPass, history,
            Promise!ANext, Promise!avars
<1>1. CASE AskSoon \/ AskNow
  BY <1>1 DEF AskSoon, AskNow, Asked, Promise!Request
<1>2. CASE Soon \/ TimerFires \/ NowClosed \/ NowFolds
  BY <1>2 DEF Soon, TimerFires, NowClosed, NowFolds, Promise!Lose
<1>3. CASE Close
  BY <1>3 DEF Close, Promise!Close
<1>4. CASE NowFailsToStart
  BY <1>4 DEF NowFailsToStart, Promise!Lose
<1>5. ASSUME NEW w \in Worker, NowStarts(w) PROVE UNCHANGED Promise!avars
  BY <1>5 DEF NowStarts
<1>6. ASSUME NEW w \in Worker, PassBegins(w) PROVE Promise!Begin
  BY <1>6 DEF PassBegins, Promise!Begin
<1>7. ASSUME NEW w \in Worker, PassCannotOpen(w) PROVE Promise!Lose
  BY <1>7 DEF PassCannotOpen, Promise!Lose
<1>8. ASSUME NEW w \in Worker, NEW ok \in BOOLEAN, PassEnds(w, ok) PROVE Promise!End
  BY <1>8 DEF PassEnds, Promise!End
<1>9. ASSUME NEW w \in Worker, Finish(w) PROVE UNCHANGED Promise!avars
  BY <1>9 DEF Finish, GoesRoundAgain, Stops
<1>10. CASE UNCHANGED rvars
  BY <1>10 DEF rvars
<1> QED
  BY <1>1, <1>2, <1>3, <1>4, <1>5, <1>6, <1>7, <1>8, <1>9, <1>10 DEF RefreshNext, Now

\* Every behaviour of the class is one the abstract job allows.
THEOREM CoalescingIsSafe == RefreshSafe => CoalescesSafely
<1>1. RefreshInit => Promise!AInit
  BY DEF RefreshInit, Promise!AInit, InPass
<1>2. RefreshTypeOK /\ OneJob /\ [RefreshNext]_rvars => [Promise!ANext]_(Promise!avars)
  BY PromiseStep
<1> QED
  BY <1>1, <1>2, RefreshTypes, OneJobAtATime, PTL
  DEF RefreshSafe, CoalescesSafely, Promise!ASafe

-----------------------------------------------------------------------------
(* Profile. *)

\* The lock is free exactly when no thread is between its pick and its save.
LockHeld ==
  /\ OneBuild
  /\ lock # NoThread => build[lock] # "none"

\* A refresh job builds only inside its pass, and a choice lives as long as its draft.
PickKept ==
  /\ \A w \in Worker : build[w] # "none" => job[w] = "pass"
  /\ \A t \in Thread : picked[t] # {} => build[t] = "draft"

\* While a pass runs, no failure is on record.
PassIsFresh == failed => \A w \in Worker : job[w] # "pass"

\* A fact nobody has saved yet is cited nowhere.
UnbornUncited ==
  \A f \in Fact : status[f] = "unborn" =>
    /\ f \notin profile
    /\ \A v \in versions : f \notin v
    /\ \A t \in Thread : f \notin picked[t]

\* Nothing runs in a process that is down.
DownIsStill ==
  ~up => (\A w \in Worker : job[w] = "none") /\ (\A t \in Thread : build[t] = "none")

Inv ==
  /\ TypeOK /\ OneJob
  /\ LockHeld /\ PickKept /\ PassIsFresh /\ UnbornUncited /\ DownIsStill
  /\ StaleBuildNotLast /\ PulledFactOnItsWayOut

-----------------------------------------------------------------------------
(* Every step but a crash or a restart is a step of ProfileRefresh, or none *)
(* at all, so what was proved of the class carries over.                    *)

LEMMA StepOfTheClass ==
  ASSUME [Next]_vars
  PROVE  [RefreshNext]_rvars \/ Crash \/ Restart
<1>1. ASSUME NEW f \in Fact, AddFact(f) \/ HardDelete(f) \/ Approve(f)
      PROVE  [RefreshNext]_rvars
  BY <1>1 DEF AddFact, HardDelete, Approve, RefreshNext
<1>2. ASSUME NEW S \in SUBSET Fact, Quarantine(S) \/ HoldSourceOf(S)
      PROVE  [RefreshNext]_rvars
  BY <1>2 DEF Quarantine, HoldSourceOf, RefreshNext
<1>3. ASSUME NEW b \in Builder, BuildStarts(b) PROVE [RefreshNext]_rvars
  BY <1>3 DEF BuildStarts
<1>4. ASSUME NEW t \in Thread, Pick(t) \/ Save(t) \/ BuildFails(t)
      PROVE  [RefreshNext]_rvars
  BY <1>4 DEF Pick, Save, BuildFails, BuildReturns, RefreshNext
<1>5. ASSUME NEW w \in Worker,
             CheckFindsPulled(w) \/ CheckFindsNothing(w) \/ NothingToBuild(w)
      PROVE  [RefreshNext]_rvars
  BY <1>5 DEF CheckFindsPulled, CheckFindsNothing, NothingToBuild, RefreshNext
<1>6. ASSUME NEW v \in versions, RestoreVersion(v) PROVE [RefreshNext]_rvars
  BY <1>6 DEF RestoreVersion
<1>7. CASE Refresh(Soon) \/ Refresh(TimerFires) \/ Refresh(Now) \/ Shutdown
  BY <1>7 DEF Refresh, Shutdown, RefreshNext
<1>8. ASSUME NEW w \in Worker, Refresh(PassCannotOpen(w)) \/ Refresh(Finish(w))
      PROVE  [RefreshNext]_rvars
  BY <1>8 DEF Refresh, RefreshNext
<1>9. CASE UNCHANGED vars
  BY <1>9 DEF vars, rvars
<1> QED
  BY <1>1, <1>2, <1>3, <1>4, <1>5, <1>6, <1>7, <1>8, <1>9 DEF Next

-----------------------------------------------------------------------------
(* Types. *)

LEMMA RefreshTypeStep ==
  ASSUME TypeOK, [Next]_vars
  PROVE  RefreshTypeOK'
<1>1. CASE [RefreshNext]_rvars
  BY <1>1, CountsOKStep, FlagsOKStep DEF TypeOK, RefreshTypeOK
<1>2. CASE Crash
  <2>1. CountsOK'
    BY <1>2, RefreshAssumption
    DEF RefreshAssumption, TypeOK, RefreshTypeOK, CountsOK, Crash, history
  <2>2. FlagsOK'
    BY <1>2 DEF TypeOK, RefreshTypeOK, FlagsOK, JobPhase, Crash, history
  <2> QED
    BY <2>1, <2>2 DEF RefreshTypeOK
<1>3. CASE Restart
  <2>1. CountsOK'
    BY <1>3 DEF TypeOK, RefreshTypeOK, CountsOK, Restart
  <2>2. FlagsOK'
    BY <1>3 DEF TypeOK, RefreshTypeOK, FlagsOK, JobPhase, Restart
  <2> QED
    BY <2>1, <2>2 DEF RefreshTypeOK
<1> QED
  BY <1>1, <1>2, <1>3, StepOfTheClass

LEMMA LedgerOKStep ==
  ASSUME TypeOK, [Next]_vars
  PROVE  LedgerOK'
<1> USE DEF TypeOK, LedgerOK
<1>1. ASSUME NEW f \in Fact, AddFact(f) \/ HardDelete(f) \/ Approve(f) PROVE LedgerOK'
  BY <1>1 DEF AddFact, HardDelete, Approve
<1>2. ASSUME NEW S \in SUBSET Fact, Quarantine(S) \/ HoldSourceOf(S) PROVE LedgerOK'
  BY <1>2 DEF Quarantine, HoldSourceOf
<1>3. ASSUME NEW b \in Builder, BuildStarts(b) PROVE LedgerOK'
  BY <1>3 DEF BuildStarts, TakeLock, Thread
<1>4. ASSUME NEW t \in Thread, Pick(t) PROVE LedgerOK'
  BY <1>4 DEF Pick
<1>5. ASSUME NEW t \in Thread, Save(t) PROVE LedgerOK'
  <2>1. picked[t] \in SUBSET Fact
    OBVIOUS
  <2>2. profile' \in SUBSET Fact /\ picked' \in [Thread -> SUBSET Fact]
    BY <1>5, <2>1 DEF Save
  <2>3. versions' \in SUBSET SUBSET Fact
    BY <1>5, <2>1 DEF Save
  <2> QED
    BY <1>5, <2>2, <2>3 DEF Save
<1>6. ASSUME NEW t \in Thread, BuildFails(t) PROVE LedgerOK'
  BY <1>6 DEF BuildFails
<1>7. ASSUME NEW w \in Worker, CheckFindsPulled(w) PROVE LedgerOK'
  BY <1>7 DEF CheckFindsPulled, TakeLock, Thread
<1>8. ASSUME NEW v \in versions, RestoreVersion(v) PROVE LedgerOK'
  BY <1>8 DEF RestoreVersion
<1>9. CASE UNCHANGED lvars
  BY <1>9 DEF lvars
<1>10. CASE Crash \/ Restart
  BY <1>10 DEF Crash, Restart
<1> QED
  BY <1>1, <1>2, <1>3, <1>4, <1>5, <1>6, <1>7, <1>8, <1>9, <1>10
  DEF Next, vars, CheckFindsNothing, NothingToBuild, Refresh, Shutdown

LEMMA CrashesStep ==
  ASSUME TypeOK, [Next]_vars
  PROVE  (crashes \in 0..MaxCrashes)'
<1>1. CASE Crash
  BY <1>1, ProfileAssumption DEF ProfileAssumption, TypeOK, Crash
<1>2. CASE UNCHANGED crashes
  BY <1>2 DEF TypeOK
<1> QED
  BY <1>1, <1>2
  DEF Next, vars, lvars, AddFact, HardDelete, Approve, Quarantine, HoldSourceOf,
      BuildStarts, Pick, Save, BuildFails, CheckFindsPulled, CheckFindsNothing,
      NothingToBuild, RestoreVersion, Refresh, Shutdown, Restart

LEMMA TypeStep ==
  ASSUME TypeOK, [Next]_vars
  PROVE  TypeOK'
BY RefreshTypeStep, LedgerOKStep, CrashesStep DEF TypeOK

LEMMA OneJobKept ==
  ASSUME TypeOK, OneJob, [Next]_vars
  PROVE  OneJob'
<1>1. CASE Crash \/ Restart
  BY <1>1 DEF Crash, Restart, OneJob, Alive
<1> QED
  BY <1>1, OneJobStep, StepOfTheClass DEF TypeOK

-----------------------------------------------------------------------------
(* The lock and the builds. *)

LEMMA LockHeldStep ==
  ASSUME TypeOK, LockHeld, [Next]_vars
  PROVE  LockHeld'
<1> USE ProfileAssumption
    DEF ProfileAssumption, TypeOK, LedgerOK, LockHeld, OneBuild, Thread
<1>1. ASSUME NEW b \in Builder, BuildStarts(b) PROVE LockHeld'
  BY <1>1 DEF BuildStarts, TakeLock
<1>2. ASSUME NEW t \in Thread, Pick(t) PROVE LockHeld'
  BY <1>2 DEF Pick
<1>3. ASSUME NEW t \in Thread, Save(t) \/ BuildFails(t) PROVE LockHeld'
  BY <1>3 DEF Save, BuildFails
<1>4. ASSUME NEW w \in Worker, CheckFindsPulled(w) PROVE LockHeld'
  BY <1>4 DEF CheckFindsPulled, TakeLock
<1>5. CASE Crash
  BY <1>5 DEF Crash
<1>6. CASE UNCHANGED <<lock, build>>
  BY <1>6
<1> QED
  BY <1>1, <1>2, <1>3, <1>4, <1>5, <1>6
  DEF Next, vars, lvars, AddFact, HardDelete, Approve, Quarantine, HoldSourceOf,
      CheckFindsNothing, NothingToBuild, RestoreVersion, Refresh, Shutdown, Restart

LEMMA PickKeptStep ==
  ASSUME TypeOK, PickKept, [Next]_vars
  PROVE  PickKept'
<1> USE ProfileAssumption
    DEF ProfileAssumption, TypeOK, RefreshTypeOK, FlagsOK, LedgerOK, PickKept, Thread
<1>1. ASSUME NEW f \in Fact, AddFact(f) \/ HardDelete(f) \/ Approve(f) PROVE PickKept'
  BY <1>1 DEF AddFact, HardDelete, Approve, AskNow, rvars
<1>2. ASSUME NEW S \in SUBSET Fact, Quarantine(S) \/ HoldSourceOf(S) PROVE PickKept'
  BY <1>2 DEF Quarantine, HoldSourceOf, AskSoon, AskNow
<1>3. ASSUME NEW b \in Builder, BuildStarts(b) PROVE PickKept'
  BY <1>3 DEF BuildStarts, rvars
<1>4. ASSUME NEW t \in Thread, Pick(t) PROVE PickKept'
  BY <1>4 DEF Pick, rvars
<1>5. ASSUME NEW t \in Thread, Save(t) \/ BuildFails(t) PROVE PickKept'
  BY <1>5 DEF Save, BuildFails, BuildReturns, PassEnds, rvars
<1>6. ASSUME NEW w \in Worker, CheckFindsPulled(w) PROVE PickKept'
  BY <1>6 DEF CheckFindsPulled, PassBegins
<1>7. ASSUME NEW w \in Worker, CheckFindsNothing(w) \/ NothingToBuild(w) PROVE PickKept'
  BY <1>7 DEF CheckFindsNothing, NothingToBuild, PassBegins, PassEnds, lvars
<1>8. ASSUME NEW v \in versions, RestoreVersion(v) PROVE PickKept'
  BY <1>8 DEF RestoreVersion, rvars
<1>9. ASSUME UNCHANGED lvars, Soon \/ TimerFires \/ Close PROVE PickKept'
  BY <1>9 DEF Soon, TimerFires, Close, lvars
<1>10. ASSUME UNCHANGED lvars, Now PROVE PickKept'
  BY <1>10 DEF Now, NowClosed, NowFolds, NowFailsToStart, NowStarts, lvars
<1>11. ASSUME UNCHANGED lvars, NEW w \in Worker, PassCannotOpen(w) \/ Finish(w)
       PROVE  PickKept'
  BY <1>11 DEF PassCannotOpen, Finish, GoesRoundAgain, Stops, lvars
<1>12. CASE Crash \/ Restart
  BY <1>12 DEF Crash, Restart
<1>13. CASE UNCHANGED vars
  BY <1>13 DEF vars, rvars, lvars
<1> QED
  BY <1>1, <1>2, <1>3, <1>4, <1>5, <1>6, <1>7, <1>8, <1>9, <1>10, <1>11, <1>12, <1>13
  DEF Next, Refresh, Shutdown

LEMMA PassIsFreshStep ==
  ASSUME TypeOK, OneJob, PassIsFresh, [Next]_vars
  PROVE  PassIsFresh'
<1> USE DEF TypeOK, RefreshTypeOK, FlagsOK, OneJob, Alive, PassIsFresh, history
<1>1. ASSUME NEW w \in Worker, PassBegins(w) \/ PassCannotOpen(w) PROVE PassIsFresh'
  BY <1>1 DEF PassBegins, PassCannotOpen
<1>2. ASSUME NEW w \in Worker, NEW ok \in BOOLEAN, PassEnds(w, ok) PROVE PassIsFresh'
  BY <1>2 DEF PassEnds
<1>3. CASE Now
  BY <1>3 DEF Now, NowClosed, NowFolds, NowFailsToStart, NowStarts
<1>4. ASSUME NEW w \in Worker, Finish(w) PROVE PassIsFresh'
  BY <1>4 DEF Finish, GoesRoundAgain, Stops
<1>5. CASE UNCHANGED <<failed, job>>
  BY <1>5
<1>6. CASE Crash \/ Restart
  BY <1>6 DEF Crash, Restart
<1>7. CASE [RefreshNext]_rvars
  BY <1>1, <1>2, <1>3, <1>4, <1>5, <1>7
  DEF RefreshNext, rvars, AskSoon, AskNow, Asked, Soon, TimerFires, Close
<1> QED
  BY <1>6, <1>7, StepOfTheClass

LEMMA DownIsStillStep ==
  ASSUME TypeOK, DownIsStill, [Next]_vars
  PROVE  DownIsStill'
<1> USE DEF TypeOK, LedgerOK, DownIsStill
<1>1. CASE up' = up /\ up
  BY <1>1
<1>2. CASE Crash \/ Restart
  BY <1>2 DEF Crash, Restart
<1>3. CASE UNCHANGED vars
  BY <1>3 DEF vars, rvars, lvars
<1>4. ASSUME NEW w \in Worker,
             CheckFindsPulled(w) \/ CheckFindsNothing(w) \/ NothingToBuild(w)
      PROVE  up' = up /\ up
  BY <1>4 DEF CheckFindsPulled, CheckFindsNothing, NothingToBuild, PassBegins,
              PassEnds, lvars
<1> QED
  BY <1>1, <1>2, <1>3, <1>4
  DEF Next, lvars, Serving, AddFact, HardDelete, Approve, Quarantine, HoldSourceOf,
      BuildStarts, Pick, Save, BuildFails, RestoreVersion, Refresh, Shutdown

LEMMA UnbornUncitedStep ==
  ASSUME TypeOK, UnbornUncited, [Next]_vars
  PROVE  UnbornUncited'
<1> USE DEF TypeOK, LedgerOK, UnbornUncited
<1>1. ASSUME NEW f \in Fact, AddFact(f) \/ HardDelete(f) \/ Approve(f)
      PROVE  UnbornUncited'
  BY <1>1 DEF AddFact, HardDelete, Approve
<1>2. ASSUME NEW S \in SUBSET Fact, Quarantine(S) \/ HoldSourceOf(S)
      PROVE  UnbornUncited'
  BY <1>2 DEF Quarantine, HoldSourceOf
<1>3. ASSUME NEW t \in Thread, Pick(t) PROVE UnbornUncited'
  BY <1>3 DEF Pick
<1>4. ASSUME NEW t \in Thread, Save(t) \/ BuildFails(t) PROVE UnbornUncited'
  <2> SUFFICES ASSUME NEW f \in Fact, status[f] = "unborn"
               PROVE  /\ f \notin profile'
                      /\ \A v \in versions' : f \notin v
                      /\ \A u \in Thread : f \notin picked'[u]
    BY <1>4 DEF Save, BuildFails
  <2>1. f \notin picked[t] /\ f \notin profile /\ \A v \in versions : f \notin v
    OBVIOUS
  <2>2. profile' \in {profile, picked[t]} /\ versions' \in {versions, versions \cup {picked[t]}}
    BY <1>4 DEF Save, BuildFails
  <2>3. \A u \in Thread : f \notin picked'[u]
    BY <1>4 DEF Save, BuildFails
  <2> QED
    BY <2>1, <2>2, <2>3
<1>5. ASSUME NEW v \in versions, RestoreVersion(v) PROVE UnbornUncited'
  BY <1>5 DEF RestoreVersion
<1>6. CASE UNCHANGED <<status, profile, versions, picked>>
  BY <1>6
<1>7. CASE Crash
  BY <1>7 DEF Crash
<1> QED
  BY <1>1, <1>2, <1>3, <1>4, <1>5, <1>6, <1>7
  DEF Next, vars, lvars, BuildStarts, CheckFindsPulled, CheckFindsNothing,
      NothingToBuild, Refresh, Shutdown, Restart

-----------------------------------------------------------------------------
(* What covers a pulled fact: a refresh that is coming, or one that could   *)
(* not run, or the end of the service.  Only the start of a pass spends it. *)

Covered == Coming \/ dropped \/ closed

LEMMA CoverKept ==
  ASSUME TypeOK, Covered, [RefreshNext]_rvars,
         \A w \in Worker : ~PassBegins(w)
  PROVE  Covered'
<1> USE DEF TypeOK, RefreshTypeOK, FlagsOK, JobPhase, Covered, Coming, history
<1>0. /\ AskSoon => soonCalls' > 0
      /\ AskNow \/ TimerFires => nowCalls' > 0
  BY DEF CountsOK, AskSoon, AskNow, TimerFires
<1>1. CASE AskSoon \/ AskNow
  BY <1>0, <1>1 DEF AskSoon, AskNow, Asked
<1>2. CASE Soon \/ TimerFires \/ Close
  BY <1>0, <1>2 DEF Soon, TimerFires, Close
<1>3. CASE NowClosed \/ NowFolds \/ NowFailsToStart
  BY <1>3 DEF NowClosed, NowFolds, NowFailsToStart
<1>4. ASSUME NEW w \in Worker, NowStarts(w) PROVE Covered'
  BY <1>4 DEF NowStarts
<1>5. ASSUME NEW w \in Worker, PassCannotOpen(w) PROVE Covered'
  BY <1>5 DEF PassCannotOpen
<1>6. ASSUME NEW w \in Worker, NEW ok \in BOOLEAN, PassEnds(w, ok) PROVE Covered'
  BY <1>6 DEF PassEnds
<1>7. ASSUME NEW w \in Worker, GoesRoundAgain(w) PROVE Covered'
  BY <1>7 DEF GoesRoundAgain
<1>8. ASSUME NEW w \in Worker, Stops(w) PROVE Covered'
  BY <1>8 DEF Stops
<1>9. CASE UNCHANGED rvars
  BY <1>9 DEF rvars
<1> QED
  BY <1>1, <1>2, <1>3, <1>4, <1>5, <1>6, <1>7, <1>8, <1>9
  DEF RefreshNext, Now, Finish

\* Asking for a refresh covers every fact there is.
LEMMA AskingCovers ==
  ASSUME TypeOK, ~closed, AskSoon \/ AskNow
  PROVE  Covered'
<1>1. soonCalls' > 0 \/ nowCalls' > 0
  BY DEF TypeOK, RefreshTypeOK, CountsOK, AskSoon, AskNow
<1> QED
  BY <1>1 DEF Covered, Coming, AskSoon, AskNow

\* Outside a check that begins a pass, a crash and a restart, the cover is kept.
LEMMA CoverStep ==
  ASSUME TypeOK, Covered, [Next]_vars,
         ~Crash, ~Restart,
         \A w \in Worker : ~CheckFindsPulled(w) /\ ~CheckFindsNothing(w)
  PROVE  Covered'
<1>1. ASSUME NEW w \in Worker PROVE ~PassBegins(w)
  <2>1. SUFFICES ASSUME PassBegins(w) PROVE FALSE
    OBVIOUS
  <2>2. job[w] = "start" /\ job'[w] = "pass"
    BY <2>1 DEF PassBegins, TypeOK, RefreshTypeOK, FlagsOK
  <2>3. ASSUME NEW v \in Worker,
               \/ \E ok \in BOOLEAN : PassEnds(v, ok)
               \/ PassCannotOpen(v) \/ Finish(v) \/ NowStarts(v)
        PROVE  FALSE
    BY <2>2, <2>3 DEF PassEnds, PassCannotOpen, Finish, GoesRoundAgain, Stops,
                      NowStarts, TypeOK, RefreshTypeOK, FlagsOK
  <2>4. job' # job
    BY <2>2
  <2> QED
    BY <2>3, <2>4
    DEF Next, vars, rvars, AddFact, HardDelete, Approve, Quarantine, HoldSourceOf,
        AskSoon, AskNow, BuildStarts, Pick, Save, BuildFails, BuildReturns,
        NothingToBuild, RestoreVersion, Refresh, Shutdown, Soon, TimerFires, Close,
        Now, NowClosed, NowFolds, NowFailsToStart
<1> QED
  BY <1>1, CoverKept, StepOfTheClass

-----------------------------------------------------------------------------
(* A stale build is covered: it chose the fact before it was pulled, so the *)
(* pull asked for a refresh after the choice, and no check can have spent   *)
(* that request while the build held the lock.                              *)

LEMMA NoBuildNoChoice ==
  ASSUME TypeOK, LockHeld, PickKept, lock = NoThread
  PROVE  \A t \in Thread : build[t] = "none" /\ picked[t] = {}
BY ProfileAssumption DEF ProfileAssumption, LockHeld, OneBuild, PickKept, Thread

LEMMA StaleStep ==
  ASSUME Inv, [Next]_vars
  PROVE  StaleBuildNotLast'
<1> USE DEF Inv, Covered
<1>1. CASE Crash
  BY <1>1 DEF Crash, StaleBuildNotLast
<1>2. CASE Restart
  BY <1>2 DEF Restart, StaleBuildNotLast, DownIsStill, PickKept
<1>3. ASSUME NEW w \in Worker, CheckFindsPulled(w) \/ CheckFindsNothing(w)
      PROVE  StaleBuildNotLast'
  <2>1. lock = NoThread /\ picked' = picked
    BY <1>3 DEF CheckFindsPulled, CheckFindsNothing, TakeLock, lvars
  <2> QED
    BY <2>1, NoBuildNoChoice DEF StaleBuildNotLast
<1>4. CASE /\ \/ \E f \in Fact : HardDelete(f)
              \/ \E S \in SUBSET Fact : Quarantine(S) \/ HoldSourceOf(S)
  <2>1. Covered'
    BY <1>4, AskingCovers DEF HardDelete, Quarantine, HoldSourceOf, Serving
  <2> QED
    BY <2>1 DEF StaleBuildNotLast
<1>5. ASSUME /\ ~Crash /\ ~Restart
             /\ \A w \in Worker : ~CheckFindsPulled(w) /\ ~CheckFindsNothing(w)
             /\ \A f \in Fact : ~HardDelete(f)
             /\ \A S \in SUBSET Fact : ~Quarantine(S) /\ ~HoldSourceOf(S)
      PROVE  StaleBuildNotLast'
  <2> SUFFICES ASSUME NEW t \in Thread, NEW f \in picked'[t], Pulled(f)'
               PROVE  Covered'
    BY DEF StaleBuildNotLast
  <2> USE DEF TypeOK, LedgerOK
  <2>1. f \in picked[t] /\ Pulled(f)
    <3>1. ASSUME NEW g \in Fact, AddFact(g) \/ Approve(g) PROVE f \in picked[t] /\ Pulled(f)
      BY <3>1 DEF AddFact, Approve, Pulled, UnbornUncited
    <3>2. ASSUME NEW u \in Thread, Pick(u) PROVE f \in picked[t] /\ Pulled(f)
      BY <3>2 DEF Pick, Pulled
    <3>3. ASSUME NEW u \in Thread, Save(u) \/ BuildFails(u)
          PROVE  f \in picked[t] /\ Pulled(f)
      BY <3>3 DEF Save, BuildFails, Pulled
    <3>4. CASE UNCHANGED <<status, picked>>
      BY <3>4 DEF Pulled
    <3> QED
      BY <1>5, <3>1, <3>2, <3>3, <3>4
      DEF Next, vars, lvars, BuildStarts, NothingToBuild, RestoreVersion, Refresh,
          Shutdown
  <2>2. Covered
    BY <2>1 DEF StaleBuildNotLast
  <2> QED
    BY <1>5, <2>2, CoverStep
<1> QED
  BY <1>1, <1>2, <1>3, <1>4, <1>5

-----------------------------------------------------------------------------
(* A pulled fact is on its way out of the profile.                          *)

OnItsWayOut(f) ==
  Coming \/ RebuildLeavesOut(f) \/ dropped \/ failed \/ reverted \/ closed

\* Steps after which the profile cites no pulled fact it did not cite before,
\* and no rebuild has ended.
LEMMA OnTheWayStep ==
  ASSUME Inv, [Next]_vars,
         ~Crash, ~Restart,
         \A w \in Worker : ~CheckFindsPulled(w) /\ ~CheckFindsNothing(w),
         \A t \in Thread : ~Save(t) /\ ~BuildFails(t),
         \A v \in versions : ~RestoreVersion(v),
         NEW f \in Fact, Pulled(f), OnItsWayOut(f)
  PROVE  OnItsWayOut(f)'
<1>1. CASE Covered
  BY <1>1, CoverStep DEF Inv, Covered, OnItsWayOut
<1>2. CASE RebuildLeavesOut(f)
  <2>1. PICK w \in Worker : \/ build[w] = "pick"
                            \/ build[w] = "draft" /\ f \notin picked[w]
    BY <1>2 DEF RebuildLeavesOut
  <2>2. ASSUME NEW t \in Thread, Pick(t) PROVE RebuildLeavesOut(f)'
    BY <2>1, <2>2 DEF Pick, RebuildLeavesOut, Pulled, Inv, TypeOK, LedgerOK, Thread
  <2>3. ASSUME NEW b \in Builder, BuildStarts(b) PROVE RebuildLeavesOut(f)'
    BY <2>1, <2>3, ProfileAssumption
    DEF ProfileAssumption, BuildStarts, RebuildLeavesOut, Inv, TypeOK, LedgerOK, Thread
  <2>4. ASSUME UNCHANGED <<build, picked>> PROVE RebuildLeavesOut(f)'
    BY <2>1, <2>4 DEF RebuildLeavesOut
  <2>5. \/ \E t \in Thread : Pick(t)
        \/ \E b \in Builder : BuildStarts(b)
        \/ UNCHANGED <<build, picked>>
    BY DEF Next, vars, lvars, AddFact, HardDelete, Approve, Quarantine,
           HoldSourceOf, NothingToBuild, Refresh, Shutdown
  <2> QED
    BY <2>2, <2>3, <2>4, <2>5 DEF OnItsWayOut
<1>3. CASE failed \/ reverted
  <2>1. reverted' = reverted
    BY DEF Next, vars, lvars, AddFact, HardDelete, Approve, Quarantine,
           HoldSourceOf, BuildStarts, Pick, NothingToBuild, Refresh, Shutdown
  <2>2. ASSUME NEW w \in Worker, NothingToBuild(w) PROVE ~failed
    BY <2>2 DEF NothingToBuild, PassEnds, Inv, PassIsFresh
  <2>3. CASE failed' = failed
    BY <1>3, <2>1, <2>3 DEF OnItsWayOut
  <2> QED
    BY <1>3, <2>1, <2>2, <2>3
    DEF OnItsWayOut, Next, vars, rvars, history, AddFact, HardDelete, Approve,
        Quarantine, HoldSourceOf, AskSoon, AskNow, Asked, BuildStarts, Pick, Refresh,
        Shutdown, Soon, TimerFires, Close, Now, NowClosed, NowFolds, NowFailsToStart,
        NowStarts, PassCannotOpen, Finish, GoesRoundAgain, Stops
<1> QED
  BY <1>1, <1>2, <1>3 DEF OnItsWayOut, Covered

LEMMA WayOutStep ==
  ASSUME Inv, [Next]_vars
  PROVE  PulledFactOnItsWayOut'
<1> SUFFICES ASSUME NEW f \in Fact, f \in profile', Pulled(f)'
             PROVE  OnItsWayOut(f)'
  BY TypeStep DEF Inv, PulledFactOnItsWayOut, HeldInProfile, OnItsWayOut, TypeOK, LedgerOK
<1> USE DEF OnItsWayOut
<1>1. CASE Crash
  BY <1>1 DEF Crash
<1>2. CASE Restart
  <2>1. f \in HeldInProfile
    BY <1>2 DEF Restart, HeldInProfile, Pulled
  <2> QED
    BY <1>2, <2>1 DEF Restart, Coming
<1>3. ASSUME NEW w \in Worker, CheckFindsPulled(w) PROVE OnItsWayOut(f)'
  BY <1>3 DEF CheckFindsPulled, RebuildLeavesOut, Inv, TypeOK, LedgerOK, Thread
<1>4. ASSUME NEW w \in Worker, CheckFindsNothing(w) PROVE FALSE
  BY <1>4 DEF CheckFindsNothing, HeldInProfile, Pulled, lvars
<1>5. ASSUME NEW v \in versions, RestoreVersion(v) PROVE OnItsWayOut(f)'
  BY <1>5 DEF RestoreVersion, Pulled
<1>6. ASSUME NEW t \in Thread, Save(t) PROVE OnItsWayOut(f)'
  <2>1. f \in picked[t] /\ Pulled(f)
    BY <1>6 DEF Save, Pulled
  <2>2. Covered
    BY <2>1 DEF Inv, StaleBuildNotLast, Covered
  <2>3. /\ ~Crash /\ ~Restart
        /\ \A w \in Worker : ~CheckFindsPulled(w) /\ ~CheckFindsNothing(w)
    BY <1>6, ProfileAssumption
    DEF ProfileAssumption, Save, Crash, Restart, CheckFindsPulled, CheckFindsNothing,
        TakeLock, lvars, Inv, LockHeld, OneBuild, Thread
  <2> QED
    BY <2>2, <2>3, CoverStep DEF Inv, Covered
<1>7. ASSUME NEW t \in Thread, BuildFails(t) PROVE OnItsWayOut(f)'
  <2>1. CASE t \in Worker
    BY <1>7, <2>1 DEF BuildFails, BuildReturns, PassEnds
  <2>2. CASE t \notin Worker
    <3>1. ~RebuildLeavesOut(f)
      BY <1>7, <2>2 DEF BuildFails, RebuildLeavesOut, Inv, LockHeld, OneBuild, Thread
    <3>2. f \in HeldInProfile
      BY <1>7 DEF BuildFails, HeldInProfile, Pulled
    <3> QED
      BY <1>7, <2>2, <3>1, <3>2
      DEF Inv, PulledFactOnItsWayOut, BuildFails, BuildReturns, rvars, Coming
  <2> QED
    BY <2>1, <2>2
<1>8. CASE /\ ~Crash /\ ~Restart
           /\ \A w \in Worker : ~CheckFindsPulled(w) /\ ~CheckFindsNothing(w)
           /\ \A t \in Thread : ~Save(t) /\ ~BuildFails(t)
           /\ \A v \in versions : ~RestoreVersion(v)
  <2>1. CASE \/ \E g \in Fact : HardDelete(g)
             \/ \E S \in SUBSET Fact : Quarantine(S) \/ HoldSourceOf(S)
    BY <2>1, AskingCovers DEF HardDelete, Quarantine, HoldSourceOf, Serving, Inv, Covered
  <2>2. CASE ~(\/ \E g \in Fact : HardDelete(g)
               \/ \E S \in SUBSET Fact : Quarantine(S) \/ HoldSourceOf(S))
    <3>1. profile' = profile
      BY <1>8, <2>2
      DEF Next, vars, lvars, AddFact, Approve, BuildStarts, Pick, NothingToBuild,
          Refresh, Shutdown
    <3>2. Pulled(f)
      <4>1. ASSUME NEW g \in Fact, AddFact(g) \/ Approve(g) PROVE Pulled(f)
        BY <3>1, <4>1 DEF AddFact, Approve, Pulled, Inv, UnbornUncited, TypeOK, LedgerOK
      <4>2. CASE status' = status
        BY <4>2 DEF Pulled
      <4> QED
        BY <1>8, <2>2, <4>1, <4>2
        DEF Next, vars, lvars, BuildStarts, Pick, NothingToBuild, Refresh, Shutdown
    <3> QED
      BY <1>8, <3>1, <3>2, OnTheWayStep DEF Inv, PulledFactOnItsWayOut, HeldInProfile
  <2> QED
    BY <2>1, <2>2
<1> QED
  BY <1>1, <1>2, <1>3, <1>4, <1>5, <1>6, <1>7, <1>8

-----------------------------------------------------------------------------
(* The theorems. *)

LEMMA Invariance == Safe => []Inv
<1>1. Init => Inv
  <2> SUFFICES ASSUME Init PROVE Inv
    OBVIOUS
  <2>1. RefreshTypeOK
    BY RefreshTypeInit DEF Init
  <2>2. LedgerOK
    BY DEF Init, LedgerOK
  <2>3. crashes \in 0..MaxCrashes
    BY ProfileAssumption DEF ProfileAssumption, Init
  <2>4. OneJob /\ DownIsStill /\ PassIsFresh
    BY DEF Init, RefreshInit, OneJob, Alive, DownIsStill, PassIsFresh
  <2>5. LockHeld /\ PickKept
    BY DEF Init, RefreshInit, LockHeld, OneBuild, PickKept, Thread
  <2>6. UnbornUncited /\ StaleBuildNotLast /\ PulledFactOnItsWayOut
    BY DEF Init, UnbornUncited, StaleBuildNotLast, PulledFactOnItsWayOut, HeldInProfile
  <2> QED
    BY <2>1, <2>2, <2>3, <2>4, <2>5, <2>6 DEF Inv, TypeOK
<1>2. Inv /\ [Next]_vars => Inv'
  BY TypeStep, OneJobKept, LockHeldStep, PickKeptStep, PassIsFreshStep,
     UnbornUncitedStep, DownIsStillStep, StaleStep, WayOutStep
  DEF Inv
<1> QED
  BY <1>1, <1>2, PTL DEF Safe

\* The types hold throughout, crashes and restarts included.
THEOREM Types == Safe => []TypeOK
BY Invariance, PTL DEF Inv

\* Through crashes and restarts, one refresh job runs at a time.
THEOREM OneJobThroughCrashes == Safe => []OneJob
BY Invariance, PTL DEF Inv

\* _build_lock keeps builds apart: whoever is between its pick and its save holds it.
THEOREM OneBuildAtATime == Safe => []OneBuild
BY Invariance, PTL DEF Inv, LockHeld

\* A build that chose a fact before it was pulled is followed by a refresh, unless that
\* could not start or the process is stopping.
THEOREM StaleBuildIsFollowed == Safe => []StaleBuildNotLast
BY Invariance, PTL DEF Inv

\* Whatever the interleaving of holds, erases, builds, refreshes, crashes and
\* restarts, a held or erased fact in the profile is on its way out; but for a refresh
\* that could not start, a rebuild that failed, a version the owner restored, and a
\* process that is stopping.
THEOREM PulledFactsLeaveCovered == Safe => []PulledFactOnItsWayOut
BY Invariance, PTL DEF Inv
=============================================================================

--------------------------- MODULE ProfileRefresh ---------------------------
(***************************************************************************)
(* memory_service/summary.py, class ProfileRefresh: the debounced, single  *)
(* background job that rebuilds the profile when the owner pulls a fact    *)
(* out of it.                                                              *)
(*                                                                         *)
(* The class is a timer, four flags under one mutex, and at most one job   *)
(* thread.  Its methods are called from request handlers (soon after a     *)
(* hold, now after an erase or a forget), from the timer's own thread      *)
(* (now) and from the shutdown hook (close).  Every method body runs under *)
(* self._lock, so each is one step; what interleaves is who is waiting for *)
(* the lock: soonCalls and nowCalls count those threads.                   *)
(*                                                                         *)
(* What a pass does (drop_held) is left to Profile, which extends this     *)
(* module: here a pass begins, and ends well or badly.                     *)
(***************************************************************************)
EXTENDS Integers

CONSTANTS
  Worker,       \* identities a job thread can have
  MaxRequests   \* bound: how many times the owner asks for a refresh

ASSUME RefreshAssumption == MaxRequests \in Nat

VARIABLES
  timer,      \* self._timer: "none", "armed", or "fired" (its thread is past
              \* the wait, so cancelling it no longer stops it)
  soonCalls,  \* threads waiting to run soon()
  nowCalls,   \* threads waiting to run now(), fired timers included
  running,    \* self._running
  again,      \* self._again
  closed,     \* self._closed
  job,        \* job[w]: "none", "start" of the loop in _work, "pass" inside
              \* drop_held, "end" waiting for self._lock after it
  unserved,   \* history: a refresh was asked for since the last pass began
  dropped,    \* history: a timer's or a job's thread could not be started, or the job
              \* could not open the database, and since then no pass has begun or
              \* been asked for
  failed,     \* history: the last pass that began has raised
  requests    \* history: requests made, to bound the model

history == <<unserved, dropped, failed, requests>>
rvars == <<timer, soonCalls, nowCalls, running, again, closed, job, unserved,
           dropped, failed, requests>>

JobPhase == {"none", "start", "pass", "end"}

CountsOK == soonCalls \in Nat /\ nowCalls \in Nat /\ requests \in 0..MaxRequests

FlagsOK ==
  /\ timer \in {"none", "armed", "fired"}
  /\ running \in BOOLEAN /\ again \in BOOLEAN /\ closed \in BOOLEAN
  /\ unserved \in BOOLEAN /\ dropped \in BOOLEAN /\ failed \in BOOLEAN
  /\ job \in [Worker -> JobPhase]

RefreshTypeOK == CountsOK /\ FlagsOK

RefreshInit ==
  /\ timer = "none" /\ soonCalls = 0 /\ nowCalls = 0 /\ requests = 0
  /\ running = FALSE /\ again = FALSE /\ closed = FALSE
  /\ unserved = FALSE /\ dropped = FALSE /\ failed = FALSE
  /\ job = [w \in Worker |-> "none"]

-----------------------------------------------------------------------------
(* The callers. *)

Asked ==
  /\ requests < MaxRequests
  /\ requests' = requests + 1
  /\ unserved' = TRUE
  /\ dropped' = FALSE
  /\ UNCHANGED failed

\* A handler has committed a hold and is about to call soon().
AskSoon ==
  /\ Asked
  /\ soonCalls' = soonCalls + 1
  /\ UNCHANGED <<timer, nowCalls, running, again, closed, job>>

\* A handler has committed an erase or a forget and is about to call now().
AskNow ==
  /\ Asked
  /\ nowCalls' = nowCalls + 1
  /\ UNCHANGED <<timer, soonCalls, running, again, closed, job>>

-----------------------------------------------------------------------------
(* The methods. *)

\* soon(): move the wait on, unless closed.  When the new timer's thread cannot be
\* started the old wait is cancelled all the same, and the exception goes to the caller.
Soon ==
  /\ soonCalls > 0
  /\ soonCalls' = soonCalls - 1
  /\ \/ timer' = (IF closed THEN timer ELSE "armed") /\ UNCHANGED dropped
     \/ ~closed /\ timer' = "none" /\ dropped' = TRUE
  /\ UNCHANGED <<nowCalls, running, again, closed, job, unserved, failed, requests>>

\* The settle time is over: the timer's thread calls now().  self._timer still
\* refers to it until now() has the lock.
TimerFires ==
  /\ timer = "armed"
  /\ timer' = "fired"
  /\ nowCalls' = nowCalls + 1
  /\ UNCHANGED <<soonCalls, running, again, closed, job, history>>

\* now() once closed: nothing.
NowClosed ==
  /\ nowCalls > 0 /\ closed
  /\ nowCalls' = nowCalls - 1
  /\ UNCHANGED <<timer, soonCalls, running, again, closed, job, history>>

\* Mutant of NowFolds: the request is taken to be served by the job that runs.
NowFoldsForgets ==
  /\ nowCalls > 0 /\ ~closed /\ running
  /\ nowCalls' = nowCalls - 1
  /\ timer' = "none"
  /\ UNCHANGED <<soonCalls, running, again, closed, job, history>>

\* now() while a job runs: cancel the wait and send the job round once more.
NowFolds ==
  /\ nowCalls > 0 /\ ~closed /\ running
  /\ nowCalls' = nowCalls - 1
  /\ timer' = "none"
  /\ again' = TRUE
  /\ UNCHANGED <<soonCalls, running, closed, job, history>>

\* Mutant of NowStarts: it starts a job beside the one that runs.
NowStartsAnother(w) ==
  /\ nowCalls > 0 /\ ~closed
  /\ job[w] = "none"
  /\ nowCalls' = nowCalls - 1
  /\ timer' = "none" /\ running' = TRUE
  /\ job' = [job EXCEPT ![w] = "start"]
  /\ UNCHANGED <<soonCalls, again, closed, history>>

\* now() with no job running: cancel the wait and start one.
NowStarts(w) ==
  /\ nowCalls > 0 /\ ~closed /\ ~running
  /\ job[w] = "none"
  /\ nowCalls' = nowCalls - 1
  /\ timer' = "none"
  /\ running' = TRUE
  /\ job' = [job EXCEPT ![w] = "start"]
  /\ UNCHANGED <<soonCalls, again, closed, history>>

\* now() when the job's thread cannot be started: the wait is cancelled, the
\* exception goes to the caller, and nothing will run.
NowFailsToStart ==
  /\ nowCalls > 0 /\ ~closed /\ ~running
  /\ nowCalls' = nowCalls - 1
  /\ timer' = "none"
  /\ dropped' = TRUE
  /\ UNCHANGED <<soonCalls, running, again, closed, job, unserved, failed,
                 requests>>

\* close(): no more work is taken, and a waiting rebuild is dropped.
Close ==
  /\ ~closed
  /\ closed' = TRUE
  /\ timer' = "none"
  /\ UNCHANGED <<soonCalls, nowCalls, running, again, job, history>>

-----------------------------------------------------------------------------
(* The job thread: the loop of _work. *)

PassBegins(w) ==
  /\ job[w] = "start"
  /\ job' = [job EXCEPT ![w] = "pass"]
  /\ unserved' = FALSE /\ dropped' = FALSE /\ failed' = FALSE
  /\ UNCHANGED <<timer, soonCalls, nowCalls, running, again, closed, requests>>

\* self._connect() raised: drop_held is not called.
PassCannotOpen(w) ==
  /\ job[w] = "start"
  /\ job' = [job EXCEPT ![w] = "end"]
  /\ dropped' = TRUE
  /\ UNCHANGED <<timer, soonCalls, nowCalls, running, again, closed, unserved,
                 failed, requests>>

\* drop_held returned (ok) or raised.
PassEnds(w, ok) ==
  /\ job[w] = "pass"
  /\ job' = [job EXCEPT ![w] = "end"]
  /\ failed' = ~ok
  /\ UNCHANGED <<timer, soonCalls, nowCalls, running, again, closed, unserved,
                 dropped, requests>>

\* Under the lock: round once more, or stop.
GoesRoundAgain(w) ==
  /\ job[w] = "end" /\ again /\ ~closed
  /\ again' = FALSE
  /\ job' = [job EXCEPT ![w] = "start"]
  /\ UNCHANGED <<timer, soonCalls, nowCalls, running, closed, history>>

\* Mutant of Stops: the flag is not looked at.
StopsRegardless(w) ==
  /\ job[w] = "end"
  /\ running' = FALSE
  /\ job' = [job EXCEPT ![w] = "none"]
  /\ UNCHANGED <<timer, soonCalls, nowCalls, again, closed, history>>

\* Mutant of Stops: the job ends and leaves the flag that says it runs.
StopsUnannounced(w) ==
  /\ job[w] = "end" /\ ~(again /\ ~closed)
  /\ job' = [job EXCEPT ![w] = "none"]
  /\ UNCHANGED <<timer, soonCalls, nowCalls, running, again, closed, history>>

Stops(w) ==
  /\ job[w] = "end" /\ ~(again /\ ~closed)
  /\ running' = FALSE
  /\ job' = [job EXCEPT ![w] = "none"]
  /\ UNCHANGED <<timer, soonCalls, nowCalls, again, closed, history>>

Finish(w) == GoesRoundAgain(w) \/ Stops(w)

-----------------------------------------------------------------------------
Now == NowClosed \/ NowFolds \/ NowFailsToStart \/ \E w \in Worker : NowStarts(w)

RefreshNext ==
  \/ AskSoon \/ AskNow \/ Soon \/ TimerFires \/ Now \/ Close
  \/ \E w \in Worker :
       \/ PassBegins(w) \/ PassCannotOpen(w)
       \/ \E ok \in BOOLEAN : PassEnds(w, ok)
       \/ Finish(w)

RefreshSafe == RefreshInit /\ [][RefreshNext]_rvars

(***************************************************************************)
(* Fairness.  A thread waiting for self._lock gets it (the bodies under it *)
(* are short and never block), the timer fires once the owner has stopped  *)
(* re-arming it (MaxRequests bounds how often that happens), and the job   *)
(* thread runs.  The owner's own calls and the shutdown owe nobody         *)
(* anything.                                                               *)
(***************************************************************************)
RefreshFairness ==
  /\ WF_rvars(Soon) /\ WF_rvars(TimerFires) /\ WF_rvars(Now)
  /\ \A w \in Worker :
       /\ WF_rvars(PassBegins(w) \/ PassCannotOpen(w))
       /\ WF_rvars(\E ok \in BOOLEAN : PassEnds(w, ok))
       /\ WF_rvars(Finish(w))

RefreshSpec == RefreshSafe /\ RefreshFairness

-----------------------------------------------------------------------------
(* Properties. *)

Alive(w) == job[w] # "none"

\* "One refresh job runs at a time": the flag and the threads agree, and no two
\* job threads exist, whatever timers and handlers call now() together.
OneJob ==
  /\ running <=> \E w \in Worker : Alive(w)
  /\ \A v, w \in Worker : Alive(v) /\ Alive(w) => v = w

\* Something will still start a pass: a job at the top of its loop, or, until
\* closed, an armed timer, a waiting call, or the flag that sends the job round.
Coming ==
  \/ \E w \in Worker : job[w] = "start"
  \/ ~closed /\ (timer = "armed" \/ soonCalls > 0 \/ nowCalls > 0 \/ again)

\* No request is folded into a pass that has already looked, or lost between the
\* timer, the flags and the threads: until it is served something is still
\* coming for it, or the service closed, or the failure was reported.
RequestRemembered == unserved => Coming \/ closed \/ dropped

InPass == \E w \in Worker : job[w] = "pass"

\* The class keeps the promise of a coalescing job.
Promise == INSTANCE Coalescer WITH pass <- InPass, lost <- dropped

CoalescesSafely == Promise!ASafe
Coalesces == Promise!ASpec

\* Every request is followed by a pass that begins after it, unless the service shuts
\* down or a thread cannot be started or the job cannot run.
EveryRequestServed == unserved ~> (~unserved \/ closed \/ dropped)
=============================================================================

------------------------------- MODULE Galaxy -------------------------------
(***************************************************************************)
(* The projection of the facts the galaxy pages draw (memory_service/      *)
(* viz.py, its routes in api.py), and the jobs and busy marks it is        *)
(* computed under (jobs.py, busy.py).                                      *)
(*                                                                         *)
(* The projection has a point for each of the newest facts with a vector.  *)
(* It is kept in the settings with a stamp of the vectors there were, and  *)
(* answers while the stamp is the present one; else a page has it computed *)
(* by a job and asks again, until it is shown or told of a failure; then   *)
(* it asks no more until the owner reloads it (static/math.html).  Vectors *)
(* come and go all the time, two pages may ask at once, a job may fail.    *)
(*                                                                         *)
(* A job is a slot of the registry.  Where the points lie, and what the    *)
(* other kinds of job do, is left out.                                     *)
(***************************************************************************)
EXTENDS Integers, FiniteSets

CONSTANTS
  Id,            \* facts.id, the newest last
  Cap,           \* SAMPLE_CAP
  Page,          \* the galaxy pages the owner opens
  Job, NoJob,    \* bound: slots for the jobs of the registry, which are numbered
  NoCache,
  MaxChanges,    \* vectors that come or go
  MaxMishaps     \* jobs that fail or cannot start, and restarts

ASSUME GalaxyAssumption ==
  /\ Id \subseteq Nat \ {0} /\ IsFiniteSet(Id)
  /\ Cap \in Nat \ {0} /\ NoJob \notin Job
  /\ MaxChanges \in Nat /\ MaxMishaps \in Nat

Stamp == [count : Nat, highest : Nat]

\* odd: history, the stamp may not tell these points from the present ones.
Projection == [points : SUBSET Id, stamp : Stamp, odd : BOOLEAN]

VARIABLES
  embedded,  \* the facts with a vector
  cache,     \* the viz_embeddings row of settings, or NoCache
  status,    \* what the registry has of the job _viz_job names, the only one that is
             \* looked up by the pages: running, ok or failed
  marks,     \* the jobs with a busy mark
  mine,      \* _viz_job
  page,      \* page[r]: not opened, asking, with a request that missed, is clearing or
             \* starting a job, shown a projection, or told of a failure
  booked,    \* the job a request is about to start
  thread,    \* of a job: none, reading, stamping, saving, ending or unmarking
  drawing,   \* drawing[j]: the projection the thread has in hand
  failing,   \* threads that raised
  changes, mishaps

jobs == <<status, marks, mine>>
requests == <<page, booked>>
threads == <<thread, drawing, failing>>
galaxyVars == <<embedded, cache, jobs, requests, threads, changes, mishaps>>

Blank == [points |-> {}, stamp |-> [count |-> 0, highest |-> 0], odd |-> FALSE]

GalaxyTypeOK ==
  /\ embedded \in SUBSET Id
  /\ cache = NoCache \/ cache \in Projection
  /\ status \in {"none", "running", "ok", "failed"}
  /\ marks \in SUBSET Job /\ mine \in Job \cup {NoJob}
  /\ page \in [Page -> {"closed", "asking", "missed", "clearing", "starting", "shown", "told"}]
  /\ booked \in [Page -> Job \cup {NoJob}]
  /\ thread \in [Job -> {"none", "reading", "stamping", "saving", "ending", "unmarking"}]
  /\ drawing \in [Job -> Projection] /\ failing \in SUBSET Job
  /\ changes \in Nat /\ mishaps \in Nat

GalaxyInit ==
  /\ embedded = {} /\ cache = NoCache
  /\ status = "none" /\ marks = {} /\ mine = NoJob
  /\ page = [r \in Page |-> "closed"] /\ booked = [r \in Page |-> NoJob]
  /\ thread = [j \in Job |-> "none"] /\ drawing = [j \in Job |-> Blank] /\ failing = {}
  /\ changes = 0 /\ mishaps = 0

Mishap == mishaps < MaxMishaps /\ mishaps' = mishaps + 1

Highest(F) == CHOOSE i \in F \cup {0} : \A k \in F : k <= i
Newest(F) == {f \in F : Cardinality({g \in F : g >= f}) <= Cap}

\* _stamp.
StampOf(F) == [count |-> Cardinality(F), highest |-> Highest(F)]

\* embeddings_cached.
Cached == cache # NoCache /\ cache.stamp = StampOf(embedded)

\* landscape_data: the points a page is given, where there is a projection; what clouds,
\* colours and layers it draws from them is left out.
Scene == IF Cached THEN cache.points ELSE {}

-----------------------------------------------------------------------------
(* The vectors (see Vectors). *)

\* A vector comes or goes between the reading of the rows and the stamp; or one comes
\* that is not the newest: count and highest may then return to what they were.
Odd(p, j, f) ==
  \/ thread[j] = "stamping"
  \/ thread[j] = "saving" /\ f \notin embedded /\ f < Highest(embedded \cup p.points)

Changes(f) ==
  /\ changes < MaxChanges /\ changes' = changes + 1
  /\ drawing' = [j \in Job |-> [drawing[j] EXCEPT !.odd = @ \/ Odd(drawing[j], j, f)]]
  /\ cache' = IF cache = NoCache THEN cache
              ELSE [cache EXCEPT !.odd = @ \/ (/\ f \notin embedded
                                               /\ f < Highest(embedded \cup cache.points))]
  /\ UNCHANGED <<jobs, requests, thread, failing, mishaps>>

\* A fact gets a vector: it is new, it was edited, or an embed was late.
Embeds(f) == f \in Id \ embedded /\ embedded' = embedded \cup {f} /\ Changes(f)

\* A fact is edited or erased.
Drops(f) == f \in embedded /\ embedded' = embedded \ {f} /\ Changes(f)

-----------------------------------------------------------------------------
(* A page asks. *)

Goes(r, from, to) == page[r] = from /\ page' = [page EXCEPT ![r] = to]

\* The owner opens the page, or reloads it.
Opens(r) ==
  /\ page[r] \in {"closed", "shown", "told"}
  /\ page' = [page EXCEPT ![r] = "asking"]
  /\ UNCHANGED <<embedded, cache, jobs, booked, threads, changes, mishaps>>

\* There is a projection: the page draws it, and asks no more.
Shows(r) ==
  /\ Goes(r, "asking", "shown") /\ Cached
  /\ UNCHANGED <<embedded, cache, jobs, booked, threads, changes, mishaps>>

\* _projection_pending finds none.
Looks(r) ==
  /\ Goes(r, "asking", "missed") /\ ~Cached
  /\ UNCHANGED <<embedded, cache, jobs, booked, threads, changes, mishaps>>

\* It is being computed: the page waits and asks again.
Waits(r) ==
  /\ Goes(r, "missed", "asking") /\ status = "running"
  /\ UNCHANGED <<embedded, cache, jobs, booked, threads, changes, mishaps>>

\* The job failed.
Reports(r) ==
  /\ Goes(r, "missed", "clearing") /\ status = "failed"
  /\ UNCHANGED <<embedded, cache, jobs, booked, threads, changes, mishaps>>

\* Mutant of Clears: the failed job stays the one to look at.
ClearsNothing(r) ==
  /\ Goes(r, "clearing", "told")
  /\ UNCHANGED <<embedded, cache, jobs, booked, threads, changes, mishaps>>

\* _viz_job is cleared, be it another job by now, and the page told; it asks no more.
Clears(r) ==
  /\ Goes(r, "clearing", "told")
  /\ mine' = NoJob /\ status' = "none"
  /\ UNCHANGED <<embedded, cache, marks, booked, threads, changes, mishaps>>

Idle(j) == thread[j] = "none" /\ j # mine /\ \A r \in Page : booked[r] # j

\* jobs.run up to the start of the thread; its id is a new one, here the first free slot.
Books(r, j) ==
  /\ Goes(r, "missed", "starting") /\ status \in {"none", "ok"}
  /\ Idle(j) /\ \A i \in Job : i < j => ~Idle(i)
  /\ booked' = [booked EXCEPT ![r] = j]
  /\ marks' = marks \cup {j}
  /\ UNCHANGED <<embedded, cache, status, mine, threads, changes, mishaps>>

StartsJob(r) ==
  /\ Goes(r, "starting", "asking")
  /\ thread' = [thread EXCEPT ![booked[r]] = "reading"]
  /\ mine' = booked[r] /\ status' = "running"
  /\ booked' = [booked EXCEPT ![r] = NoJob]
  /\ UNCHANGED <<embedded, cache, marks, drawing, failing, changes, mishaps>>

\* Mutant of CannotStart: the mark stays.
CannotStartMarked(r) ==
  /\ Goes(r, "starting", "told")
  /\ Mishap
  /\ booked' = [booked EXCEPT ![r] = NoJob]
  /\ UNCHANGED <<embedded, cache, jobs, threads, changes>>

\* The thread cannot start.  The job stays "running", under an id nobody was told, and
\* the page gets an error.
CannotStart(r) ==
  /\ Goes(r, "starting", "told")
  /\ Mishap
  /\ marks' = marks \ {booked[r]}
  /\ booked' = [booked EXCEPT ![r] = NoJob]
  /\ UNCHANGED <<embedded, cache, status, mine, threads, changes>>

-----------------------------------------------------------------------------
(* The job. *)

At(j, from, to) == thread[j] = from /\ thread' = [thread EXCEPT ![j] = to]

\* compute_embeddings: the rows are read, and the projection computed.
Reads(j) ==
  /\ At(j, "reading", "stamping")
  /\ drawing' = [drawing EXCEPT ![j] = [Blank EXCEPT !.points = Newest(embedded)]]
  /\ UNCHANGED <<embedded, cache, jobs, requests, failing, changes, mishaps>>

\* The stamp is taken after that.
Stamps(j) ==
  /\ At(j, "stamping", "saving")
  /\ drawing' = [drawing EXCEPT ![j].stamp = StampOf(embedded)]
  /\ UNCHANGED <<embedded, cache, jobs, requests, failing, changes, mishaps>>

\* Mutant of Saves: the stamp is of the vectors there are now.
SavesAsPresent(j) ==
  /\ At(j, "saving", "ending")
  /\ cache' = [drawing[j] EXCEPT !.stamp = StampOf(embedded)]
  /\ drawing' = [drawing EXCEPT ![j] = Blank]
  /\ UNCHANGED <<embedded, jobs, requests, failing, changes, mishaps>>

Saves(j) ==
  /\ At(j, "saving", "ending")
  /\ cache' = drawing[j]
  /\ drawing' = [drawing EXCEPT ![j] = Blank]
  /\ UNCHANGED <<embedded, jobs, requests, failing, changes, mishaps>>

Raises(j) ==
  /\ thread[j] \in {"reading", "stamping", "saving"} /\ Mishap
  /\ thread' = [thread EXCEPT ![j] = "ending"]
  /\ drawing' = [drawing EXCEPT ![j] = Blank]
  /\ failing' = failing \cup {j}
  /\ UNCHANGED <<embedded, cache, jobs, requests, changes>>

\* _work records the outcome.
Records(j) ==
  /\ At(j, "ending", "unmarking")
  /\ status' = IF j # mine THEN status ELSE IF j \in failing THEN "failed" ELSE "ok"
  /\ failing' = failing \ {j}
  /\ UNCHANGED <<embedded, cache, marks, mine, requests, drawing, changes, mishaps>>

\* And takes its mark away.
Unmarks(j) ==
  /\ At(j, "unmarking", "none")
  /\ marks' = marks \ {j}
  /\ UNCHANGED <<embedded, cache, status, mine, requests, drawing, failing, changes, mishaps>>

\* The process dies, and with it the registry, the marks and the threads.  It may come
\* back with another embedding model, which drops every vector.  A page whose request
\* was cut off asks again.
Restart ==
  /\ Mishap
  /\ embedded' \in {embedded, {}}
  /\ status' = "none" /\ marks' = {} /\ mine' = NoJob
  /\ page' = [r \in Page |-> IF page[r] \in {"missed", "clearing", "starting"}
                              THEN "asking" ELSE page[r]]
  /\ booked' = [r \in Page |-> NoJob]
  /\ thread' = [j \in Job |-> "none"] /\ drawing' = [j \in Job |-> Blank] /\ failing' = {}
  /\ UNCHANGED <<cache, changes>>

-----------------------------------------------------------------------------
Ask(r) ==
  \/ Shows(r) \/ Looks(r) \/ Waits(r) \/ Reports(r) \/ Clears(r)
  \/ (\E j \in Job : Books(r, j)) \/ StartsJob(r)
Run(j) == Reads(j) \/ Stamps(j) \/ Saves(j) \/ Records(j) \/ Unmarks(j)

GalaxyNext ==
  \/ \E f \in Id : Embeds(f) \/ Drops(f)
  \/ \E r \in Page : Opens(r) \/ Ask(r) \/ CannotStart(r)
  \/ \E j \in Job : Run(j) \/ Raises(j)
  \/ Restart

GalaxySpec == GalaxyInit /\ [][GalaxyNext]_galaxyVars

\* A page that is asking, or whose request is under way, goes on until it is shown or
\* told: its script asks again when it is told "computing" and when the service is
\* away.  A started thread runs.  Nothing is assumed of the owner.
GalaxyFairness ==
  /\ \A r \in Page : WF_galaxyVars(Ask(r))
  /\ \A j \in Job : WF_galaxyVars(Run(j))
FairGalaxy == GalaxySpec /\ GalaxyFairness

-----------------------------------------------------------------------------
(* Properties. *)

\* docs/API.md: "one 3D scene that's always current": what answers has a point for each
\* of the newest facts with a vector and for no other, though facts were erased and
\* edited since and two jobs saved in either order.  Two cases the stamp cannot tell: a
\* vector that came or went while the projection was computed, and one that came to a
\* fact older than the newest.
SceneIsCurrent ==
  Cached /\ ~cache.odd => Scene = Newest(embedded)

\* docs/API.md: the busy probe "says whether a restart right now would cut off work
\* under way": each thread at work has its mark, and a mark is of a thread at work or
\* about to start, whatever fails.
BusyIsWork ==
  marks = {j \in Job : thread[j] # "none"} \cup ({booked[r] : r \in Page} \ {NoJob})

\* A page left open is shown the projection in the end, though jobs fail, cannot start
\* or are cut off, if the owner reloads it whenever it was told of a failure: no failed
\* job, and none that never started, stays in the way of those who ask after it.
ShownInTheEnd ==
  \A r \in Page :
    (page[r] = "told" ~> page[r] = "asking") => (page[r] = "asking" ~> page[r] = "shown")
=============================================================================

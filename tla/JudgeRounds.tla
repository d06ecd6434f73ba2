---------------------------- MODULE JudgeRounds ----------------------------
(***************************************************************************)
(* Which rows the judge gets round to (memory_service/judge.py: _run_pass, *)
(* start_scheduler).                                                       *)
(*                                                                         *)
(* A pass an hour takes the lowest Batch ids among the held rows it has    *)
(* not looked at for a day, and one row's failure must not keep the rest   *)
(* from their turn.  The model takes the worst case: no look ever settles  *)
(* a row, so each comes back a day later, ahead of every higher id.  Rows  *)
(* arrive, leave the queue and are erased at any time, during a look too.  *)
(***************************************************************************)
EXTENDS Integers, FiniteSets

CONSTANTS
  Rows,   \* how many facts are ever held; ids are 1..Rows
  Batch,  \* BATCH_LIMIT
  Day     \* ATTEMPT_INTERVAL in passes: 24

ASSUME JudgeRoundsAssumption ==
  Rows \in Nat /\ Batch \in Nat \ {0} /\ Day \in Nat \ {0}

Id == 1..Rows

VARIABLES
  state,  \* state[i]: "unborn", "held", "settled" by the owner, or "erased"
  age,    \* age[i]: passes since the last look at i; Day when it is due
  batch   \* the rows this hour's pass has still to look at

roundsVars == <<state, age, batch>>

RoundsTypeOK ==
  /\ state \in [Id -> {"unborn", "held", "settled", "erased"}]
  /\ age \in [Id -> 0..Day]
  /\ batch \in SUBSET Id

RoundsInit ==
  /\ state = [i \in Id |-> "unborn"]
  /\ age = [i \in Id |-> Day]
  /\ batch = {}

\* A fact is saved held: ids only grow.
Arrives(i) ==
  /\ state[i] = "unborn" /\ \A j \in Id : j < i => state[j] # "unborn"
  /\ state' = [state EXCEPT ![i] = "held"]
  /\ UNCHANGED <<age, batch>>

\* The owner approves or dismisses the row, or erases it.
Leaves(i) ==
  /\ state[i] = "held"
  /\ \E s \in {"settled", "erased"} : state' = [state EXCEPT ![i] = s]
  /\ UNCHANGED <<age, batch>>

\* Mutant of Due: the day is not waited for.
DueAnyHour(i, ages) == state[i] = "held"

Due(i, ages) == state[i] = "held" /\ ages[i] = Day

\* The first Batch of the due rows, by id.
FirstOf(due) == {i \in due : Cardinality({j \in due : j < i}) < Batch}

\* An hour after the last pass ended: the next one chooses its rows.
PassChooses ==
  /\ batch = {}
  /\ age' = [i \in Id |-> IF age[i] < Day THEN age[i] + 1 ELSE Day]
  /\ batch' = FirstOf({i \in Id : Due(i, age')})
  /\ UNCHANGED state

\* Mutant of Looks: the attempt is not recorded.
LooksUnrecorded(i) ==
  /\ i \in batch /\ \A j \in batch : i <= j
  /\ state[i] # "erased"
  /\ batch' = batch \ {i}
  /\ UNCHANGED <<state, age>>

\* The row is looked at, and the attempt recorded whatever came of it.
Looks(i) ==
  /\ i \in batch /\ \A j \in batch : i <= j
  /\ state[i] # "erased"
  /\ age' = [age EXCEPT ![i] = 0]
  /\ batch' = batch \ {i}
  /\ UNCHANGED state

\* The row is gone: recording the attempt fails, and that ends the pass.
LooksAtErased(i) ==
  /\ i \in batch /\ \A j \in batch : i <= j
  /\ state[i] = "erased"
  /\ batch' = {}
  /\ UNCHANGED <<state, age>>

LookAt(i) == Looks(i) \/ LooksAtErased(i)

RoundsNext ==
  PassChooses \/ \E i \in Id : Arrives(i) \/ Leaves(i) \/ Looks(i) \/ LooksAtErased(i)

\* The scheduler thread keeps going: it catches what a pass raises, and every
\* model call has a timeout.
RoundsSpec ==
  /\ RoundsInit /\ [][RoundsNext]_roundsVars
  /\ WF_roundsVars(PassChooses) /\ WF_roundsVars(\E i \in Id : LookAt(i))

-----------------------------------------------------------------------------
(* Properties. *)

\* judge.py: "BATCH_LIMIT = 50  # per pass; the hourly cadence drains backlogs".
\* Every row that is due is looked at, or leaves the queue.  That takes no more
\* rows than a day's passes can hold (Rows <= Batch * Day): beyond, the lowest
\* ids come due again before the highest are reached, and those never are.
BacklogDrains == \A i \in Id : state[i] = "held" ~> (state[i] # "held" \/ age[i] < Day)

\* "The judge looks at a row at most once per day": between two looks at a row
\* there are Day passes.
OnceADay == [][\A i \in Id : age'[i] < age[i] => age[i] = Day]_roundsVars
=============================================================================

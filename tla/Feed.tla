-------------------------------- MODULE Feed --------------------------------
(***************************************************************************)
(* Coding sessions summarised into memory (memory_service/                 *)
(* claude_code_feed.py).                                                   *)
(*                                                                         *)
(* A session is a file another program writes to.  One thread sweeps the   *)
(* files that have been quiet: it reads one, has a model summarise the     *)
(* turns past the session's coverage, stores the note as a message and     *)
(* then, in a second commit, the coverage and the file's time as it was    *)
(* when the sweep began.  The file may grow and the owner may erase a note *)
(* at any time in between, and the process may die.                        *)
(*                                                                         *)
(* A turn's time and a file's time are the number of the write that made   *)
(* them; what a note or a turn says is left out.                           *)
(***************************************************************************)
EXTENDS Integers, FiniteSets

CONSTANTS
  Session,
  Sdk,        \* sessions not typed by the owner
  NoSession,
  Limit,      \* MAX_PER_SWEEP
  MaxWrites, MaxFaults

ASSUME FeedAssumption ==
  /\ Sdk \subseteq Session /\ NoSession \notin Session
  /\ Limit \in Nat \ {0} /\ MaxWrites \in Nat /\ MaxFaults \in Nat

\* A note has the external id summary-<upto>; it tells of the turns in (from, upto].
Note == [of : Session, from : Nat, upto : Nat]

VARIABLES
  clock,     \* writes so far
  turns,     \* turns[s]: the times of the turns a summary is made of
  small,     \* times of turns that alone are nothing new: short replies
  mtime,     \* mtime[s]: the file's time, 0 when there is no file
  quiet,     \* sessions not written to for the quiet time
  covered, seen, \* claude_code_sessions: covered_through and seen_mtime
  notes,     \* the messages of the claude-code conversations
  phase,     \* of the sweep: idle, next, asking, storing or marking
  due,       \* the files it has still to look at, with their times: [of, mtime]
  part,      \* the part in work: [of, from, upto]
  calls,     \* model calls of this sweep
  faults,    \* failed calls and crashes so far
  written, declined, \* history: notes ever stored; parts the model found empty
  torn       \* history: sessions whose note was stored when the process died

files == <<clock, turns, small, mtime, quiet>>
table == <<covered, seen>>
sweep == <<phase, due, part, calls>>
histories == <<written, declined, torn>>
feedVars == <<files, table, notes, sweep, faults, histories>>

Due == [of : Session, mtime : Nat]
NoPart == [of |-> NoSession, from |-> 0, upto |-> 0]

FeedTypeOK ==
  /\ clock \in Nat /\ calls \in Nat /\ faults \in Nat
  /\ turns \in [Session -> SUBSET Nat] /\ small \in SUBSET Nat
  /\ mtime \in [Session -> Nat] /\ quiet \in SUBSET Session
  /\ covered \in [Session -> Nat] /\ seen \in [Session -> Nat]
  /\ notes \in SUBSET Note /\ written \in SUBSET Note /\ declined \in SUBSET Note
  /\ phase \in {"idle", "next", "asking", "storing", "marking"}
  /\ due \in SUBSET Due /\ part \in Note \cup {NoPart}
  /\ torn \in SUBSET Session

FeedInit ==
  /\ clock = 0 /\ calls = 0 /\ faults = 0
  /\ turns = [s \in Session |-> {}] /\ small = {}
  /\ mtime = [s \in Session |-> 0] /\ quiet = {}
  /\ covered = [s \in Session |-> 0] /\ seen = [s \in Session |-> 0]
  /\ notes = {} /\ written = {} /\ declined = {}
  /\ phase = "idle" /\ due = {} /\ part = NoPart
  /\ torn = {}

-----------------------------------------------------------------------------
(* The program that writes the sessions, and the owner. *)

Written(s) ==
  /\ clock < MaxWrites
  /\ clock' = clock + 1
  /\ mtime' = [mtime EXCEPT ![s] = clock + 1]
  /\ quiet' = quiet \ {s}
  /\ UNCHANGED <<table, notes, sweep, faults, histories>>

\* A prompt or a reply that is read as a turn, small if it is a short reply.
TurnWritten(s, isSmall) ==
  /\ Written(s)
  /\ turns' = [turns EXCEPT ![s] = @ \cup {clock + 1}]
  /\ small' = IF isSmall THEN small \cup {clock + 1} ELSE small

\* Tool output, notices, titles.
OtherWritten(s) == Written(s) /\ UNCHANGED <<turns, small>>

Rests(s) ==
  /\ mtime[s] > 0 /\ s \notin quiet
  /\ quiet' = quiet \cup {s}
  /\ UNCHANGED <<clock, turns, small, mtime, table, notes, sweep, faults, histories>>

\* The owner erases a note.
EraseNote(m) ==
  /\ m \in notes
  /\ notes' = notes \ {m}
  /\ UNCHANGED <<files, table, sweep, faults, histories>>

-----------------------------------------------------------------------------
(* The sweep. *)

\* due_sessions.
IsDue(s) == mtime[s] > 0 /\ s \in quiet /\ seen[s] # mtime[s]

\* The sweep takes the oldest file first; no two files have the same time.
Oldest(d) == d \in due /\ \A e \in due : d.mtime <= e.mtime

SweepBegins ==
  /\ phase = "idle"
  /\ due' = {[of |-> s, mtime |-> mtime[s]] : s \in {s \in Session : IsDue(s)}}
  /\ due' # {}
  /\ phase' = "next" /\ calls' = 0
  /\ UNCHANGED <<files, table, notes, part, faults, histories>>

\* digest: the turns after the coverage, and whether they are worth a call.
New(s) == {t \in turns[s] : t > covered[s]}
Worth(T) == \E t \in T : t \notin small

Last(T) == CHOOSE t \in T : \A u \in T : u <= t

\* _record, one commit.
Record(s, upto, mt) ==
  /\ covered' = [covered EXCEPT ![s] = upto]
  /\ seen' = [seen EXCEPT ![s] = mt]

Looking(d) == phase = "next" /\ Oldest(d) /\ calls < Limit

\* Mutant of Passes: what is passed over counts as covered.
PassesAsCovered(d) ==
  /\ Looking(d) /\ (d.of \in Sdk \/ ~Worth(New(d.of)))
  /\ Record(d.of, IF New(d.of) = {} THEN covered[d.of] ELSE Last(New(d.of)), d.mtime)
  /\ due' = due \ {d}
  /\ UNCHANGED <<files, notes, phase, part, calls, faults, histories>>

\* Not the owner's session, or nothing new: the file is seen, the coverage stays.
Passes(d) ==
  /\ Looking(d) /\ (d.of \in Sdk \/ ~Worth(New(d.of)))
  /\ Record(d.of, covered[d.of], d.mtime)
  /\ due' = due \ {d}
  /\ UNCHANGED <<files, notes, phase, part, calls, faults, histories>>

\* The file cannot be read: the session is left for the next sweep.
ReadFails(d) ==
  /\ Looking(d) /\ faults < MaxFaults
  /\ faults' = faults + 1
  /\ due' = due \ {d}
  /\ UNCHANGED <<files, table, notes, phase, part, calls, histories>>

\* The file is read as it is now, and the model is asked.
Asks(d) ==
  /\ Looking(d) /\ d.of \notin Sdk /\ Worth(New(d.of))
  /\ part' = [of |-> d.of, from |-> covered[d.of], upto |-> Last(New(d.of))]
  /\ phase' = "asking" /\ calls' = calls + 1
  /\ UNCHANGED <<files, table, notes, due, faults, histories>>

NextFile(d) == phase' = "next" /\ due' = due \ {d} /\ part' = NoPart

\* The call fails: the session is left for the next sweep.
CallFails(d) ==
  /\ phase = "asking" /\ Oldest(d) /\ faults < MaxFaults
  /\ faults' = faults + 1
  /\ NextFile(d)
  /\ UNCHANGED <<files, table, notes, calls, histories>>

\* There is no key: the sweep ends.
NoKey ==
  /\ phase = "asking" /\ faults < MaxFaults
  /\ faults' = faults + 1
  /\ phase' = "idle" /\ due' = {} /\ part' = NoPart
  /\ UNCHANGED <<files, table, notes, calls, histories>>

\* The model finds nothing worth keeping.
Declines(d) ==
  /\ phase = "asking" /\ Oldest(d)
  /\ Record(part.of, part.upto, d.mtime)
  /\ declined' = declined \cup {part}
  /\ NextFile(d)
  /\ UNCHANGED <<files, notes, calls, faults, written, torn>>

Answers ==
  /\ phase = "asking" /\ phase' = "storing"
  /\ UNCHANGED <<files, table, notes, due, part, calls, faults, histories>>

\* episodic.ingest: ignored when the conversation has a message of that id.
Stores ==
  /\ phase = "storing" /\ phase' = "marking"
  /\ IF \E m \in notes : m.of = part.of /\ m.upto = part.upto
     THEN UNCHANGED <<notes, written>>
     ELSE notes' = notes \cup {part} /\ written' = written \cup {part}
  /\ UNCHANGED <<files, table, due, part, calls, faults, declined, torn>>

\* Mutant of Marks: the file's time is taken now.
MarksAsNow(d) ==
  /\ phase = "marking" /\ Oldest(d)
  /\ Record(part.of, part.upto, mtime[part.of])
  /\ NextFile(d)
  /\ UNCHANGED <<files, notes, calls, faults, histories>>

\* Mutant of Marks: the file is seen, its coverage stays.
MarksSeen(d) ==
  /\ phase = "marking" /\ Oldest(d)
  /\ Record(part.of, covered[part.of], d.mtime)
  /\ NextFile(d)
  /\ UNCHANGED <<files, notes, calls, faults, histories>>

\* The coverage, with the file's time of the sweep's beginning.  The conversation is
\* mined after that (Distill).
Marks(d) ==
  /\ phase = "marking" /\ Oldest(d)
  /\ Record(part.of, part.upto, d.mtime)
  /\ NextFile(d)
  /\ UNCHANGED <<files, notes, calls, faults, histories>>

SweepEnds ==
  /\ phase = "next" /\ (due = {} \/ calls >= Limit)
  /\ phase' = "idle" /\ due' = {}
  /\ UNCHANGED <<files, table, notes, part, calls, faults, histories>>

\* The process dies; the sweep begins anew.
SweepDies ==
  /\ phase # "idle" /\ faults < MaxFaults
  /\ faults' = faults + 1
  /\ torn' = IF phase = "marking" THEN torn \cup {part.of} ELSE torn
  /\ phase' = "idle" /\ due' = {} /\ part' = NoPart
  /\ UNCHANGED <<files, table, notes, calls, written, declined>>

Step ==
  \/ SweepBegins \/ Answers \/ Stores \/ SweepEnds
  \/ \E d \in due : Passes(d) \/ Asks(d) \/ Declines(d) \/ Marks(d)

FeedNext ==
  \/ \E s \in Session : \/ \E b \in BOOLEAN : TurnWritten(s, b)
                       \/ OtherWritten(s) \/ Rests(s)
  \/ \E m \in notes : EraseNote(m)
  \/ Step
  \/ \E d \in due : ReadFails(d) \/ CallFails(d)
  \/ NoKey \/ SweepDies

FeedSpec == FeedInit /\ [][FeedNext]_feedVars

\* The sweep's thread runs, a call ends, and a session is quiet in the end.
FeedFairness == WF_feedVars(Step) /\ \A s \in Session : WF_feedVars(Rests(s))
FairFeed == FeedSpec /\ FeedFairness

-----------------------------------------------------------------------------
(* Properties. *)

Tells(m, t) == m.from < t /\ t <= m.upto

\* No turn is told of twice, so an erased note stays erased, also when the session
\* goes on; unless the process died between storing a note of it and marking that.
ErasedStaysErased ==
  [][\A m \in notes' \ notes : \A n \in written : m.of = n.of /\ m.of \notin torn =>
       \A t \in 1 .. clock : ~(Tells(m, t) /\ Tells(n, t))]_feedVars

\* What counts as covered was in a note, or the model found nothing in it.
CoveredWasTold ==
  \A s \in Session : \A t \in turns[s] :
    t <= covered[s] => \E m \in written \cup declined : m.of = s /\ Tells(m, t)

\* A turn worth a call is covered in the end, though the file grew while the sweep
\* was at it, calls failed and the process died.
EveryTurnIsCovered ==
  \A s \in Session \ Sdk : \A t \in 1 .. MaxWrites :
    (t \in turns[s] /\ t \notin small) ~> (covered[s] >= t)
=============================================================================

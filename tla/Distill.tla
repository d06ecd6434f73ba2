------------------------------- MODULE Distill -------------------------------
(***************************************************************************)
(* Mining one conversation for facts (memory_service/mining.py: distill,   *)
(* _next_chunk, _distill_chunk, _advance; with the parts of ledger.py,     *)
(* episodic.py and erasers.py that it meets).                              *)
(*                                                                         *)
(* A run mines the messages above the watermark in chunks.  Each chunk is  *)
(* a model call of a minute or more, whose lines are then added one commit *)
(* at a time, each line's supersessions after it, and the watermark last.  *)
(* Messages arrive and are erased meanwhile, the owner works on the facts, *)
(* a second run is asked for, the model stops short, and the process dies. *)
(*                                                                         *)
(* The miner's answer is left open: any line about any claim, bound to any *)
(* turn of the chunk or to none, held by the walls or not, superseding any *)
(* of the facts it was shown.  A claim is a fact's normalized content.     *)
(***************************************************************************)
EXTENDS Integers, FiniteSets

CONSTANTS
  MaxMsg,     \* bound: messages the conversation gets; ids are 1..MaxMsg
  MaxFact,    \* bound: facts the ledger gets; ids are 1..MaxFact
  Claim,      \* what a fact can say
  Days,       \* the days a fact can be dated to
  Runner,     \* threads that run a distill of this conversation
  NoRunner,   \* nobody holds the conversation's lock
  ChunkMsgs,  \* CHUNK_MSGS
  Kinds       \* what arrives: a "person" (or a record of the owner's activity)
              \* speaks, or a model "seat" does

ASSUME DistillAssumption ==
  /\ MaxMsg \in Nat /\ MaxFact \in Nat
  /\ Kinds \subseteq {"person", "seat"}
  /\ ChunkMsgs \in Nat \ {0}
  /\ Days \subseteq Nat
  /\ NoRunner \notin Runner

Msg == 1..MaxMsg
FactId == 1..MaxFact

VARIABLES
  msg,     \* msg[m]: its row, while it is there: who speaks
  mined,   \* conversations.mined_upto
  fact,    \* fact[f]: its row, while it is there; by is superseded_by, or 0
  lock,    \* the holder of the conversation's distill lock, or NoRunner
  run,     \* run[r]: the locals of r's distill()
  handled, \* history: the messages read by a miner whose reply came whole, with
           \* nobody speaking, or given up on
  owed     \* history: what was pending when a request was skipped

vars == <<msg, mined, fact, lock, run, handled, owed>>

FactRow == [state : {"none", "live", "held", "erased"}, what : Claim \cup {"nothing"},
            src : Msg \cup {0}, day : Nat, by : FactId \cup {0}, here : BOOLEAN]

Run == [at : {"off", "look", "miner", "lines", "supersede", "leaving"},
        chunk : SUBSET Msg, last : Msg \cup {0}, limit : Nat, roomy : BOOLEAN,
        valid : SUBSET FactId,
        new : FactId \cup {0}, day : Nat, old : SUBSET FactId]

TypeOK ==
  /\ msg \in [Msg -> Kinds \cup {"unsent", "erased"}]
  /\ mined \in Msg \cup {0}
  /\ fact \in [FactId -> FactRow]
  /\ lock \in Runner \cup {NoRunner}
  /\ run \in [Runner -> Run]
  /\ handled \in SUBSET Msg /\ owed \in SUBSET Msg

Off == [at |-> "off", chunk |-> {}, last |-> 0, limit |-> 0, roomy |-> FALSE,
        valid |-> {}, new |-> 0, day |-> 0, old |-> {}]

NoRow == [state |-> "none", what |-> "nothing", src |-> 0, day |-> 0, by |-> 0,
          here |-> FALSE]

Init ==
  /\ msg = [m \in Msg |-> "unsent"]
  /\ mined = 0
  /\ fact = [f \in FactId |-> NoRow]
  /\ lock = NoRunner
  /\ run = [r \in Runner |-> Off]
  /\ handled = {} /\ owed = {}

-----------------------------------------------------------------------------
(* The conversation and the ledger, as others change them. *)

Kept(m) == msg[m] \in Kinds

\* messages_after: what is above the watermark.
Pending == {m \in Msg : Kept(m) /\ m > mined}

InLedger(f) == fact[f].state \in {"live", "held"}
Current(f) == InLedger(f) /\ fact[f].by = 0

\* ingest: the message and what came with it, in one commit.
Ingest(m, kind) ==
  /\ msg[m] = "unsent"
  /\ \A k \in Msg : k < m => msg[k] # "unsent"
  /\ msg' = [msg EXCEPT ![m] = kind]
  /\ UNCHANGED <<mined, fact, lock, run, handled, owed>>

\* erase_message: the row goes, and the facts in use that came from it are held.
EraseMessage(m) ==
  /\ Kept(m)
  /\ msg' = [msg EXCEPT ![m] = "erased"]
  /\ fact' = [f \in FactId |->
       IF fact[f].src = m /\ fact[f].state = "live" /\ fact[f].by = 0
         THEN [fact[f] EXCEPT !.state = "held"] ELSE fact[f]]
  /\ UNCHANGED <<mined, lock, run, handled, owed>>

NextFact(f) == fact[f].state = "none" /\ \A g \in FactId : g < f => fact[g].state # "none"

SetRow(f, row) ==
  /\ fact' = [fact EXCEPT ![f] = row]
  /\ UNCHANGED <<msg, mined, lock, run, handled, owed>>

\* A fact from elsewhere: saved directly, or mined from another conversation.
SaveElsewhere(f, c, d) ==
  NextFact(f) /\ SetRow(f, [NoRow EXCEPT !.state = "live", !.what = c, !.day = d])

\* The owner holds, approves or erases a fact.
Hold(f) == fact[f].state = "live" /\ SetRow(f, [fact[f] EXCEPT !.state = "held"])
Approve(f) == fact[f].state = "held" /\ SetRow(f, [fact[f] EXCEPT !.state = "live"])
EraseFact(f) == InLedger(f) /\ SetRow(f, [NoRow EXCEPT !.state = "erased"])

-----------------------------------------------------------------------------
(* A run. *)

At(r, place) == run[r].at = place

\* Mutant of Start: the lock is not looked at.
StartBeside(r) ==
  /\ At(r, "off")
  /\ \E m \in Msg : msg[m] # "unsent"
  /\ lock' = r
  /\ run' = [run EXCEPT ![r] = [Off EXCEPT !.at = "look", !.limit = ChunkMsgs]]
  /\ owed' = {}
  /\ UNCHANGED <<msg, mined, fact, handled>>

\* The lock is free: the run reads the watermark.
Start(r) ==
  /\ At(r, "off") /\ lock = NoRunner
  /\ \E m \in Msg : msg[m] # "unsent"
  /\ lock' = r
  /\ run' = [run EXCEPT ![r] = [Off EXCEPT !.at = "look", !.limit = ChunkMsgs]]
  /\ owed' = {}
  /\ UNCHANGED <<msg, mined, fact, handled>>

\* The lock is taken: skipped_locked.  What is pending is left to the run in flight,
\* which deals with it unless it has looked for the last time.
Skip ==
  /\ lock # NoRunner
  /\ owed' = IF At(lock, "leaving") THEN owed ELSE owed \cup Pending
  /\ UNCHANGED <<msg, mined, fact, lock, run, handled>>

UpTo(last) == {m \in Pending : m <= last}

\* _next_chunk: at most limit messages, fewer when they are long, at least one.
IsChunk(last, limit) == last \in Pending /\ Cardinality(UpTo(last)) <= limit

Speaks(m) == msg[m] = "person"

\* Nobody speaks in the chunk: the watermark moves on without a call.
SkipModelTurns(r, last) ==
  /\ At(r, "look") /\ IsChunk(last, run[r].limit)
  /\ \A m \in UpTo(last) : ~Speaks(m)
  /\ mined' = last
  /\ handled' = handled \cup UpTo(last)
  /\ run' = [run EXCEPT ![r].roomy = FALSE]
  /\ UNCHANGED <<msg, fact, lock, owed>>

\* The facts in use are listed and the miner is called.
CallMiner(r, last) ==
  /\ At(r, "look") /\ IsChunk(last, run[r].limit)
  /\ \E m \in UpTo(last) : Speaks(m)
  /\ run' = [run EXCEPT ![r] = [@ EXCEPT !.at = "miner", !.last = last,
               !.chunk = UpTo(last),
               !.valid = {f \in FactId : fact[f].state = "live" /\ fact[f].by = 0}]]
  /\ UNCHANGED <<msg, mined, fact, lock, handled, owed>>

\* Back to the top of the loop.
Look(r, limit, roomy) ==
  run' = [run EXCEPT ![r] = [@ EXCEPT !.at = "look", !.last = 0, !.chunk = {},
            !.valid = {}, !.limit = limit, !.roomy = roomy]]

\* Mutant of MineHalf: the same messages again.
MineAgain(r) ==
  /\ At(r, "miner") /\ Cardinality(run[r].chunk) > 1
  /\ Look(r, run[r].limit, run[r].roomy)
  /\ UNCHANGED <<msg, mined, fact, lock, handled, owed>>

\* The reply is cut short: half the messages, from here on.
MineHalf(r) ==
  /\ At(r, "miner") /\ Cardinality(run[r].chunk) > 1
  /\ Look(r, Cardinality(run[r].chunk) \div 2, run[r].roomy)
  /\ UNCHANGED <<msg, mined, fact, lock, handled, owed>>

\* A single message's reply ran out of room: once more with more of it.
MineRoomy(r) ==
  /\ At(r, "miner") /\ Cardinality(run[r].chunk) = 1 /\ ~run[r].roomy
  /\ Look(r, run[r].limit, TRUE)
  /\ UNCHANGED <<msg, mined, fact, lock, handled, owed>>

\* It ran out again, or the model refused: the message is left unmined.
LeaveUnmined(r, refused) ==
  /\ At(r, "miner") /\ Cardinality(run[r].chunk) = 1
  /\ refused \/ run[r].roomy
  /\ mined' = run[r].last
  /\ handled' = handled \cup run[r].chunk
  /\ Look(r, run[r].limit, FALSE)
  /\ UNCHANGED <<msg, fact, lock, owed>>

\* The reply is whole.
MinerAnswers(r) ==
  /\ At(r, "miner")
  /\ run' = [run EXCEPT ![r].at = "lines"]
  /\ handled' = handled \cup run[r].chunk
  /\ UNCHANGED <<msg, mined, fact, lock, owed>>

\* Mutant of Duplicate: a held fact is no duplicate.
DuplicateInUse(c) ==
  \E f \in FactId : Current(f) /\ fact[f].here /\ fact[f].what = c /\ fact[f].state = "live"

\* add_fact's guard: this conversation has the claim already.
Duplicate(c) == \E f \in FactId : Current(f) /\ fact[f].here /\ fact[f].what = c

\* A line that is not a duplicate is added.  One that is held supersedes nothing,
\* and ids the miner was not shown are passed over.
AddLine(r, f, row, old) ==
  /\ At(r, "lines") /\ NextFact(f) /\ ~Duplicate(row.what)
  /\ row.src \in run[r].chunk \cup {0}
  /\ fact' = [fact EXCEPT ![f] = row]
  /\ LET still == IF row.state = "held" THEN {} ELSE old \cap run[r].valid IN
       run' = IF still = {} THEN run
              ELSE [run EXCEPT ![r] = [@ EXCEPT !.at = "supersede", !.new = f,
                                         !.day = row.day, !.old = still]]
  /\ UNCHANGED <<msg, mined, lock, handled, owed>>

MinedRows == {[state |-> s, what |-> c, src |-> m, day |-> d, by |-> 0, here |-> TRUE] :
                s \in {"live", "held"}, c \in Claim, m \in Msg \cup {0}, d \in Days}

\* Mutant of Supersede: the target's date is not looked at.
SupersedeUndated(r, t) ==
  /\ At(r, "supersede") /\ t \in run[r].old
  /\ fact' = IF Current(t) THEN [fact EXCEPT ![t].by = run[r].new] ELSE fact
  /\ LET still == run[r].old \ {t} IN
       run' = [run EXCEPT ![r] = IF still # {} THEN [@ EXCEPT !.old = still]
                 ELSE [@ EXCEPT !.at = "lines", !.new = 0, !.day = 0, !.old = {}]]
  /\ UNCHANGED <<msg, mined, lock, handled, owed>>

\* One of the line's supersessions: done, or refused because the target is dated
\* more than a day later, or too late to do.
Supersede(r, t) ==
  /\ At(r, "supersede") /\ t \in run[r].old
  /\ fact' = IF Current(t) /\ fact[t].day - run[r].day <= 1
               THEN [fact EXCEPT ![t].by = run[r].new] ELSE fact
  /\ LET still == run[r].old \ {t} IN
       run' = [run EXCEPT ![r] = IF still # {} THEN [@ EXCEPT !.old = still]
                 ELSE [@ EXCEPT !.at = "lines", !.new = 0, !.day = 0, !.old = {}]]
  /\ UNCHANGED <<msg, mined, lock, handled, owed>>

\* Mutant of ChunkDone: the watermark goes to the newest message there is now.
ChunkDoneToNewest(r) ==
  /\ At(r, "lines")
  /\ \E newest \in Pending \cup {run[r].last} :
       /\ \A m \in Pending : m <= newest
       /\ mined' = newest
  /\ Look(r, run[r].limit, FALSE)
  /\ UNCHANGED <<msg, fact, lock, handled, owed>>

\* All lines are in: _advance.
ChunkDone(r) ==
  /\ At(r, "lines")
  /\ mined' = run[r].last
  /\ Look(r, run[r].limit, FALSE)
  /\ UNCHANGED <<msg, fact, lock, handled, owed>>

\* Mutant of NothingPending: one chunk a request.
NothingPendingAtOnce(r) ==
  /\ At(r, "look")
  /\ run' = [run EXCEPT ![r].at = "leaving"]
  /\ UNCHANGED <<msg, mined, fact, lock, handled, owed>>

\* Nothing is pending: the run has looked for the last time.
NothingPending(r) ==
  /\ At(r, "look") /\ Pending = {}
  /\ run' = [run EXCEPT ![r].at = "leaving"]
  /\ UNCHANGED <<msg, mined, fact, lock, handled, owed>>

Release(r) == lock' = NoRunner /\ run' = [run EXCEPT ![r] = Off]

\* The profile is rebuilt, when facts were added and the request asked for it, the
\* result is counted, and the lock is let go, whether the rebuild raised or not.
Leaves(r) ==
  /\ At(r, "leaving")
  /\ Release(r)
  /\ UNCHANGED <<msg, mined, fact, handled, owed>>

\* A model call or the database raises: the job reports it, and what has been
\* committed stays.
Fails(r) ==
  /\ run[r].at \in {"look", "miner", "lines", "supersede"}
  /\ Release(r)
  /\ owed' = {}
  /\ UNCHANGED <<msg, mined, fact, handled>>

\* The process dies and comes back: the threads and the lock are gone.
Crash ==
  /\ lock' = NoRunner /\ run' = [r \in Runner |-> Off]
  /\ owed' = {}
  /\ UNCHANGED <<msg, mined, fact, handled>>

-----------------------------------------------------------------------------
Next ==
  \/ \E m \in Msg : EraseMessage(m) \/ \E kind \in Kinds : Ingest(m, kind)
  \/ \E f \in FactId : \/ \E c \in Claim, d \in Days : SaveElsewhere(f, c, d)
                       \/ Hold(f) \/ Approve(f) \/ EraseFact(f)
  \/ Skip \/ Crash
  \/ \E r \in Runner :
       \/ Start(r) \/ MineHalf(r) \/ MineRoomy(r) \/ MinerAnswers(r) \/ ChunkDone(r)
       \/ NothingPending(r) \/ Leaves(r) \/ Fails(r)
       \/ \E refused \in BOOLEAN : LeaveUnmined(r, refused)
       \/ \E last \in Msg : SkipModelTurns(r, last) \/ CallMiner(r, last)
       \/ \E f \in FactId, row \in MinedRows, old \in SUBSET FactId :
            AddLine(r, f, row, old)
       \/ \E t \in FactId : Supersede(r, t)

Spec == Init /\ [][Next]_vars

-----------------------------------------------------------------------------
(* Properties. *)

\* The watermark never passes a message nobody dealt with: everything kept at or
\* below it was read by a miner whose reply came whole, had nobody speaking, or
\* was given up on, whatever arrived, was erased or died while it was in work.
NothingPassedOver == \A m \in Msg : m <= mined /\ Kept(m) => m \in handled

\* The watermark never moves back, so no message is mined again once it is done.
WatermarkNeverBack == [][mined' >= mined]_vars

\* A chunk mined again, after a failure, a crash or another run, multiplies
\* nothing: the conversation has a claim at most once among its current facts.
NoTwins ==
  \A f, g \in FactId :
    Current(f) /\ fact[f].here /\ Current(g) /\ fact[g].here
      /\ fact[f].what = fact[g].what => f = g

\* Mining retires a fact only for one that the walls let in, and never for an
\* older claim, whatever became of the two since the miner was shown the first.
SoundSupersession ==
  /\ [][\A r \in Runner : run[r].at = "lines" /\ run'[r].at = "supersede" =>
          fact'[run'[r].new].state = "live"]_vars
  /\ [][\A t \in FactId : fact[t].by = 0 /\ fact'[t].by # 0 =>
          \E r \in Runner : run[r].at = "supersede" /\ fact[t].day - run[r].day <= 1]_vars

\* A reply cut short never leaves the run where it was: each turn of the loop
\* moves the watermark, or takes fewer messages, or gives one message more room.
\* As the limit never grows and room is taken back only when the watermark moves,
\* a model that finishes nothing cannot keep a run going.
EveryTurnNarrows ==
  [][\A r \in Runner :
       run[r].at \in {"miner", "lines"} /\ run'[r].at = "look" =>
         \/ mined' > mined
         \/ run'[r].limit < run[r].limit
         \/ run'[r].limit = run[r].limit /\ ~run[r].roomy /\ run'[r].roomy]_vars

\* mining.py on a second run: "Skip - the in-flight run covers these messages": what
\* was pending when a request was skipped is dealt with when the lock is free again,
\* whatever arrived and was cut short since; unless that run failed, or had already
\* found nothing pending (mining.py:393-447: what arrives between the empty look and
\* the release of the lock, and is asked for then, waits for the next request).
SkippedIsCovered == lock = NoRunner => \A m \in owed : Kept(m) => m <= mined
=============================================================================

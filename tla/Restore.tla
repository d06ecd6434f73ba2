------------------------------ MODULE Restore ------------------------------
(***************************************************************************)
(* Snapshots, erasures and the restore (memory_service/restore.py,         *)
(* erasers.py, sessions.py, the journal and the backups of db.py).         *)
(*                                                                         *)
(* A snapshot is the whole database at one time, its erasure journal and   *)
(* its sign-ins included.  A restore copies one over the live file, ends   *)
(* every sign-in and erases again, one commit each, what the live journal  *)
(* knew to be erased and the copy does not.  It runs with the service      *)
(* stopped, and may die between any two commits.                           *)
(*                                                                         *)
(* The owner's things are facts and messages.  A row keeps its id in every *)
(* copy, and a journal names rows by kind and id; but a copy also sets the *)
(* id sequences back, so rows of two lineages may share an id.             *)
(***************************************************************************)
EXTENDS Integers, Sequences

CONSTANTS
  Fact, Message,  \* what is ever saved, each once
  NoMessage,      \* a fact that was not mined
  Session,        \* sign-ins ever made
  NoCopy,         \* no snapshot is kept for undoing a restore
  Keep,           \* backup_keep
  MaxErasures, MaxRestores

ASSUME RestoreAssumption ==
  /\ Fact \cap Message = {} /\ NoMessage \notin Fact \cup Message
  /\ MaxErasures \in Nat /\ Keep \in Nat \ {0} /\ MaxRestores \in Nat

Item == Fact \cup Message
Kind == {"fact", "message"}
KindOf(x) == IF x \in Fact THEN "fact" ELSE "message"

\* A row is in use as it came ("kept"), held for review, or approved after that.
Status == {"absent", "kept", "held", "approved"}
Tombstone == [kind : Kind, id : Nat, ts : Nat]

\* A database file.  next holds the id sequences (AUTOINCREMENT).
Database == [is : [Item -> Status], next : [Kind -> Nat],
             journal : SUBSET Tombstone, sessions : SUBSET Session]

VARIABLES
  live,        \* the live database
  snaps,       \* the snapshots in data/backups, the newest last
  restoring,   \* "no", "copied" or "replaying": where the restore is
  todo,        \* the tombstones it has still to replay
  home,        \* home[x]: the id x was saved under, 0 before that
  source,      \* source[f]: the message fact f was mined from
  clock,       \* the time of the last erasure
  restores,    \* how many restores were begun
  erased,      \* history: what the owner erased, and when
  minted, ended, \* history: sign-ins made, and ended by the owner or a restore
  interrupted, \* history: a restore died and has not been undone
  undo,        \* history: the copy that restore kept of the database before it
  curing       \* history: the restore under way goes back to that copy

histories == <<interrupted, undo, curing>>
vars == <<live, snaps, restoring, todo, home, source, clock, restores, erased,
          minted, ended, histories>>

TypeOK ==
  /\ live \in Database
  /\ snaps \in Seq(Database)
  /\ restoring \in {"no", "copied", "replaying"}
  /\ todo \in SUBSET Tombstone
  /\ home \in [Item -> Nat]
  /\ source \in [Fact -> Message \cup {NoMessage}]
  /\ clock \in Nat /\ restores \in Nat
  /\ erased \in SUBSET [item : Item, ts : Nat]
  /\ minted \in SUBSET Session /\ ended \in SUBSET Session
  /\ interrupted \in BOOLEAN /\ curing \in BOOLEAN
  /\ undo \in Database \cup {NoCopy}

Init ==
  /\ live = [is |-> [x \in Item |-> "absent"], next |-> [k \in Kind |-> 0],
             journal |-> {}, sessions |-> {}]
  /\ snaps = <<>>
  /\ restoring = "no" /\ todo = {}
  /\ home = [x \in Item |-> 0]
  /\ source = [f \in Fact |-> NoMessage]
  /\ clock = 0 /\ restores = 0
  /\ erased = {} /\ minted = {} /\ ended = {}
  /\ interrupted = FALSE /\ undo = NoCopy /\ curing = FALSE

Serving == restoring = "no"

-----------------------------------------------------------------------------
(* The erasers, for the owner and for the replay. *)

\* Mutant of Named: whatever table the id is of.
NamedByRef(d, t) == {x \in Item : d.is[x] # "absent" /\ home[x] = t.id}

\* The rows a tombstone names.
Named(d, t) == {x \in Item : d.is[x] # "absent" /\ KindOf(x) = t.kind /\ home[x] = t.id}

\* Mutant of Without: the facts mined from an erased message stay as they are.
WithoutOnly(d, gone, t) ==
  [d EXCEPT !.is = [x \in Item |-> IF x \in gone THEN "absent" ELSE d.is[x]],
            !.journal = d.journal \cup {t}]

\* The rows go; facts in use that were mined from them are held; the tombstone is
\* written in the same commit.
Without(d, gone, t) ==
  [d EXCEPT !.is = [x \in Item |->
              IF x \in gone THEN "absent"
              ELSE IF /\ x \in Fact /\ source[x] \in gone
                      /\ d.is[x] \in {"kept", "approved"} THEN "held"
              ELSE d.is[x]],
            !.journal = d.journal \cup {t}]

\* The owner presses an eraser.
Erase(x) ==
  LET t == [kind |-> KindOf(x), id |-> home[x], ts |-> clock + 1] IN
  /\ Serving /\ clock < MaxErasures
  /\ live.is[x] # "absent"
  /\ live' = Without(live, {x}, t)
  /\ clock' = clock + 1
  /\ erased' = erased \cup {[item |-> x, ts |-> clock + 1]}
  /\ UNCHANGED <<snaps, restoring, todo, home, source, restores, minted, ended, histories>>

-----------------------------------------------------------------------------
(* The service. *)

\* A new row gets the next id of its table.
Insert(x) ==
  /\ Serving /\ home[x] = 0
  /\ home' = [home EXCEPT ![x] = live.next[KindOf(x)] + 1]
  /\ live' = [live EXCEPT !.is[x] = "kept", !.next[KindOf(x)] = @ + 1]
  /\ UNCHANGED <<snaps, restoring, todo, clock, restores, erased, minted, ended, histories>>

Ingest(m) == Insert(m) /\ UNCHANGED source

\* A fact is saved, by the owner or mined from a message that is there.
AddFact(f, m) ==
  /\ m # NoMessage => live.is[m] # "absent"
  /\ Insert(f)
  /\ source' = [source EXCEPT ![f] = m]

\* The owner approves a fact that is held for its source.
Approve(f) ==
  /\ Serving /\ live.is[f] = "held"
  /\ live' = [live EXCEPT !.is[f] = "approved"]
  /\ UNCHANGED <<snaps, restoring, todo, home, source, clock, restores, erased,
                 minted, ended, histories>>

\* sessions.mint: a fresh random id.
SignIn(s) ==
  /\ Serving /\ s \notin minted
  /\ live' = [live EXCEPT !.sessions = @ \cup {s}]
  /\ minted' = minted \cup {s}
  /\ UNCHANGED <<snaps, restoring, todo, home, source, clock, restores, erased,
                 ended, histories>>

\* sessions.revoke, or revoke_all on a reset or a passkey's removal.
Revoke(S) ==
  /\ Serving /\ S # {} /\ S \subseteq live.sessions
  /\ live' = [live EXCEPT !.sessions = @ \ S]
  /\ ended' = ended \cup S
  /\ UNCHANGED <<snaps, restoring, todo, home, source, clock, restores, erased,
                 minted, histories>>

\* db._rotate: the newest Keep stay.
Rotated(s) == IF Len(s) > Keep THEN SubSeq(s, Len(s) - Keep + 1, Len(s)) ELSE s

\* db._copy_snapshot: a copy like the newest one is discarded.
Snapshot ==
  IF snaps # <<>> /\ snaps[Len(snaps)] = live THEN snaps ELSE Rotated(Append(snaps, live))

Backup ==
  /\ Serving /\ snaps' = Snapshot
  /\ UNCHANGED <<live, restoring, todo, home, source, clock, restores, erased,
                 minted, ended, histories>>

-----------------------------------------------------------------------------
(* The restore. *)

\* missing_erasures, by kind, ref and ts.
Missing(d) == {t \in live.journal : t \notin d.journal}

\* restore(): the live database is copied aside, where no rotation follows, and the
\* n-th snapshot over it.
RestoreBegins(n) ==
  LET d == snaps[n] IN
  /\ Serving /\ restores < MaxRestores
  /\ restores' = restores + 1
  /\ todo' = Missing(d)
  /\ snaps' = Append(snaps, live)
  /\ live' = d
  /\ restoring' = "copied"
  /\ curing' = (interrupted /\ undo # NoCopy /\ d = undo)
  /\ undo' = IF interrupted THEN undo ELSE live
  /\ UNCHANGED <<home, source, clock, erased, minted, ended, interrupted>>

\* Mutant of EndsSignIns: the sign-ins of the copy stay good.
EndsNone ==
  /\ restoring = "copied" /\ restoring' = "replaying"
  /\ snaps' = Snapshot
  /\ ended' = minted
  /\ UNCHANGED <<live, todo, home, source, clock, restores, erased, minted, histories>>

\* db.init, which takes a snapshot of the copy and rotates; then sessions.revoke_all.
EndsSignIns ==
  /\ restoring = "copied" /\ restoring' = "replaying"
  /\ snaps' = Snapshot
  /\ live' = [live EXCEPT !.sessions = {}]
  /\ ended' = minted
  /\ UNCHANGED <<todo, home, source, clock, restores, erased, minted, histories>>

\* Mutant of Replayed: a tombstone that finds no row is not written.
ReplayedIfThere(d, t) == IF Named(d, t) = {} THEN d ELSE Without(d, Named(d, t), t)

\* One tombstone through its eraser: whatever row the copy has under that id goes,
\* and the tombstone is written under its own time, also when there is none.
Replayed(d, t) == Without(d, Named(d, t), t)

Replay(t) ==
  /\ restoring = "replaying" /\ t \in todo
  /\ live' = Replayed(live, t)
  /\ todo' = todo \ {t}
  /\ UNCHANGED <<snaps, restoring, home, source, clock, restores, erased, minted,
                 ended, histories>>

RestoreEnds ==
  /\ restoring = "replaying" /\ todo = {}
  /\ restoring' = "no"
  /\ interrupted' = (interrupted /\ ~curing)
  /\ curing' = FALSE
  /\ UNCHANGED <<live, snaps, todo, home, source, clock, restores, erased, minted,
                 ended, undo>>

\* The process dies, or raises (the copy's schema is newer than the code).  What
\* was left to replay is nowhere but in the copy kept aside.
RestoreDies ==
  /\ ~Serving
  /\ restoring' = "no" /\ todo' = {}
  /\ interrupted' = TRUE /\ curing' = FALSE
  /\ undo' = IF interrupted THEN NoCopy ELSE undo
  /\ UNCHANGED <<live, snaps, home, source, clock, restores, erased, minted, ended>>

-----------------------------------------------------------------------------
Next ==
  \/ \E x \in Item : Erase(x)
  \/ \E m \in Message : Ingest(m)
  \/ \E f \in Fact : Approve(f) \/ \E m \in Message \cup {NoMessage} : AddFact(f, m)
  \/ \E s \in Session : SignIn(s)
  \/ \E S \in SUBSET Session : Revoke(S)
  \/ Backup \/ \E n \in 1 .. Len(snaps) : RestoreBegins(n)
  \/ EndsSignIns \/ \E t \in todo : Replay(t)
  \/ RestoreEnds \/ RestoreDies

Spec == Init /\ [][Next]_vars

-----------------------------------------------------------------------------
(* Properties. *)

\* The service runs, and no restore that died is left as it was.
Sound == Serving /\ ~interrupted

\* README: "a restore never brings back what you erased", through any number of
\* restores, in either direction, of snapshots older and newer than the erasure; and
\* through one that died, once the copy it kept has been restored.
ErasedStaysErased == Sound => \A e \in erased : live.is[e.item] = "absent"

\* A fact mined from a message that was erased since is not in use, unless the
\* owner approved it after that, whichever copy it comes from.
SourceErasedIsHeld ==
  Sound => \A f \in Fact, e \in erased : source[f] = e.item => live.is[f] # "kept"

\* A sign-in that was ended stays ended, though snapshots still carry it.
EndedStaysEnded == Sound => live.sessions \cap ended = {}

\* docs/MEMORY_INTEGRITY.md: "A fact is hard-deleted only when a person presses the
\* eraser, or when a restore replays that same erasure."  A tombstone names its row
\* by an id, which a restored copy may have given to another row of the same kind: that
\* row goes as well, and no other.
OnlyErasedGoes ==
  [][restoring' = "copied" \/
     \A x \in Item : live.is[x] # "absent" /\ live'.is[x] = "absent" =>
       \E e \in erased' : KindOf(e.item) = KindOf(x) /\ home[e.item] = home[x]]_vars
=============================================================================

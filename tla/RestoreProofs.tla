--------------------------- MODULE RestoreProofs ---------------------------
(***************************************************************************)
(* What was erased stays erased, for any facts, messages and snapshots and *)
(* any number of erasures, restores and crashes.  Every copy of the        *)
(* database is honest about its own journal; so it is enough that the      *)
(* journal is whole, in the live file together with what a restore has     *)
(* still to replay.                                                        *)
(***************************************************************************)
EXTENDS Restore, TLAPS

Snaps == {snaps[n] : n \in 1 .. Len(snaps)}
Copies == Snaps \cup {live}
TombOf(e) == [kind |-> KindOf(e.item), id |-> home[e.item], ts |-> e.ts]
Knows(journal) == \A e \in erased : TombOf(e) \in journal

\* A row that is or was anywhere has its id, and no tombstone is of the future.
Numbered ==
  /\ \A e \in erased : home[e.item] # 0 /\ e.ts <= clock
  /\ \A d \in Copies : /\ \A x \in Item : d.is[x] # "absent" => home[x] # 0
                       /\ \A t \in d.journal : t.ts <= clock
  /\ \A t \in todo : t.ts <= clock

\* No copy holds a row that its own journal says was erased.
Honest(d) == \A e \in erased : TombOf(e) \in d.journal => d.is[e.item] = "absent"

\* In no copy is a fact in use as it came whose message is not there.
Bound(d) ==
  \A f \in Fact : d.is[f] = "kept" /\ source[f] # NoMessage => d.is[source[f]] # "absent"

\* No tombstone is lost unless a restore died; then the copy it kept has the rest.
Remembered ==
  /\ ~interrupted \/ curing => Knows(live.journal \cup todo)
  /\ interrupted /\ undo # NoCopy => Knows(undo.journal \cup live.journal \cup todo)
  /\ ~Serving /\ ~interrupted => Knows(undo.journal)
  /\ Serving => todo = {} /\ ~curing

SignInsEnded ==
  /\ ended \subseteq minted /\ \A d \in Copies : d.sessions \subseteq minted
  /\ restoring = "replaying" => live.sessions = {}
  /\ Sound => live.sessions \cap ended = {}

IInv ==
  /\ TypeOK /\ Numbered
  /\ \A d \in Copies : Honest(d) /\ Bound(d)
  /\ Remembered /\ SignInsEnded

-----------------------------------------------------------------------------
(* Databases. *)

LEMMA Items ==
  /\ Fact \subseteq Item /\ Message \subseteq Item
  /\ \A x \in Item : KindOf(x) \in Kind
  /\ \A m \in Message : m \notin Fact /\ m # NoMessage
  BY RestoreAssumption DEF RestoreAssumption, Item, Kind, KindOf

LEMMA Fields ==
  ASSUME NEW d \in Database
  PROVE  /\ d.is \in [Item -> Status] /\ d.next \in [Kind -> Nat]
         /\ d.journal \in SUBSET Tombstone /\ d.sessions \in SUBSET Session
  BY DEF Database

LEMMA SnapsIn ==
  ASSUME NEW s \in Seq(Database)
  PROVE  \A n \in 1 .. Len(s) : s[n] \in Database
  OBVIOUS

\* Copying aside and rotating make no copy that was not there.
LEMMA Copied ==
  ASSUME NEW s \in Seq(Database), NEW d \in Database
  PROVE  /\ Append(s, d) \in Seq(Database)
         /\ \A n \in 1 .. Len(Append(s, d)) :
              Append(s, d)[n] = d \/ \E i \in 1 .. Len(s) : Append(s, d)[n] = s[i]
  OBVIOUS

LEMMA RotatedKeeps ==
  ASSUME NEW s \in Seq(Database)
  PROVE  /\ Rotated(s) \in Seq(Database)
         /\ \A n \in 1 .. Len(Rotated(s)) : \E i \in 1 .. Len(s) : Rotated(s)[n] = s[i]
<1>1. CASE Len(s) <= Keep
  BY <1>1, RestoreAssumption DEF Rotated, RestoreAssumption
<1>2. CASE Len(s) > Keep
  <2> DEFINE from == Len(s) - Keep + 1
  <2>1. from \in 1 .. Len(s) /\ Rotated(s) = SubSeq(s, from, Len(s))
    BY <1>2, RestoreAssumption DEF Rotated, RestoreAssumption
  <2> HIDE DEF from
  <2>2. /\ SubSeq(s, from, Len(s)) \in Seq(Database)
        /\ Len(SubSeq(s, from, Len(s))) = Len(s) - from + 1
        /\ \A n \in 1 .. Len(s) - from + 1 : SubSeq(s, from, Len(s))[n] = s[from + n - 1]
    BY <2>1
  <2>3. \A n \in 1 .. Len(s) - from + 1 : from + n - 1 \in 1 .. Len(s)
    BY <2>1
  <2> QED BY <2>1, <2>2, <2>3
<1> QED
  BY <1>1, <1>2, RestoreAssumption DEF RestoreAssumption

LEMMA SnapshotIsCopy ==
  ASSUME TypeOK
  PROVE  /\ Snapshot \in Seq(Database)
         /\ \A n \in 1 .. Len(Snapshot) : Snapshot[n] \in Copies
<1>1. snaps \in Seq(Database) /\ live \in Database
  BY DEF TypeOK
<1>2. CASE Snapshot = snaps
  BY <1>1, <1>2 DEF Copies, Snaps
<1>3. CASE Snapshot = Rotated(Append(snaps, live))
  <2>1. /\ Append(snaps, live) \in Seq(Database)
        /\ \A n \in 1 .. Len(Append(snaps, live)) : Append(snaps, live)[n] \in Copies
    BY <1>1, Copied DEF Copies, Snaps
  <2> QED BY <1>3, <2>1, RotatedKeeps
<1> QED
  BY <1>2, <1>3 DEF Snapshot

\* What the erasers make of a database.
LEMMA WithoutFields ==
  ASSUME NEW d \in Database, NEW gone, NEW t \in Tombstone
  PROVE  /\ Without(d, gone, t) \in Database
         /\ Without(d, gone, t).journal = d.journal \cup {t}
         /\ Without(d, gone, t).sessions = d.sessions
         /\ \A x \in Item :
              Without(d, gone, t).is[x] =
                IF x \in gone THEN "absent"
                ELSE IF /\ x \in Fact /\ source[x] \in gone
                        /\ d.is[x] \in {"kept", "approved"} THEN "held"
                ELSE d.is[x]
<1> DEFINE was == [x \in Item |->
              IF x \in gone THEN "absent"
              ELSE IF /\ x \in Fact /\ source[x] \in gone
                      /\ d.is[x] \in {"kept", "approved"} THEN "held"
              ELSE d.is[x]]
<1>1. was \in [Item -> Status]
  BY Fields DEF Status
<1>2. d.journal \cup {t} \in SUBSET Tombstone
  BY Fields
<1>3. Without(d, gone, t) = [d EXCEPT !.is = was, !.journal = d.journal \cup {t}]
  BY DEF Without
<1> HIDE DEF was
<1>4. /\ Without(d, gone, t) \in Database /\ Without(d, gone, t).is = was
      /\ Without(d, gone, t).journal = d.journal \cup {t}
      /\ Without(d, gone, t).sessions = d.sessions
  BY <1>1, <1>2, <1>3 DEF Database
<1> QED
  BY <1>4 DEF was

\* The erasers bring nothing back, and hold what was mined from a message that goes.
LEMMA WithoutKeeps ==
  ASSUME NEW d \in Database, NEW gone, NEW t \in Tombstone,
         source \in [Fact -> Message \cup {NoMessage}]
  PROVE  /\ \A x \in Item : d.is[x] = "absent" => Without(d, gone, t).is[x] = "absent"
         /\ \A x \in Item : x \in gone => Without(d, gone, t).is[x] = "absent"
         /\ Bound(d) => Bound(Without(d, gone, t))
<1>1. \A x \in Item : /\ d.is[x] = "absent" => Without(d, gone, t).is[x] = "absent"
                      /\ x \in gone => Without(d, gone, t).is[x] = "absent"
  BY WithoutFields
<1>2. ASSUME Bound(d), NEW f \in Fact, Without(d, gone, t).is[f] = "kept",
             source[f] # NoMessage
      PROVE  Without(d, gone, t).is[source[f]] # "absent"
  <2>1. source[f] \in Item /\ source[f] \notin Fact /\ f \in Item
    BY <1>2, Items
  <2>2. source[f] \notin gone /\ d.is[f] = "kept"
    BY <1>2, <2>1, WithoutFields
  <2>3. d.is[source[f]] # "absent"
    BY <1>2, <2>2 DEF Bound
  <2> QED BY <2>1, <2>2, <2>3, WithoutFields
<1> QED
  BY <1>1, <1>2 DEF Bound

\* A row that is put in, a fact that is approved, sign-ins that come and go.
LEMMA Inserted ==
  ASSUME NEW d \in Database, NEW x \in Item, NEW k \in Kind, NEW n \in Nat
  PROVE  LET new == [d EXCEPT !.is[x] = "kept", !.next[k] = n] IN
         /\ new \in Database /\ new.is = [d.is EXCEPT ![x] = "kept"]
         /\ new.journal = d.journal /\ new.sessions = d.sessions
  BY DEF Database, Status

LEMMA Approved ==
  ASSUME NEW d \in Database, NEW x \in Item
  PROVE  LET new == [d EXCEPT !.is[x] = "approved"] IN
         /\ new \in Database /\ new.is = [d.is EXCEPT ![x] = "approved"]
         /\ new.journal = d.journal /\ new.sessions = d.sessions
  BY DEF Database, Status

LEMMA Signed ==
  ASSUME NEW d \in Database, NEW S \in SUBSET Session
  PROVE  LET new == [d EXCEPT !.sessions = S] IN
         /\ new \in Database /\ new.is = d.is
         /\ new.journal = d.journal /\ new.sessions = S
  BY DEF Database

-----------------------------------------------------------------------------
(* Types. *)

LEMMA TypeInit == Init => TypeOK
<1> SUFFICES ASSUME Init PROVE TypeOK
  OBVIOUS
<1>1. live \in Database
  BY DEF Init, Database, Status
<1>2. /\ home \in [Item -> Nat] /\ source \in [Fact -> Message \cup {NoMessage}]
      /\ clock \in Nat /\ restores \in Nat
  BY DEF Init
<1>3. snaps \in Seq(Database)
  BY DEF Init
<1> QED
  BY <1>1, <1>2, <1>3 DEF Init, TypeOK

LEMMA TypeStep == TypeOK /\ [Next]_vars => TypeOK'
<1> SUFFICES ASSUME TypeOK, [Next]_vars PROVE TypeOK'
  OBVIOUS
<1> USE DEF TypeOK
<1>0. /\ live \in Database /\ snaps \in Seq(Database)
      /\ live.next \in [Kind -> Nat]
      /\ live.journal \subseteq Tombstone /\ live.sessions \subseteq Session
      /\ {"kept", "held", "approved"} \subseteq Status
  BY Fields DEF Status
<1>1. ASSUME NEW x \in Item, Erase(x) PROVE TypeOK'
  <2> DEFINE t == [kind |-> KindOf(x), id |-> home[x], ts |-> clock + 1]
  <2>1. t \in Tombstone
    BY Items DEF Tombstone
  <2>2. live' = Without(live, {x}, t)
    BY <1>1 DEF Erase
  <2> HIDE DEF t
  <2>3. live' \in Database
    BY <1>0, <2>1, <2>2, WithoutFields
  <2> QED BY <1>1, <2>3 DEF Erase, histories
<1>2. ASSUME NEW x \in Item, Insert(x), source' \in [Fact -> Message \cup {NoMessage}]
      PROVE  TypeOK'
  <2>1. KindOf(x) \in Kind /\ live.next[KindOf(x)] + 1 \in Nat
    BY <1>0, Items
  <2>2. live' = [live EXCEPT !.is[x] = "kept", !.next[KindOf(x)] = live.next[KindOf(x)] + 1]
    BY <1>2 DEF Insert
  <2>3. live' \in Database
    BY <1>0, <2>1, <2>2, Inserted
  <2>4. home' \in [Item -> Nat]
    BY <1>2, <2>1 DEF Insert
  <2> QED BY <1>2, <2>3, <2>4 DEF Insert, histories
<1>3. ASSUME NEW m \in Message, Ingest(m) PROVE TypeOK'
  BY <1>2, <1>3, Items DEF Ingest
<1>4. ASSUME NEW f \in Fact, NEW m \in Message \cup {NoMessage}, AddFact(f, m)
      PROVE  TypeOK'
  BY <1>2, <1>4, Items DEF AddFact
<1>5. ASSUME NEW f \in Fact, Approve(f) PROVE TypeOK'
  <2>1. live' = [live EXCEPT !.is[f] = "approved"] /\ f \in Item
    BY <1>5, Items DEF Approve
  <2>2. live' \in Database
    BY <1>0, <2>1, Approved
  <2> QED BY <1>5, <2>2 DEF Approve, histories
<1>6. ASSUME NEW s \in Session, SignIn(s) PROVE TypeOK'
  <2>1. live' = [live EXCEPT !.sessions = live.sessions \cup {s}]
    BY <1>6 DEF SignIn
  <2>2. live' \in Database
    BY <1>0, <2>1, Signed
  <2> QED BY <1>6, <2>2 DEF SignIn, histories
<1>7. ASSUME NEW S \in SUBSET Session, Revoke(S) PROVE TypeOK'
  <2>1. live' = [live EXCEPT !.sessions = live.sessions \ S]
    BY <1>7 DEF Revoke
  <2>2. live' \in Database
    BY <1>0, <2>1, Signed
  <2> QED BY <1>7, <2>2 DEF Revoke, histories
<1>8. CASE Backup
  BY <1>8, SnapshotIsCopy DEF Backup, histories
<1>9. ASSUME NEW n \in 1 .. Len(snaps), RestoreBegins(n) PROVE TypeOK'
  <2>1. Missing(snaps[n]) \subseteq Tombstone
    BY <1>0 DEF Missing
  <2>2. snaps[n] \in Database /\ Append(snaps, live) \in Seq(Database)
    BY <1>0, SnapsIn, Copied
  <2> QED BY <1>0, <1>9, <2>1, <2>2 DEF RestoreBegins
<1>10. CASE EndsSignIns
  <2>1. live' \in Database
    BY <1>0, <1>10, Signed DEF EndsSignIns
  <2> QED BY <1>10, <2>1, SnapshotIsCopy DEF EndsSignIns, histories
<1>11. ASSUME NEW t \in todo, Replay(t) PROVE TypeOK'
  <2>1. live' \in Database
    BY <1>0, <1>11, WithoutFields DEF Replay, Replayed
  <2> QED BY <1>11, <2>1 DEF Replay, histories
<1>12. CASE RestoreEnds
  BY <1>12 DEF RestoreEnds
<1>13. CASE RestoreDies
  BY <1>13 DEF RestoreDies
<1>14. CASE UNCHANGED vars
  BY <1>14 DEF vars, histories
<1> QED
  BY <1>1, <1>3, <1>4, <1>5, <1>6, <1>7, <1>8, <1>9, <1>10, <1>11, <1>12, <1>13,
     <1>14 DEF Next

\* Every copy of the database, and what is known of it, stays in its range.
THEOREM Types == Spec => []TypeOK
  BY TypeInit, TypeStep, PTL DEF Spec

-----------------------------------------------------------------------------
(* Erasures. *)

LEMMA InvInit == Init => IInv
<1> SUFFICES ASSUME Init PROVE IInv
  OBVIOUS
<1>1. TypeOK
  BY TypeInit
<1>2. /\ live.journal = {} /\ live.sessions = {} /\ Snaps = {} /\ erased = {} /\ todo = {}
      /\ \A x \in Item : live.is[x] = "absent"
  BY DEF Init, Snaps
<1>3. Numbered
  BY <1>2 DEF Numbered, Copies
<1>4. \A d \in Copies : Honest(d) /\ Bound(d)
  BY <1>2, Items DEF Copies, Honest, Bound
<1>5. Remembered /\ SignInsEnded
  BY <1>2 DEF Init, Remembered, SignInsEnded, Knows, Serving, Copies
<1> QED
  BY <1>1, <1>3, <1>4, <1>5 DEF IInv

\* The service's own steps: no journal changes, and no row comes back.
LEMMA ServiceStep ==
  ASSUME IInv, TypeOK', Serving,
         UNCHANGED <<restoring, todo, clock, erased, histories>>,
         live'.journal = live.journal,
         \A x \in Item : home'[x] = home[x] \/ home[x] = 0,
         \A x \in Item : live'.is[x] # "absent" =>
           live.is[x] # "absent" \/ (home[x] = 0 /\ home'[x] # 0),
         Snaps' \subseteq Copies, Bound(live)',
         \A f \in Fact : source'[f] = source[f] \/ home[f] = 0,
         SignInsEnded'
  PROVE  IInv'
<1> USE DEF IInv, histories
<1>1. \A e \in erased : /\ e.item \in Item /\ home[e.item] # 0
                       /\ home'[e.item] = home[e.item] /\ TombOf(e)' = TombOf(e)
  BY DEF TypeOK, Numbered, TombOf
<1>2. ASSUME NEW d \in Snaps'
      PROVE  /\ \A x \in Item : d.is[x] # "absent" => home[x] # 0 /\ home'[x] = home[x]
             /\ \A t \in d.journal : t.ts <= clock'
             /\ Honest(d)'
             /\ Bound(d)'
  <2>1. d \in Copies
    BY DEF Copies
  <2>2. \A x \in Item : d.is[x] # "absent" => home[x] # 0 /\ home'[x] = home[x]
    BY <2>1 DEF Numbered
  <2>3. Honest(d)'
    BY <1>1, <2>1 DEF Honest
  <2>4. Bound(d)'
    <3> SUFFICES ASSUME NEW f \in Fact, d.is[f] = "kept", source'[f] # NoMessage
                 PROVE  d.is[source'[f]] # "absent"
      BY DEF Bound
    <3>1. source'[f] = source[f]
      BY <2>2, Items
    <3> QED BY <2>1, <3>1 DEF Bound
  <2> QED BY <2>1, <2>2, <2>3, <2>4 DEF Numbered
<1>3. Honest(live)'
  <2> SUFFICES ASSUME NEW e \in erased, TombOf(e)' \in live'.journal
               PROVE  live'.is[e.item] = "absent"
    BY DEF Honest
  <2>1. live.is[e.item] = "absent"
    BY <1>1 DEF Honest, Copies
  <2> QED BY <1>1, <2>1
<1>4. Numbered'
  <2>1. \A x \in Item : live'.is[x] # "absent" => home'[x] # 0
    BY DEF Numbered, Copies
  <2>2. \A t \in live'.journal : t.ts <= clock'
    BY DEF Numbered, Copies
  <2>3. \A e \in erased' : home'[e.item] # 0 /\ e.ts <= clock'
    BY <1>1 DEF Numbered
  <2>4. \A t \in todo' : t.ts <= clock'
    BY DEF Numbered
  <2> QED BY <1>2, <2>1, <2>2, <2>3, <2>4 DEF Numbered, Copies
<1>5. Remembered'
  BY <1>1 DEF Remembered, Knows, Serving
<1> QED
  BY <1>2, <1>3, <1>4, <1>5 DEF Copies

\* An eraser's step: t is a new tombstone for the row that goes, or one that waited
\* to be replayed, and every row under its name goes.
LEMMA EraserStep ==
  ASSUME IInv, TypeOK', NEW t \in Tombstone, NEW gone, live' = Without(live, gone, t),
         UNCHANGED <<Snaps, restoring, home, source, minted, ended, histories>>,
         \A e \in erased : TombOf(e) = t => live.is[e.item] = "absent" \/ e.item \in gone,
         \A e \in erased' : e \in erased \/ (TombOf(e) = t /\ e.item \in gone),
         \A e \in erased' : home[e.item] # 0 /\ e.ts <= clock',
         erased \subseteq erased', Serving \/ erased' = erased,
         \A d \in Copies, e \in erased' : TombOf(e) \in d.journal => e \in erased,
         clock <= clock' /\ t.ts <= clock',
         todo' \subseteq todo /\ todo \subseteq todo' \cup {t}
  PROVE  IInv'
<1> USE DEF IInv, histories
<1>0. /\ live \in Database /\ \A e \in erased' : e.item \in Item /\ TombOf(e)' = TombOf(e)
      /\ clock \in Nat /\ clock' \in Nat
      /\ source \in [Fact -> Message \cup {NoMessage}]
      /\ \A d \in Copies : \A u \in d.journal : u.ts \in Nat
      /\ \A u \in todo : u.ts \in Nat
  <2>1. /\ live \in Database /\ snaps \in Seq(Database) /\ todo \subseteq Tombstone
        /\ clock \in Nat /\ clock' \in Nat
        /\ source \in [Fact -> Message \cup {NoMessage}]
        /\ \A e \in erased' : e.item \in Item
    BY DEF TypeOK
  <2>2. \A d \in Copies : d.journal \subseteq Tombstone
    BY <2>1, SnapsIn, Fields DEF Copies, Snaps
  <2>3. \A u \in Tombstone : u.ts \in Nat
    BY DEF Tombstone
  <2> QED BY <2>1, <2>2, <2>3 DEF TombOf
<1>1. /\ live'.journal = live.journal \cup {t} /\ live'.sessions = live.sessions
      /\ \A x \in Item : live.is[x] = "absent" => live'.is[x] = "absent"
      /\ \A x \in Item : x \in gone => live'.is[x] = "absent"
      /\ Bound(live) => Bound(live')
  BY <1>0, WithoutFields, WithoutKeeps
<1>2. Honest(live)'
  <2> SUFFICES ASSUME NEW e \in erased', TombOf(e) \in live.journal \cup {t}
               PROVE  live'.is[e.item] = "absent"
    BY <1>0, <1>1 DEF Honest
  <2>1. CASE e \notin erased \/ TombOf(e) = t
    BY <1>0, <1>1, <2>1
  <2>2. CASE e \in erased /\ TombOf(e) \in live.journal
    BY <1>0, <1>1, <2>2 DEF Honest, Copies
  <2> QED BY <2>1, <2>2
<1>3. \A d \in Snaps' : Honest(d)' /\ Bound(d)'
  BY <1>0 DEF Honest, Bound, Copies
<1>4. Bound(live)'
  BY <1>1 DEF Bound, Copies
<1>5. Numbered'
  <2>1. \A d \in Snaps' : /\ \A x \in Item : d.is[x] # "absent" => home'[x] # 0
                         /\ \A u \in d.journal : u.ts <= clock'
    BY <1>0 DEF Numbered, Copies
  <2>2. \A x \in Item : live'.is[x] # "absent" => home'[x] # 0
    BY <1>1 DEF Numbered, Copies
  <2>3. \A u \in live'.journal : u.ts <= clock'
    BY <1>0, <1>1 DEF Numbered, Copies
  <2>4. \A u \in todo' : u.ts <= clock'
    BY <1>0 DEF Numbered
  <2>5. \A e \in erased' : home'[e.item] # 0 /\ e.ts <= clock'
    OBVIOUS
  <2> QED BY <2>1, <2>2, <2>3, <2>4, <2>5 DEF Numbered, Copies
<1>6. Remembered'
  <2>1. \A J : Knows(J \cup live.journal \cup todo) =>
                \A e \in erased' : TombOf(e)' \in J \cup live'.journal \cup todo'
    BY <1>0, <1>1 DEF Knows
  <2>2. Knows(live.journal \cup todo) =>
          \A e \in erased' : TombOf(e)' \in live'.journal \cup todo'
    BY <1>0, <1>1 DEF Knows
  <2>3. Serving \/ \A e \in erased' : TombOf(e)' = TombOf(e) /\ e \in erased
    BY <1>0
  <2> QED BY <2>1, <2>2, <2>3 DEF Remembered, Knows, Serving
<1>7. SignInsEnded'
  BY <1>1 DEF SignInsEnded, Sound, Serving, Copies
<1> QED
  BY <1>2, <1>3, <1>4, <1>5, <1>6, <1>7 DEF Copies

LEMMA InvStep == IInv /\ [Next]_vars => IInv'
<1> SUFFICES ASSUME IInv, [Next]_vars PROVE IInv'
  OBVIOUS
<1>0. /\ TypeOK /\ TypeOK' /\ live \in Database
      /\ home \in [Item -> Nat] /\ source \in [Fact -> Message \cup {NoMessage}]
      /\ clock \in Nat
  BY TypeStep DEF IInv, TypeOK
<1>1. ASSUME NEW x \in Item, Erase(x) PROVE IInv'
  <2> DEFINE t == [kind |-> KindOf(x), id |-> home[x], ts |-> clock + 1]
             e == [item |-> x, ts |-> clock + 1]
  <2>1. /\ t \in Tombstone /\ t.ts = clock + 1 /\ TombOf(e) = t
        /\ e.item = x /\ e.ts = clock + 1
    BY <1>0, Items DEF Tombstone, TombOf
  <2>2. /\ live' = Without(live, {x}, t) /\ clock' = clock + 1
        /\ erased' = erased \cup {e} /\ live.is[x] # "absent" /\ todo' = todo
        /\ Serving
        /\ UNCHANGED <<Snaps, restoring, home, source, minted, ended, histories>>
    BY <1>1 DEF Erase, Snaps
  <2> HIDE DEF t, e
  <2>3. \A c \in erased : home[c.item] # 0 /\ c.ts <= clock /\ c.ts \in Nat /\ TombOf(c).ts = c.ts
    BY <1>0 DEF IInv, Numbered, TypeOK, TombOf
  <2>4. \A c \in erased : TombOf(c) # t
    BY <1>0, <2>1, <2>3
  <2>5. home[x] # 0
    BY <2>2 DEF IInv, Numbered, Copies
  <2>6. \A d \in Copies : t \notin d.journal
    <3> SUFFICES ASSUME NEW d \in Copies, t \in d.journal PROVE FALSE
      OBVIOUS
    <3>1. t.ts <= clock
      BY DEF IInv, Numbered
    <3> QED BY <1>0, <2>1, <3>1
  <2>7. \A c \in erased' : c \in erased \/ c = e
    BY <2>2
  <2>8. \A c \in erased' : home[c.item] # 0 /\ c.ts <= clock'
    BY <1>0, <2>1, <2>2, <2>3, <2>5, <2>7
  <2>9. \A c \in erased' : c \in erased \/ (TombOf(c) = t /\ c.item \in {x})
    BY <2>1, <2>7
  <2>10. \A d \in Copies, c \in erased' : TombOf(c) \in d.journal => c \in erased
    BY <2>1, <2>6, <2>7
  <2>11. clock <= clock' /\ t.ts <= clock'
    BY <1>0, <2>1, <2>2
  <2> QED
    BY <1>0, <2>1, <2>2, <2>4, <2>8, <2>9, <2>10, <2>11, EraserStep
<1>2. ASSUME NEW x \in Item, Insert(x),
             source' \in [Fact -> Message \cup {NoMessage}],
             \A f \in Fact : source'[f] = source[f] \/ f = x,
             x \in Fact /\ source'[x] # NoMessage => live.is[source'[x]] # "absent"
      PROVE  IInv'
  <2>1. /\ Serving /\ home[x] = 0
        /\ UNCHANGED <<Snaps, restoring, todo, clock, erased, minted, ended, histories>>
        /\ home' = [home EXCEPT ![x] = live.next[KindOf(x)] + 1]
        /\ live' = [live EXCEPT !.is[x] = "kept", !.next[KindOf(x)] = live.next[KindOf(x)] + 1]
    BY <1>2 DEF Insert, Snaps
  <2>2. KindOf(x) \in Kind /\ live.next[KindOf(x)] + 1 \in Nat /\ live.next[KindOf(x)] + 1 # 0
    BY <1>0, Items, Fields
  <2>3. /\ live'.is = [live.is EXCEPT ![x] = "kept"] /\ live.is \in [Item -> Status]
        /\ live'.journal = live.journal /\ live'.sessions = live.sessions
    <3> DEFINE k == KindOf(x)
               n == live.next[k] + 1
               new == [live EXCEPT !.is[x] = "kept", !.next[k] = n]
    <3>1. live' = new /\ k \in Kind /\ n \in Nat
      BY <2>1, <2>2
    <3> HIDE DEF k, n
    <3>2. /\ new.is = [live.is EXCEPT ![x] = "kept"]
          /\ new.journal = live.journal /\ new.sessions = live.sessions
      BY <1>0, <3>1 DEF Database
    <3>3. live.is \in [Item -> Status]
      BY <1>0, Fields
    <3> HIDE DEF new
    <3> QED BY <3>1, <3>2, <3>3
  <2>4. \A y \in Item : /\ home'[y] = home[y] \/ home[y] = 0
                       /\ live'.is[y] # "absent" =>
                            live.is[y] # "absent" \/ (home[y] = 0 /\ home'[y] # 0)
    BY <1>0, <2>1, <2>2, <2>3
  <2>5. Bound(live)'
    <3> SUFFICES ASSUME NEW f \in Fact, live'.is[f] = "kept", source'[f] # NoMessage
                 PROVE  live'.is[source'[f]] # "absent"
      BY DEF Bound
    <3>1. source'[f] \in Item /\ f \in Item
      BY <1>2, Items
    <3>2. live.is[source'[f]] # "absent"
      BY <1>2, <2>3, <3>1 DEF IInv, Bound, Copies
    <3> QED BY <2>3, <3>1, <3>2
  <2>6. SignInsEnded'
    BY <2>1, <2>3 DEF IInv, SignInsEnded, Sound, Serving, Copies, histories
  <2>7. Snaps' \subseteq Copies
    BY <2>1 DEF Copies
  <2>8. \A f \in Fact : source'[f] = source[f] \/ home[f] = 0
    BY <1>2, <2>1
  <2> QED
    BY <1>0, <2>1, <2>3, <2>4, <2>5, <2>6, <2>7, <2>8, ServiceStep
<1>3. ASSUME NEW m \in Message, Ingest(m) PROVE IInv'
  BY <1>0, <1>2, <1>3, Items DEF Ingest
<1>4. ASSUME NEW f \in Fact, NEW m \in Message \cup {NoMessage}, AddFact(f, m)
      PROVE  IInv'
  <2>1. /\ source' = [source EXCEPT ![f] = m] /\ Insert(f) /\ f \in Item
        /\ m # NoMessage => live.is[m] # "absent"
    BY <1>4, Items DEF AddFact
  <2> QED BY <1>0, <1>2, <2>1
\* What leaves the rows and the journal alone, but for statuses that are not "kept".
<1>5. ASSUME Serving, UNCHANGED <<restoring, todo, home, source, clock, erased, histories>>,
             live'.journal = live.journal, Snaps' \subseteq Copies,
             \A x \in Item : live'.is[x] = live.is[x] \/
                               (live.is[x] # "absent" /\ live'.is[x] = "approved"),
             SignInsEnded'
      PROVE  IInv'
  <2>1. Bound(live)'
    <3> SUFFICES ASSUME NEW f \in Fact, live'.is[f] = "kept", source[f] # NoMessage
                 PROVE  live'.is[source[f]] # "absent"
      BY <1>5 DEF Bound
    <3>1. source[f] \in Item /\ f \in Item
      BY <1>0, Items
    <3>2. live.is[f] = "kept"
      BY <1>5, <3>1
    <3>3. live.is[source[f]] # "absent"
      BY <3>2 DEF IInv, Bound, Copies
    <3> QED BY <1>5, <3>1, <3>3
  <2>2. \A x \in Item : /\ home'[x] = home[x] \/ home[x] = 0
                        /\ live'.is[x] # "absent" =>
                             live.is[x] # "absent" \/ (home[x] = 0 /\ home'[x] # 0)
    BY <1>5
  <2>3. \A f \in Fact : source'[f] = source[f] \/ home[f] = 0
    BY <1>5
  <2> QED
    BY <1>0, <1>5, <2>1, <2>2, <2>3, ServiceStep
<1>6. ASSUME NEW f \in Fact, Approve(f) PROVE IInv'
  <2>1. /\ f \in Item /\ Serving /\ live.is[f] = "held"
        /\ live' = [live EXCEPT !.is[f] = "approved"]
        /\ UNCHANGED <<Snaps, restoring, todo, home, source, clock, erased,
                       minted, ended, histories>>
    BY <1>6, Items DEF Approve, Snaps
  <2>2. /\ live'.is = [live.is EXCEPT ![f] = "approved"] /\ live.is \in [Item -> Status]
        /\ live'.journal = live.journal /\ live'.sessions = live.sessions
    BY <1>0, <2>1, Approved, Fields
  <2>3. SignInsEnded'
    BY <2>1, <2>2 DEF IInv, SignInsEnded, Sound, Serving, Copies, histories
  <2>4. \A x \in Item : live'.is[x] = live.is[x] \/
                          (live.is[x] # "absent" /\ live'.is[x] = "approved")
    BY <2>1, <2>2
  <2>5. Snaps' \subseteq Copies
    BY <2>1 DEF Copies
  <2> QED BY <1>5, <2>1, <2>2, <2>3, <2>4, <2>5
<1>7. ASSUME NEW s \in Session, SignIn(s) PROVE IInv'
  <2>1. /\ live' = [live EXCEPT !.sessions = live.sessions \cup {s}]
        /\ Serving /\ s \notin minted /\ minted' = minted \cup {s}
        /\ UNCHANGED <<Snaps, restoring, todo, home, source, clock, erased, ended, histories>>
    BY <1>7 DEF SignIn, Snaps
  <2>2. /\ live'.is = live.is /\ live'.journal = live.journal
        /\ live'.sessions = live.sessions \cup {s}
    BY <1>0, <2>1, Signed, Fields
  <2>3. SignInsEnded'
    BY <2>1, <2>2 DEF IInv, SignInsEnded, Sound, Serving, Copies, histories
  <2> QED BY <1>5, <2>1, <2>2, <2>3 DEF Copies
<1>8. ASSUME NEW S \in SUBSET Session, Revoke(S) PROVE IInv'
  <2>1. /\ live' = [live EXCEPT !.sessions = live.sessions \ S]
        /\ Serving /\ S \subseteq live.sessions /\ ended' = ended \cup S
        /\ UNCHANGED <<Snaps, restoring, todo, home, source, clock, erased, minted, histories>>
    BY <1>8 DEF Revoke, Snaps
  <2>2. /\ live'.is = live.is /\ live'.journal = live.journal
        /\ live'.sessions = live.sessions \ S
    BY <1>0, <2>1, Signed, Fields
  <2>3. SignInsEnded'
    BY <2>1, <2>2 DEF IInv, SignInsEnded, Sound, Serving, Copies, histories
  <2> QED BY <1>5, <2>1, <2>2, <2>3 DEF Copies
<1>9. CASE Backup
  <2>1. /\ Snaps' \subseteq Copies
        /\ Serving
        /\ UNCHANGED <<live, restoring, todo, home, source, clock, erased, minted, ended,
                       histories>>
    BY <1>0, <1>9, SnapshotIsCopy DEF Backup, Snaps
  <2>2. SignInsEnded'
    BY <2>1 DEF IInv, SignInsEnded, Sound, Serving, Copies, histories
  <2> QED BY <1>5, <2>1, <2>2
<1>10. ASSUME NEW n \in 1 .. Len(snaps), RestoreBegins(n) PROVE IInv'
  <2> DEFINE d == snaps[n]
  <2>1. /\ Serving /\ todo' = Missing(d) /\ live' = d /\ snaps' = Append(snaps, live)
        /\ restoring' = "copied"
        /\ curing' = (interrupted /\ undo # NoCopy /\ d = undo)
        /\ undo' = IF interrupted THEN undo ELSE live
        /\ UNCHANGED <<home, source, clock, erased, minted, ended, interrupted>>
    BY <1>10 DEF RestoreBegins
  <2>2. d \in Copies
    BY DEF Copies, Snaps
  <2> HIDE DEF d
  <2>3. Copies' \subseteq Copies
    <3>1. \A i \in 1 .. Len(snaps') : snaps'[i] \in Copies
      <4>1. snaps \in Seq(Database)
        BY <1>0 DEF TypeOK
      <4> QED BY <1>0, <2>1, <4>1, Copied, ZenonT(40) DEF Copies, Snaps
    <3> QED BY <2>1, <2>2, <3>1 DEF Copies, Snaps
  <2>4. d.journal \cup Missing(d) = d.journal \cup live.journal /\ todo = {}
    BY <2>1 DEF Missing, IInv, Remembered
  <2>5. \A t \in todo' : t.ts <= clock
    BY <2>1 DEF IInv, Numbered, Missing, Copies
  <2>6. Numbered'
    BY <2>1, <2>3, <2>5 DEF IInv, Numbered, TombOf
  <2>7. \A c \in Copies' : Honest(c)' /\ Bound(c)'
    BY <2>1, <2>3 DEF IInv, Honest, Bound, TombOf
  <2>8. Remembered'
    <3>1. ~interrupted \/ curing' => Knows(live'.journal \cup todo')
      BY <2>1, <2>4 DEF IInv, Remembered, Knows
    <3>2. interrupted /\ undo' # NoCopy => Knows(undo'.journal \cup live'.journal \cup todo')
      BY <2>1, <2>4 DEF IInv, Remembered, Knows
    <3>3. ~interrupted => Knows(undo'.journal)
      BY <2>1 DEF IInv, Remembered, Knows
    <3> QED BY <2>1, <3>1, <3>2, <3>3 DEF Remembered, Knows, Serving, TombOf
  <2>9. SignInsEnded'
    BY <2>1, <2>3 DEF IInv, SignInsEnded, Sound, Serving
  <2> QED BY <1>0, <2>6, <2>7, <2>8, <2>9 DEF IInv
<1>11. CASE EndsSignIns
  <2>1. /\ restoring = "copied" /\ restoring' = "replaying" /\ ended' = minted
        /\ live' = [live EXCEPT !.sessions = {}] /\ snaps' = Snapshot
        /\ UNCHANGED <<todo, home, source, clock, erased, minted, histories>>
    BY <1>11 DEF EndsSignIns
  <2>2. Snaps' \subseteq Copies
    BY <1>0, <2>1, SnapshotIsCopy DEF Snaps
  <2>3. live'.is = live.is /\ live'.journal = live.journal /\ live'.sessions = {}
    BY <1>0, <2>1, Signed
  <2>4. \A c \in Copies' : \E d \in Copies : c.is = d.is /\ c.journal = d.journal
    BY <2>3, <2>2 DEF Copies
  <2>5. Numbered'
    BY <2>1, <2>4 DEF IInv, Numbered, TombOf
  <2>6. \A c \in Copies' : Honest(c)' /\ Bound(c)'
    <3> SUFFICES ASSUME NEW c \in Copies' PROVE Honest(c)' /\ Bound(c)'
      OBVIOUS
    <3>1. PICK d \in Copies : c.is = d.is /\ c.journal = d.journal
      BY <2>4
    <3>2. Honest(d) /\ Bound(d)
      BY DEF IInv
    <3> QED BY <2>1, <3>1, <3>2 DEF Honest, Bound, TombOf
  <2>7. Remembered'
    BY <2>1, <2>3 DEF IInv, Remembered, Knows, Serving, TombOf, histories
  <2>8. SignInsEnded'
    BY <2>1, <2>3, <2>2 DEF IInv, SignInsEnded, Sound, Serving, Copies, histories
  <2> QED BY <1>0, <2>5, <2>7, <2>8, <2>6 DEF IInv
<1>12. ASSUME NEW t \in todo, Replay(t) PROVE IInv'
  <2> DEFINE gone == Named(live, t)
  <2>1. /\ live' = Without(live, gone, t) /\ todo' = todo \ {t}
        /\ UNCHANGED <<Snaps, restoring, home, source, clock, erased, minted, ended, histories>>
    BY <1>12 DEF Replay, Replayed, Snaps
  <2>2. t \in Tombstone /\ t.ts <= clock
    BY DEF IInv, TypeOK, Numbered
  <2>3. \A e \in erased : TombOf(e) = t => live.is[e.item] = "absent" \/ e.item \in gone
    <3> SUFFICES ASSUME NEW e \in erased, TombOf(e) = t, live.is[e.item] # "absent"
                 PROVE  e.item \in gone
      OBVIOUS
    <3>1. e.item \in Item /\ t.kind = KindOf(e.item) /\ t.id = home[e.item]
      BY <1>0 DEF TypeOK, TombOf
    <3> QED BY <3>1 DEF Named
  <2> HIDE DEF gone
  <2>4. \A e \in erased' : home[e.item] # 0 /\ e.ts <= clock'
    BY <2>1 DEF IInv, Numbered
  <2>5. clock <= clock' /\ t.ts <= clock'
    BY <1>0, <2>1, <2>2
  <2> QED BY <1>0, <2>1, <2>2, <2>3, <2>4, <2>5, EraserStep
<1>13. CASE RestoreEnds
  <2>1. /\ restoring = "replaying" /\ restoring' = "no" /\ todo = {} /\ ~curing'
        /\ interrupted' = (interrupted /\ ~curing)
        /\ UNCHANGED <<live, Snaps, todo, home, source, clock, erased, minted, ended, undo>>
    BY <1>13 DEF RestoreEnds, Snaps
  <2>2. Numbered' /\ \A c \in Copies' : Honest(c)' /\ Bound(c)'
    BY <2>1 DEF IInv, Numbered, Copies, Honest, Bound, TombOf
  <2>3. Remembered'
    BY <2>1 DEF IInv, Remembered, Knows, Serving, TombOf
  <2>4. SignInsEnded'
    BY <2>1 DEF IInv, SignInsEnded, Sound, Serving, Copies
  <2> QED BY <1>0, <2>2, <2>3, <2>4 DEF IInv
<1>14. CASE RestoreDies
  <2>1. /\ ~Serving /\ restoring' = "no" /\ todo' = {} /\ interrupted' /\ ~curing'
        /\ undo' = IF interrupted THEN NoCopy ELSE undo
        /\ UNCHANGED <<live, Snaps, home, source, clock, erased, minted, ended>>
    BY <1>14 DEF RestoreDies, Snaps
  <2>2. Numbered' /\ \A c \in Copies' : Honest(c)' /\ Bound(c)'
    BY <2>1 DEF IInv, Numbered, Copies, Honest, Bound, TombOf
  <2>3. Remembered'
    BY <2>1 DEF IInv, Remembered, Knows, Serving, TombOf
  <2>4. SignInsEnded'
    BY <2>1 DEF IInv, SignInsEnded, Sound, Serving, Copies
  <2> QED BY <1>0, <2>2, <2>3, <2>4 DEF IInv
<1>15. CASE UNCHANGED vars
  <2>1. UNCHANGED <<live, Snaps, restoring, todo, home, source, clock, erased, minted, ended,
                    interrupted, undo, curing>>
    BY <1>15 DEF vars, histories, Snaps
  <2>2. Numbered' /\ \A c \in Copies' : Honest(c)' /\ Bound(c)'
    BY <2>1 DEF IInv, Numbered, Copies, Honest, Bound, TombOf
  <2>3. Remembered' /\ SignInsEnded'
    BY <2>1 DEF IInv, Remembered, SignInsEnded, Sound, Knows, Serving, Copies, TombOf
  <2> QED BY <1>0, <2>2, <2>3 DEF IInv
<1> QED
  BY <1>1, <1>3, <1>4, <1>6, <1>7, <1>8, <1>9, <1>10, <1>11, <1>12, <1>13, <1>14,
     <1>15 DEF Next

LEMMA Invariant == Spec => []IInv
  BY InvInit, InvStep, PTL DEF Spec

LEMMA Gone ==
  ASSUME IInv, Sound, NEW e \in erased
  PROVE  e.item \in Item /\ live.is[e.item] = "absent"
<1>1. TombOf(e) \in live.journal
  BY DEF IInv, Remembered, Knows, Sound
<1> QED
  BY <1>1 DEF IInv, TypeOK, Honest, Copies

\* What the owner erased is nowhere, whatever copies were restored since, and in
\* whatever order; a restore that died is made good by the copy it kept.
THEOREM ErasedStaysGone == Spec => []ErasedStaysErased
<1>1. IInv => ErasedStaysErased
  BY Gone DEF ErasedStaysErased
<1> QED
  BY <1>1, Invariant, PTL

\* A fact whose message was erased is not in use as it came.
THEOREM SourceErasedStaysHeld == Spec => []SourceErasedIsHeld
<1>1. IInv => SourceErasedIsHeld
  <2> SUFFICES ASSUME IInv, Sound, NEW f \in Fact, NEW e \in erased, source[f] = e.item
               PROVE  live.is[f] # "kept"
    BY DEF SourceErasedIsHeld
  <2>1. source[f] # NoMessage /\ live.is[source[f]] = "absent"
    BY Gone, RestoreAssumption DEF RestoreAssumption, Item
  <2> QED BY <2>1 DEF IInv, Bound, Copies
<1> QED
  BY <1>1, Invariant, PTL

\* No copy brings an ended sign-in back.
THEOREM EndedSignInsStayEnded == Spec => []EndedStaysEnded
<1>1. IInv => EndedStaysEnded
  BY DEF IInv, SignInsEnded, EndedStaysEnded
<1> QED
  BY <1>1, Invariant, PTL

-----------------------------------------------------------------------------
(* Where tombstones come from. *)

Tombs == {TombOf(e) : e \in erased}

\* Every tombstone anywhere is that of an erasure.
Traced == todo \subseteq Tombs /\ \A d \in Copies : d.journal \subseteq Tombs

\* An id once given stays, so what a tombstone names does.
LEMMA TombsStay == ASSUME IInv, [Next]_vars PROVE Tombs \subseteq Tombs'
<1>1. \A e \in erased : e.item \in Item /\ home[e.item] # 0
  BY DEF IInv, Numbered, TypeOK
<1>2. ASSUME NEW x \in Item, Insert(x) PROVE \A y \in Item : home[y] # 0 => home'[y] = home[y]
  BY <1>2 DEF Insert, IInv, TypeOK
<1>3. \A y \in Item : home[y] # 0 => home'[y] = home[y]
  BY <1>2, Items DEF Next, Erase, Ingest, AddFact, Approve, SignIn, Revoke, Backup,
     RestoreBegins, EndsSignIns, Replay, RestoreEnds, RestoreDies, vars
<1>4. erased \subseteq erased'
  BY DEF Next, Erase, Ingest, AddFact, Insert, Approve, SignIn, Revoke, Backup,
     RestoreBegins, EndsSignIns, Replay, RestoreEnds, RestoreDies, vars
<1> QED
  BY <1>1, <1>3, <1>4 DEF Tombs, TombOf

LEMMA TracedStep == IInv /\ Traced /\ [Next]_vars => Traced'
<1> SUFFICES ASSUME IInv, Traced, [Next]_vars PROVE Traced'
  OBVIOUS
<1>0. /\ live \in Database /\ snaps \in Seq(Database) /\ todo \subseteq Tombstone
      /\ source \in [Fact -> Message \cup {NoMessage}] /\ clock \in Nat
      /\ home \in [Item -> Nat] /\ Tombs \subseteq Tombs' /\ TypeOK
  BY TombsStay DEF IInv, TypeOK
\* The steps that write no tombstone and make no copy but of what is there.
<1>1. ASSUME live'.journal = live.journal, Snaps' \subseteq Copies, todo' \subseteq todo
      PROVE  Traced'
  BY <1>0, <1>1 DEF Traced, Copies
\* The steps that write one.
<1>2. ASSUME NEW t \in Tombstone, NEW gone, live' = Without(live, gone, t), t \in Tombs',
             UNCHANGED Snaps, todo' \subseteq todo
      PROVE  Traced'
  <2>1. live'.journal = live.journal \cup {t}
    BY <1>0, <1>2, WithoutFields
  <2> QED BY <1>0, <1>2, <2>1 DEF Traced, Copies
<1>3. ASSUME NEW x \in Item, Erase(x) PROVE Traced'
  <2> DEFINE t == [kind |-> KindOf(x), id |-> home[x], ts |-> clock + 1]
  <2>1. /\ live' = Without(live, {x}, t) /\ home' = home /\ todo' = todo
        /\ UNCHANGED Snaps
    BY <1>3 DEF Erase, Snaps
  <2>2. t \in Tombstone
    BY <1>0, Items DEF Tombstone
  <2>3. PICK e \in erased' : e = [item |-> x, ts |-> clock + 1]
    BY <1>3 DEF Erase
  <2>4. t = TombOf(e)'
    BY <2>1, <2>3 DEF TombOf
  <2> HIDE DEF t
  <2>5. t \in Tombs'
    BY <2>3, <2>4 DEF Tombs
  <2> QED BY <1>2, <2>1, <2>2, <2>5
<1>4. ASSUME NEW x \in Item, Insert(x) PROVE Traced'
  <2> DEFINE k == KindOf(x)
             n == live.next[k] + 1
             new == [live EXCEPT !.is[x] = "kept", !.next[k] = n]
  <2>1. live' = new /\ k \in Kind /\ n \in Nat /\ UNCHANGED <<Snaps, todo>>
    BY <1>0, <1>4, Items, Fields DEF Insert, Snaps
  <2> HIDE DEF k, n
  <2>2. new.journal = live.journal
    BY <1>0, <2>1 DEF Database
  <2> HIDE DEF new
  <2> QED BY <1>1, <2>1, <2>2 DEF Copies
<1>5. ASSUME NEW f \in Fact, Approve(f) PROVE Traced'
  <2>1. live'.journal = live.journal /\ UNCHANGED <<Snaps, todo>>
    BY <1>0, <1>5, Items, Approved DEF Approve, Snaps
  <2> QED BY <1>1, <2>1 DEF Copies
<1>6. ASSUME NEW S, live' = [live EXCEPT !.sessions = S], Snaps' \subseteq Copies, todo' = todo
      PROVE  Traced'
  BY <1>0, <1>1, <1>6 DEF Database
<1>7. ASSUME NEW s \in Session, SignIn(s) PROVE Traced'
  BY <1>6, <1>7 DEF SignIn, Snaps, Copies
<1>8. ASSUME NEW S \in SUBSET Session, Revoke(S) PROVE Traced'
  BY <1>6, <1>8 DEF Revoke, Snaps, Copies
<1>9. CASE Backup
  <2>1. Snaps' \subseteq Copies
    BY <1>0, <1>9, SnapshotIsCopy DEF Backup, Snaps
  <2> QED BY <1>1, <1>9, <2>1 DEF Backup
<1>10. ASSUME NEW n \in 1 .. Len(snaps), RestoreBegins(n) PROVE Traced'
  <2>1. live' = snaps[n] /\ snaps' = Append(snaps, live) /\ todo' = Missing(snaps[n])
    BY <1>10 DEF RestoreBegins
  <2>2. live' \in Copies /\ todo' \subseteq live.journal
    BY <2>1 DEF Copies, Snaps, Missing
  <2>3. \A i \in 1 .. Len(snaps') : snaps'[i] \in Copies
    BY <1>0, <2>1, Copied, ZenonT(40) DEF Copies, Snaps
  <2>4. Copies' \subseteq Copies
    BY <2>2, <2>3 DEF Copies, Snaps
  <2> QED BY <1>0, <2>2, <2>4 DEF Traced, Copies
<1>11. CASE EndsSignIns
  <2>1. Snaps' \subseteq Copies
    BY <1>0, <1>11, SnapshotIsCopy DEF EndsSignIns, Snaps
  <2> QED BY <1>6, <1>11, <2>1 DEF EndsSignIns
<1>12. ASSUME NEW t \in todo, Replay(t) PROVE Traced'
  <2>1. /\ live' = Without(live, Named(live, t), t) /\ todo' = todo \ {t}
        /\ UNCHANGED Snaps
    BY <1>12 DEF Replay, Replayed, Snaps
  <2>2. t \in Tombstone /\ t \in Tombs'
    BY <1>0 DEF Traced
  <2> QED BY <1>2, <2>1, <2>2
<1>13. CASE RestoreEnds
  BY <1>1, <1>13 DEF RestoreEnds, Snaps, Copies
<1>14. CASE RestoreDies
  BY <1>1, <1>14 DEF RestoreDies, Snaps, Copies
<1>15. CASE UNCHANGED vars
  BY <1>1, <1>15 DEF vars, Snaps, Copies
<1> QED
  BY <1>3, <1>4, <1>5, <1>7, <1>8, <1>9, <1>10, <1>11, <1>12, <1>13, <1>14, <1>15, Items
  DEF Next, Ingest, AddFact

\* What makes a row go is an erasure of a row of that kind and id.
LEMMA GoneIsErased ==
  ASSUME IInv, Traced, [Next]_vars, restoring' # "copied",
         NEW x \in Item, live.is[x] # "absent", live'.is[x] = "absent"
  PROVE  \E e \in erased' : KindOf(e.item) = KindOf(x) /\ home[e.item] = home[x]
<1>0. /\ live \in Database /\ live.is \in [Item -> Status] /\ todo \subseteq Tombstone
      /\ clock \in Nat /\ home \in [Item -> Nat]
  BY Fields DEF IInv, TypeOK
<1>1. ASSUME NEW y \in Item, Erase(y)
      PROVE  \E e \in erased' : KindOf(e.item) = KindOf(x) /\ home[e.item] = home[x]
  <2> DEFINE t == [kind |-> KindOf(y), id |-> home[y], ts |-> clock + 1]
             e == [item |-> y, ts |-> clock + 1]
  <2>1. t \in Tombstone
    BY <1>0, Items DEF Tombstone
  <2>2. live' = Without(live, {y}, t) /\ e \in erased' /\ e.item = y
    BY <1>1 DEF Erase
  <2> HIDE DEF t, e
  <2>3. x = y
    BY <1>0, <2>1, <2>2, WithoutFields
  <2> QED BY <2>2, <2>3
<1>2. ASSUME NEW t \in todo, Replay(t)
      PROVE  \E e \in erased' : KindOf(e.item) = KindOf(x) /\ home[e.item] = home[x]
  <2>1. live' = Without(live, Named(live, t), t) /\ erased' = erased
    BY <1>2 DEF Replay, Replayed
  <2>2. x \in Named(live, t)
    BY <1>0, <2>1, WithoutFields
  <2>3. PICK e \in erased : t = TombOf(e)
    BY DEF Traced, Tombs
  <2>4. t.kind = KindOf(e.item) /\ t.id = home[e.item]
    BY <2>3 DEF TombOf
  <2>5. KindOf(x) = t.kind /\ home[x] = t.id
    BY <2>2 DEF Named
  <2> QED BY <2>1, <2>4, <2>5
\* No other step takes a row.
<1>3. ASSUME NEW y \in Item, Insert(y) PROVE FALSE
  <2> DEFINE k == KindOf(y)
             n == live.next[k] + 1
             new == [live EXCEPT !.is[y] = "kept", !.next[k] = n]
  <2>1. live' = new /\ k \in Kind /\ n \in Nat
    BY <1>0, <1>3, Items, Fields DEF Insert
  <2> HIDE DEF k, n
  <2>2. new.is = [live.is EXCEPT ![y] = "kept"]
    BY <1>0, <2>1 DEF Database
  <2> HIDE DEF new
  <2> QED BY <1>0, <2>1, <2>2
<1>4. ASSUME NEW f \in Fact, Approve(f) PROVE FALSE
  <2>1. live' = [live EXCEPT !.is[f] = "approved"] /\ f \in Item
    BY <1>4, Items DEF Approve
  <2>2. live'.is = [live.is EXCEPT ![f] = "approved"]
    BY <1>0, <2>1, Approved
  <2> QED BY <1>0, <2>2
<1>5. ASSUME NEW S, live' = [live EXCEPT !.sessions = S] PROVE FALSE
  BY <1>0, <1>5 DEF Database
<1>6. (\E s \in Session : SignIn(s)) \/ (\E S \in SUBSET Session : Revoke(S)) \/ EndsSignIns
      => FALSE
  BY <1>5 DEF SignIn, Revoke, EndsSignIns
<1>7. Backup \/ RestoreEnds \/ RestoreDies \/ UNCHANGED vars => FALSE
  BY DEF Backup, RestoreEnds, RestoreDies, vars
<1>8. ASSUME NEW n \in 1 .. Len(snaps), RestoreBegins(n) PROVE FALSE
  BY <1>8 DEF RestoreBegins
<1> QED
  BY <1>1, <1>2, <1>3, <1>4, <1>6, <1>7, <1>8, Items DEF Next, Ingest, AddFact

\* Whatever copies and lineages there are, a row goes only by the eraser of that row,
\* or of another row of its kind that had its id.
THEOREM OnlyErasedIsGone == Spec => OnlyErasedGoes
<1>1. Init => Traced
  BY DEF Init, Traced, Copies, Snaps
<1>2. IInv /\ Traced /\ [Next]_vars =>
        [restoring' = "copied" \/
         \A x \in Item : live.is[x] # "absent" /\ live'.is[x] = "absent" =>
           \E e \in erased' : KindOf(e.item) = KindOf(x) /\ home[e.item] = home[x]]_vars
  BY GoneIsErased
<1> QED
  BY <1>1, <1>2, TracedStep, Invariant, PTL DEF Spec, OnlyErasedGoes
=============================================================================

--------------------------- MODULE PersonsProofs ---------------------------
(***************************************************************************)
(* Proofs about Persons, for any people, apps, clips and waiting requests, *)
(* any number of erasures and restores.                                    *)
(*                                                                         *)
(* A copy of the database may be put back long after it was taken, so what *)
(* is wanted of the database is also said of the copy: whoever of the copy *)
(* was forgotten since, and whichever audio of the copy was removed since, *)
(* the journal tells, in the part of it the copy has not (ForgottenIsKept, *)
(* AudioIsKept); while a restore replays that part, the part still to do   *)
(* tells it.  A tombstone counts as new only because its time is past      *)
(* every one in the copy (JournalsFit).  A manifest judges a clip by its   *)
(* id, which is sound because ids are given in order (ManifestsKnow).  A   *)
(* request that waits writes what it read: its manifests are held to the   *)
(* same as the stored ones, and whom it brings something to may have been  *)
(* forgotten since only if that is told in late (RequestsFit).             *)
(***************************************************************************)
EXTENDS Persons, WellFoundedInduction, TLAPS

\* What the manifest judges of d, it knew of, or a change raced with it.
Fits(d, m) ==
  /\ m.upto <= d.next
  /\ m.judges /\ ~m.raced => \A c \in ClipsOf(d, m.of) : c.id <= m.upto => c.id \in m.had

ManifestsFit(d) ==
  /\ \A c \in d.clips : c.id <= d.next
  /\ \A m \in d.manifests : Fits(d, m)

\* The rows of the forgotten, but for those in L, are gone.
ForgottenFit(d, L) ==
  \A p \in d.forgotten \ L : /\ \A m \in d.manifests : m.of # p
                             /\ \A c \in d.clips : c.of # p

Tells(J, p) == \E t \in J : t.kind = "forget" /\ t.of = p
Removes(J, s) == \E t \in J : t.kind = "clip" /\ t.removed /\ t.sha = s

\* The journal goes by the count of erasures, and is replayed with nothing else running.
JournalsFit ==
  /\ restoring => Quiet
  /\ ~restoring => todo = {}
  /\ \A t \in db.journal \cup todo : t.n <= erasures
  /\ copy # NoCopy => \A t \in copy.journal : t.n <= erasures

\* Of the database and of the copy, which is taken while no manifest judges.
ManifestsKnow ==
  /\ ManifestsFit(db)
  /\ copy # NoCopy => ManifestsFit(copy) /\ copy.manifests = {}

\* A request names people; d has them forgotten, if it does, as L tells.
RequestFits(r, d, L) ==
  /\ r.do # "idle" => r.of \in Person
  /\ r.do \in {"move", "drop", "merge"} => r.to \in Person
  /\ r.do = "manifest" => \A m \in r.manifests : m.of = r.of
  /\ \A m \in r.manifests : Fits(d, m)
  /\ \A p \in d.forgotten \ L : ~Brings(r, p)

RequestsFit == \A h \in Handler : RequestFits(request[h], db, late)

\* Who was forgotten is, or a tombstone says so that is still to be replayed.
ForgottenIsKept ==
  /\ ForgottenFit(db, late)
  /\ copy # NoCopy => ForgottenFit(copy, late)
  /\ \A u \in arriving : u.of \in db.forgotten => u.of \in late
  /\ \A p \in forgot \cap db.people :
       p \in db.forgotten \/ (restoring /\ Tells(todo, p))
  /\ copy # NoCopy /\ ~restoring =>
       \A p \in forgot \cap copy.people :
         p \in copy.forgotten \/ Tells(db.journal \ copy.journal, p)

\* The bytes of a clip are on disk, or a tombstone that is still to be replayed removes
\* the clip; what is about to be unlinked is no clip's.
AudioIsKept ==
  /\ \A c \in db.clips : c.sha \in files \cup lost \/ (restoring /\ Removes(todo, c.sha))
  /\ \A u \in arriving : u.sha \in files \cup lost
  /\ \A s \in unlinking :
       /\ s \in lost \/ (~Used(db, s) /\ \A u \in arriving : u.sha # s)
       /\ copy # NoCopy => Removes(db.journal \ copy.journal, s)
  /\ copy # NoCopy /\ ~restoring =>
       \A c \in copy.clips :
         c.sha \in files \cup lost \/ Removes(db.journal \ copy.journal, c.sha)

PersonsInv == /\ TypeOK /\ JournalsFit /\ ManifestsKnow /\ RequestsFit
              /\ ForgottenIsKept /\ AudioIsKept

-----------------------------------------------------------------------------
(* The steps that leave the rows and the requests alone. *)

LEMMA IdleFits ==
  ASSUME NEW d, NEW L
  PROVE  /\ RequestFits(Idle, d, L) /\ Idle \in Request
         /\ Idle.do = "idle" /\ Idle.manifests = {}
<1>1. /\ Idle.do = "idle" /\ Idle.of = Nobody /\ Idle.to = Nobody /\ Idle.rows = {}
      /\ Idle.manifests = {} /\ Idle.behind = 0 /\ Idle \in Request
  BY DEF Idle, Ask, Request
<1> QED  BY <1>1 DEF RequestFits, Brings

LEMMA AddBeginsKeeps ==
  ASSUME PersonsInv, NEW u \in Upload, AddBegins(u)
  PROVE  PersonsInv'
<1> USE DEF PersonsInv, AddBegins, Open, Found, restoreVars, counters
<1>1. TypeOK'
  BY DEF TypeOK, Upload
<1>2. JournalsFit'
  BY DEF JournalsFit, Quiet
<1>3. ManifestsKnow'
  BY DEF ManifestsKnow
<1>4. ForgottenIsKept'
  BY DEF ForgottenIsKept
<1>5. AudioIsKept'
  BY DEF AudioIsKept, Used
<1>6. RequestsFit'
  BY DEF RequestsFit
<1> QED  BY <1>1, <1>2, <1>3, <1>4, <1>5, <1>6

LEMMA UnlinkKeeps ==
  ASSUME PersonsInv, NEW s \in Sha, Unlink(s)
  PROVE  PersonsInv'
<1> USE DEF PersonsInv, Unlink, restoreVars, counters, histories
<1>1. TypeOK'
  BY DEF TypeOK
<1>2. JournalsFit'
  BY DEF JournalsFit, Quiet
<1>3. ManifestsKnow'
  BY DEF ManifestsKnow
<1>4. ForgottenIsKept'
  BY DEF ForgottenIsKept
<1>5. AudioIsKept'
  BY DEF AudioIsKept, JournalsFit, Quiet, Used
<1>6. RequestsFit'
  BY DEF RequestsFit
<1> QED  BY <1>1, <1>2, <1>3, <1>4, <1>5, <1>6

LEMMA SnapshotKeeps ==
  ASSUME PersonsInv, Snapshot
  PROVE  PersonsInv'
<1> USE DEF PersonsInv, Snapshot, fileVars, counters, histories
<1>1. TypeOK'
  BY DEF TypeOK
<1>2. JournalsFit'
  BY DEF JournalsFit, Quiet
<1>3. ManifestsKnow'
  BY DEF ManifestsKnow
<1>4. ForgottenIsKept'
  BY DEF ForgottenIsKept
<1>5. AudioIsKept'
  BY DEF AudioIsKept, JournalsFit, Quiet, Used
<1>6. RequestsFit'
  BY DEF RequestsFit
<1> QED  BY <1>1, <1>2, <1>3, <1>4, <1>5, <1>6

LEMMA RestoreEndsKeeps ==
  ASSUME PersonsInv, RestoreEnds
  PROVE  PersonsInv'
<1> USE DEF PersonsInv, RestoreEnds, fileVars, counters, histories
<1>1. TypeOK'
  BY DEF TypeOK
<1>2. JournalsFit'
  BY DEF JournalsFit, Quiet
<1>3. ManifestsKnow'
  BY DEF ManifestsKnow
<1>4. ForgottenIsKept'
  BY DEF ForgottenIsKept, Tells
<1>5. AudioIsKept'
  BY DEF AudioIsKept, JournalsFit, Quiet, Used, Removes
<1>6. RequestsFit'
  BY DEF RequestsFit
<1> QED  BY <1>1, <1>2, <1>3, <1>4, <1>5, <1>6

LEMMA RestoreBeginsKeeps ==
  ASSUME PersonsInv, RestoreBegins
  PROVE  PersonsInv'
<1> USE DEF PersonsInv, RestoreBegins, fileVars, counters, histories
<1>1. TypeOK'
  BY DEF TypeOK, Database
<1>2. JournalsFit'
  BY DEF JournalsFit, Quiet
<1>3. ManifestsKnow'
  BY DEF ManifestsKnow
<1>4. ForgottenIsKept'
  BY DEF ForgottenIsKept, Quiet
<1>5. AudioIsKept'
  BY DEF AudioIsKept, Quiet
<1>6. RequestsFit'
  BY IdleFits DEF RequestsFit, Quiet
<1> QED  BY <1>1, <1>2, <1>3, <1>4, <1>5, <1>6

LEMMA CrashKeeps ==
  ASSUME PersonsInv, Crash
  PROVE  PersonsInv'
<1> DEFINE M == Stays({[m EXCEPT !.before = {}] : m \in db.manifests})
<1>1. /\ db \in Database /\ db' = [db EXCEPT !.manifests = M]
      /\ request' = [h \in Handler |-> Idle]
      /\ arriving' = {} /\ unlinking' = {} /\ forgetting' = Nobody
      /\ UNCHANGED <<files, restoreVars, counters, histories>>
  BY DEF Crash, PersonsInv, TypeOK
<1>2. \A k \in M : /\ k \in Manifest
                   /\ \E m \in db.manifests : /\ k.of = m.of /\ k.upto = m.upto /\ k.had = m.had
                                               /\ k.judges = m.judges /\ k.raced = m.raced
  <2>1. \A m \in db.manifests : m \in Manifest
    BY <1>1 DEF Database
  <2> QED  BY <2>1 DEF Stays, Manifest
<1> HIDE DEF M
<1>3. /\ db' \in Database /\ db'.manifests = M /\ db'.people = db.people /\ db'.clips = db.clips
      /\ db'.next = db.next /\ db'.journal = db.journal /\ db'.forgotten = db.forgotten
  BY <1>1, <1>2 DEF Database
<1> USE DEF PersonsInv, restoreVars, counters, histories
<1>4. TypeOK'
  BY <1>1, <1>3, IdleFits DEF TypeOK
<1>5. JournalsFit'
  BY <1>1, <1>3 DEF JournalsFit, Quiet
<1>6. ManifestsKnow'
  <2>1. ManifestsFit(db')
    BY <1>2, <1>3 DEF ManifestsKnow, ManifestsFit, Fits, ClipsOf
  <2> QED  BY <1>1, <2>1 DEF ManifestsKnow
<1>7. RequestsFit'
  BY <1>1, IdleFits DEF RequestsFit
<1>8. ForgottenIsKept'
  <2>1. ForgottenFit(db', late)
    BY <1>2, <1>3 DEF ForgottenIsKept, ForgottenFit
  <2> QED  BY <1>1, <1>3, <2>1 DEF ForgottenIsKept
<1>9. AudioIsKept'
  BY <1>1, <1>3 DEF AudioIsKept, JournalsFit, Quiet, Used
<1> QED  BY <1>4, <1>5, <1>6, <1>7, <1>8, <1>9

-----------------------------------------------------------------------------
(* A commit. *)

\* n is m, of the same clips, but for what a change of its person does to it.
Follows(n, m, P) ==
  /\ n \in Manifest /\ n.of = m.of /\ n.upto = m.upto
  /\ n.judges /\ ~n.raced => m.of \notin P /\ m.judges /\ ~m.raced /\ n.had = m.had

\* What a change makes of a manifest.
Altered(m, j, r, H, B) == [m EXCEPT !.judges = j, !.raced = r, !.had = H, !.before = B]
IsAltered(n, m, j, r, H) == /\ n \in Manifest /\ n.of = m.of /\ n.upto = m.upto
                            /\ n.judges = j /\ n.raced = r /\ n.had = H

LEMMA AlteredFields ==
  ASSUME NEW m \in Manifest, NEW H \in SUBSET Nat, NEW B \in SUBSET Handler
  PROVE  \A j, r \in BOOLEAN : IsAltered(Altered(m, j, r, H, B), m, j, r, H)
  BY DEF Manifest, Altered, IsAltered

LEMMA ChangedFollows ==
  ASSUME NEW M \in SUBSET Manifest, NEW P, NEW h, NEW n \in Changed(M, P, h)
  PROVE  \E m \in M : Follows(n, m, P)
<1>1. PICK m \in M : n = [m EXCEPT !.judges = IF m.of \in P THEN h \in m.before ELSE @,
                                   !.raced = @ \/ (m.of \in P /\ h \in m.before),
                                   !.had = IF m.of \in P THEN {} ELSE @,
                                   !.before = @ \ {h}]
  BY Zenon DEF Changed
<1> DEFINE j == IF m.of \in P THEN h \in m.before ELSE m.judges
           r == m.raced \/ (m.of \in P /\ h \in m.before)
           H == IF m.of \in P THEN {} ELSE m.had
           B == m.before \ {h}
<1>2. m \in Manifest /\ m.judges \in BOOLEAN /\ m.raced \in BOOLEAN
      /\ m.had \in SUBSET Nat /\ m.before \in SUBSET Handler
  BY DEF Manifest
<1>3. j \in BOOLEAN /\ r \in BOOLEAN
  <2>1. (h \in m.before) \in BOOLEAN
    OBVIOUS
  <2>2. j \in BOOLEAN
    BY <1>2, <2>1
  <2>3. r = TRUE \/ r = FALSE
    OBVIOUS
  <2> QED  BY <2>2, <2>3
<1>4. H \in SUBSET Nat /\ B \in SUBSET Handler
  BY <1>2
<1>5. j /\ ~r => m.of \notin P /\ m.judges /\ ~m.raced /\ H = m.had
  BY Zenon
<1>6. n = Altered(m, j, r, H, B)
  BY <1>1, Zenon DEF Altered
<1> HIDE DEF j, r, H, B
<1>7. \A k, q \in BOOLEAN : IsAltered(Altered(m, k, q, H, B), m, k, q, H)
  BY <1>2, <1>4, AlteredFields
<1>8. IsAltered(n, m, j, r, H)
  BY <1>3, <1>6, <1>7, Zenon
<1> QED  BY <1>5, <1>8, Zenon DEF Follows, IsAltered

\* What a request of another handler has in hand after the commit.
Carried(n, r, P) ==
  /\ n \in Request /\ n.do = r.do /\ n.of = r.of /\ n.to = r.to
  /\ \A m \in n.manifests : \E k \in r.manifests : Follows(m, k, P)

LEMMA CommitGives ==
  ASSUME TypeOK, NEW d \in Database, NEW P, NEW h, Commit(d, P, h)
  PROVE  /\ db' \in Database /\ db'.people = d.people /\ db'.forgotten = d.forgotten
         /\ db'.clips = d.clips /\ db'.next = d.next /\ db'.journal = d.journal
         /\ \A n \in db'.manifests : \E m \in d.manifests : Follows(n, m, P)
         /\ request' \in [Handler -> Request]
         /\ \A g \in Handler : request'[g] = Idle \/ Carried(request'[g], request[g], P)
<1> DEFINE M == Stays(Changed(d.manifests, P, h))
<1>1. \A n \in M : n \in Manifest /\ \E m \in d.manifests : Follows(n, m, P)
  <2>1. d.manifests \in SUBSET Manifest
    BY DEF Database
  <2>2. \A n \in M : n \in Changed(d.manifests, P, h)
    BY DEF Stays
  <2> QED  BY <2>1, <2>2, ChangedFollows DEF Follows
<1>2. db' = [d EXCEPT !.manifests = M]
  BY DEF Commit
<1> HIDE DEF M
<1>3. /\ db' \in Database /\ db'.people = d.people /\ db'.forgotten = d.forgotten
      /\ db'.clips = d.clips /\ db'.next = d.next /\ db'.journal = d.journal
      /\ db'.manifests = M
  <2>1. M \in SUBSET Manifest
    BY <1>1
  <2> QED  BY <1>2, <2>1 DEF Database
<1>4. ASSUME NEW g \in Handler
      PROVE  /\ request'[g] \in Request
             /\ request'[g] = Idle \/ Carried(request'[g], request[g], P)
  <2> DEFINE r == request[g]
             C == Changed(r.manifests, P, h)
  <2>1. request'[g] = Idle \/ request'[g] = [r EXCEPT !.manifests = C, !.behind = @ + 1]
    BY DEF Commit
  <2>2. r \in Request /\ r.manifests \in SUBSET Manifest /\ r.behind + 1 \in Nat
    BY DEF TypeOK, Request
  <2>3. \A n \in C : n \in Manifest /\ \E k \in r.manifests : Follows(n, k, P)
    BY <2>2, ChangedFollows DEF Follows
  <2> HIDE DEF C, r
  <2>4. CASE request'[g] = [r EXCEPT !.manifests = C, !.behind = @ + 1]
    <3>1. C \in SUBSET Manifest
      BY <2>3
    <3>2. /\ request'[g] \in Request /\ request'[g].do = r.do /\ request'[g].of = r.of
          /\ request'[g].to = r.to /\ request'[g].manifests = C
      BY <2>2, <2>4, <3>1 DEF Request
    <3> QED  BY <2>3, <3>2 DEF Carried, r
  <2> QED  BY <2>1, <2>4, IdleFits
<1>5. request' \in [Handler -> Request]
  BY <1>4 DEF Commit
<1> QED  BY <1>1, <1>3, <1>4, <1>5

\* The clips of d are those there were, or of people in P, or come with newer ids.
Succeeds(d, P) ==
  /\ d.next >= db.next /\ \A c \in d.clips : c.id <= d.next
  /\ \A c \in d.clips : c \in db.clips \/ c.of \in P \/ c.id > db.next

LEMMA FollowsFits ==
  ASSUME TypeOK, NEW d \in Database, NEW P, NEW e, e.clips = d.clips, e.next = d.next, Succeeds(d, P),
         NEW m \in Manifest, Fits(db, m), NEW n, Follows(n, m, P)
  PROVE  Fits(e, n)
<1>1. m.upto \in Nat /\ d.next \in Nat /\ db.next \in Nat /\ \A c \in d.clips : c.id \in Nat
  BY DEF TypeOK, Database, Manifest, Clip
<1>2. n.upto <= e.next
  BY <1>1 DEF Fits, Follows, Succeeds
<1>3. ASSUME n.judges, ~n.raced, NEW c \in ClipsOf(e, n.of), c.id <= n.upto
      PROVE  c.id \in n.had
  <2>1. m.of \notin P /\ m.judges /\ ~m.raced /\ n.had = m.had /\ n.of = m.of /\ n.upto = m.upto
    BY <1>3 DEF Follows
  <2>2. c \in d.clips /\ c.of = m.of
    BY <1>3, <2>1 DEF ClipsOf
  <2>3. ~(c.id > db.next)
    BY <1>1, <1>3, <2>1, <2>2 DEF Fits
  <2>4. c \in ClipsOf(db, m.of)
    BY <2>1, <2>2, <2>3 DEF Succeeds, ClipsOf
  <2> QED  BY <1>3, <2>1, <2>4 DEF Fits
<1> QED  BY <1>2, <1>3 DEF Fits

LEMMA CommitKeeps ==
  ASSUME PersonsInv, NEW d \in Database, NEW P, NEW h, Commit(d, P, h), Succeeds(d, P),
         \A m \in d.manifests : Fits(db, m),
         late \subseteq late',
         \A p \in d.forgotten \ db.forgotten : \A g \in Handler : Brings(request[g], p) => p \in late'
  PROVE  ManifestsFit(db') /\ RequestsFit'
<1>1. /\ TypeOK /\ db'.clips = d.clips /\ db'.next = d.next /\ db'.forgotten = d.forgotten
      /\ \A n \in db'.manifests : \E m \in d.manifests : Follows(n, m, P)
      /\ \A g \in Handler : request'[g] = Idle \/ Carried(request'[g], request[g], P)
  BY CommitGives DEF PersonsInv
<1>2. ManifestsFit(db')
  <2>1. \A m \in d.manifests : m \in Manifest
    BY DEF Database
  <2>2. \A n \in db'.manifests : Fits(db', n)
    BY <1>1, <2>1, FollowsFits
  <2> QED  BY <1>1, <2>2 DEF ManifestsFit, Succeeds
<1>3. ASSUME NEW g \in Handler, Carried(request'[g], request[g], P)
      PROVE  RequestFits(request'[g], db', late')
  <2>1. RequestFits(request[g], db, late) /\ \A m \in request[g].manifests : m \in Manifest
    BY DEF PersonsInv, RequestsFit, TypeOK, Request
  <2>2. \A n \in request'[g].manifests : Fits(db', n)
    BY <1>1, <1>3, <2>1, FollowsFits DEF Carried, RequestFits
  <2>3. \A p : Brings(request'[g], p) => Brings(request[g], p)
    BY <1>3 DEF Carried, Brings
  <2>4. \A p \in db'.forgotten \ late' : ~Brings(request'[g], p)
    BY <1>1, <2>1, <2>3 DEF RequestFits
  <2>5. request'[g].do = "manifest" => \A m \in request'[g].manifests : m.of = request'[g].of
    BY <1>3, <2>1 DEF RequestFits, Carried, Follows
  <2> QED  BY <1>3, <2>1, <2>2, <2>4, <2>5 DEF RequestFits, Carried
<1>4. RequestsFit'
  BY <1>1, <1>3, IdleFits DEF RequestsFit
<1> QED  BY <1>2, <1>4

-----------------------------------------------------------------------------
(* Rows change hands. *)

\* A clip keeps its id and its bytes, and comes to none but people who are marked as
\* changed and, when they are forgotten, known as late.
LEMMA ChangeKeeps ==
  ASSUME PersonsInv, NEW d \in Database, NEW P, NEW h, ~restoring, Commit(d, P, h),
         d.next = db.next, d.journal = db.journal, d.forgotten = db.forgotten,
         forgot' \in SUBSET forgot, \A p \in forgot' : p \in d.people => p \in db.people,
         \A c \in d.clips :
            \/ c \in db.clips
            \/ /\ c.of \in P /\ c.of \notin db.forgotten \ late
               /\ \E b \in db.clips : b.id = c.id /\ b.sha = c.sha,
         \A m \in d.manifests : Fits(db, m) /\ m.of \notin db.forgotten \ late,
         UNCHANGED <<fileVars, restoreVars, counters, lost, late>>
  PROVE  PersonsInv'
<1>1. /\ db' \in Database /\ db'.people = d.people /\ db'.forgotten = d.forgotten
      /\ db'.clips = d.clips /\ db'.next = d.next /\ db'.journal = d.journal
      /\ \A n \in db'.manifests : \E m \in d.manifests : Follows(n, m, P)
      /\ request' \in [Handler -> Request]
  BY CommitGives DEF PersonsInv
<1>2. \A c \in d.clips : \E b \in db.clips : b.id = c.id /\ b.sha = c.sha
  OBVIOUS
<1>3. Succeeds(d, P)
  <2>1. db.next \in Nat
    BY DEF PersonsInv, TypeOK, Database
  <2> QED  BY <1>2, <2>1 DEF Succeeds, PersonsInv, ManifestsKnow, ManifestsFit
<1>4. ManifestsFit(db') /\ RequestsFit'
  BY <1>3, CommitKeeps
<1> USE DEF PersonsInv, fileVars, restoreVars, counters
<1>5. TypeOK'
  BY <1>1 DEF TypeOK
<1>6. JournalsFit'
  BY <1>1 DEF JournalsFit
<1>7. ManifestsKnow'
  BY <1>4 DEF ManifestsKnow
<1>8. ForgottenIsKept'
  <2>1. \A n \in db'.manifests : n.of \notin db.forgotten \ late
    BY <1>1 DEF Follows
  <2>2. ForgottenFit(db', late)
    BY <1>1, <2>1 DEF ForgottenIsKept, ForgottenFit
  <2> QED  BY <1>1, <2>2 DEF ForgottenIsKept
<1>9. AudioIsKept'
  <2>1. \A s : Used(db', s) => Used(db, s)
    BY <1>1, <1>2 DEF Used
  <2> QED  BY <1>1, <1>2, <2>1 DEF AudioIsKept
<1> QED  BY <1>4, <1>5, <1>6, <1>7, <1>8, <1>9

\* The manifests there are fit, and are not of the forgotten.
LEMMA StoredFit ==
  ASSUME PersonsInv
  PROVE  \A m \in db.manifests : Fits(db, m) /\ m.of \notin db.forgotten \ late
  BY DEF PersonsInv, ManifestsKnow, ManifestsFit, ForgottenIsKept, ForgottenFit

LEMMA RowsFields ==
  ASSUME NEW d \in Database, NEW C \in SUBSET Clip
  PROVE  LET n == [d EXCEPT !.clips = C]
         IN  /\ n.manifests = d.manifests /\ n.people = d.people /\ n.forgotten = d.forgotten
             /\ n.clips = C /\ n.next = d.next /\ n.journal = d.journal /\ n \in Database
  BY DEF Database

LEMMA UpsertKeeps ==
  ASSUME PersonsInv, NEW p \in Person, Upsert(p)
  PROVE  PersonsInv'
<1> DEFINE d == [db EXCEPT !.people = @ \cup {p}]
<1>1. db \in Database /\ ~restoring /\ Commit(d, {p}, Nobody)
      /\ forgot' = (IF Found(p) THEN forgot ELSE forgot \ {p})
      /\ UNCHANGED <<fileVars, restoreVars, counters, lost, late>>
  BY DEF PersonsInv, TypeOK, Upsert, Serving
<1>2. /\ d \in Database /\ d.people = db.people \cup {p} /\ d.clips = db.clips
      /\ d.manifests = db.manifests /\ d.next = db.next
      /\ d.journal = db.journal /\ d.forgotten = db.forgotten
  BY <1>1 DEF Database
<1> HIDE DEF d
<1>3. forgot' \in SUBSET forgot /\ \A x \in forgot' : x \in d.people => x \in db.people
  BY <1>1, <1>2 DEF Found, PersonsInv, TypeOK
<1> QED  BY <1>1, <1>2, <1>3, StoredFit, ChangeKeeps

\* A request that writes, of the handler h or served at once.
Writing(r) == r \in Request /\ RequestFits(r, db, late) /\ r.do # "idle" /\ ~restoring

LEMMA RenameKeeps ==
  ASSUME PersonsInv, NEW r, NEW h, Writing(r), Rename(r, h)
  PROVE  PersonsInv'
<1>1. /\ db \in Database /\ ~restoring /\ Commit(db, {r.of}, h) /\ forgot' = forgot
      /\ UNCHANGED <<fileVars, restoreVars, counters, lost, late>>
  BY DEF PersonsInv, TypeOK, Rename, Writing, histories
<1> QED  BY <1>1, StoredFit, ChangeKeeps

LEMMA StoreManifestKeeps ==
  ASSUME PersonsInv, NEW r, NEW h, Writing(r), r.do = "manifest", StoreManifest(r, h)
  PROVE  PersonsInv'
<1> DEFINE M == r.manifests \cup
                {m \in db.manifests : \A n \in r.manifests : <<m.of, m.client>> # <<n.of, n.client>>}
           d == [db EXCEPT !.manifests = M]
<1>1. /\ db \in Database /\ ~restoring /\ Commit(d, {}, h) /\ forgot' = forgot
      /\ UNCHANGED <<fileVars, restoreVars, counters, lost, late>>
  BY DEF PersonsInv, TypeOK, StoreManifest, Writing, histories
<1>2. \A m \in r.manifests : m \in Manifest /\ Fits(db, m) /\ m.of \notin db.forgotten \ late
  BY DEF Writing, Request, RequestFits, Brings
<1>3. \A m \in M : m \in Manifest /\ Fits(db, m) /\ m.of \notin db.forgotten \ late
  BY <1>1, <1>2, StoredFit DEF Database
<1> HIDE DEF M
<1>4. M \in SUBSET Manifest
  BY <1>3
<1>5. /\ d \in Database /\ d.people = db.people /\ d.clips = db.clips /\ d.manifests = M
      /\ d.next = db.next /\ d.journal = db.journal /\ d.forgotten = db.forgotten
  BY <1>1, <1>4 DEF Database
<1> HIDE DEF d
<1> QED  BY <1>1, <1>3, <1>5, ChangeKeeps

\* A clip that goes to q has its id and its bytes.
LEMMA MovedClip ==
  ASSUME NEW c \in Clip, NEW q \in Person
  PROVE  LET m == [c EXCEPT !.of = q]
         IN  m \in Clip /\ m.of = q /\ m.id = c.id /\ m.sha = c.sha
  BY DEF Clip

\* The clips C are those there were, but for some that went to q.
OnlyMoves(C, q) ==
  \A k \in C : /\ k \in Clip
               /\ \/ k \in db.clips
                  \/ k.of = q /\ \E c \in db.clips : c.id = k.id /\ c.sha = k.sha

LEMMA MovesGive ==
  ASSUME TypeOK, NEW C, NEW q \in Person,
         \A k \in C : k \in db.clips \/ \E c \in db.clips : k = [c EXCEPT !.of = q]
  PROVE  OnlyMoves(C, q)
<1>1. \A c \in db.clips : c \in Clip
  BY DEF TypeOK, Database
<1>2. \A c \in db.clips : LET m == [c EXCEPT !.of = q]
                         IN  m \in Clip /\ m.of = q /\ m.id = c.id /\ m.sha = c.sha
  BY <1>1, MovedClip
<1>3. ASSUME NEW k \in C
      PROVE  k \in Clip /\ \/ k \in db.clips
                           \/ k.of = q /\ \E c \in db.clips : c.id = k.id /\ c.sha = k.sha
  <2>1. CASE k \in db.clips
    BY <1>1, <2>1
  <2>2. ASSUME NEW c \in db.clips, k = [c EXCEPT !.of = q]
        PROVE  k \in Clip /\ k.of = q /\ c.id = k.id /\ c.sha = k.sha
    BY <1>2, <2>2
  <2> QED  BY <2>1, <2>2
<1> QED  BY <1>3 DEF OnlyMoves

\* Clips go to the person of the request, by whatever commit.
LEMMA MovingKeeps ==
  ASSUME PersonsInv, NEW r, NEW h, Writing(r), r.do \in {"move", "merge"},
         NEW C, OnlyMoves(C, r.to), Commit([db EXCEPT !.clips = C], {r.of, r.to}, h),
         UNCHANGED <<fileVars, restoreVars, counters, histories>>
  PROVE  PersonsInv'
<1> DEFINE d == [db EXCEPT !.clips = C]
<1>1. /\ db \in Database /\ ~restoring /\ Commit(d, {r.of, r.to}, h) /\ forgot' = forgot
      /\ UNCHANGED <<fileVars, restoreVars, counters, lost, late>>
  BY DEF PersonsInv, TypeOK, Writing, histories
<1>2. C \in SUBSET Clip
  BY DEF OnlyMoves
<1>3. /\ d \in Database /\ d.people = db.people /\ d.clips = C /\ d.manifests = db.manifests
      /\ d.next = db.next /\ d.journal = db.journal /\ d.forgotten = db.forgotten
  BY <1>1, <1>2, RowsFields
<1>4. r.to \notin db.forgotten \ late
  BY DEF Writing, RequestFits, Brings
<1>5. r.to \in {r.of, r.to}
  OBVIOUS
<1> DEFINE P == {r.of, r.to}
<1>6. \A c \in d.clips :
            \/ c \in db.clips
            \/ /\ c.of \in P /\ c.of \notin db.forgotten \ late
               /\ \E b \in db.clips : b.id = c.id /\ b.sha = c.sha
  BY <1>3, <1>4, <1>5 DEF OnlyMoves
<1> HIDE DEF d, P
<1> QED  BY <1>1, <1>3, <1>6, StoredFit, ChangeKeeps DEF P

LEMMA MoveKeeps ==
  ASSUME PersonsInv, NEW r, NEW h, Writing(r), r.do = "move", Move(r, h)
  PROVE  PersonsInv'
<1>1. PICK c \in r.rows : Commit([db EXCEPT !.clips = Moved(c, r.to)], {r.of, r.to}, h)
  BY DEF Move
<1>2. r.to \in Person
  BY DEF Writing, RequestFits
<1>3. OnlyMoves(Moved(c, r.to), r.to)
  BY <1>2, MovesGive DEF Moved, PersonsInv
<1> QED  BY <1>1, <1>3, MovingKeeps DEF Move

LEMMA MergeKeeps ==
  ASSUME PersonsInv, NEW r, NEW h, Writing(r), r.do = "merge", Merge(r, h)
  PROVE  PersonsInv'
<1> DEFINE C == {c \in db.clips : c.of # r.of} \cup
                {[c EXCEPT !.of = r.to] : c \in {c \in ClipsOf(db, r.of) : ~Holds(db, r.to, c.sha)}}
<1>1. db \in Database /\ Commit([db EXCEPT !.clips = C], {r.of, r.to}, h)
  BY DEF Merge, PersonsInv, TypeOK
<1>2. r.to \in Person
  BY DEF Writing, RequestFits
<1>3. \A k \in C : k \in db.clips \/ \E c \in db.clips : k = [c EXCEPT !.of = r.to]
  BY DEF ClipsOf
<1>4. OnlyMoves(C, r.to)
  BY <1>2, <1>3, MovesGive DEF PersonsInv
<1> HIDE DEF C
<1> QED  BY <1>1, <1>4, MovingKeeps DEF Merge

LEMMA DropKeeps ==
  ASSUME PersonsInv, NEW r, NEW h, Writing(r), Drop(r, h)
  PROVE  PersonsInv'
<1> DEFINE C == Without(r.rows)
           d == [db EXCEPT !.clips = C]
<1>1. /\ db \in Database /\ ~restoring /\ Commit(d, {r.of, r.to}, h) /\ forgot' = forgot
      /\ UNCHANGED <<fileVars, restoreVars, counters, lost, late>>
  BY DEF PersonsInv, TypeOK, Writing, Drop, histories
<1>2. C \in SUBSET Clip /\ \A c \in C : c \in db.clips
  BY <1>1 DEF Without, Database
<1>3. /\ d \in Database /\ d.people = db.people /\ d.clips = C /\ d.manifests = db.manifests
      /\ d.next = db.next /\ d.journal = db.journal /\ d.forgotten = db.forgotten
  BY <1>1, <1>2, RowsFields
<1> HIDE DEF C, d
<1> QED  BY <1>1, <1>2, <1>3, StoredFit, ChangeKeeps

-----------------------------------------------------------------------------
(* Rows come. *)

LEMMA AddEndsKeeps ==
  ASSUME PersonsInv, NEW u \in Upload, AddEnds(u)
  PROVE  PersonsInv'
<1> DEFINE c == [id |-> db.next + 1, of |-> u.of, sha |-> u.sha, client |-> u.client]
           d == [db EXCEPT !.next = @ + 1, !.clips = @ \cup {c}]
<1>1. /\ db \in Database /\ ~restoring /\ u \in arriving /\ arriving' = arriving \ {u}
      /\ forgetting = Nobody /\ db.next \in Nat
      /\ UNCHANGED <<files, unlinking, forgetting, restoreVars, counters, histories>>
  BY DEF PersonsInv, TypeOK, AddEnds, JournalsFit, Quiet, Database
<1>2. c \in Clip /\ c.id = db.next + 1 /\ c.of = u.of /\ c.sha = u.sha
  BY <1>1 DEF Upload, Clip
<1>3. UNCHANGED <<db, request>> \/ Commit(d, {}, Nobody)
  BY DEF AddEnds
<1> HIDE DEF c
<1>4. /\ d \in Database /\ d.people = db.people /\ d.manifests = db.manifests
      /\ d.forgotten = db.forgotten /\ d.journal = db.journal
      /\ d.clips = db.clips \cup {c} /\ d.next = db.next + 1
  <2>1. (db.clips \cup {c}) \in SUBSET Clip /\ db.next + 1 \in Nat
    BY <1>1, <1>2 DEF Database
  <2> QED  BY <1>1, <2>1 DEF Database
<1> HIDE DEF d
<1>5. /\ db' \in Database /\ db'.people = db.people
      /\ db'.forgotten = db.forgotten /\ db'.journal = db.journal
      /\ \A n \in db'.manifests : \E m \in db.manifests : n.of = m.of
      /\ request' \in [Handler -> Request]
      /\ \/ db'.clips = db.clips /\ db'.next = db.next
         \/ db'.clips = db.clips \cup {c} /\ db'.next = db.next + 1
  BY <1>1, <1>3, <1>4, CommitGives DEF PersonsInv, TypeOK, Follows
<1>6. ManifestsFit(db') /\ RequestsFit'
  <2>1. CASE UNCHANGED <<db, request>>
    BY <1>1, <2>1 DEF PersonsInv, ManifestsKnow, RequestsFit, histories
  <2>2. CASE Commit(d, {}, Nobody)
    <3>1. \A k \in db.clips : k.id \in Nat /\ k.id <= db.next
      BY <1>1 DEF Database, Clip, PersonsInv, ManifestsKnow, ManifestsFit
    <3>2. Succeeds(d, {})
      BY <1>1, <1>2, <1>4, <3>1 DEF Succeeds
    <3> QED  BY <1>1, <1>4, <2>2, <3>2, StoredFit, CommitKeeps DEF histories
  <2> QED  BY <1>3, <2>1, <2>2
<1> USE DEF PersonsInv, restoreVars, counters, histories
<1>7. TypeOK'
  BY <1>1, <1>5 DEF TypeOK
<1>8. JournalsFit'
  BY <1>1, <1>5 DEF JournalsFit
<1>9. ManifestsKnow'
  BY <1>1, <1>6 DEF ManifestsKnow
<1>10. ForgottenIsKept'
  <2>1. ForgottenFit(db', late)
    BY <1>1, <1>2, <1>5 DEF ForgottenIsKept, ForgottenFit
  <2> QED  BY <1>1, <1>5, <2>1 DEF ForgottenIsKept
<1>11. AudioIsKept'
  <2>1. \A s : Used(db', s) => Used(db, s) \/ s = u.sha
    BY <1>2, <1>5 DEF Used
  <2> QED  BY <1>1, <1>2, <1>5, <2>1 DEF AudioIsKept
<1> QED  BY <1>6, <1>7, <1>8, <1>9, <1>10, <1>11

\* A bounded set of numbers has a greatest.
LEMMA BoundedHasGreatest ==
  ASSUME NEW I \in SUBSET Nat, NEW n \in Nat, \A i \in I : i <= n, I # {}
  PROVE  \E i \in I : \A j \in I : j <= i
<1> DEFINE Left == {n - i : i \in I}
<1>1. Left \subseteq Nat /\ Left # {}
  <2>1. PICK i \in I : TRUE
    OBVIOUS
  <2>2. n - i \in Left
    BY <2>1
  <2>3. \A j \in I : n - j \in Nat
    OBVIOUS
  <2> QED  BY <2>2, <2>3
<1>2. PICK x \in Left : \A y \in Left : ~(<<y, x>> \in OpToRel(<, Nat))
  BY <1>1, WFMin, NatLessThanWellFounded
<1>3. \A y \in Left : ~(y < x)
  BY <1>1, <1>2 DEF OpToRel
<1>4. PICK i \in I : x = n - i
  BY <1>2
<1>5. ASSUME NEW j \in I
      PROVE  j <= i
  <2>1. n - j \in Left
    OBVIOUS
  <2>2. ~(n - j < n - i)
    BY <1>3, <1>4, <2>1
  <2> QED  BY <2>2
<1> QED  BY <1>5

\* Ids are given in order: the highest in use is at most the last given.
LEMMA HighestIdBound ==
  ASSUME NEW d \in Database, \A c \in d.clips : c.id <= d.next
  PROVE  HighestId(d) \in Nat /\ HighestId(d) <= d.next
<1> DEFINE I == {c.id : c \in d.clips} \cup {0}
<1>1. I \in SUBSET Nat /\ d.next \in Nat /\ I # {} /\ \A i \in I : i <= d.next
  BY DEF Database, Clip
<1>2. \E i \in I : \A j \in I : j <= i
  BY <1>1, BoundedHasGreatest
<1>3. HighestId(d) \in I
  BY <1>2 DEF HighestId
<1> QED  BY <1>1, <1>3

-----------------------------------------------------------------------------
(* Requests are read, wait and are given up. *)

\* Only the requests change.
LEMMA RequestsKeep ==
  ASSUME PersonsInv, ~restoring, request' \in [Handler -> Request],
         \A h \in Handler : RequestFits(request'[h], db, late),
         UNCHANGED <<db, fileVars, restoreVars, counters, histories>>
  PROVE  PersonsInv'
<1> USE DEF PersonsInv, fileVars, restoreVars, counters, histories
<1>1. TypeOK'
  BY DEF TypeOK
<1>2. JournalsFit'
  BY DEF JournalsFit
<1>3. ManifestsKnow'
  BY DEF ManifestsKnow
<1>4. RequestsFit'
  BY DEF RequestsFit
<1>5. ForgottenIsKept'
  BY DEF ForgottenIsKept
<1>6. AudioIsKept'
  BY DEF AudioIsKept, Used
<1> QED  BY <1>1, <1>2, <1>3, <1>4, <1>5, <1>6

\* What a request reads is as it says.
LEMMA AskFields ==
  ASSUME NEW do, NEW p, NEW q, NEW rows, NEW M
  PROVE  LET r == Ask(do, p, q, rows, M)
         IN  r.do = do /\ r.of = p /\ r.to = q /\ r.rows = rows /\ r.manifests = M
  BY DEF Ask

\* What p sends is fit when it comes.
LEMMA ReceivedFits ==
  ASSUME PersonsInv, NEW p \in Person, NEW a \in Client, NEW keep \in SUBSET Sha
  PROVE  LET m == Received(p, a, keep) IN m \in Manifest /\ m.of = p /\ Fits(db, m)
<1>1. db \in Database
  BY DEF PersonsInv, TypeOK
<1>2. HighestId(db) \in Nat /\ HighestId(db) <= db.next
  BY <1>1, HighestIdBound DEF PersonsInv, ManifestsKnow, ManifestsFit
<1>3. {c.id : c \in ClipsOf(db, p)} \in SUBSET Nat /\ Stamped(p) \in SUBSET Handler
  BY <1>1 DEF ClipsOf, Database, Clip, Stamped
<1> DEFINE H == {c.id : c \in ClipsOf(db, p)}
           S == Stamped(p)
           n == HighestId(db)
           m == [of |-> p, client |-> a, keep |-> keep, upto |-> n, had |-> H,
                 judges |-> TRUE, before |-> S, raced |-> FALSE]
<1>4. Received(p, a, keep) = m
  BY DEF Received
<1>5. \A c \in ClipsOf(db, p) : c.id \in H
  OBVIOUS
<1> HIDE DEF H, S, n
<1>6. m \in Manifest /\ m.of = p /\ m.upto = n /\ m.had = H
  BY <1>2, <1>3 DEF Manifest, H, S, n
<1> QED  BY <1>2, <1>4, <1>5, <1>6 DEF Fits, n

\* A request that is idle or none of those that bring something, reading what is stored.
LEMMA ReadsFits ==
  ASSUME PersonsInv, NEW do, NEW p \in Person, NEW q, NEW rows \in SUBSET Clip,
         NEW M \in SUBSET Manifest, \A m \in M : Fits(db, m) /\ (do = "manifest" => m.of = p),
         \/ do \in {"rename", "delete", "press", "forget"} /\ q = Nobody
         \/ do \in {"move", "drop", "merge"} /\ q \in Live
         \/ do = "manifest" /\ q = Nobody /\ p \in Live
  PROVE  /\ Ask(do, p, q, rows, M) \in Request /\ RequestFits(Ask(do, p, q, rows, M), db, late)
         /\ Ask(do, p, q, rows, M).do # "idle"
<1> DEFINE r == Ask(do, p, q, rows, M)
<1>1. r.do = do /\ r.of = p /\ r.to = q /\ r.rows = rows /\ r.manifests = M
  BY AskFields
<1>2. q \in Person \cup {Nobody} /\ (do \in {"move", "drop", "merge"} => q \in Person)
  BY DEF Live, PersonsInv, TypeOK, Database
<1>3. r \in Request
  BY <1>2 DEF Ask, Request
<1> HIDE DEF r
<1>4. \A x \in db.forgotten \ late : ~Brings(r, x)
  BY <1>1 DEF Brings, Live
<1>5. RequestFits(r, db, late)
  BY <1>1, <1>2, <1>4 DEF RequestFits
<1>6. r.do # "idle"
  BY <1>1
<1> QED  BY <1>3, <1>5, <1>6 DEF r

LEMMA AskedFits ==
  ASSUME PersonsInv, ~restoring, NEW r \in Asked
  PROVE  Writing(r)
<1>1. /\ db \in Database /\ Live \subseteq Person
      /\ \A c \in db.clips : c \in Clip /\ c.of \in Person
      /\ \A m \in db.manifests : m \in Manifest
  BY DEF PersonsInv, TypeOK, Database, Live, Clip
<1>2. CASE r \in Renames
  BY <1>1, <1>2, ReadsFits DEF Renames, Writing
<1>3. CASE r \in Merges
  BY <1>1, <1>3, ReadsFits DEF Merges, Writing
<1>4. CASE r \in Moves
  <2>1. PICK c \in db.clips, q \in Live :
          r = Ask(IF Holds(db, q, c.sha) THEN "drop" ELSE "move", c.of, q, {c}, {})
    BY <1>4 DEF Moves
  <2>2. {c} \in SUBSET Clip /\ c.of \in Person
    BY <1>1
  <2> QED  BY <2>1, <2>2, ReadsFits DEF Writing
<1>5. CASE r \in Deletes
  <2>1. PICK c \in db.clips : r = Ask("delete", c.of, Nobody, {c}, {})
    BY <1>5 DEF Deletes
  <2>2. {c} \in SUBSET Clip /\ c.of \in Person
    BY <1>1
  <2> QED  BY <2>1, <2>2, ReadsFits DEF Writing
<1>6. CASE r \in Manifests
  <2>1. PICK p \in Live, a \in Client, keep \in SUBSET Sha :
          r = Ask("manifest", p, Nobody, {}, {Received(p, a, keep)})
    BY <1>6 DEF Manifests
  <2> DEFINE m == Received(p, a, keep)
  <2>2. p \in Person /\ m \in Manifest /\ m.of = p /\ Fits(db, m)
    BY <1>1, ReceivedFits
  <2> HIDE DEF m
  <2>3. {m} \in SUBSET Manifest /\ \A k \in {m} : Fits(db, k) /\ k.of = p
    BY <2>2
  <2> QED  BY <2>1, <2>2, <2>3, ReadsFits DEF Writing, m
<1>7. CASE r \in Forgets
  <2>1. \A p : ClipsOf(db, p) \in SUBSET Clip
    BY <1>1 DEF ClipsOf
  <2> QED  BY <1>1, <1>7, <2>1, ReadsFits DEF Forgets, Writing
<1>8. \A p : /\ Judges(db, p) \in SUBSET Manifest /\ \A m \in Judges(db, p) : Fits(db, m)
             /\ Unused(db, Judges(db, p)) \in SUBSET Clip
  BY <1>1, StoredFit DEF Judges, Unused, JudgedBy, ClipsOf
<1>9. CASE r \in Presses
  BY <1>1, <1>8, <1>9, ReadsFits DEF Presses, Writing
<1>10. ASSUME NEW q \in Presses, r = Looked(q) PROVE Writing(r)
  <2>1. PICK p \in Live : q = Ask("press", p, Nobody, {}, Judges(db, p))
    BY <1>10 DEF Presses
  <2>2. r = Ask("delete", p, Nobody, Unused(db, Judges(db, p)), {})
    BY <1>10, <2>1, AskFields DEF Looked
  <2> QED  BY <1>1, <1>8, <2>2, ReadsFits DEF Writing
<1>11. \/ r \in Renames \/ r \in Merges \/ r \in Moves \/ r \in Deletes \/ r \in Manifests
       \/ r \in Forgets \/ r \in Presses \/ \E q \in Presses : r = Looked(q)
  BY DEF Asked
<1> QED  BY <1>2, <1>3, <1>4, <1>5, <1>6, <1>7, <1>9, <1>10, <1>11

LEMMA WaitsKeeps ==
  ASSUME PersonsInv, NEW h \in Handler, NEW r \in Asked, Waits(h, r)
  PROVE  PersonsInv'
<1>1. Writing(r)
  BY AskedFits DEF Waits
<1>2. request \in [Handler -> Request] /\ request' = [request EXCEPT ![h] = r]
  BY DEF PersonsInv, TypeOK, Waits
<1>3. /\ request' \in [Handler -> Request]
      /\ \A g \in Handler : request'[g] = IF g = h THEN r ELSE request[g]
  BY <1>1, <1>2 DEF Writing
<1>4. \A g \in Handler : RequestFits(request'[g], db, late)
  BY <1>1, <1>3 DEF Writing, PersonsInv, RequestsFit
<1> QED  BY <1>3, <1>4, RequestsKeep DEF Waits

\* Nothing is in hand while a restore replays.
LEMMA HandsServe ==
  ASSUME PersonsInv, NEW h \in Handler, request[h].do # "idle"
  PROVE  Writing(request[h])
  BY IdleFits DEF PersonsInv, JournalsFit, Quiet, RequestsFit, TypeOK, Writing

LEMMA LooksKeeps ==
  ASSUME PersonsInv, NEW h \in Handler, Looks(h)
  PROVE  PersonsInv'
<1> DEFINE r == Ask("delete", request[h].of, Nobody, Unused(db, request[h].manifests), {})
<1>1. Writing(request[h])
  BY HandsServe DEF Looks
<1>2. request[h].of \in Person /\ Unused(db, request[h].manifests) \in SUBSET Clip
  <2>1. \A c \in db.clips : c \in Clip
    BY DEF PersonsInv, TypeOK, Database
  <2> QED  BY <1>1, <2>1 DEF Writing, RequestFits, Unused, JudgedBy, ClipsOf
<1>3. r \in Request /\ RequestFits(r, db, late)
  BY <1>2, ReadsFits
<1>4. request \in [Handler -> Request] /\ request' = [request EXCEPT ![h] = r]
  BY DEF PersonsInv, TypeOK, Looks, Looked
<1> HIDE DEF r
<1>5. /\ request' \in [Handler -> Request]
      /\ \A g \in Handler : request'[g] = IF g = h THEN r ELSE request[g]
  BY <1>3, <1>4
<1>6. \A g \in Handler : RequestFits(request'[g], db, late)
  BY <1>3, <1>5 DEF PersonsInv, RequestsFit
<1> QED  BY <1>1, <1>5, <1>6, RequestsKeep DEF Looks, Writing

LEMMA AnswersFit ==
  ASSUME PersonsInv, NEW h, Answers(h)
  PROVE  /\ request' \in [Handler -> Request]
         /\ \A g \in Handler : RequestFits(request'[g], db, late)
<1>1. \A g \in Handler : request'[g] = Idle \/ request'[g] = request[g]
  BY DEF Answers
<1>2. \A g \in Handler : request'[g] \in Request /\ RequestFits(request'[g], db, late)
  BY <1>1, IdleFits DEF PersonsInv, TypeOK, RequestsFit
<1> QED  BY <1>2 DEF Answers

LEMMA GivesUpKeeps ==
  ASSUME PersonsInv, NEW h \in Handler, GivesUp(h)
  PROVE  PersonsInv'
<1>1. ~restoring
  BY DEF PersonsInv, JournalsFit, Quiet, GivesUp
<1> QED  BY <1>1, AnswersFit, RequestsKeep DEF GivesUp

-----------------------------------------------------------------------------
(* Rows go. *)

LEMMA TombstoneTime ==
  ASSUME NEW t \in Tombstone
  PROVE  t.n \in Nat
  BY DEF Tombstone, ClipTombstone, ForgetTombstone

LEMMA ClipTombstoneFields ==
  ASSUME NEW p \in Person, NEW s \in Sha, NEW n \in Nat, NEW b
  PROVE  LET t == [kind |-> "clip", n |-> n, of |-> p, sha |-> s, removed |-> b]
         IN  /\ t.kind = "clip" /\ t.n = n /\ t.sha = s /\ t.removed = b
             /\ b \in BOOLEAN => t \in Tombstone
  BY DEF Tombstone, ClipTombstone

\* Rows go with their tombstones, and a file is given up when no row is left with its
\* bytes.
LEMMA DeleteKeeps ==
  ASSUME PersonsInv, NEW r, NEW h, Writing(r), Delete(r, h)
  PROVE  PersonsInv'
<1> DEFINE rows == r.rows
           rest == [db EXCEPT !.clips = Without(rows)]
           gone == {c.sha : c \in {c \in rows : ~Used(rest, c.sha)}}
           Tomb(c) == [kind |-> "clip", n |-> erasures + 1, of |-> r.of, sha |-> c.sha,
                       removed |-> c.sha \in gone]
           T == {Tomb(c) : c \in rows}
           d == [rest EXCEPT !.journal = @ \cup T]
<1>1. db \in Database /\ ~restoring /\ erasures \in Nat /\ todo = {}
      /\ UNCHANGED <<files, arriving, forgetting, restoreVars, restores, forgot, late>>
  BY DEF PersonsInv, TypeOK, Writing, JournalsFit, Delete
<1>2. /\ rest.manifests = db.manifests /\ rest.people = db.people
      /\ rest.forgotten = db.forgotten /\ rest.clips = Without(rows)
      /\ rest.next = db.next /\ rest.journal = db.journal /\ rest \in Database
  <2>1. Without(rows) \in SUBSET Clip
    BY <1>1 DEF Database, Without
  <2> QED  BY <1>1, <2>1, RowsFields
<1>3. r.of \in Person /\ \A c \in rows : c \in Clip /\ c.sha \in Sha
  BY DEF Writing, Request, RequestFits, Clip
<1>4. gone \in SUBSET Sha
  BY <1>3
<1>5. /\ Commit(d, {r.of}, h) /\ unlinking' = unlinking \cup gone
      /\ lost' = lost \cup (gone \cap {u.sha : u \in arriving}) /\ erasures' = erasures + 1
  BY DEF Delete
<1>6. \A s \in gone : /\ ~\E c \in Without(rows) : c.sha = s
                      /\ \E c \in rows : c.sha = s
  BY <1>2 DEF Used
<1> HIDE DEF rest, gone
<1>7. \A c \in rows : LET t == Tomb(c) IN
        /\ t.kind = "clip" /\ t.n = erasures + 1 /\ t.sha = c.sha /\ t.removed = (c.sha \in gone)
        /\ t \in Tombstone
  <2> SUFFICES ASSUME NEW c \in rows
               PROVE  LET t == Tomb(c) IN
                        /\ t.kind = "clip" /\ t.n = erasures + 1 /\ t.sha = c.sha
                        /\ t.removed = (c.sha \in gone) /\ t \in Tombstone
    OBVIOUS
  <2> DEFINE b == c.sha \in gone
             t == [kind |-> "clip", n |-> erasures + 1, of |-> r.of, sha |-> c.sha, removed |-> b]
  <2>1. b \in BOOLEAN /\ erasures + 1 \in Nat
    BY <1>1
  <2>2. Tomb(c) = t
    OBVIOUS
  <2> HIDE DEF b
  <2>3. t.kind = "clip" /\ t.n = erasures + 1 /\ t.sha = c.sha /\ t.removed = b /\ t \in Tombstone
    BY <1>3, <2>1, ClipTombstoneFields
  <2> QED  BY <2>2, <2>3 DEF b
<1> HIDE DEF Tomb
<1>8. /\ T \in SUBSET Tombstone /\ \A t \in T : t.n = erasures + 1 /\ t.kind = "clip"
      /\ \A s \in gone : \E t \in T : t.kind = "clip" /\ t.removed /\ t.sha = s
  <2>1. ASSUME NEW s \in gone
        PROVE  \E t \in T : t.kind = "clip" /\ t.removed /\ t.sha = s
    <3>1. PICK c \in rows : c.sha = s
      BY <1>6
    <3>2. Tomb(c) \in T /\ Tomb(c).kind = "clip" /\ Tomb(c).sha = s /\ Tomb(c).removed
      BY <1>7, <3>1
    <3> QED  BY <3>2
  <2> QED  BY <1>7, <2>1
<1> HIDE DEF T
<1>9. /\ d \in Database /\ d.people = db.people /\ d.forgotten = db.forgotten
      /\ d.clips = Without(rows) /\ d.next = db.next /\ d.journal = db.journal \cup T
      /\ d.manifests = db.manifests
  <2>1. (rest.journal \cup T) \in SUBSET Tombstone
    BY <1>2, <1>8 DEF Database
  <2> QED  BY <1>2, <2>1 DEF Database
<1> HIDE DEF d
<1>10. /\ db' \in Database /\ db'.people = db.people /\ db'.forgotten = db.forgotten
       /\ db'.clips = Without(rows) /\ db'.next = db.next /\ db'.journal = db.journal \cup T
       /\ \A k \in db'.manifests : \E m \in db.manifests : k.of = m.of
       /\ request' \in [Handler -> Request] /\ \A c \in Without(rows) : c \in db.clips
  BY <1>5, <1>9, CommitGives DEF PersonsInv, Follows, Without
<1> USE DEF restoreVars
<1>11. TypeOK'
  BY <1>1, <1>4, <1>5, <1>10 DEF PersonsInv, TypeOK
<1>12. /\ \A t \in db.journal : t.n <= erasures /\ t.n \in Nat
       /\ copy # NoCopy => \A t \in copy.journal : t.n <= erasures /\ t.n \in Nat
  BY <1>1, TombstoneTime DEF PersonsInv, JournalsFit, TypeOK, Database
<1>13. JournalsFit'
  BY <1>1, <1>5, <1>8, <1>10, <1>12 DEF JournalsFit
<1>14. ManifestsKnow' /\ RequestsFit'
  <2>1. Succeeds(d, {r.of})
    <3>1. db.next \in Nat /\ \A c \in db.clips : c.id <= db.next
      BY <1>1 DEF Database, PersonsInv, ManifestsKnow, ManifestsFit
    <3> QED  BY <1>9, <1>10, <3>1 DEF Succeeds
  <2>2. ManifestsFit(db') /\ RequestsFit'
    BY <1>1, <1>5, <1>9, <2>1, StoredFit, CommitKeeps
  <2> QED  BY <1>1, <2>2 DEF PersonsInv, ManifestsKnow
<1>15. copy # NoCopy =>
         /\ \A p : Tells(db.journal \ copy.journal, p) => Tells(db'.journal \ copy.journal, p)
         /\ \A s : Removes(db.journal \ copy.journal, s) => Removes(db'.journal \ copy.journal, s)
         /\ \A s \in gone : Removes(db'.journal \ copy.journal, s)
  <2>1. copy # NoCopy => \A t \in T : t \notin copy.journal
    BY <1>1, <1>8, <1>12
  <2> QED  BY <1>8, <1>10, <2>1 DEF Tells, Removes
<1>16. ForgottenIsKept'
  <2>1. ForgottenFit(db', late)
    BY <1>10 DEF PersonsInv, ForgottenIsKept, ForgottenFit
  <2> QED  BY <1>1, <1>10, <1>15, <2>1 DEF PersonsInv, ForgottenIsKept
<1>17. AudioIsKept'
  <2>1. \A s : Used(db', s) => Used(db, s)
    BY <1>10 DEF Used
  <2>2. \A s \in gone : ~Used(db', s)
    BY <1>6, <1>10 DEF Used
  <2>3. ASSUME NEW s \in unlinking'
        PROVE  /\ s \in lost' \/ (~Used(db', s) /\ \A u \in arriving : u.sha # s)
               /\ copy # NoCopy => Removes(db'.journal \ copy.journal, s)
    <3>1. CASE s \in unlinking
      BY <1>5, <1>15, <2>1, <3>1 DEF PersonsInv, AudioIsKept
    <3>2. CASE s \in gone
      BY <1>5, <1>15, <2>2, <3>2
    <3> QED  BY <1>5, <3>1, <3>2
  <2>4. \A c \in db'.clips : c.sha \in files \cup lost'
    BY <1>1, <1>5, <1>10 DEF PersonsInv, AudioIsKept
  <2>5. \A u \in arriving : u.sha \in files \cup lost'
    BY <1>5 DEF PersonsInv, AudioIsKept
  <2>6. copy # NoCopy =>
          \A c \in copy.clips :
            c.sha \in files \cup lost' \/ Removes(db'.journal \ copy.journal, c.sha)
    BY <1>1, <1>5, <1>15 DEF PersonsInv, AudioIsKept
  <2> QED  BY <1>1, <2>3, <2>4, <2>5, <2>6 DEF AudioIsKept
<1> QED  BY <1>11, <1>13, <1>14, <1>16, <1>17 DEF PersonsInv

\* Only files go until a forget is committed.
LEMMA ForgetKeeps ==
  ASSUME PersonsInv, NEW r, NEW h, Writing(r), Forget(r, h)
  PROVE  PersonsInv'
<1> DEFINE gone == {c.sha : c \in {c \in r.rows :
                                     ~Used([db EXCEPT !.clips = @ \ ClipsOf(db, r.of)], c.sha)}}
<1>1. /\ files' = files \ gone /\ lost' = lost \cup gone /\ forgetting' = r.of
      /\ UNCHANGED <<db, arriving, unlinking, restoreVars, counters, forgot, late>>
  BY DEF Forget
<1>2. gone \in SUBSET Sha /\ r.of \in Person /\ ~restoring
  BY DEF Writing, Request, RequestFits, Clip
<1>3. /\ request' \in [Handler -> Request]
      /\ \A g \in Handler : RequestFits(request'[g], db, late)
  BY AnswersFit DEF Forget
<1> HIDE DEF gone
<1> USE DEF PersonsInv, restoreVars, counters
<1>4. TypeOK'
  BY <1>1, <1>2, <1>3 DEF TypeOK
<1>5. JournalsFit'
  BY <1>1, <1>2 DEF JournalsFit
<1>6. ManifestsKnow'
  BY <1>1 DEF ManifestsKnow
<1>7. RequestsFit'
  BY <1>1, <1>3 DEF RequestsFit
<1>8. ForgottenIsKept'
  BY <1>1 DEF ForgottenIsKept
<1>9. AudioIsKept'
  BY <1>1 DEF AudioIsKept, Used
<1> QED  BY <1>4, <1>5, <1>6, <1>7, <1>8, <1>9

LEMMA WritesKeeps ==
  ASSUME PersonsInv, NEW r, NEW h, Writing(r), Writes(r, h)
  PROVE  PersonsInv'
  BY RenameKeeps, MoveKeeps, DropKeeps, MergeKeeps, StoreManifestKeeps, DeleteKeeps, ForgetKeeps
     DEF Writes

LEMMA AtOnceKeeps ==
  ASSUME PersonsInv, NEW r \in Asked, AtOnce(r)
  PROVE  PersonsInv'
  BY AskedFits, WritesKeeps DEF AtOnce, Serving

LEMMA WaitedKeeps ==
  ASSUME PersonsInv, NEW h \in Handler, Waited(h)
  PROVE  PersonsInv'
<1>1. request[h].do # "idle"
  BY DEF Waited, Writes
<1> QED  BY <1>1, HandsServe, WritesKeeps DEF Waited

LEMMA ForgottenFields ==
  ASSUME NEW d \in Database, NEW p \in Person, NEW t \in Tombstone
  PROVE  LET n == Forgotten(d, p, t)
         IN  /\ n.forgotten = d.forgotten \cup {p} /\ n.clips = {c \in d.clips : c.of # p}
             /\ n.manifests = {m \in d.manifests : m.of # p} /\ n.journal = d.journal \cup {t}
             /\ n.people = d.people /\ n.next = d.next /\ n \in Database
<1>1. /\ d.clips \ ClipsOf(d, p) = {c \in d.clips : c.of # p}
      /\ (d.clips \ ClipsOf(d, p)) \in SUBSET Clip
      /\ {m \in d.manifests : m.of # p} \in SUBSET Manifest
      /\ (d.journal \cup {t}) \in SUBSET Tombstone
  BY DEF ClipsOf, Database
<1> QED  BY <1>1 DEF Forgotten, Database

LEMMA ForgetEndsKeeps ==
  ASSUME PersonsInv, ForgetEnds
  PROVE  PersonsInv'
<1> DEFINE p == forgetting
           t == [kind |-> "forget", n |-> erasures + 1, of |-> forgetting]
           d == Forgotten(db, p, t)
<1>1. /\ db \in Database /\ ~restoring /\ erasures \in Nat /\ todo = {} /\ p \in Person
      /\ erasures' = erasures + 1 /\ forgot' = forgot \cup {p} /\ forgetting' = Nobody
      /\ late' \in SUBSET Person /\ late \subseteq late'
      /\ \A u \in arriving : u.of = p => p \in late'
      /\ \A h \in Handler : Brings(request[h], p) => p \in late'
      /\ UNCHANGED <<files, arriving, unlinking, restoreVars, restores, lost>>
  BY DEF PersonsInv, TypeOK, ForgetEnds, JournalsFit, Quiet
<1>2. t \in Tombstone /\ t.kind = "forget" /\ t.of = p /\ t.n = erasures + 1
  BY <1>1 DEF Tombstone, ForgetTombstone
<1>3. Commit(d, {p}, Nobody)
  BY DEF ForgetEnds
<1>4. /\ d.forgotten = db.forgotten \cup {p} /\ d.clips = {c \in db.clips : c.of # p}
      /\ d.manifests = {m \in db.manifests : m.of # p} /\ d.journal = db.journal \cup {t}
      /\ d.people = db.people /\ d.next = db.next /\ d \in Database
  BY <1>1, <1>2, ForgottenFields
<1> HIDE DEF p, t, d
<1>5. /\ db'.forgotten = db.forgotten \cup {p} /\ db'.clips = {c \in db.clips : c.of # p}
      /\ db'.journal = db.journal \cup {t} /\ db'.people = db.people /\ db'.next = db.next
      /\ db' \in Database /\ request' \in [Handler -> Request]
      /\ \A n \in db'.manifests : n.of # p /\ \E m \in db.manifests : n.of = m.of
  BY <1>3, <1>4, CommitGives DEF PersonsInv, Follows
<1> USE DEF restoreVars
<1>6. TypeOK'
  BY <1>1, <1>5 DEF PersonsInv, TypeOK
<1>7. /\ \A u \in db.journal : u.n <= erasures /\ u.n \in Nat
      /\ copy # NoCopy => \A u \in copy.journal : u.n <= erasures /\ u.n \in Nat
  BY <1>1, TombstoneTime DEF PersonsInv, JournalsFit, TypeOK, Database
<1>8. JournalsFit'
  BY <1>1, <1>2, <1>5, <1>7 DEF JournalsFit
<1>9. ManifestsKnow' /\ RequestsFit'
  <2>1. Succeeds(d, {p})
    <3>1. db.next \in Nat /\ \A c \in db.clips : c.id <= db.next
      BY <1>1 DEF Database, PersonsInv, ManifestsKnow, ManifestsFit
    <3> QED  BY <1>4, <3>1 DEF Succeeds
  <2>2. \A q \in d.forgotten \ db.forgotten :
          \A g \in Handler : Brings(request[g], q) => q \in late'
    BY <1>1, <1>4
  <2>3. \A m \in d.manifests : Fits(db, m)
    BY <1>4, StoredFit
  <2>4. ManifestsFit(db') /\ RequestsFit'
    BY <1>1, <1>3, <1>4, <2>1, <2>2, <2>3, CommitKeeps
  <2> QED  BY <1>1, <2>4 DEF PersonsInv, ManifestsKnow
<1>10. copy # NoCopy =>
        /\ \A q : Tells(db.journal \ copy.journal, q) => Tells(db'.journal \ copy.journal, q)
        /\ \A s : Removes(db.journal \ copy.journal, s) => Removes(db'.journal \ copy.journal, s)
        /\ Tells(db'.journal \ copy.journal, p)
  <2>1. copy # NoCopy => t \notin copy.journal
    BY <1>1, <1>2, <1>7
  <2> QED  BY <1>2, <1>5, <2>1 DEF Tells, Removes
<1>11. ForgottenIsKept'
  <2>1. ForgottenFit(db', late')
    BY <1>1, <1>5 DEF PersonsInv, ForgottenIsKept, ForgottenFit
  <2>2. copy # NoCopy => ForgottenFit(copy, late')
    BY <1>1 DEF PersonsInv, ForgottenIsKept, ForgottenFit
  <2> QED  BY <1>1, <1>5, <1>10, <2>1, <2>2 DEF PersonsInv, ForgottenIsKept
<1>12. AudioIsKept'
  <2>1. \A s : Used(db', s) => Used(db, s)
    BY <1>5 DEF Used
  <2> QED  BY <1>1, <1>5, <1>10, <2>1 DEF PersonsInv, AudioIsKept
<1> QED  BY <1>6, <1>8, <1>9, <1>11, <1>12 DEF PersonsInv

-----------------------------------------------------------------------------
(* The journal is replayed. *)

\* What a tombstone takes of the copy's rows is gone, and no row comes.
LEMMA ReplayRows ==
  ASSUME PersonsInv, NEW t \in todo, Replay(t)
  PROVE  /\ db' \in Database /\ db'.people = db.people /\ db'.next = db.next
         /\ db'.clips \in SUBSET db.clips
         /\ \A n \in db'.manifests : \E m \in db.manifests : Follows(n, m, {})
         /\ db'.journal = db.journal \cup {t}
         /\ t.kind = "clip" /\ t.removed => \A c \in db'.clips : c.sha # t.sha
         /\ \/ db'.forgotten = db.forgotten
            \/ /\ db'.forgotten = db.forgotten \cup {t.of}
               /\ \A c \in db'.clips : c.of # t.of
               /\ \A m \in db'.manifests : m.of # t.of
         /\ t.kind = "forget" /\ t.of \in db.people => t.of \in db'.forgotten
<1>1. db \in Database /\ t \in Tombstone
  BY DEF PersonsInv, TypeOK
<1>2. \A m \in db.manifests : m \in Manifest /\ Follows(m, m, {})
  BY <1>1 DEF Database, Follows
<1>3. CASE t.kind = "clip"
  <2> DEFINE rows == {c \in db.clips : c.sha = t.sha /\ (t.removed \/ c.of = t.of)}
             P == {c.of : c \in rows}
             M == Stays(Changed(db.manifests, P, Nobody))
  <2>1. db' = [db EXCEPT !.clips = @ \ rows, !.journal = @ \cup {t}, !.manifests = M]
    BY <1>3 DEF Replay, ReplayClip
  <2>2. \A n \in M : n \in Manifest /\ \E m \in db.manifests : Follows(n, m, {})
    <3>1. db.manifests \in SUBSET Manifest /\ \A n \in M : n \in Changed(db.manifests, P, Nobody)
      BY <1>1 DEF Database, Stays
    <3> HIDE DEF P, M
    <3>2. \A n \in M : \E m \in db.manifests : Follows(n, m, P)
      BY <3>1, ChangedFollows
    <3> QED  BY <3>2 DEF Follows
  <2>3. t.removed => \A c \in db.clips \ rows : c.sha # t.sha
    OBVIOUS
  <2> HIDE DEF rows, P, M
  <2>4. /\ (db.clips \ rows) \in SUBSET Clip /\ (db.journal \cup {t}) \in SUBSET Tombstone
        /\ M \in SUBSET Manifest
    BY <1>1, <2>2 DEF Database
  <2>5. /\ db' \in Database /\ db'.people = db.people /\ db'.next = db.next
        /\ db'.clips = db.clips \ rows /\ db'.manifests = M
        /\ db'.journal = db.journal \cup {t} /\ db'.forgotten = db.forgotten
    BY <1>1, <2>1, <2>4 DEF Database
  <2> QED  BY <1>3, <2>2, <2>3, <2>5
<1>4. CASE t.kind # "clip" /\ t.of \in db.people \ db.forgotten
  <2>1. t.of \in Person
    BY <1>1, <1>4 DEF Database
  <2>2. db' = Forgotten(db, t.of, t)
    BY <1>4 DEF Replay, ReplayForget
  <2> QED  BY <1>1, <1>2, <1>4, <2>1, <2>2, ForgottenFields
<1>5. CASE t.kind # "clip" /\ t.of \notin db.people \ db.forgotten
  <2>1. db' = [db EXCEPT !.journal = @ \cup {t}]
    BY <1>5 DEF Replay, ReplayForget
  <2>2. (db.journal \cup {t}) \in SUBSET Tombstone
    BY <1>1 DEF Database
  <2>3. /\ db' \in Database /\ db'.people = db.people /\ db'.next = db.next
        /\ db'.clips = db.clips /\ db'.manifests = db.manifests
        /\ db'.journal = db.journal \cup {t} /\ db'.forgotten = db.forgotten
    BY <1>1, <2>1, <2>2 DEF Database
  <2> QED  BY <1>2, <1>5, <2>3
<1> QED  BY <1>3, <1>4, <1>5

LEMMA ReplayKeeps ==
  ASSUME PersonsInv, NEW t \in todo, Replay(t)
  PROVE  PersonsInv'
<1>1. /\ restoring /\ todo' = todo \ {t} /\ Quiet
      /\ UNCHANGED <<request, fileVars, copy, restoring, counters, histories>>
  BY DEF PersonsInv, JournalsFit, Replay
<1>2. /\ db' \in Database /\ db'.people = db.people /\ db'.next = db.next
      /\ db'.clips \in SUBSET db.clips
      /\ \A n \in db'.manifests : \E m \in db.manifests : Follows(n, m, {})
      /\ db'.journal = db.journal \cup {t}
      /\ t.kind = "clip" /\ t.removed => \A c \in db'.clips : c.sha # t.sha
      /\ \/ db'.forgotten = db.forgotten
         \/ /\ db'.forgotten = db.forgotten \cup {t.of}
            /\ \A c \in db'.clips : c.of # t.of
            /\ \A m \in db'.manifests : m.of # t.of
      /\ t.kind = "forget" /\ t.of \in db.people => t.of \in db'.forgotten
  BY ReplayRows
<1> USE DEF fileVars, counters, histories
<1>3. TypeOK'
  BY <1>1, <1>2 DEF PersonsInv, TypeOK
<1>4. JournalsFit'
  BY <1>1, <1>2 DEF PersonsInv, JournalsFit, Quiet
<1>5. ManifestsKnow' /\ RequestsFit'
  <2>1. db \in Database /\ \A m \in db.manifests : m \in Manifest /\ Fits(db, m)
    BY StoredFit DEF PersonsInv, TypeOK, Database
  <2>2. Succeeds(db', {})
    <3>1. db.next \in Nat /\ \A c \in db.clips : c.id <= db.next
      BY <2>1 DEF Database, PersonsInv, ManifestsKnow, ManifestsFit
    <3> QED  BY <1>2, <3>1 DEF Succeeds
  <2>3. \A n \in db'.manifests : Fits(db', n)
    BY <1>2, <2>1, <2>2, FollowsFits DEF PersonsInv
  <2>4. ManifestsFit(db')
    BY <2>2, <2>3 DEF ManifestsFit, Succeeds
  <2>5. RequestsFit'
    BY <1>1, IdleFits DEF RequestsFit, Quiet
  <2> QED  BY <1>1, <2>4, <2>5 DEF PersonsInv, ManifestsKnow
<1>6. ForgottenIsKept'
  <2>1. ForgottenFit(db', late)
    <3>1. \A n \in db'.manifests : \E m \in db.manifests : n.of = m.of
      BY <1>2 DEF Follows
    <3> QED  BY <1>2, <3>1 DEF PersonsInv, ForgottenIsKept, ForgottenFit
  <2>2. ASSUME NEW p \in forgot \cap db'.people, p \notin db'.forgotten
        PROVE  Tells(todo', p)
    <3>1. p \in db.people /\ p \notin db.forgotten
      BY <1>2, <2>2
    <3>2. PICK u \in todo : u.kind = "forget" /\ u.of = p
      BY <2>2, <3>1 DEF PersonsInv, ForgottenIsKept, Tells
    <3>3. u # t
      BY <1>2, <2>2, <3>1, <3>2
    <3> QED  BY <1>1, <3>2, <3>3 DEF Tells
  <2> QED  BY <1>1, <2>1, <2>2 DEF PersonsInv, ForgottenIsKept, Quiet
<1>7. AudioIsKept'
  <2>1. ASSUME NEW c \in db'.clips, c.sha \notin files \cup lost
        PROVE  Removes(todo', c.sha)
    <3>1. PICK u \in todo : u.kind = "clip" /\ u.removed /\ u.sha = c.sha
      BY <1>2, <2>1 DEF PersonsInv, AudioIsKept, Removes
    <3>2. u # t
      BY <1>2, <3>1
    <3> QED  BY <1>1, <3>1, <3>2 DEF Removes
  <2> QED  BY <1>1, <2>1 DEF PersonsInv, AudioIsKept, Quiet
<1> QED  BY <1>3, <1>4, <1>5, <1>6, <1>7 DEF PersonsInv

-----------------------------------------------------------------------------
(* The invariant, and what it gives. *)

LEMMA PersonsStart == Init => PersonsInv
<1> SUFFICES ASSUME Init PROVE PersonsInv
  OBVIOUS
<1>1. /\ db.people = {} /\ db.forgotten = {} /\ db.clips = {} /\ db.manifests = {}
      /\ db.journal = {} /\ db \in Database
  BY DEF Init, Database
<1>2. TypeOK
  BY <1>1, IdleFits DEF Init, TypeOK
<1>3. RequestsFit
  BY IdleFits DEF Init, RequestsFit
<1> QED  BY <1>1, <1>2, <1>3 DEF Init, PersonsInv, JournalsFit, ManifestsKnow, ManifestsFit,
                                 ForgottenIsKept, ForgottenFit, AudioIsKept

LEMMA PersonsStep == PersonsInv /\ [Next]_vars => PersonsInv'
<1> SUFFICES ASSUME PersonsInv, [Next]_vars PROVE PersonsInv'
  OBVIOUS
<1>1. CASE UNCHANGED vars
  BY <1>1 DEF PersonsInv, TypeOK, JournalsFit, Quiet, ManifestsKnow, RequestsFit, ForgottenIsKept,
              AudioIsKept, vars, fileVars, restoreVars, counters, histories
<1>2. CASE Next
  BY <1>2, UpsertKeeps, AddBeginsKeeps, AddEndsKeeps, AtOnceKeeps, WaitsKeeps, LooksKeeps,
     WaitedKeeps, GivesUpKeeps, UnlinkKeeps, ForgetEndsKeeps, CrashKeeps, SnapshotKeeps,
     RestoreBeginsKeeps, ReplayKeeps, RestoreEndsKeeps
     DEF Next, Uploads, Requests, Restores
<1> QED  BY <1>1, <1>2

LEMMA PersonsAlways == Spec => []PersonsInv
<1> QED  BY PersonsStart, PersonsStep, PTL DEF Spec

\* Every variable keeps its type.
THEOREM PersonsTypes == Spec => []TypeOK
<1>1. PersonsInv => TypeOK
  BY DEF PersonsInv
<1> QED  BY <1>1, PersonsAlways, PTL

\* A person the owner forgot (persons.forget) has no clip and no manifest, whatever
\* uploads, moves, merges, manifests and restores do: only an upload, a move, a merge or
\* a manifest that had passed its check when the forget was committed leaves one behind.
THEOREM ForgottenKeepNothing == Spec => []ForgottenHasNothing
<1>1. PersonsInv => ForgottenHasNothing
  BY DEF PersonsInv, ForgottenIsKept, ForgottenFit, ForgottenHasNothing, ClipsOf
<1> QED  BY <1>1, PersonsAlways, PTL

\* What the owner's press takes for unused (persons.unused_clips), the app had when it sent
\* its manifest, whatever was stored, moved or merged in since: unless a change stamped
\* before the manifest came was written after it, or the person changed between the
\* press's look at the manifests and its look at the clips.
THEOREM OnlyLeftOutIsUnused == Spec => []UnusedWasLeftOut
<1>1. PersonsInv => UnusedWasLeftOut
  <2> SUFFICES ASSUME PersonsInv,
                      NEW m \in db.manifests \cup UNION {Looking(h) : h \in Handler},
                      NEW c \in JudgedBy(db, m)
               PROVE  KnewOf(m, c)
    BY DEF UnusedWasLeftOut
  <2>1. \A h \in Handler : \A k \in Looking(h) : Fits(db, k)
    BY DEF PersonsInv, RequestsFit, RequestFits, Looking
  <2>2. Fits(db, m)
    BY <2>1, StoredFit
  <2> QED  BY <2>2 DEF Fits, JudgedBy, LeavesOut, KnewOf
<1> QED  BY <1>1, PersonsAlways, PTL

\* A clip has its audio file, though files are shared by their bytes, unlinked after the
\* commit and missing from older copies; but for what a forget or a racing upload lost.
THEOREM AudioStaysThere == Spec => []AudioIsThere
<1>1. PersonsInv => AudioIsThere
  BY DEF PersonsInv, AudioIsKept, AudioIsThere
<1> QED  BY <1>1, PersonsAlways, PTL
=============================================================================

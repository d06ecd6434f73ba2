------------------------------ MODULE Persons ------------------------------
(***************************************************************************)
(* The people of the fleet and their voice clips (memory_service/          *)
(* persons.py, the /v1/persons routes of api.py).                          *)
(*                                                                         *)
(* A clip is a row; its audio is a file named by its hash, shared by every *)
(* row with those bytes.  Files are not part of a transaction: an upload   *)
(* writes the file before the row, a delete unlinks it after the commit,   *)
(* a forget unlinks before.  A capture app says with a manifest which clips *)
(* it still uses; what the manifest leaves out the owner may delete at one *)
(* press.  A restore puts an older copy of the rows back, beside today's   *)
(* files, and replays the journal.                                         *)
(*                                                                         *)
(* A request reads and checks rows before its first write takes the write  *)
(* lock, and others may commit while it waits for that.                    *)
(*                                                                         *)
(* Names, aliases and the facts linked to a person are left out: see Saves. *)
(***************************************************************************)
EXTENDS Integers, FiniteSets

CONSTANTS
  Person, Sha, Client,
  Handler,     \* threads whose request waits for the write lock
  Nobody,      \* no person, no handler
  NoCopy,      \* no snapshot was taken
  MaxClips, MaxErasures, MaxRestores,
  MaxJudged,   \* people with a manifest that may judge, stored or received
  MaxBehind    \* commits of others while a request waits

ASSUME PersonsAssumption ==
  /\ Nobody \notin Person \cup Handler
  /\ MaxClips \in Nat /\ MaxErasures \in Nat /\ MaxRestores \in Nat
  /\ MaxJudged \in Nat /\ MaxBehind \in Nat

Clip == [id : Nat, of : Person, sha : Sha, client : Client]

\* judges: it came after the person's last change, by its time and updated_at.
\* Histories: had, the clips the person had when it came, kept until the person changes;
\* before, the handlers that had stamped a change of the person by then and have yet to
\* write it; raced, one of them has, so that updated_at is from before it came.
Manifest == [of : Person, client : Client, keep : SUBSET Sha, upto : Nat, had : SUBSET Nat,
             judges : BOOLEAN, before : SUBSET Handler, raced : BOOLEAN]

\* What a waiting request has read: the rows it will write, the manifest it received, or
\* the manifests it judges by.
Request == [do : {"idle", "rename", "move", "drop", "merge", "manifest", "delete", "press",
                  "forget"},
            of : Person \cup {Nobody}, to : Person \cup {Nobody},
            rows : SUBSET Clip, manifests : SUBSET Manifest, behind : Nat]
Ask(do, p, q, rows, manifests) ==
  [do |-> do, of |-> p, to |-> q, rows |-> rows, manifests |-> manifests, behind |-> 0]
Idle == Ask("idle", Nobody, Nobody, {}, {})

\* removed: the file went with the row.  n stands for the time.
ClipTombstone == [kind : {"clip"}, n : Nat, of : Person, sha : Sha, removed : BOOLEAN]
ForgetTombstone == [kind : {"forget"}, n : Nat, of : Person]
Tombstone == ClipTombstone \cup ForgetTombstone

\* next: the last clip id given (AUTOINCREMENT).
Database == [people : SUBSET Person, forgotten : SUBSET Person, clips : SUBSET Clip,
             next : Nat, manifests : SUBSET Manifest, journal : SUBSET Tombstone]

VARIABLES
  db,         \* the live database
  request,    \* request[h]: what handler h waits to write
  files,      \* the audio files in data/voice_anchors
  arriving,   \* uploads between the file and the row
  unlinking,  \* files a committed delete has still to unlink
  forgetting, \* the person whose forget is not committed, or Nobody
  copy,       \* a snapshot, or NoCopy
  todo,       \* tombstones a restore has still to replay
  restoring,
  erasures, restores, \* counters
  forgot,     \* history: the people the owner forgot
  lost,       \* history: bytes a forget removed, or that were uploaded while
              \* their delete had yet to unlink them
  late        \* history: people forgotten with an upload under way, or a move, a merge
              \* or a manifest that passed its check

counters == <<erasures, restores>>
restoreVars == <<copy, todo, restoring>>
fileVars == <<files, arriving, unlinking, forgetting>>
histories == <<forgot, lost, late>>
vars == <<db, request, fileVars, restoreVars, counters, histories>>

Upload == [of : Person, sha : Sha, client : Client]

TypeOK ==
  /\ db \in Database /\ request \in [Handler -> Request]
  /\ files \in SUBSET Sha /\ arriving \in SUBSET Upload /\ unlinking \in SUBSET Sha
  /\ forgetting \in Person \cup {Nobody}
  /\ copy \in Database \cup {NoCopy}
  /\ todo \in SUBSET Tombstone /\ restoring \in BOOLEAN
  /\ erasures \in Nat /\ restores \in Nat
  /\ forgot \in SUBSET Person /\ lost \in SUBSET Sha /\ late \in SUBSET Person

Init ==
  /\ db = [people |-> {}, forgotten |-> {}, clips |-> {}, next |-> 0,
           manifests |-> {}, journal |-> {}]
  /\ request = [h \in Handler |-> Idle]
  /\ files = {} /\ arriving = {} /\ unlinking = {} /\ forgetting = Nobody
  /\ copy = NoCopy /\ todo = {} /\ restoring = FALSE
  /\ erasures = 0 /\ restores = 0
  /\ forgot = {} /\ lost = {} /\ late = {}

-----------------------------------------------------------------------------
(* Helpers on the rows. *)

Found(p) == p \in db.people
\* 410 for the forgotten.
Open(p) == Found(p) /\ p \notin db.forgotten

ClipsOf(d, p) == {c \in d.clips : c.of = p}
Holds(d, p, s) == \E c \in d.clips : c.of = p /\ c.sha = s
Used(d, s) == \E c \in d.clips : c.sha = s

\* What a manifest leaves out of the clips stored before it came, and unused_clips.
LeavesOut(m, c) == c.client = m.client /\ c.id <= m.upto /\ c.sha \notin m.keep
JudgedBy(d, m) == {c \in ClipsOf(d, m.of) : LeavesOut(m, c)}
Judges(d, p) == {m \in d.manifests : m.of = p /\ m.judges}
Unused(d, M) == UNION {JudgedBy(d, m) : m \in M}

\* Handler h, or Nobody, has set updated_at of the people in P and is done: a manifest
\* that came before the time it set judges nothing any more, one that came after judges
\* again.
Changed(M, P, h) ==
  {[m EXCEPT !.judges = IF m.of \in P THEN h \in m.before ELSE @,
             !.raced = @ \/ (m.of \in P /\ h \in m.before),
             !.had = IF m.of \in P THEN {} ELSE @,
             !.before = @ \ {h}] : m \in M}

\* A stored manifest is left out once it cannot judge again.
Stays(M) == {m \in M : m.judges \/ m.before # {}}

\* Handler h has answered.  Nobody is no handler.
Answers(h) == request' = [g \in Handler |-> IF g = h THEN Idle ELSE request[g]]

\* d is committed, with the people in P changed, by h or, when nothing was waited for,
\* by Nobody.
Commit(d, P, h) ==
  /\ \A g \in Handler \ {h} : request[g] # Idle => request[g].behind < MaxBehind
  /\ db' = [d EXCEPT !.manifests = Stays(Changed(@, P, h))]
  /\ request' = [g \in Handler |->
                   IF g = h \/ request[g] = Idle THEN Idle
                   ELSE [request[g] EXCEPT !.manifests = Changed(@, P, h), !.behind = @ + 1]]

\* A forget holds the write lock until its commit.  Other requests overlap.
Serving == ~restoring /\ forgetting = Nobody
Quiet == /\ arriving = {} /\ unlinking = {} /\ forgetting = Nobody
         /\ \A h \in Handler : request[h] = Idle

-----------------------------------------------------------------------------
(* The requests of the capture apps. *)

\* Mutant of Upsert: a person the owner forgot starts afresh.
UpsertRevives(p) ==
  /\ Serving
  /\ Commit([db EXCEPT !.people = @ \cup {p}, !.forgotten = @ \ {p}], {p}, Nobody)
  /\ forgot' = IF Found(p) THEN forgot ELSE forgot \ {p}
  /\ UNCHANGED <<fileVars, restoreVars, counters, lost, late>>

\* The row is made when there is none; a person made anew is not the one forgotten
\* in a copy that is no longer live.  The time is taken under the lock.
Upsert(p) ==
  /\ Serving
  /\ Commit([db EXCEPT !.people = @ \cup {p}], {p}, Nobody)
  /\ forgot' = IF Found(p) THEN forgot ELSE forgot \ {p}
  /\ UNCHANGED <<fileVars, restoreVars, counters, lost, late>>

\* add_clip up to the insert: the file is written unless it is there.
AddBegins(u) ==
  /\ ~restoring /\ Open(u.of) /\ ~Holds(db, u.of, u.sha)
  /\ db.next + Cardinality(arriving) < MaxClips
  /\ files' = files \cup {u.sha}
  /\ lost' = IF u.sha \in unlinking THEN lost \cup {u.sha} ELSE lost \ {u.sha}
  /\ arriving' = arriving \cup {u}
  /\ UNCHANGED <<db, request, unlinking, forgetting, restoreVars, counters, forgot, late>>

\* The insert, which fails on the second row for the same person and bytes.
AddEnds(u) ==
  /\ u \in arriving /\ forgetting = Nobody
  /\ arriving' = arriving \ {u}
  /\ IF Holds(db, u.of, u.sha) THEN UNCHANGED <<db, request>>
     ELSE Commit([db EXCEPT !.next = @ + 1,
                            !.clips = @ \cup {[id |-> db.next + 1, of |-> u.of,
                                               sha |-> u.sha, client |-> u.client]}],
                 {}, Nobody)
  /\ UNCHANGED <<files, unlinking, forgetting, restoreVars, counters, histories>>

HighestId(d) == LET I == {c.id : c \in d.clips} \cup {0} IN
                CHOOSE i \in I : \A j \in I : j <= i

-----------------------------------------------------------------------------
(* What a request reads and checks before it writes: its time is taken      *)
(* here too in a rename, a move, a merge and a manifest.                    *)

Live == db.people \ db.forgotten

\* Changes of p that are stamped and not written.
Stamped(p) == {h \in Handler : /\ request[h].do \in {"rename", "move", "drop", "merge"}
                               /\ p \in {request[h].of, request[h].to}}

Received(p, a, keep) ==
  [of |-> p, client |-> a, keep |-> keep, upto |-> HighestId(db),
   had |-> {c.id : c \in ClipsOf(db, p)},
   judges |-> TRUE, before |-> Stamped(p), raced |-> FALSE]

Renames == {Ask("rename", p, Nobody, {}, {}) : p \in Live}
Merges == {Ask("merge", p, q, {}, {}) : p \in Live, q \in Live}

\* When q has the bytes already the row just goes; q may be the person it is of.  A clip
\* may be moved, or deleted, from the forgotten.
Moves == {Ask(IF Holds(db, q, c.sha) THEN "drop" ELSE "move", c.of, q, {c}, {}) :
            c \in db.clips, q \in Live}
Deletes == {Ask("delete", c.of, Nobody, {c}, {}) : c \in db.clips}

Manifests == {Ask("manifest", p, Nobody, {}, {Received(p, a, keep)}) :
                p \in Live, a \in Client, keep \in SUBSET Sha}

Forgets == {Ask("forget", p, Nobody, ClipsOf(db, p), {}) : p \in Live}

\* The press, for one person, or for everyone, one commit after the other, looks for the
\* manifests that judge and then for the clips they leave out.
Presses == {Ask("press", p, Nobody, {}, Judges(db, p)) : p \in Live}
Looked(r) == Ask("delete", r.of, Nobody, Unused(db, r.manifests), {})

Judged == {m.of : m \in db.manifests \cup UNION {request[h].manifests : h \in Handler}}

Asked ==
  {r \in UNION {Renames, Merges, Moves, Deletes, Manifests, Forgets, Presses,
                {Looked(q) : q \in Presses}} :
     /\ r.do = "manifest" => Cardinality(Judged \cup {r.of}) <= MaxJudged
     /\ r.do = "merge" => r.of # r.to
     /\ r.do = "press" => r.manifests # {}
     /\ r.do = "delete" => r.rows # {}}

Looks(h) ==
  /\ request[h].do = "press"
  /\ request' = [request EXCEPT ![h] = Looked(@)]
  /\ UNCHANGED <<db, fileVars, restoreVars, counters, histories>>

-----------------------------------------------------------------------------
(* What a request writes, by the ids it read, once it has the lock.         *)

Without(rows) == {c \in db.clips : \A r \in rows : c.id # r.id}

Rename(r, h) ==
  /\ Commit(db, {r.of}, h)
  /\ UNCHANGED <<fileVars, restoreVars, counters, histories>>

\* Replaces the app's last manifest for this person.
StoreManifest(r, h) ==
  /\ Commit([db EXCEPT !.manifests = r.manifests \cup
                {m \in @ : \A n \in r.manifests : <<m.of, m.client>> # <<n.of, n.client>>}],
            {}, h)
  /\ UNCHANGED <<fileVars, restoreVars, counters, histories>>

Moved(c, q) == {IF k.id = c.id THEN [k EXCEPT !.of = q] ELSE k : k \in db.clips}

\* A second row for the same person and bytes is refused.
Clashes(C) == \E k \in C, l \in C : k.id # l.id /\ k.of = l.of /\ k.sha = l.sha

\* Mutant of Move: the person it comes to is not marked as changed.
MoveUnmarked(r, h) ==
  /\ \E c \in r.rows : /\ ~Clashes(Moved(c, r.to))
                       /\ Commit([db EXCEPT !.clips = Moved(c, r.to)], {r.of}, h)
  /\ UNCHANGED <<fileVars, restoreVars, counters, histories>>

\* The row may be gone, or somebody else's, by now.
Move(r, h) ==
  /\ \E c \in r.rows : /\ ~Clashes(Moved(c, r.to))
                       /\ Commit([db EXCEPT !.clips = Moved(c, r.to)], {r.of, r.to}, h)
  /\ UNCHANGED <<fileVars, restoreVars, counters, histories>>

Drop(r, h) ==
  /\ Commit([db EXCEPT !.clips = Without(r.rows)], {r.of, r.to}, h)
  /\ UNCHANGED <<fileVars, restoreVars, counters, histories>>

\* The loser's row stays, and answers as before.
Merge(r, h) ==
  /\ Commit([db EXCEPT !.clips =
               {c \in @ : c.of # r.of} \cup
               {[c EXCEPT !.of = r.to] :
                  c \in {c \in ClipsOf(db, r.of) : ~Holds(db, r.to, c.sha)}}],
            {r.of, r.to}, h)
  /\ UNCHANGED <<fileVars, restoreVars, counters, histories>>

\* _erase_anchor on each row, one commit, then _unlink: a file goes when no row that
\* stays has its bytes.  The time is taken under the lock.
Delete(r, h) ==
  LET left == [db EXCEPT !.clips = Without(r.rows)]
      gone == {c.sha : c \in {c \in r.rows : ~Used(left, c.sha)}} IN
  /\ r.rows # {} /\ erasures < MaxErasures
  /\ Commit([left EXCEPT
               !.journal = @ \cup {[kind |-> "clip", n |-> erasures + 1, of |-> r.of,
                                    sha |-> c.sha, removed |-> c.sha \in gone] : c \in r.rows}],
            {r.of}, h)
  /\ unlinking' = unlinking \cup gone
  /\ lost' = lost \cup (gone \cap {u.sha : u \in arriving})
  /\ erasures' = erasures + 1
  /\ UNCHANGED <<files, arriving, forgetting, restoreVars, restores, forgot, late>>

Unlink(s) ==
  /\ s \in unlinking
  /\ files' = files \ {s}
  /\ unlinking' = unlinking \ {s}
  /\ UNCHANGED <<db, request, arriving, forgetting, restoreVars, counters, histories>>

\* forget up to its commit: the files of the clips it read go while the rows' deletion is
\* not yet certain.
Forget(r, h) ==
  LET gone == {c.sha : c \in {c \in r.rows :
                                ~Used([db EXCEPT !.clips = @ \ ClipsOf(db, r.of)], c.sha)}} IN
  /\ erasures < MaxErasures
  /\ Answers(h)
  /\ files' = files \ gone
  /\ lost' = lost \cup gone
  /\ forgetting' = r.of
  /\ UNCHANGED <<db, arriving, unlinking, restoreVars, counters, forgot, late>>

Writes(r, h) ==
  \/ r.do = "rename" /\ Rename(r, h)
  \/ r.do = "move" /\ Move(r, h)
  \/ r.do = "drop" /\ Drop(r, h)
  \/ r.do = "merge" /\ Merge(r, h)
  \/ r.do = "manifest" /\ StoreManifest(r, h)
  \/ r.do = "delete" /\ Delete(r, h)
  \/ r.do = "forget" /\ Forget(r, h)

\* The lock is free.
AtOnce(r) == Serving /\ Writes(r, Nobody)

\* It is not, and what the request read may change before it is.
\* Bound: nothing was erased, and no snapshot taken, by then.
Waits(h, r) ==
  /\ ~restoring /\ copy = NoCopy /\ erasures = 0 /\ restores = 0
  /\ request[h] = Idle
  /\ request' = [request EXCEPT ![h] = r]
  /\ UNCHANGED <<db, fileVars, restoreVars, counters, histories>>

Waited(h) == Serving /\ Writes(request[h], h)

\* The lock is not had in time, a row is refused, or there was nothing to delete.
GivesUp(h) ==
  /\ request[h] # Idle /\ Answers(h)
  /\ UNCHANGED <<db, fileVars, restoreVars, counters, histories>>

\* What forget leaves of the rows, for the owner and for the replay.
Forgotten(d, p, t) ==
  [d EXCEPT !.forgotten = @ \cup {p},
            !.clips = @ \ ClipsOf(d, p),
            !.manifests = {m \in @ : m.of # p},
            !.journal = @ \cup {t}]

\* r brings a clip or a manifest to p.
Brings(r, p) == \/ r.do \in {"move", "merge"} /\ r.to = p
                \/ r.do = "manifest" /\ r.of = p

ForgetEnds ==
  /\ forgetting # Nobody
  /\ Commit(Forgotten(db, forgetting,
                      [kind |-> "forget", n |-> erasures + 1, of |-> forgetting]),
            {forgetting}, Nobody)
  /\ erasures' = erasures + 1
  /\ forgot' = forgot \cup {forgetting}
  /\ late' = IF \/ \E u \in arriving : u.of = forgetting
                \/ \E h \in Handler : Brings(request[h], forgetting)
             THEN late \cup {forgetting} ELSE late
  /\ forgetting' = Nobody
  /\ UNCHANGED <<files, arriving, unlinking, restoreVars, restores, lost>>

\* The process dies and starts again.
Crash ==
  /\ ~Quiet
  /\ arriving' = {} /\ unlinking' = {} /\ forgetting' = Nobody
  /\ request' = [h \in Handler |-> Idle]
  /\ db' = [db EXCEPT !.manifests = Stays({[m EXCEPT !.before = {}] : m \in @})]
  /\ UNCHANGED <<files, restoreVars, counters, histories>>

-----------------------------------------------------------------------------
(* The snapshot and the restore (the service is stopped; that it may die is left to *)
(* Restore). *)

\* Bounds: one for each restore there will be, taken while no manifest judges.
Snapshot ==
  /\ ~restoring /\ Quiet /\ copy = NoCopy /\ restores < MaxRestores
  /\ db.manifests = {} /\ copy' = db
  /\ UNCHANGED <<db, request, fileVars, todo, restoring, counters, histories>>

RestoreBegins ==
  /\ ~restoring /\ Quiet /\ copy # NoCopy /\ restores < MaxRestores
  /\ restoring' = TRUE
  /\ todo' = db.journal \ copy.journal
  /\ db' = copy
  /\ restores' = restores + 1
  /\ UNCHANGED <<request, fileVars, copy, erasures, histories>>

\* Mutant of ReplayClip: a clip is looked for under its person only.
ReplayClipNamed(t) ==
  LET rows == {c \in db.clips : c.sha = t.sha /\ c.of = t.of} IN
  [db EXCEPT !.clips = @ \ rows, !.journal = @ \cup {t},
             !.manifests = Stays(Changed(@, {c.of : c \in rows}, Nobody))]

\* A clip whose file went: every row with those bytes goes.  Else the person's.
ReplayClip(t) ==
  LET rows == {c \in db.clips : c.sha = t.sha /\ (t.removed \/ c.of = t.of)} IN
  [db EXCEPT !.clips = @ \ rows, !.journal = @ \cup {t},
             !.manifests = Stays(Changed(@, {c.of : c \in rows}, Nobody))]

\* A forget of someone the copy has not, or has forgotten, is only written down.
ReplayForget(t) ==
  IF t.of \in db.people \ db.forgotten THEN Forgotten(db, t.of, t)
  ELSE [db EXCEPT !.journal = @ \cup {t}]

Replay(t) ==
  /\ restoring /\ t \in todo /\ \A u \in todo : t.n <= u.n
  /\ db' = IF t.kind = "clip" THEN ReplayClip(t) ELSE ReplayForget(t)
  /\ todo' = todo \ {t}
  /\ UNCHANGED <<request, fileVars, copy, restoring, counters, histories>>

RestoreEnds ==
  /\ restoring /\ todo = {}
  /\ restoring' = FALSE /\ copy' = NoCopy
  /\ UNCHANGED <<db, request, fileVars, todo, counters, histories>>

-----------------------------------------------------------------------------
Uploads ==
  \/ \E p \in Person : Upsert(p)
  \/ \E u \in Upload : AddBegins(u) \/ AddEnds(u)

Requests ==
  \/ ~restoring /\ \E r \in Asked : AtOnce(r) \/ \E h \in Handler : Waits(h, r)
  \/ \E h \in Handler : Looks(h) \/ Waited(h) \/ GivesUp(h)

Restores == Snapshot \/ RestoreBegins \/ (\E t \in todo : Replay(t)) \/ RestoreEnds

Next == Uploads \/ Requests \/ (\E s \in Sha : Unlink(s)) \/ ForgetEnds \/ Crash \/ Restores

Spec == Init /\ [][Next]_vars

-----------------------------------------------------------------------------
(* Properties. *)

\* A person the owner forgot has no clip and no manifest, whatever is moved, merged
\* or upserted later, and whichever copy is restored; unless an upload for that person,
\* a move or a merge to them or a manifest of them was between its check and its write
\* when the forget was committed.
ForgottenHasNothing ==
  \A p \in (db.forgotten \cup (IF restoring THEN {} ELSE forgot)) \cap db.people :
    /\ p \in db.forgotten
    /\ p \notin late => ClipsOf(db, p) = {} /\ \A m \in db.manifests : m.of # p

\* What the owner's press would delete as unused, at its second look too, the app knew
\* of when it said what it keeps: the clip was that person's at the time.  A clip stored,
\* moved or merged in later is not judged; unless the change was stamped before the
\* manifest came and written after, or came between the press's look at the manifests
\* and that at the clips.
Looking(h) == IF request[h].do = "press" THEN request[h].manifests ELSE {}
KnewOf(m, c) == c.id \in m.had \/ m.raced \/ ~m.judges
UnusedWasLeftOut ==
  \A m \in db.manifests \cup UNION {Looking(h) : h \in Handler} :
    \A c \in JudgedBy(db, m) : KnewOf(m, c)

\* docs/TESTING.md: "Bytes another clip still uses are kept": no delete, move, merge
\* or restore leaves a clip without its audio.  Only a forget can (an older copy, or
\* the rows of a forget that died, still list what it removed), or an upload of the
\* very bytes whose delete is between its commit and its unlink.
AudioIsThere ==
  ~restoring => \A c \in db.clips : c.sha \in files \cup lost

=============================================================================

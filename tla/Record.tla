------------------------------- MODULE Record -------------------------------
(***************************************************************************)
(* The episodic record of one conversation: messages, the files that came  *)
(* with them, the captions of images and the two search indexes            *)
(* (memory_service/episodic.py, captions.py, erasers.py, the index repair  *)
(* of db.py).                                                              *)
(*                                                                         *)
(* Rows, captions and indexes change in transactions; a file is written    *)
(* before its row and unlinked after the commit.  The eraser reads the row, *)
(* and what the index holds for it, before its transaction begins.  The    *)
(* caption worker of a distill reads the bytes, asks a model, and inserts. *)
(*                                                                         *)
(* The client sends its messages in order and tries again until it is      *)
(* answered.  A restore puts an older copy of the rows and the indexes back *)
(* and replays the journal; the client then asks for the watermark.        *)
(***************************************************************************)
EXTENDS Integers, FiniteSets

CONSTANTS
  File, Image,          \* the bytes; those that are images
  Carries,              \* the file that comes with each message: message i has
                        \* the external id i
  NoRow, NoCopy,
  MaxRows, MaxErasures, MaxRestores, MaxFaults

Ref == DOMAIN Carries

ASSUME RecordAssumption ==
  /\ Image \subseteq File /\ Carries \in [Ref -> File] /\ Ref \subseteq Nat \ {0}
  /\ NoRow \notin Nat
  /\ MaxRows \in Nat /\ MaxErasures \in Nat /\ MaxRestores \in Nat /\ MaxFaults \in Nat

Message == [id : Nat, ref : Ref]
Attachment == [id : Nat, ref : Ref, file : File]
\* The words an index entry is made of: the file's text, or the caption.
Entry == [id : Nat, words : {"text", "caption"}]
\* n stands for the time.
MessageTombstone == [kind : {"message"}, n : Nat, id : Nat, ref : Ref]
FileTombstone == [kind : {"attachment"}, n : Nat, id : Nat]

\* captions: the ids of captioned attachments.  said: the ids in messages_fts.
\* entries, sized: the words and the _docsize rows of attachments_fts.  stemmed:
\* both indexes have the tokenizer of the schema.
Database == [messages : SUBSET Message, lastMessage : Nat,
             attachments : SUBSET Attachment, lastAttachment : Nat,
             captions : SUBSET Nat, journal : SUBSET (MessageTombstone \cup FileTombstone),
             said : SUBSET Nat, entries : SUBSET Entry, sized : SUBSET Nat,
             stemmed : BOOLEAN]

VARIABLES
  db,         \* the live database
  files,      \* data/attachments
  phase,      \* of the service: up, down, rebuilding its indexes, restoring
  ingesting,  \* the message whose ingest holds the write lock, or 0
  answer,     \* the message whose ingest is committed and not answered, or 0
  sent,       \* the client's watermark
  erasing,    \* what the eraser read, or NoRow
  unlinking,  \* files a committed erasure has still to unlink
  captioning, \* the attachment the vision model looks at, or 0
  copy, todo, \* a snapshot or NoCopy; tombstones a restore has still to replay
  erasures, restores, faults, \* counters
  lost,       \* history: bytes ingested between their erasure and its unlink
  torn,       \* history: attachments captioned after their eraser had read them
  gone        \* history: messages erased after the client was answered

requests == <<ingesting, answer, erasing, unlinking, captioning>>
counters == <<erasures, restores, faults>>
histories == <<lost, torn, gone>>
vars == <<db, files, phase, requests, sent, copy, todo, counters, histories>>

TypeOK ==
  /\ db \in Database /\ files \in SUBSET File
  /\ phase \in {"up", "down", "rebuilding", "restoring"}
  /\ ingesting \in Ref \cup {0} /\ answer \in Ref \cup {0} /\ sent \in Nat
  /\ erasing \in [row : Attachment, words : {"text", "caption"}] \cup {NoRow}
  /\ unlinking \in SUBSET File /\ captioning \in Nat
  /\ copy \in Database \cup {NoCopy}
  /\ todo \in SUBSET (MessageTombstone \cup FileTombstone)
  /\ erasures \in Nat /\ restores \in Nat /\ faults \in Nat
  /\ lost \in SUBSET File /\ torn \in SUBSET Nat /\ gone \in SUBSET Ref

Init ==
  /\ db = [messages |-> {}, lastMessage |-> 0, attachments |-> {}, lastAttachment |-> 0,
           captions |-> {}, journal |-> {}, said |-> {}, entries |-> {}, sized |-> {},
           stemmed |-> TRUE]
  /\ files = {} /\ phase = "down"
  /\ ingesting = 0 /\ answer = 0 /\ sent = 0
  /\ erasing = NoRow /\ unlinking = {} /\ captioning = 0
  /\ copy = NoCopy /\ todo = {}
  /\ erasures = 0 /\ restores = 0 /\ faults = 0
  /\ lost = {} /\ torn = {} /\ gone = {}

-----------------------------------------------------------------------------
(* Helpers on the rows. *)

Ids(rows) == {r.id : r \in rows}
Highest(S) == CHOOSE i \in S \cup {0} : \A j \in S : j <= i
Held(d, r) == \E m \in d.messages : m.ref = r
Used(d, f) == \E a \in d.attachments : a.file = f

\* What extract_text finds: nothing in an image.
TextOf(a) == IF a.file \in Image THEN {} ELSE {[id |-> a.id, words |-> "text"]}

\* What a row's entry should hold.
Indexed(d, a) ==
  IF a.id \in d.captions THEN {[id |-> a.id, words |-> "caption"]} ELSE TextOf(a)

\* pending_images.
Pending(d) == {a \in d.attachments : a.file \in Image /\ a.id \notin d.captions}

\* What a search for a word of every row finds.  Hits come from the rows and are
\* matched by the index.
Drifted(d) == d.said = {} /\ d.messages # {}

MessageHits(d) == IF Drifted(d) THEN d.messages ELSE {m \in d.messages : m.id \in d.said}

\* A hit on a file shows its caption when there is one, its text when not.
FileHits(d) ==
  {[id |-> e.id, matched |-> e.words, shown |-> IF e.id \in d.captions THEN "caption" ELSE "text"] :
     e \in {e \in d.entries : e.id \in Ids(d.attachments)}}

Search(d) ==
  [messages |-> MessageHits(d), files |-> IF Drifted(d) THEN {} ELSE FileHits(d)]

Serving == phase = "up" /\ ingesting = 0
Quiet == ingesting = 0 /\ answer = 0 /\ erasing = NoRow /\ unlinking = {} /\ captioning = 0

-----------------------------------------------------------------------------
(* Ingest. *)

\* ingest up to the commit: the message's insert takes the write lock, the file is
\* written unless it is there.
IngestBegins(r) ==
  /\ Serving /\ answer = 0 /\ r = sent + 1
  /\ db.lastMessage < MaxRows /\ db.lastAttachment < MaxRows
  /\ ingesting' = r
  /\ files' = files \cup {Carries[r]}
  /\ lost' = IF Carries[r] \in unlinking THEN lost \cup {Carries[r]}
             ELSE lost \ {Carries[r]}
  /\ UNCHANGED <<db, phase, answer, erasing, unlinking, captioning, sent, copy, todo,
                 counters, torn, gone>>

WithMessage(d, r) ==
  IF Held(d, r) THEN d
  ELSE [d EXCEPT !.lastMessage = @ + 1,
                 !.messages = @ \cup {[id |-> d.lastMessage + 1, ref |-> r]},
                 !.said = @ \cup {d.lastMessage + 1}]

\* The row of a file, also of a message that was there already.
WithAttachment(d, r) ==
  LET a == [id |-> d.lastAttachment + 1, ref |-> r, file |-> Carries[r]] IN
  IF \E b \in d.attachments : b.ref = r /\ b.file = a.file THEN d
  ELSE [d EXCEPT !.lastAttachment = a.id, !.attachments = @ \cup {a},
                 !.entries = @ \cup TextOf(a), !.sized = @ \cup {a.id}]

IngestEnds ==
  /\ ingesting # 0
  /\ db' = WithAttachment(WithMessage(db, ingesting), ingesting)
  /\ ingesting' = 0 /\ answer' = ingesting
  /\ UNCHANGED <<files, phase, erasing, unlinking, captioning, sent, copy, todo,
                 counters, histories>>

\* The client hears of it, or does not and sends the message again.
Answered ==
  /\ answer # 0 /\ answer' = 0
  /\ sent' \in {sent, answer}
  /\ UNCHANGED <<db, files, phase, ingesting, erasing, unlinking, captioning, copy, todo,
                 counters, histories>>

\* Mutant of Watermark: only what is held counts.
WatermarkHeld(d) == Highest({m.ref : m \in d.messages})

Watermark(d) ==
  Highest({m.ref : m \in d.messages} \cup
          {t.ref : t \in {t \in d.journal : t.kind = "message"}})

\* The client never winds forward.
WindBack ==
  /\ Serving /\ answer = 0 /\ Watermark(db) < sent
  /\ sent' = Watermark(db)
  /\ UNCHANGED <<db, files, phase, requests, copy, todo, counters, histories>>

-----------------------------------------------------------------------------
(* Captions. *)

\* One image: its bytes are read and the model asked.  A file that is not there is
\* skipped.
CaptionReads(a) ==
  /\ phase = "up" /\ captioning = 0 /\ a \in Pending(db) /\ a.file \in files
  /\ captioning' = a.id
  /\ UNCHANGED <<db, files, phase, ingesting, answer, erasing, unlinking, sent, copy,
                 todo, counters, histories>>

\* The caption and its entry; nothing when there is one.  When the row went in between,
\* the insert fails and the distill with it.
CaptionWrites ==
  /\ Serving /\ captioning # 0 /\ captioning' = 0
  /\ db' = IF captioning \in Ids(db.attachments)
           THEN [db EXCEPT !.captions = @ \cup {captioning},
                           !.entries = @ \cup {[id |-> captioning, words |-> "caption"]}]
           ELSE db
  /\ torn' = IF erasing # NoRow /\ erasing.row.id = captioning
             THEN torn \cup {captioning} ELSE torn
  /\ UNCHANGED <<files, phase, ingesting, answer, erasing, unlinking, sent, copy, todo,
                 counters, lost, gone>>

\* The model fails, or says nothing.
CaptionFails ==
  /\ captioning # 0 /\ captioning' = 0
  /\ UNCHANGED <<db, files, phase, ingesting, answer, erasing, unlinking, sent, copy,
                 todo, counters, histories>>

-----------------------------------------------------------------------------
(* The erasers. *)

\* Mutant of Looked: the attachment's own text, as if it had no caption.
LookedAtText(d, a) == "text"

\* COALESCE(caption, extracted_text).
Looked(d, a) == IF a.id \in d.captions THEN "caption" ELSE "text"

\* The eraser's transaction, given what it read of the row.
WithoutAttachment(d, e, t) ==
  [d EXCEPT !.entries = @ \ {[id |-> e.row.id, words |-> e.words]},
            !.sized = @ \ {e.row.id},
            !.attachments = {a \in @ : a.id # e.row.id},
            !.captions = @ \ {e.row.id},
            !.journal = @ \cup {t}]

\* Bound: one press at a time.
EraseLooks(a) ==
  /\ phase = "up" /\ erasing = NoRow /\ a \in db.attachments /\ erasures < MaxErasures
  /\ erasing' = [row |-> a, words |-> Looked(db, a)]
  /\ UNCHANGED <<db, files, phase, ingesting, answer, unlinking, captioning, sent, copy,
                 todo, counters, histories>>

\* Mutant of EraseWrites: the file goes whoever else has it.
EraseWritesAll ==
  /\ Serving /\ erasing # NoRow
  /\ db' = WithoutAttachment(db, erasing,
             [kind |-> "attachment", n |-> erasures + 1, id |-> erasing.row.id])
  /\ unlinking' = unlinking \cup {erasing.row.file}
  /\ erasing' = NoRow /\ erasures' = erasures + 1
  /\ UNCHANGED <<files, phase, ingesting, answer, captioning, sent, copy, todo, restores,
                 faults, histories>>

\* The file goes when no row that stays has it.
EraseWrites ==
  /\ Serving /\ erasing # NoRow
  /\ db' = WithoutAttachment(db, erasing,
             [kind |-> "attachment", n |-> erasures + 1, id |-> erasing.row.id])
  /\ unlinking' = IF Used(db', erasing.row.file) THEN unlinking
                  ELSE unlinking \cup {erasing.row.file}
  /\ erasing' = NoRow /\ erasures' = erasures + 1
  /\ UNCHANGED <<files, phase, ingesting, answer, captioning, sent, copy, todo, restores,
                 faults, histories>>

Unlink(f) ==
  /\ f \in unlinking
  /\ files' = files \ {f} /\ unlinking' = unlinking \ {f}
  /\ UNCHANGED <<db, phase, ingesting, answer, erasing, captioning, sent, copy, todo,
                 counters, histories>>

\* Its files stay, under their own eraser.
WithoutMessage(d, m, t) ==
  [d EXCEPT !.messages = @ \ {m}, !.said = @ \ {m.id}, !.journal = @ \cup {t}]

EraseMessage(m) ==
  /\ Serving /\ m \in db.messages /\ erasures < MaxErasures
  /\ db' = WithoutMessage(db, m, [kind |-> "message", n |-> erasures + 1,
                                  id |-> m.id, ref |-> m.ref])
  /\ erasures' = erasures + 1
  /\ gone' = IF m.ref <= sent THEN gone \cup {m.ref} ELSE gone
  /\ UNCHANGED <<files, phase, requests, sent, copy, todo, restores, faults, lost, torn>>

-----------------------------------------------------------------------------
(* The indexes at startup. *)

InSync(d) ==
  /\ d.stemmed
  /\ Cardinality(d.messages) = Cardinality(d.said)
  /\ Cardinality(d.attachments) = Cardinality(d.sized)

\* Mutant of Rebuilt, and what a rebuild does first: it reads the attachments' own text.
RebuiltFromText(d) ==
  [d EXCEPT !.said = Ids(d.messages), !.sized = Ids(d.attachments),
            !.entries = UNION {TextOf(a) : a \in d.attachments}]

\* _reindex_captions follows, in the same transaction.
Rebuilt(d) ==
  [RebuiltFromText(d) EXCEPT !.entries = UNION {Indexed(d, a) : a \in d.attachments}]

\* DROP TABLE and the schema, committed.
Emptied(d) == [d EXCEPT !.said = {}, !.entries = {}, !.sized = {}, !.stemmed = TRUE]

Repaired(d) == IF InSync(d) THEN d ELSE Rebuilt(d)

\* init, up to the rebuild.
Start ==
  /\ phase = "down"
  /\ db' = IF db.stemmed THEN db ELSE Emptied(db)
  /\ phase' = IF InSync(db) THEN "up" ELSE "rebuilding"
  /\ UNCHANGED <<files, requests, sent, copy, todo, counters, histories>>

Rebuild ==
  /\ phase = "rebuilding"
  /\ db' = Rebuilt(db) /\ phase' = "up"
  /\ UNCHANGED <<files, requests, sent, copy, todo, counters, histories>>

\* The process dies, serving or starting.
Crash ==
  /\ phase \in {"up", "rebuilding"} /\ faults < MaxFaults
  /\ phase' = "down" /\ faults' = faults + 1
  /\ ingesting' = 0 /\ answer' = 0 /\ erasing' = NoRow /\ unlinking' = {}
  /\ captioning' = 0
  /\ UNCHANGED <<db, files, sent, copy, todo, erasures, restores, histories>>

\* An index is found empty (a schema experiment, a recovery that took the tables and
\* not the index), or was made before stemming.
IndexDamaged ==
  /\ phase = "down" /\ faults < MaxFaults /\ faults' = faults + 1
  /\ db' \in {[Emptied(db) EXCEPT !.stemmed = db.stemmed], [db EXCEPT !.stemmed = FALSE]}
  /\ UNCHANGED <<files, phase, requests, sent, copy, todo, erasures, restores, histories>>

-----------------------------------------------------------------------------
(* The snapshot and the restore (that it may die is left to Restore). *)

\* Bound: one, taken between requests.
Snapshot ==
  /\ Serving /\ Quiet /\ copy = NoCopy /\ restores < MaxRestores
  /\ copy' = db
  /\ UNCHANGED <<db, files, phase, requests, sent, todo, counters, histories>>

\* The service is stopped.  init repairs the copy's indexes.
RestoreBegins ==
  /\ phase = "up" /\ Quiet /\ copy # NoCopy /\ restores < MaxRestores
  /\ phase' = "restoring" /\ restores' = restores + 1
  /\ todo' = db.journal \ copy.journal
  /\ db' = Repaired(copy)
  /\ UNCHANGED <<files, requests, sent, copy, erasures, faults, histories>>

\* The same erasers, by row id; a row the copy has not is only written down.
ReplayMessage(t) ==
  /\ db' = IF t.id \in Ids(db.messages)
           THEN WithoutMessage(db, CHOOSE m \in db.messages : m.id = t.id, t)
           ELSE [db EXCEPT !.journal = @ \cup {t}]
  /\ UNCHANGED files

ReplayFile(t) ==
  IF t.id \in Ids(db.attachments)
  THEN LET a == CHOOSE a \in db.attachments : a.id = t.id IN
       /\ db' = WithoutAttachment(db, [row |-> a, words |-> Looked(db, a)], t)
       /\ files' = IF Used(db', a.file) THEN files ELSE files \ {a.file}
  ELSE db' = [db EXCEPT !.journal = @ \cup {t}] /\ UNCHANGED files

Replay(t) ==
  /\ phase = "restoring" /\ t \in todo /\ \A u \in todo : t.n <= u.n
  /\ IF t.kind = "message" THEN ReplayMessage(t) ELSE ReplayFile(t)
  /\ todo' = todo \ {t}
  /\ UNCHANGED <<phase, requests, sent, copy, counters, histories>>

RestoreEnds ==
  /\ phase = "restoring" /\ todo = {}
  /\ db' = Repaired(db) /\ phase' = "down"
  /\ copy' = NoCopy
  /\ UNCHANGED <<files, requests, sent, todo, counters, histories>>

-----------------------------------------------------------------------------
Next ==
  \/ \E r \in Ref : IngestBegins(r)
  \/ IngestEnds \/ Answered \/ WindBack
  \/ \E a \in db.attachments : CaptionReads(a) \/ EraseLooks(a)
  \/ CaptionWrites \/ CaptionFails
  \/ EraseWrites \/ (\E f \in File : Unlink(f)) \/ (\E m \in db.messages : EraseMessage(m))
  \/ Start \/ Rebuild \/ Crash \/ IndexDamaged
  \/ Snapshot \/ RestoreBegins \/ (\E t \in todo : Replay(t)) \/ RestoreEnds

Spec == Init /\ [][Next]_vars

-----------------------------------------------------------------------------
(* Properties. *)

\* What search finds is the record, after captions, erasures, crashes in the middle of
\* an index repair, and restores: every message, every file by its words, a captioned
\* image by the caption it shows; and no word of an erased row is left in the indexes,
\* unless its caption came while the eraser of that image had read the row and not yet
\* begun.
IndexIsTheRecord ==
  phase = "up" =>
    LET words == UNION {Indexed(db, a) : a \in db.attachments} IN
    /\ Search(db).messages = db.messages
    /\ {[id |-> h.id, words |-> h.matched] : h \in Search(db).files} = words
    /\ \A h \in Search(db).files : h.shown = h.matched
    /\ db.said = Ids(db.messages) /\ db.sized = Ids(db.attachments)
    /\ \A e \in db.entries : e \in words \/ e.id \in torn

\* episodic.py: the bytes are stored whole: no erasure, replay or crash leaves a row
\* without its file.  Only an ingest of the very bytes whose erasure is between its
\* commit and its unlink does.
BytesAreThere ==
  phase # "restoring" => \A a \in db.attachments : a.file \in files \cup lost

\* A message the owner erased after the client had its answer does not come back: not
\* by a restore, and not by the client winding back after one.
ErasedStaysOut ==
  phase # "restoring" => \A m \in db.messages : m.ref \notin gone
=============================================================================

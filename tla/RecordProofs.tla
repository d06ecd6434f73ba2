--------------------------- MODULE RecordProofs ----------------------------
(***************************************************************************)
(* Proofs about Record, for any files, images and messages, any number of  *)
(* rows, erasures, restores and faults.                                    *)
(*                                                                         *)
(* The indexes are kept beside the rows, and a start that repairs them may *)
(* die half way.  So the invariant says of the database and of the copy    *)
(* alike that the rows have one id each and that the indexes hold the      *)
(* words of the rows there are and of no others, but for rows captioned    *)
(* while their eraser was between reading and writing (RowsFit,            *)
(* IndexFits); that a caption or an erasure under way still means the row  *)
(* it read (RequestsFit); and that what the copy has and the database has  *)
(* not, the journal tells since (CopyIsBehind), from which follow the      *)
(* bytes and the erased messages (BytesAreKept, ErasedIsTold).             *)
(***************************************************************************)
EXTENDS Record, FiniteSetTheorems, WellFoundedInduction, TLAPS

\* Row ids are given once and external ids held once; only an image has a caption.
RowsFit(d) ==
  /\ IsFiniteSet(d.messages) /\ IsFiniteSet(d.attachments)
  /\ \A m \in d.messages : m.id <= d.lastMessage
  /\ \A m, n \in d.messages : m.id = n.id \/ m.ref = n.ref => m = n
  /\ \A a \in d.attachments : a.id <= d.lastAttachment
  /\ \A a, b \in d.attachments : a.id = b.id => a = b
  /\ \A i \in d.captions : \E a \in d.attachments : a.id = i /\ a.file \in Image

\* The indexes are the record's, but for words of rows in T that are gone.
IndexFits(d, T) ==
  /\ d.said = Ids(d.messages) /\ d.sized = Ids(d.attachments)
  /\ \A a \in d.attachments : Indexed(d, a) \subseteq d.entries
  /\ \A e \in d.entries :
       /\ e.id <= d.lastAttachment
       /\ \/ \E a \in d.attachments : e \in Indexed(d, a)
          \/ e.id \in T /\ e.id \notin Ids(d.attachments)

Fits(d, T) == d \in Database /\ RowsFit(d) /\ IndexFits(d, T)

\* The indexes are empty.
Unlisted(d) == d.said = {} /\ d.entries = {} /\ d.sized = {}

\* What a running request holds was read of a row that is there.
RequestsFit ==
  /\ ~Quiet => phase = "up"
  /\ captioning # 0 =>
       /\ captioning <= db.lastAttachment
       /\ \A a \in db.attachments : a.id = captioning => a.file \in Image
  /\ erasing # NoRow =>
       /\ erasing.row \in db.attachments
       /\ erasing.words = Looked(db, erasing.row) \/ erasing.row.id \in torn

\* The indexes are the record's whenever they are used: in service and after the copy is
\* in place.  A damaged one is empty until the next start rebuilds it.
IndexesFit ==
  /\ RowsFit(db)
  /\ phase \in {"up", "restoring"} => IndexFits(db, torn)
  /\ IndexFits(db, torn) \/ Unlisted(db)
  /\ copy # NoCopy => RowsFit(copy) /\ IndexFits(copy, torn)

\* A tombstone in J of the row with that id.
Buried(J, kind, i) == \E t \in J : t.kind = kind /\ t.id = i

\* What the copy has and the database has not, the journal tells since.
CopyIsBehind ==
  /\ phase # "restoring" => todo = {}
  /\ \A t \in db.journal \cup todo : t.n <= erasures
  /\ copy # NoCopy => \A t \in copy.journal : t.n <= erasures
  /\ copy # NoCopy /\ phase # "restoring" =>
       /\ \A a \in copy.attachments :
            a \in db.attachments \/ Buried(db.journal \ copy.journal, "attachment", a.id)
       /\ \A m \in copy.messages :
            m \in db.messages \/ Buried(db.journal \ copy.journal, "message", m.id)

\* The bytes of a row are on disk, or its tombstone is still to be replayed; what is about
\* to be unlinked is no row's.
BytesAreKept ==
  /\ \A a \in db.attachments :
       \/ a.file \in files \cup lost
       \/ phase = "restoring" /\ Buried(todo, "attachment", a.id)
  /\ ingesting # 0 => Carries[ingesting] \in files \cup lost
  /\ \A f \in unlinking : f \in lost \/ /\ ~Used(db, f)
                                        /\ ingesting # 0 => Carries[ingesting] # f

\* Finitely many messages were ever sent: the next one is new.
RefsWithin(n) ==
  /\ \A m \in db.messages : m.ref <= n
  /\ \A t \in db.journal \cup todo : t.kind = "message" => t.ref <= n
  /\ copy # NoCopy => /\ \A m \in copy.messages : m.ref <= n
                      /\ \A t \in copy.journal : t.kind = "message" => t.ref <= n

\* A message that was erased has its tombstone, and is back only until that is replayed.
ErasedIsTold ==
  /\ \E n \in Nat : RefsWithin(n)
  /\ ingesting \in {0, sent + 1} /\ answer \in {0, sent + 1}
  /\ ingesting = 0 \/ answer = 0
  /\ \A g \in gone : /\ g <= sent
                     /\ \E t \in db.journal \cup todo : t.kind = "message" /\ t.ref = g
  /\ \A m \in db.messages :
       m.ref \in gone => phase = "restoring" /\ Buried(todo, "message", m.id)

RecordInv == TypeOK /\ IndexesFit /\ RequestsFit /\ CopyIsBehind /\ BytesAreKept /\ ErasedIsTold

-----------------------------------------------------------------------------
(* What the updates of the database make of its fields. *)

LEMMA IndexedType ==
  ASSUME NEW d, NEW a \in Attachment
  PROVE  /\ Indexed(d, a) \subseteq Entry /\ TextOf(a) \subseteq Entry
         /\ \A e \in Indexed(d, a) : e.id = a.id
  BY DEF Indexed, TextOf, Attachment, Entry

\* The message of a webhook, and its entry in messages_fts.
LEMMA MessageFields ==
  ASSUME NEW d \in Database, NEW r \in Ref, ~Held(d, r)
  PROVE  LET m == [id |-> d.lastMessage + 1, ref |-> r]
             n == WithMessage(d, r)
         IN  /\ n.messages = d.messages \cup {m} /\ n.lastMessage = d.lastMessage + 1
             /\ n.said = d.said \cup {m.id}
             /\ n.attachments = d.attachments /\ n.lastAttachment = d.lastAttachment
             /\ n.captions = d.captions /\ n.journal = d.journal
             /\ n.entries = d.entries /\ n.sized = d.sized /\ n.stemmed = d.stemmed
  BY DEF WithMessage, Database

LEMMA MessageType ==
  ASSUME NEW d \in Database, NEW r \in Ref
  PROVE  WithMessage(d, r) \in Database
<1>1. d.lastMessage + 1 \in Nat /\ [id |-> d.lastMessage + 1, ref |-> r] \in Message
  BY DEF Database, Message
<1> QED  BY <1>1 DEF WithMessage, Database

LEMMA MessageFits ==
  ASSUME NEW d \in Database, NEW r \in Ref, NEW T, RowsFit(d), IndexFits(d, T)
  PROVE  RowsFit(WithMessage(d, r)) /\ IndexFits(WithMessage(d, r), T)
<1>1. CASE Held(d, r)
  BY <1>1 DEF WithMessage
<1>2. CASE ~Held(d, r)
  <2> DEFINE m == [id |-> d.lastMessage + 1, ref |-> r]
             n == WithMessage(d, r)
  <2>1. /\ n.messages = d.messages \cup {m} /\ n.lastMessage = d.lastMessage + 1
        /\ n.said = d.said \cup {m.id}
        /\ n.attachments = d.attachments /\ n.lastAttachment = d.lastAttachment
        /\ n.captions = d.captions /\ n.entries = d.entries /\ n.sized = d.sized
    BY <1>2, MessageFields
  <2>2. \A x \in d.messages : x \in Message /\ x.id \in Nat /\ x.id # m.id /\ x.ref # m.ref
    BY <1>2 DEF Held, RowsFit, Database, Message
  <2>3. d.lastMessage \in Nat /\ m.id = d.lastMessage + 1
    BY DEF Database
  <2> HIDE DEF m, n
  <2>4. RowsFit(n)
    <3>1. IsFiniteSet(n.messages) /\ IsFiniteSet(n.attachments)
      <4>1. IsFiniteSet(d.messages \cup {m})
        BY FS_AddElement DEF RowsFit
      <4> QED  BY <2>1, <4>1 DEF RowsFit
    <3>2. \A x \in n.messages : x.id <= n.lastMessage
      BY <2>1, <2>2, <2>3 DEF RowsFit
    <3>3. \A x, y \in n.messages : x.id = y.id \/ x.ref = y.ref => x = y
      BY <2>1, <2>2 DEF RowsFit
    <3>4. /\ \A a \in n.attachments : a.id <= n.lastAttachment
          /\ \A a, b \in n.attachments : a.id = b.id => a = b
          /\ \A k \in n.captions : \E a \in n.attachments : a.id = k /\ a.file \in Image
      BY <2>1 DEF RowsFit
    <3> QED  BY <3>1, <3>2, <3>3, <3>4 DEF RowsFit
  <2>5. IndexFits(n, T)
    <3>1. n.said = Ids(n.messages)
      BY <2>1 DEF IndexFits, Ids
    <3>2. \A a : Indexed(n, a) = Indexed(d, a)
      BY <2>1 DEF Indexed
    <3> QED  BY <2>1, <3>1, <3>2 DEF IndexFits
  <2> QED  BY <2>4, <2>5 DEF n
<1> QED  BY <1>1, <1>2

\* The row of a file, and its entry in attachments_fts.
NewRow(d, r) == [id |-> d.lastAttachment + 1, ref |-> r, file |-> Carries[r]]
HasRow(d, r) == \E b \in d.attachments : b.ref = r /\ b.file = Carries[r]

LEMMA AttachmentFields ==
  ASSUME NEW d \in Database, NEW r \in Ref, ~HasRow(d, r)
  PROVE  LET n == WithAttachment(d, r)
             a == NewRow(d, r)
         IN  /\ n.attachments = d.attachments \cup {a} /\ n.lastAttachment = d.lastAttachment + 1
             /\ n.entries = d.entries \cup TextOf(a) /\ n.sized = d.sized \cup {a.id}
             /\ n.messages = d.messages /\ n.lastMessage = d.lastMessage /\ n.said = d.said
             /\ n.captions = d.captions /\ n.journal = d.journal /\ n.stemmed = d.stemmed
  BY DEF WithAttachment, Database, NewRow, HasRow

LEMMA NewRowType ==
  ASSUME NEW d \in Database, NEW r \in Ref
  PROVE  NewRow(d, r) \in Attachment /\ NewRow(d, r).id = d.lastAttachment + 1
  BY RecordAssumption DEF RecordAssumption, NewRow, Database, Attachment

LEMMA AttachmentType ==
  ASSUME NEW d \in Database, NEW r \in Ref
  PROVE  WithAttachment(d, r) \in Database
<1> DEFINE a == NewRow(d, r)
<1>1. a \in Attachment /\ a.id \in Nat
  BY NewRowType DEF Attachment
<1>2. TextOf(a) \subseteq Entry
  BY <1>1, IndexedType
<1>3. \/ WithAttachment(d, r) = d
      \/ WithAttachment(d, r) =
           [d EXCEPT !.lastAttachment = a.id, !.attachments = @ \cup {a},
                     !.entries = @ \cup TextOf(a), !.sized = @ \cup {a.id}]
  BY DEF WithAttachment, NewRow
<1>4. /\ (d.entries \cup TextOf(a)) \in SUBSET Entry /\ (d.sized \cup {a.id}) \in SUBSET Nat
      /\ (d.attachments \cup {a}) \in SUBSET Attachment
  BY <1>1, <1>2 DEF Database
<1> HIDE DEF a
<1> QED  BY <1>1, <1>3, <1>4 DEF Database

LEMMA AttachmentFits ==
  ASSUME NEW d \in Database, NEW r \in Ref, NEW T, RowsFit(d), IndexFits(d, T)
  PROVE  RowsFit(WithAttachment(d, r)) /\ IndexFits(WithAttachment(d, r), T)
<1>1. CASE HasRow(d, r)
  BY <1>1 DEF HasRow, WithAttachment
<1>2. CASE ~HasRow(d, r)
  <2> DEFINE a == NewRow(d, r)
             n == WithAttachment(d, r)
  <2>1. /\ n.attachments = d.attachments \cup {a} /\ n.lastAttachment = d.lastAttachment + 1
        /\ n.entries = d.entries \cup TextOf(a) /\ n.sized = d.sized \cup {a.id}
        /\ n.messages = d.messages /\ n.lastMessage = d.lastMessage /\ n.said = d.said
        /\ n.captions = d.captions
    BY <1>2, AttachmentFields
  <2>2. /\ a \in Attachment /\ a.id = d.lastAttachment + 1 /\ d.lastAttachment \in Nat
        /\ \A b \in d.attachments : b \in Attachment /\ b.id \in Nat /\ b.id # a.id
    BY NewRowType DEF RowsFit, Database, Attachment
  <2>3. \A e \in d.entries : e.id \in Nat
    BY DEF Database, Entry
  <2>4. a.id \notin d.captions
    BY <2>2 DEF RowsFit
  <2> HIDE DEF a, n
  <2>5. RowsFit(n)
    <3>1. IsFiniteSet(n.messages) /\ IsFiniteSet(n.attachments)
      <4>1. IsFiniteSet(d.attachments \cup {a})
        BY FS_AddElement DEF RowsFit
      <4> QED  BY <2>1, <4>1 DEF RowsFit
    <3>2. \A m \in n.messages : m.id <= n.lastMessage
      BY <2>1 DEF RowsFit
    <3>3. \A m, k \in n.messages : m.id = k.id \/ m.ref = k.ref => m = k
      BY <2>1 DEF RowsFit
    <3>4. \A b \in n.attachments : b.id <= n.lastAttachment
      BY <2>1, <2>2 DEF RowsFit
    <3>5. \A b, c \in n.attachments : b.id = c.id => b = c
      BY <2>1, <2>2 DEF RowsFit
    <3>6. \A i \in n.captions : \E b \in n.attachments : b.id = i /\ b.file \in Image
      BY <2>1 DEF RowsFit
    <3> QED  BY <3>1, <3>2, <3>3, <3>4, <3>5, <3>6 DEF RowsFit
  <2>6. IndexFits(n, T)
    <3>1. n.sized = Ids(n.attachments)
      BY <2>1 DEF IndexFits, Ids
    <3>2. \A b : Indexed(n, b) = Indexed(d, b)
      BY <2>1 DEF Indexed
    <3>3. Indexed(d, a) = TextOf(a) /\ \A e \in TextOf(a) : e.id = a.id
      BY <2>4 DEF Indexed, TextOf
    <3>4. \A b \in n.attachments : Indexed(n, b) \subseteq n.entries
      BY <2>1, <3>2, <3>3 DEF IndexFits
    <3>5. ASSUME NEW e \in d.entries
          PROVE  /\ e.id <= n.lastAttachment
                 /\ \/ \E b \in n.attachments : e \in Indexed(n, b)
                    \/ e.id \in T /\ e.id \notin Ids(n.attachments)
      <4>1. e.id <= d.lastAttachment
        BY DEF IndexFits
      <4>2. e.id # a.id /\ e.id <= n.lastAttachment
        BY <2>1, <2>2, <2>3, <4>1
      <4>3. CASE \E b \in d.attachments : e \in Indexed(d, b)
        BY <2>1, <3>2, <4>2, <4>3
      <4>4. CASE e.id \in T /\ e.id \notin Ids(d.attachments)
        BY <2>1, <4>2, <4>4 DEF Ids
      <4>5. \/ \E b \in d.attachments : e \in Indexed(d, b)
            \/ e.id \in T /\ e.id \notin Ids(d.attachments)
        BY DEF IndexFits
      <4> QED  BY <4>2, <4>3, <4>4, <4>5
    <3>6. ASSUME NEW e \in TextOf(a)
          PROVE  /\ e.id <= n.lastAttachment
                 /\ \E b \in n.attachments : e \in Indexed(n, b)
      BY <2>1, <2>2, <3>2, <3>3
    <3>7. n.said = Ids(n.messages)
      BY <2>1 DEF IndexFits
    <3> QED  BY <2>1, <3>1, <3>4, <3>5, <3>6, <3>7 DEF IndexFits
  <2> QED  BY <2>5, <2>6 DEF n
<1> QED  BY <1>1, <1>2

\* CaptionWrites, where the row is there.
Captioned(d, i) ==
  [d EXCEPT !.captions = @ \cup {i}, !.entries = @ \cup {[id |-> i, words |-> "caption"]}]

LEMMA CaptionFields ==
  ASSUME NEW d \in Database, NEW i \in Nat
  PROVE  LET n == Captioned(d, i)
         IN  /\ n.captions = d.captions \cup {i}
             /\ n.entries = d.entries \cup {[id |-> i, words |-> "caption"]}
             /\ n.attachments = d.attachments /\ n.lastAttachment = d.lastAttachment
             /\ n.messages = d.messages /\ n.lastMessage = d.lastMessage /\ n.said = d.said
             /\ n.sized = d.sized /\ n.journal = d.journal /\ n.stemmed = d.stemmed
             /\ n \in Database
<1>1. (d.entries \cup {[id |-> i, words |-> "caption"]}) \in SUBSET Entry
  BY DEF Database, Entry
<1>2. (d.captions \cup {i}) \in SUBSET Nat
  BY DEF Database
<1> QED  BY <1>1, <1>2 DEF Captioned, Database

LEMMA CaptionFits ==
  ASSUME NEW d \in Database, NEW a \in d.attachments, a.file \in Image, NEW T,
         RowsFit(d), IndexFits(d, T)
  PROVE  RowsFit(Captioned(d, a.id)) /\ IndexFits(Captioned(d, a.id), T)
<1> DEFINE n == Captioned(d, a.id)
           w == [id |-> a.id, words |-> "caption"]
<1>1. a.id \in Nat /\ \A b \in d.attachments : b.id = a.id => b = a
  BY DEF RowsFit, Database, Attachment
<1>2. /\ n.captions = d.captions \cup {a.id} /\ n.entries = d.entries \cup {w}
      /\ n.attachments = d.attachments /\ n.lastAttachment = d.lastAttachment
      /\ n.messages = d.messages /\ n.lastMessage = d.lastMessage /\ n.said = d.said
      /\ n.sized = d.sized
  BY <1>1, CaptionFields
<1>3. w.id = a.id
  OBVIOUS
<1>4. \A b \in d.attachments : b # a => Indexed(n, b) = Indexed(d, b)
  BY <1>1, <1>2 DEF Indexed
<1>5. Indexed(n, a) = {w} /\ Indexed(d, a) \subseteq {w}
  <2>1. a.id \in n.captions /\ TextOf(a) = {}
    BY <1>2 DEF TextOf
  <2>2. Indexed(n, a) = {w}
    BY <2>1 DEF Indexed
  <2> QED  BY <2>1, <2>2 DEF Indexed
<1> HIDE DEF n, w
<1>6. RowsFit(n)
  BY <1>2 DEF RowsFit
<1>7. IndexFits(n, T)
  <2>1. ASSUME NEW e \in n.entries
        PROVE  /\ e.id <= n.lastAttachment
               /\ \/ \E b \in n.attachments : e \in Indexed(n, b)
                  \/ e.id \in T /\ e.id \notin Ids(n.attachments)
    <3>1. CASE e = w
      BY <1>2, <1>3, <1>5, <3>1 DEF RowsFit
    <3>2. CASE e \in d.entries
      <4>1. /\ e.id <= d.lastAttachment
            /\ \/ \E b \in d.attachments : e \in Indexed(d, b)
               \/ e.id \in T /\ e.id \notin Ids(d.attachments)
        BY <3>2 DEF IndexFits
      <4> QED  BY <4>1, <1>2, <1>4, <1>5
    <3> QED  BY <1>2, <3>1, <3>2
  <2>2. \A b \in n.attachments : Indexed(n, b) \subseteq n.entries
    BY <1>2, <1>4, <1>5 DEF IndexFits
  <2> QED  BY <1>2, <2>1, <2>2 DEF IndexFits
<1> QED  BY <1>6, <1>7 DEF n

LEMMA EraseFields ==
  ASSUME NEW d \in Database, NEW e, NEW t \in MessageTombstone \cup FileTombstone
  PROVE  LET n == WithoutAttachment(d, e, t)
         IN  /\ n.entries = d.entries \ {[id |-> e.row.id, words |-> e.words]}
             /\ n.sized = d.sized \ {e.row.id}
             /\ n.attachments = {a \in d.attachments : a.id # e.row.id}
             /\ n.captions = d.captions \ {e.row.id} /\ n.journal = d.journal \cup {t}
             /\ n.messages = d.messages /\ n.lastMessage = d.lastMessage /\ n.said = d.said
             /\ n.lastAttachment = d.lastAttachment /\ n.stemmed = d.stemmed
  BY DEF WithoutAttachment, Database

LEMMA EraseType ==
  ASSUME NEW d \in Database, NEW e, NEW t \in MessageTombstone \cup FileTombstone
  PROVE  WithoutAttachment(d, e, t) \in Database
<1>1. /\ {a \in d.attachments : a.id # e.row.id} \in SUBSET Attachment
      /\ (d.journal \cup {t}) \in SUBSET (MessageTombstone \cup FileTombstone)
      /\ (d.entries \ {[id |-> e.row.id, words |-> e.words]}) \in SUBSET Entry
      /\ (d.captions \ {e.row.id}) \in SUBSET Nat /\ (d.sized \ {e.row.id}) \in SUBSET Nat
  BY DEF Database
<1> QED  BY <1>1 DEF WithoutAttachment, Database

\* What the eraser leaves behind in the index is torn.
LEMMA EraseFits ==
  ASSUME NEW d \in Database, NEW e, NEW t \in MessageTombstone \cup FileTombstone, NEW T,
         e.row \in d.attachments, e.words = Looked(d, e.row) \/ e.row.id \in T,
         RowsFit(d), IndexFits(d, T)
  PROVE  /\ RowsFit(WithoutAttachment(d, e, t))
         /\ IndexFits(WithoutAttachment(d, e, t), T)
<1> DEFINE n == WithoutAttachment(d, e, t)
           w == [id |-> e.row.id, words |-> e.words]
           i == e.row.id
<1>1. i \in Nat /\ \A b \in d.attachments : b.id = i => b = e.row
  BY DEF RowsFit, Database, Attachment
<1>2. /\ n.entries = d.entries \ {w} /\ n.sized = d.sized \ {i}
      /\ n.attachments = {a \in d.attachments : a.id # i} /\ n.captions = d.captions \ {i}
      /\ n.messages = d.messages /\ n.lastMessage = d.lastMessage /\ n.said = d.said
      /\ n.lastAttachment = d.lastAttachment
  BY EraseFields
<1>3. \A a \in n.attachments : Indexed(n, a) = Indexed(d, a) /\ w \notin Indexed(d, a)
  <2> SUFFICES ASSUME NEW a \in n.attachments
               PROVE  Indexed(n, a) = Indexed(d, a) /\ w \notin Indexed(d, a)
    OBVIOUS
  <2>1. a \in d.attachments /\ a.id # i /\ a \in Attachment
    BY <1>2 DEF Database
  <2>2. \A x \in Indexed(d, a) : x.id = a.id
    BY <2>1, IndexedType
  <2>3. Indexed(n, a) = Indexed(d, a)
    BY <1>2, <2>1 DEF Indexed
  <2> QED  BY <2>1, <2>2, <2>3
<1>4. \A x \in Indexed(d, e.row) : x = [id |-> i, words |-> Looked(d, e.row)]
  BY DEF Indexed, TextOf, Looked
<1> HIDE DEF n
<1>5. RowsFit(n)
  <2>1. IsFiniteSet(n.messages) /\ IsFiniteSet(n.attachments)
    <3>1. IsFiniteSet(d.attachments) /\ n.attachments \in SUBSET d.attachments
      BY <1>2 DEF RowsFit
    <3> QED  BY <1>2, <3>1, FS_Subset DEF RowsFit
  <2> QED  BY <1>2, <2>1 DEF RowsFit
<1>6. IndexFits(n, T)
  <2>1. n.sized = Ids(n.attachments)
    BY <1>2 DEF IndexFits, Ids
  <2>2. \A a \in n.attachments : Indexed(n, a) \subseteq n.entries
    BY <1>2, <1>3 DEF IndexFits
  <2>3. ASSUME NEW x \in n.entries
        PROVE  /\ x.id <= n.lastAttachment
               /\ \/ \E a \in n.attachments : x \in Indexed(n, a)
                  \/ x.id \in T /\ x.id \notin Ids(n.attachments)
    <3>1. /\ x \in d.entries /\ x # w /\ x.id <= d.lastAttachment
          /\ \/ \E a \in d.attachments : x \in Indexed(d, a)
             \/ x.id \in T /\ x.id \notin Ids(d.attachments)
      BY <1>2 DEF IndexFits
    <3>2. CASE x.id \in T /\ x.id \notin Ids(d.attachments)
      BY <1>2, <3>1, <3>2 DEF Ids
    <3>3. ASSUME NEW a \in d.attachments, x \in Indexed(d, a), a.id # i
          PROVE  \E b \in n.attachments : x \in Indexed(n, b)
      BY <1>2, <1>3, <3>3
    <3>4. CASE x \in Indexed(d, e.row)
      <4>1. x = [id |-> i, words |-> Looked(d, e.row)] /\ x.id = i
        BY <1>4, <3>4
      <4>2. i \in T
        BY <3>1, <4>1
      <4>3. i \notin Ids(n.attachments)
        BY <1>2 DEF Ids
      <4> QED  BY <1>2, <3>1, <4>1, <4>2, <4>3
    <3> QED  BY <1>1, <1>2, <3>1, <3>2, <3>3, <3>4
  <2>4. n.said = Ids(n.messages)
    BY <1>2 DEF IndexFits
  <2> QED  BY <2>1, <2>2, <2>3, <2>4 DEF IndexFits
<1> QED  BY <1>5, <1>6 DEF n

LEMMA EraseMessageFields ==
  ASSUME NEW d \in Database, NEW m, NEW t \in MessageTombstone \cup FileTombstone
  PROVE  LET n == WithoutMessage(d, m, t)
         IN  /\ n.messages = d.messages \ {m} /\ n.said = d.said \ {m.id}
             /\ n.journal = d.journal \cup {t} /\ n.lastMessage = d.lastMessage
             /\ n.attachments = d.attachments /\ n.lastAttachment = d.lastAttachment
             /\ n.captions = d.captions /\ n.entries = d.entries /\ n.sized = d.sized
             /\ n.stemmed = d.stemmed
  BY DEF WithoutMessage, Database

LEMMA EraseMessageType ==
  ASSUME NEW d \in Database, NEW m, NEW t \in MessageTombstone \cup FileTombstone
  PROVE  WithoutMessage(d, m, t) \in Database
<1>1. /\ (d.messages \ {m}) \in SUBSET Message /\ (d.said \ {m.id}) \in SUBSET Nat
      /\ (d.journal \cup {t}) \in SUBSET (MessageTombstone \cup FileTombstone)
  BY DEF Database
<1> QED  BY <1>1 DEF WithoutMessage, Database

LEMMA EraseMessageFits ==
  ASSUME NEW d \in Database, NEW m \in d.messages, NEW t \in MessageTombstone \cup FileTombstone,
         NEW T, RowsFit(d), IndexFits(d, T)
  PROVE  RowsFit(WithoutMessage(d, m, t)) /\ IndexFits(WithoutMessage(d, m, t), T)
<1> DEFINE n == WithoutMessage(d, m, t)
<1>1. /\ n.messages = d.messages \ {m} /\ n.said = d.said \ {m.id}
      /\ n.lastMessage = d.lastMessage
      /\ n.attachments = d.attachments /\ n.lastAttachment = d.lastAttachment
      /\ n.captions = d.captions /\ n.entries = d.entries /\ n.sized = d.sized
  BY EraseMessageFields
<1> HIDE DEF n
<1>2. RowsFit(n)
  <2>1. IsFiniteSet(n.messages) /\ IsFiniteSet(n.attachments)
    BY <1>1, FS_RemoveElement DEF RowsFit
  <2> QED  BY <1>1, <2>1 DEF RowsFit
<1>3. IndexFits(n, T)
  <2>1. n.said = Ids(n.messages)
    BY <1>1 DEF RowsFit, IndexFits, Ids
  <2>2. \A a : Indexed(n, a) = Indexed(d, a)
    BY <1>1 DEF Indexed
  <2> QED  BY <1>1, <2>1, <2>2 DEF IndexFits
<1> QED  BY <1>2, <1>3 DEF n

\* A tombstone of a row that is not there is only written down.
LEMMA ToldFits ==
  ASSUME NEW d \in Database, NEW t \in MessageTombstone \cup FileTombstone, NEW T,
         RowsFit(d), IndexFits(d, T)
  PROVE  LET n == [d EXCEPT !.journal = @ \cup {t}]
         IN  /\ n \in Database /\ RowsFit(n) /\ IndexFits(n, T)
             /\ n.messages = d.messages /\ n.attachments = d.attachments
             /\ n.journal = d.journal \cup {t}
<1> DEFINE n == [d EXCEPT !.journal = @ \cup {t}]
<1>1. n \in Database /\ n.journal = d.journal \cup {t}
  <2>1. (d.journal \cup {t}) \in SUBSET (MessageTombstone \cup FileTombstone)
    BY DEF Database
  <2> QED  BY <2>1 DEF Database
<1>2. /\ n.messages = d.messages /\ n.lastMessage = d.lastMessage /\ n.said = d.said
      /\ n.attachments = d.attachments /\ n.lastAttachment = d.lastAttachment
      /\ n.captions = d.captions /\ n.entries = d.entries /\ n.sized = d.sized
  BY DEF Database
<1> HIDE DEF n
<1>3. \A a : Indexed(n, a) = Indexed(d, a)
  BY <1>2 DEF Indexed
<1>4. RowsFit(n) /\ IndexFits(n, T)
  BY <1>2, <1>3 DEF RowsFit, IndexFits
<1> QED  BY <1>1, <1>2, <1>4 DEF n

SameRows(d, n) ==
  /\ n.messages = d.messages /\ n.lastMessage = d.lastMessage
  /\ n.attachments = d.attachments /\ n.lastAttachment = d.lastAttachment
  /\ n.captions = d.captions /\ n.journal = d.journal

LEMMA SameRowsFit == ASSUME NEW d, NEW n, RowsFit(d), SameRows(d, n) PROVE RowsFit(n)
  BY DEF RowsFit, SameRows

LEMMA RebuiltFields ==
  ASSUME NEW d \in Database
  PROVE  LET n == Rebuilt(d)
         IN  /\ SameRows(d, n)
             /\ n.said = Ids(d.messages) /\ n.sized = Ids(d.attachments)
             /\ n.entries = UNION {Indexed(d, a) : a \in d.attachments}
             /\ n \in Database
<1>1. Ids(d.messages) \in SUBSET Nat /\ Ids(d.attachments) \in SUBSET Nat
  BY DEF Ids, Database, Message, Attachment
<1>2. UNION {Indexed(d, a) : a \in d.attachments} \in SUBSET Entry
  BY IndexedType DEF Database
<1>3. UNION {TextOf(a) : a \in d.attachments} \in SUBSET Entry
  BY IndexedType DEF Database
<1> DEFINE words == UNION {Indexed(d, a) : a \in d.attachments}
           own == UNION {TextOf(a) : a \in d.attachments}
           m == [d EXCEPT !.said = Ids(d.messages), !.sized = Ids(d.attachments), !.entries = own]
<1>4. Rebuilt(d) = [m EXCEPT !.entries = words]
  BY DEF Rebuilt, RebuiltFromText
<1> HIDE DEF words, own
<1>5. /\ m \in Database /\ SameRows(d, m) /\ m.said = Ids(d.messages)
      /\ m.sized = Ids(d.attachments)
  BY <1>1, <1>3 DEF Database, SameRows, own
<1> HIDE DEF m
<1> QED  BY <1>2, <1>4, <1>5 DEF Database, SameRows, words

\* A rebuild needs nothing of the indexes it replaces.
LEMMA RebuiltFits ==
  ASSUME NEW d \in Database, NEW T, RowsFit(d)
  PROVE  RowsFit(Rebuilt(d)) /\ IndexFits(Rebuilt(d), T)
<1> DEFINE n == Rebuilt(d)
<1>1. /\ SameRows(d, n)
      /\ n.said = Ids(d.messages) /\ n.sized = Ids(d.attachments)
      /\ n.entries = UNION {Indexed(d, a) : a \in d.attachments}
  BY RebuiltFields
<1> HIDE DEF n
<1>2. RowsFit(n)
  BY <1>1, SameRowsFit
<1>3. \A a : Indexed(n, a) = Indexed(d, a)
  BY <1>1 DEF Indexed, SameRows
<1>4. \A a \in d.attachments : a \in Attachment /\ a.id <= d.lastAttachment
  BY DEF RowsFit, Database
<1>5. ASSUME NEW e \in n.entries
      PROVE  /\ e.id <= n.lastAttachment
             /\ \E a \in n.attachments : e \in Indexed(n, a)
  <2>1. PICK a \in d.attachments : e \in Indexed(d, a)
    BY <1>1
  <2>2. e.id = a.id
    BY <1>4, <2>1, IndexedType
  <2> QED  BY <1>1, <1>3, <1>4, <2>1, <2>2 DEF SameRows
<1>6. IndexFits(n, T)
  BY <1>1, <1>3, <1>5 DEF IndexFits, SameRows
<1> QED  BY <1>2, <1>6 DEF n

LEMMA RepairedFits ==
  ASSUME NEW d \in Database, NEW T, RowsFit(d), IndexFits(d, T)
  PROVE  /\ Repaired(d) \in Database /\ SameRows(d, Repaired(d))
         /\ RowsFit(Repaired(d)) /\ IndexFits(Repaired(d), T)
<1>1. Repaired(d) = d \/ Repaired(d) = Rebuilt(d)
  BY DEF Repaired
<1>2. SameRows(d, d)
  BY DEF SameRows
<1> QED  BY <1>1, <1>2, RebuiltFits, RebuiltFields

LEMMA EmptiedFields ==
  ASSUME NEW d \in Database, NEW s \in BOOLEAN
  PROVE  /\ Emptied(d) \in Database /\ SameRows(d, Emptied(d)) /\ Unlisted(Emptied(d))
         /\ LET n == [Emptied(d) EXCEPT !.stemmed = s]
            IN  n \in Database /\ SameRows(d, n) /\ Unlisted(n)
         /\ LET n == [d EXCEPT !.stemmed = s]
            IN  /\ n \in Database /\ SameRows(d, n)
                /\ n.said = d.said /\ n.entries = d.entries /\ n.sized = d.sized
<1>1. Emptied(d) \in Database /\ SameRows(d, Emptied(d)) /\ Unlisted(Emptied(d))
  BY DEF Emptied, Database, SameRows, Unlisted
<1>2. LET n == [Emptied(d) EXCEPT !.stemmed = s]
      IN  n \in Database /\ SameRows(d, n) /\ Unlisted(n)
  BY <1>1 DEF Database, SameRows, Unlisted
<1>3. LET n == [d EXCEPT !.stemmed = s]
      IN  /\ n \in Database /\ SameRows(d, n)
          /\ n.said = d.said /\ n.entries = d.entries /\ n.sized = d.sized
  BY DEF Database, SameRows
<1> QED  BY <1>1, <1>2, <1>3

\* Where the counts agree although the indexes are empty, so is the record.
LEMMA EmptyInSync ==
  ASSUME NEW d \in Database, NEW T, RowsFit(d), Unlisted(d), InSync(d)
  PROVE  IndexFits(d, T)
<1>1. Cardinality(d.messages) = 0 /\ Cardinality(d.attachments) = 0
  BY FS_EmptySet DEF InSync, Unlisted
<1>2. d.messages = {} /\ d.attachments = {}
  BY <1>1, FS_EmptySet DEF RowsFit
<1> QED  BY <1>2 DEF IndexFits, Unlisted, Ids

\* Fits on the same rows and indexes.
LEMMA SameIndexFits ==
  ASSUME NEW d, NEW n, NEW T, IndexFits(d, T), SameRows(d, n),
         n.said = d.said, n.entries = d.entries, n.sized = d.sized
  PROVE  IndexFits(n, T)
<1>1. \A a : Indexed(n, a) = Indexed(d, a)
  BY DEF Indexed, SameRows
<1> QED  BY <1>1 DEF IndexFits, SameRows

LEMMA MoreTorn ==
  ASSUME NEW d, NEW T, NEW U, T \subseteq U, IndexFits(d, T)
  PROVE  IndexFits(d, U)
  BY DEF IndexFits

-----------------------------------------------------------------------------
(* The watermark. *)

\* A bounded set of numbers has a greatest.
LEMMA BoundedHasGreatest ==
  ASSUME NEW S \in SUBSET Nat, NEW n \in Nat, \A i \in S : i <= n
  PROVE  \E i \in S \cup {0} : \A j \in S : j <= i
<1> DEFINE Left == {n - i : i \in S}
<1>1. CASE S = {}
  BY <1>1
<1>2. CASE S # {}
  <2>1. Left \subseteq Nat /\ Left # {}
    <3>1. PICK i \in S : TRUE
      BY <1>2
    <3>2. n - i \in Left
      BY <3>1
    <3>3. \A j \in S : n - j \in Nat
      OBVIOUS
    <3> QED  BY <3>2, <3>3
  <2>2. PICK x \in Left : \A y \in Left : ~(<<y, x>> \in OpToRel(<, Nat))
    BY <2>1, WFMin, NatLessThanWellFounded
  <2>3. \A y \in Left : ~(y < x)
    BY <2>1, <2>2 DEF OpToRel
  <2>4. PICK i \in S : x = n - i
    BY <2>2
  <2>5. ASSUME NEW j \in S
        PROVE  j <= i
    <3>1. n - j \in Left
      OBVIOUS
    <3>2. ~(n - j < n - i)
      BY <2>3, <2>4, <3>1
    <3> QED  BY <3>2
  <2> QED  BY <2>5
<1> QED  BY <1>1, <1>2

LEMMA WatermarkCovers ==
  ASSUME TypeOK, \E n \in Nat : RefsWithin(n)
  PROVE  /\ Watermark(db) \in Nat
         /\ \A m \in db.messages : m.ref <= Watermark(db)
         /\ \A t \in db.journal : t.kind = "message" => t.ref <= Watermark(db)
<1> DEFINE S == {m.ref : m \in db.messages} \cup
                {t.ref : t \in {t \in db.journal : t.kind = "message"}}
<1>1. S \subseteq Nat
  <2>1. \A m \in db.messages : m.ref \in Nat
    BY RecordAssumption DEF RecordAssumption, TypeOK, Database, Message
  <2>2. \A t \in db.journal : t.kind = "message" => t.ref \in Nat
    BY RecordAssumption
       DEF RecordAssumption, TypeOK, Database, MessageTombstone, FileTombstone
  <2> QED  BY <2>1, <2>2
<1>2. PICK n \in Nat : \A i \in S : i <= n
  BY DEF RefsWithin
<1>3. \E i \in S \cup {0} : \A j \in S : j <= i
  BY <1>1, <1>2, BoundedHasGreatest
<1>4. Highest(S) \in S \cup {0} /\ \A j \in S : j <= Highest(S)
  BY <1>3 DEF Highest
<1>5. Watermark(db) = Highest(S)
  BY DEF Watermark
<1> QED  BY <1>1, <1>4, <1>5

-----------------------------------------------------------------------------
(* The steps that leave the database alone. *)

LEMMA QuietStepKeeps ==
  ASSUME RecordInv,
         \/ \E r \in Ref : IngestBegins(r)
         \/ Answered \/ WindBack \/ CaptionFails
         \/ \E a \in db.attachments : CaptionReads(a) \/ EraseLooks(a)
         \/ \E f \in File : Unlink(f)
         \/ Crash \/ Snapshot
  PROVE  TypeOK' /\ IndexesFit' /\ CopyIsBehind'
<1> USE DEF RecordInv
<1>1. /\ db' = db /\ torn' = torn /\ todo' = todo /\ erasures' = erasures
      /\ copy' = copy \/ (copy' = db /\ phase' = "up" /\ copy = NoCopy)
      /\ phase' = phase \/ (phase' = "down" /\ phase \in {"up", "rebuilding"})
  BY DEF IngestBegins, Answered, WindBack, CaptionFails, CaptionReads, EraseLooks, Unlink, Crash,
         Snapshot, Serving, requests, counters, histories
<1>2. IndexesFit'
  BY <1>1 DEF IndexesFit
<1>3. CopyIsBehind'
  BY <1>1 DEF CopyIsBehind
<1>4. TypeOK'
  <2>1. ASSUME NEW r \in Ref, IngestBegins(r) PROVE TypeOK'
    BY <2>1, RecordAssumption DEF RecordAssumption, TypeOK, IngestBegins, counters
  <2>2. ASSUME Answered \/ CaptionFails \/ Crash \/ Snapshot PROVE TypeOK'
    <3>1. ASSUME Answered PROVE TypeOK'
      <4>1. sent' \in Nat
        BY <3>1, RecordAssumption DEF RecordAssumption, TypeOK, Answered
      <4> QED  BY <3>1, <4>1 DEF TypeOK, Answered, counters, histories
    <3>2. ASSUME CaptionFails PROVE TypeOK'
      BY <3>2 DEF TypeOK, CaptionFails, counters, histories
    <3>3. ASSUME Crash PROVE TypeOK'
      BY <3>3 DEF TypeOK, Crash, counters, histories
    <3>4. ASSUME Snapshot PROVE TypeOK'
      BY <3>4 DEF TypeOK, Snapshot, counters, histories, requests
    <3> QED  BY <2>2, <3>1, <3>2, <3>3, <3>4
  <2>3. ASSUME WindBack PROVE TypeOK'
    <3>1. Watermark(db) \in Nat
      BY WatermarkCovers DEF ErasedIsTold
    <3>2. sent' \in Nat /\ UNCHANGED <<db, files, phase, requests, copy, todo, counters, histories>>
      BY <2>3, <3>1 DEF WindBack
    <3> QED  BY <3>2 DEF TypeOK, requests, counters, histories
  <2>4. ASSUME NEW a \in db.attachments, CaptionReads(a) \/ EraseLooks(a) PROVE TypeOK'
    <3>1. a \in Attachment /\ a.id \in Nat /\ Looked(db, a) \in {"text", "caption"}
      BY DEF TypeOK, Database, Attachment, Looked
    <3>2. CASE CaptionReads(a)
      BY <3>1, <3>2 DEF TypeOK, CaptionReads, counters, histories
    <3>3. CASE EraseLooks(a)
      <4>1. [row |-> a, words |-> Looked(db, a)] \in [row : Attachment, words : {"text", "caption"}]
        BY <3>1
      <4> QED  BY <3>3, <4>1 DEF TypeOK, EraseLooks, counters, histories
    <3> QED  BY <2>4, <3>2, <3>3
  <2>5. ASSUME NEW f \in File, Unlink(f) PROVE TypeOK'
    BY <2>5 DEF TypeOK, Unlink, counters, histories
  <2> QED  BY <2>1, <2>2, <2>3, <2>4, <2>5
<1> QED  BY <1>2, <1>3, <1>4

LEMMA IngestBeginsKeeps ==
  ASSUME RecordInv, NEW r \in Ref, IngestBegins(r)
  PROVE  RecordInv'
<1> USE DEF RecordInv
<1>1. TypeOK' /\ IndexesFit' /\ CopyIsBehind'
  BY QuietStepKeeps
<1>2. RequestsFit'
  BY DEF RequestsFit, IngestBegins, Serving, Quiet, histories
<1>3. BytesAreKept'
  BY RecordAssumption
     DEF RecordAssumption, BytesAreKept, IngestBegins, Serving, Used, Buried, TypeOK
<1>4. ErasedIsTold'
  BY RecordAssumption
     DEF RecordAssumption, ErasedIsTold, RefsWithin, IngestBegins, Serving, Buried, TypeOK
<1> QED  BY <1>1, <1>2, <1>3, <1>4

LEMMA AnsweredKeeps ==
  ASSUME RecordInv, Answered
  PROVE  RecordInv'
<1> USE DEF RecordInv
<1>1. TypeOK' /\ IndexesFit' /\ CopyIsBehind'
  BY QuietStepKeeps
<1>2. RequestsFit'
  BY DEF RequestsFit, Answered, Quiet, histories
<1>3. BytesAreKept'
  BY DEF BytesAreKept, Answered, Used, Buried, histories
<1>4. ErasedIsTold'
  <2>1. answer = sent + 1 /\ sent \in Nat /\ ingesting = 0 /\ answer' = 0 /\ ingesting' = 0
    BY DEF Answered, ErasedIsTold, TypeOK
  <2>2. \A g \in gone : g \in Nat
    BY RecordAssumption DEF RecordAssumption, TypeOK
  <2>3. \A g \in gone : g <= sent'
    BY <2>1, <2>2 DEF Answered, ErasedIsTold
  <2> QED  BY <2>1, <2>3 DEF ErasedIsTold, RefsWithin, Answered, Buried, histories
<1> QED  BY <1>1, <1>2, <1>3, <1>4

LEMMA WindBackKeeps ==
  ASSUME RecordInv, WindBack
  PROVE  RecordInv'
<1> USE DEF RecordInv
<1>1. TypeOK' /\ IndexesFit' /\ CopyIsBehind'
  BY QuietStepKeeps
<1>2. RequestsFit'
  BY DEF RequestsFit, WindBack, Quiet, histories, requests
<1>3. BytesAreKept'
  BY DEF BytesAreKept, WindBack, Used, Buried, histories, requests
<1>4. ErasedIsTold'
  <2>1. ASSUME NEW g \in gone
        PROVE  g <= Watermark(db)
    <3>1. PICK t \in db.journal \cup todo : t.kind = "message" /\ t.ref = g
      BY DEF ErasedIsTold
    <3>2. todo = {}
      BY DEF CopyIsBehind, WindBack, Serving
    <3> QED  BY <3>1, <3>2, WatermarkCovers DEF ErasedIsTold
  <2>2. ingesting = 0 /\ answer = 0
    BY DEF WindBack, Serving
  <2> QED
    BY <2>1, <2>2 DEF ErasedIsTold, RefsWithin, WindBack, Serving, Buried, histories, requests
<1> QED  BY <1>1, <1>2, <1>3, <1>4

LEMMA CaptionReadsKeeps ==
  ASSUME RecordInv, NEW a \in db.attachments, CaptionReads(a)
  PROVE  RecordInv'
<1> USE DEF RecordInv
<1>1. TypeOK' /\ IndexesFit' /\ CopyIsBehind'
  BY QuietStepKeeps
<1>2. RequestsFit'
  BY DEF RequestsFit, CaptionReads, Pending, Quiet, IndexesFit, RowsFit, histories
<1>3. BytesAreKept'
  BY DEF BytesAreKept, CaptionReads, Used, Buried, histories
<1>4. ErasedIsTold'
  BY DEF ErasedIsTold, RefsWithin, CaptionReads, Buried, histories
<1> QED  BY <1>1, <1>2, <1>3, <1>4

LEMMA EraseLooksKeeps ==
  ASSUME RecordInv, NEW a \in db.attachments, EraseLooks(a)
  PROVE  RecordInv'
<1> USE DEF RecordInv
<1>1. TypeOK' /\ IndexesFit' /\ CopyIsBehind'
  BY QuietStepKeeps
<1>2. RequestsFit'
  BY DEF RequestsFit, EraseLooks, Quiet, histories
<1>3. BytesAreKept'
  BY DEF BytesAreKept, EraseLooks, Used, Buried, histories
<1>4. ErasedIsTold'
  BY DEF ErasedIsTold, RefsWithin, EraseLooks, Buried, histories
<1> QED  BY <1>1, <1>2, <1>3, <1>4

LEMMA CaptionFailsKeeps ==
  ASSUME RecordInv, CaptionFails
  PROVE  RecordInv'
<1> USE DEF RecordInv
<1>1. TypeOK' /\ IndexesFit' /\ CopyIsBehind'
  BY QuietStepKeeps
<1>2. RequestsFit'
  BY DEF RequestsFit, CaptionFails, Quiet, histories
<1>3. BytesAreKept'
  BY DEF BytesAreKept, CaptionFails, Used, Buried, histories
<1>4. ErasedIsTold'
  BY DEF ErasedIsTold, RefsWithin, CaptionFails, Buried, histories
<1> QED  BY <1>1, <1>2, <1>3, <1>4

LEMMA UnlinkKeeps ==
  ASSUME RecordInv, NEW f \in File, Unlink(f)
  PROVE  RecordInv'
<1> USE DEF RecordInv
<1>1. TypeOK' /\ IndexesFit' /\ CopyIsBehind'
  BY QuietStepKeeps
<1>2. RequestsFit'
  BY DEF RequestsFit, Unlink, Quiet, histories
<1>3. BytesAreKept'
  BY DEF BytesAreKept, Unlink, Used, Buried, histories
<1>4. ErasedIsTold'
  BY DEF ErasedIsTold, RefsWithin, Unlink, Buried, histories
<1> QED  BY <1>1, <1>2, <1>3, <1>4

LEMMA CrashKeeps ==
  ASSUME RecordInv, Crash
  PROVE  RecordInv'
<1> USE DEF RecordInv
<1>1. TypeOK' /\ IndexesFit' /\ CopyIsBehind'
  BY QuietStepKeeps
<1>2. RequestsFit'
  BY DEF RequestsFit, Crash, Quiet, histories
<1>3. BytesAreKept'
  BY DEF BytesAreKept, Crash, Used, Buried, histories
<1>4. ErasedIsTold'
  BY DEF ErasedIsTold, RefsWithin, Crash, Buried, histories
<1> QED  BY <1>1, <1>2, <1>3, <1>4

LEMMA SnapshotKeeps ==
  ASSUME RecordInv, Snapshot
  PROVE  RecordInv'
<1> USE DEF RecordInv
<1>1. TypeOK' /\ IndexesFit' /\ CopyIsBehind'
  BY QuietStepKeeps
<1>2. RequestsFit'
  BY DEF RequestsFit, Snapshot, Quiet, histories, requests
<1>3. BytesAreKept'
  BY DEF BytesAreKept, Snapshot, Used, Buried, histories, requests
<1>4. ErasedIsTold'
  BY DEF ErasedIsTold, RefsWithin, Snapshot, Buried, histories, requests
<1> QED  BY <1>1, <1>2, <1>3, <1>4

-----------------------------------------------------------------------------
(* The steps that change it. *)

LEMMA IngestEndsKeeps ==
  ASSUME RecordInv, IngestEnds
  PROVE  RecordInv'
<1> DEFINE r == ingesting
           d == WithMessage(db, r)
<1>1. /\ r \in Ref /\ r # 0 /\ phase = "up" /\ db \in Database /\ RowsFit(db) /\ IndexFits(db, torn)
      /\ r = sent + 1 /\ answer = 0 /\ sent \in Nat
  BY DEF RecordInv, TypeOK, IngestEnds, RequestsFit, Quiet, IndexesFit, ErasedIsTold
<1>2. /\ d \in Database /\ RowsFit(d) /\ IndexFits(d, torn)
      /\ d.attachments = db.attachments /\ d.journal = db.journal
      /\ d.lastAttachment = db.lastAttachment /\ d.captions = db.captions
      /\ \/ d.messages = db.messages
         \/ \E i \in Nat : d.messages = db.messages \cup {[id |-> i, ref |-> r]}
  <2>1. d \in Database /\ RowsFit(d) /\ IndexFits(d, torn)
    BY <1>1, MessageType, MessageFits
  <2>2. CASE Held(db, r)
    BY <2>1, <2>2 DEF WithMessage
  <2>3. CASE ~Held(db, r)
    <3>1. db.lastMessage + 1 \in Nat
      BY <1>1 DEF Database
    <3> QED  BY <1>1, <2>1, <2>3, <3>1, MessageFields
  <2> QED  BY <2>2, <2>3
<1> HIDE DEF d
<1>3. /\ db' \in Database /\ RowsFit(db') /\ IndexFits(db', torn)
      /\ db'.messages = d.messages /\ db'.journal = d.journal
      /\ db'.captions = d.captions
      /\ db'.lastAttachment \in Nat /\ db'.lastAttachment >= d.lastAttachment
      /\ \/ db'.attachments = d.attachments
         \/ db'.attachments = d.attachments \cup {NewRow(d, r)}
  <2>1. db' = WithAttachment(d, r)
    BY DEF IngestEnds, d
  <2>2. db' \in Database /\ RowsFit(db') /\ IndexFits(db', torn)
    BY <1>1, <1>2, <2>1, AttachmentType, AttachmentFits
  <2>3. d.lastAttachment \in Nat
    BY <1>2 DEF Database
  <2>4. CASE HasRow(d, r)
    BY <2>1, <2>2, <2>3, <2>4 DEF HasRow, WithAttachment
  <2>5. CASE ~HasRow(d, r)
    BY <1>1, <1>2, <2>1, <2>2, <2>3, <2>5, AttachmentFields
  <2> QED  BY <2>4, <2>5
<1>4. NewRow(d, r).file = Carries[r] /\ NewRow(d, r).id > db.lastAttachment
  BY <1>1, <1>2 DEF NewRow, Database
<1>5. /\ ingesting' = 0 /\ answer' = r
      /\ UNCHANGED <<files, phase, erasing, unlinking, captioning, sent, copy, todo,
                     erasures, restores, faults, lost, torn, gone>>
  BY DEF IngestEnds, counters, histories
<1>6. todo = {}
  BY <1>1 DEF RecordInv, CopyIsBehind
<1> HIDE DEF r
<1>7. TypeOK'
  BY <1>1, <1>3, <1>5 DEF RecordInv, TypeOK
<1>8. IndexesFit'
  BY <1>3, <1>5 DEF RecordInv, IndexesFit
<1>9. RequestsFit'
  <2>1. captioning # 0 =>
          /\ captioning <= db'.lastAttachment
          /\ \A a \in db'.attachments : a.id = captioning => a.file \in Image
    <3>1. captioning \in Nat /\ db.lastAttachment \in Nat /\ NewRow(d, r).id \in Nat
      BY <1>1, <1>2 DEF RecordInv, TypeOK, Database, NewRow
    <3> QED  BY <1>2, <1>3, <1>4, <3>1 DEF RecordInv, RequestsFit
  <2>2. erasing # NoRow =>
          /\ erasing.row \in db'.attachments
          /\ erasing.words = Looked(db', erasing.row) \/ erasing.row.id \in torn
    BY <1>2, <1>3 DEF RecordInv, RequestsFit, Looked
  <2> QED  BY <1>1, <1>5, <2>1, <2>2 DEF RequestsFit
<1>10. CopyIsBehind'
  BY <1>2, <1>3, <1>5, <1>6 DEF RecordInv, CopyIsBehind, Buried
<1>11. BytesAreKept'
  <2>1. \A a \in db'.attachments : a.file \in files \cup lost
    BY <1>1, <1>2, <1>3, <1>4 DEF RecordInv, BytesAreKept, r
  <2>2. ASSUME NEW f \in unlinking
        PROVE  f \in lost \/ ~Used(db', f)
    BY <1>1, <1>2, <1>3, <1>4 DEF RecordInv, BytesAreKept, Used, r
  <2> QED  BY <1>5, <2>1, <2>2 DEF BytesAreKept
<1>12. ErasedIsTold'
  <2>1. \A m \in db'.messages : m \in db.messages \/ m.ref = r
    BY <1>2, <1>3
  <2>2. \E n \in Nat : RefsWithin(n)'
    <3>1. PICK n \in Nat : RefsWithin(n)
      BY DEF RecordInv, ErasedIsTold
    <3>2. PICK k \in Nat : k >= n /\ k >= r
      <4>1. r \in Nat
        BY <1>1
      <4>2. CASE n >= r
        BY <4>1, <4>2
      <4>3. CASE n < r
        BY <4>1, <4>3
      <4> QED  BY <4>1, <4>2, <4>3
    <3>3. /\ \A m \in db'.messages : m.ref <= k
          /\ \A t \in db.journal : t.kind = "message" => t.ref <= k
      <4>1. \A m \in db.messages : m.ref \in Nat /\ m.ref <= n
        BY <1>1, <3>1, RecordAssumption DEF RecordAssumption, RefsWithin, Database, Message
      <4>2. \A t \in db.journal : t.kind = "message" => t.ref \in Nat /\ t.ref <= n
        BY <1>1, <3>1, RecordAssumption
           DEF RecordAssumption, RefsWithin, Database, MessageTombstone, FileTombstone
      <4> QED  BY <1>1, <2>1, <3>2, <4>1, <4>2
    <3>4. copy # NoCopy => /\ \A m \in copy.messages : m.ref <= k
                           /\ \A t \in copy.journal : t.kind = "message" => t.ref <= k
      <4> SUFFICES ASSUME copy # NoCopy
                   PROVE  /\ \A m \in copy.messages : m.ref <= k
                          /\ \A t \in copy.journal : t.kind = "message" => t.ref <= k
        OBVIOUS
      <4>1. \A m \in copy.messages : m.ref \in Nat /\ m.ref <= n
        BY <3>1, RecordAssumption
           DEF RecordAssumption, RefsWithin, RecordInv, TypeOK, Database, Message
      <4>2. \A t \in copy.journal : t.kind = "message" => t.ref \in Nat /\ t.ref <= n
        BY <3>1, RecordAssumption
           DEF RecordAssumption, RefsWithin, RecordInv, TypeOK, Database, MessageTombstone,
               FileTombstone
      <4> QED  BY <3>2, <4>1, <4>2
    <3> QED  BY <1>2, <1>3, <1>5, <1>6, <3>3, <3>4 DEF RefsWithin
  <2>3. \A g \in gone : /\ g <= sent /\ g \in Nat
                        /\ \E t \in db'.journal : t.kind = "message" /\ t.ref = g
    BY <1>2, <1>3, <1>6, RecordAssumption DEF RecordAssumption, RecordInv, TypeOK, ErasedIsTold
  <2>4. \A m \in db'.messages : m.ref \notin gone
    <3>1. r \notin gone
      BY <1>1, <2>3
    <3> QED  BY <1>1, <2>1, <3>1 DEF RecordInv, ErasedIsTold
  <2> QED  BY <1>1, <1>5, <1>6, <2>2, <2>3, <2>4 DEF ErasedIsTold
<1> QED  BY <1>7, <1>8, <1>9, <1>10, <1>11, <1>12 DEF RecordInv

LEMMA CaptionWritesKeeps ==
  ASSUME RecordInv, CaptionWrites
  PROVE  RecordInv'
<1> DEFINE i == captioning
<1>1. /\ phase = "up" /\ ingesting = 0 /\ i # 0 /\ i \in Nat /\ db \in Database
      /\ RowsFit(db) /\ IndexFits(db, torn) /\ IndexFits(db, torn')
      /\ torn' \in SUBSET Nat /\ torn \subseteq torn' /\ todo = {}
      /\ i <= db.lastAttachment
      /\ \A a \in db.attachments : a.id = i => a.file \in Image
      /\ UNCHANGED <<files, phase, ingesting, answer, erasing, unlinking, sent, copy, todo,
                     erasures, restores, faults, lost, gone>>
      /\ captioning' = 0
  BY MoreTorn DEF RecordInv, TypeOK, CaptionWrites, Serving, IndexesFit, RequestsFit, CopyIsBehind,
                  counters
<1>2. /\ db' \in Database /\ RowsFit(db') /\ IndexFits(db', torn')
      /\ db'.attachments = db.attachments /\ db'.messages = db.messages
      /\ db'.journal = db.journal /\ db'.lastAttachment = db.lastAttachment
      /\ db'.captions \in {db.captions, db.captions \cup {i}}
  <2>1. CASE i \in Ids(db.attachments)
    <3>1. PICK a \in db.attachments : a.id = i
      BY <2>1 DEF Ids
    <3>2. db' = Captioned(db, a.id) /\ a.file \in Image
      BY <1>1, <2>1, <3>1 DEF CaptionWrites, Captioned
    <3>3. a.id \in Nat
      BY <1>1, <3>1
    <3> QED  BY <1>1, <3>1, <3>2, <3>3, CaptionFits, CaptionFields
  <2>2. CASE i \notin Ids(db.attachments)
    BY <1>1, <2>2 DEF CaptionWrites
  <2> QED  BY <2>1, <2>2
<1>3. erasing # NoRow => \/ erasing.words = Looked(db', erasing.row)
                         \/ erasing.row.id \in torn'
  <2> SUFFICES ASSUME erasing # NoRow, erasing.row.id \notin torn'
               PROVE  erasing.words = Looked(db', erasing.row)
    OBVIOUS
  <2>1. erasing.row.id # i /\ erasing.row.id \notin torn
    BY DEF CaptionWrites
  <2> QED  BY <1>2, <2>1 DEF RecordInv, RequestsFit, Looked
<1> HIDE DEF i
<1>4. TypeOK'
  BY <1>1, <1>2 DEF RecordInv, TypeOK
<1>5. IndexesFit'
  BY <1>1, <1>2, MoreTorn DEF RecordInv, IndexesFit
<1>6. RequestsFit'
  BY <1>1, <1>2, <1>3 DEF RecordInv, RequestsFit
<1>7. CopyIsBehind'
  BY <1>1, <1>2 DEF RecordInv, CopyIsBehind
<1>8. BytesAreKept'
  BY <1>1, <1>2 DEF RecordInv, BytesAreKept, Used
<1>9. ErasedIsTold'
  BY <1>1, <1>2 DEF RecordInv, ErasedIsTold, RefsWithin
<1> QED  BY <1>4, <1>5, <1>6, <1>7, <1>8, <1>9 DEF RecordInv

LEMMA EraseWritesKeeps ==
  ASSUME RecordInv, EraseWrites
  PROVE  RecordInv'
<1> DEFINE e == erasing
           t == [kind |-> "attachment", n |-> erasures + 1, id |-> erasing.row.id]
<1>1. /\ phase = "up" /\ ingesting = 0 /\ e # NoRow /\ db \in Database
      /\ RowsFit(db) /\ IndexFits(db, torn) /\ todo = {}
      /\ e.row \in db.attachments /\ (e.words = Looked(db, e.row) \/ e.row.id \in torn)
      /\ UNCHANGED <<files, phase, ingesting, answer, captioning, sent, copy, todo, restores,
                     faults, lost, torn, gone>>
      /\ erasing' = NoRow /\ erasures' = erasures + 1 /\ erasures \in Nat
  BY DEF RecordInv, TypeOK, EraseWrites, Serving, IndexesFit, RequestsFit, CopyIsBehind, histories
<1>2. e.row \in Attachment /\ e.row.id \in Nat /\ e.row.file \in File
  BY <1>1 DEF Database, Attachment
<1>3. t \in FileTombstone /\ t.kind = "attachment" /\ t.id = e.row.id /\ t.n = erasures + 1
  BY <1>1, <1>2 DEF FileTombstone
<1>4. db' = WithoutAttachment(db, e, t)
  BY DEF EraseWrites
<1> HIDE DEF e, t
<1>5. /\ db'.attachments = {a \in db.attachments : a.id # e.row.id}
      /\ db'.captions = db.captions \ {e.row.id} /\ db'.journal = db.journal \cup {t}
      /\ db'.messages = db.messages /\ db'.lastAttachment = db.lastAttachment
  BY <1>1, <1>3, <1>4, EraseFields
<1>6. db' \in Database /\ RowsFit(db') /\ IndexFits(db', torn)
  BY <1>1, <1>3, <1>4, EraseFits, EraseType
<1>7. unlinking' \in {unlinking, unlinking \cup {e.row.file}}
      /\ (Used(db', e.row.file) => unlinking' = unlinking)
  BY DEF EraseWrites, e
<1>8. TypeOK'
  BY <1>1, <1>2, <1>6, <1>7 DEF RecordInv, TypeOK
<1>9. IndexesFit'
  BY <1>1, <1>6 DEF RecordInv, IndexesFit
<1>10. RequestsFit'
  BY <1>1, <1>5 DEF RecordInv, RequestsFit
<1>11. CopyIsBehind'
  <2>1. \A u \in db'.journal : u.n <= erasures'
    <3>1. \A u \in db.journal : u.n \in Nat /\ u.n <= erasures
      BY <1>1 DEF RecordInv, CopyIsBehind, Database, MessageTombstone, FileTombstone
    <3> QED  BY <1>1, <1>3, <1>5, <3>1
  <2>2. copy # NoCopy => t \notin copy.journal /\ \A u \in copy.journal : u.n <= erasures'
    <3>1. copy # NoCopy => \A u \in copy.journal : u.n \in Nat /\ u.n <= erasures
      BY DEF RecordInv, TypeOK, CopyIsBehind, Database, MessageTombstone, FileTombstone
    <3> QED  BY <1>1, <1>3, <3>1
  <2>3. \A k, i : copy # NoCopy /\ Buried(db.journal \ copy.journal, k, i)
                    => Buried(db'.journal \ copy.journal, k, i)
    BY <1>5 DEF Buried
  <2>4. copy # NoCopy => Buried(db'.journal \ copy.journal, "attachment", e.row.id)
    BY <1>3, <1>5, <2>2 DEF Buried
  <2>5. copy # NoCopy =>
          /\ \A a \in copy.attachments :
               a \in db'.attachments \/ Buried(db'.journal \ copy.journal, "attachment", a.id)
          /\ \A m \in copy.messages :
               m \in db'.messages \/ Buried(db'.journal \ copy.journal, "message", m.id)
    BY <1>1, <1>5, <2>3, <2>4 DEF RecordInv, CopyIsBehind
  <2> QED  BY <1>1, <2>1, <2>2, <2>5 DEF CopyIsBehind
<1>12. BytesAreKept'
  <2>1. \A f : Used(db', f) => Used(db, f)
    BY <1>5 DEF Used
  <2>2. \A f \in unlinking' : f \in lost \/ ~Used(db', f)
    BY <1>1, <1>7, <2>1 DEF RecordInv, BytesAreKept
  <2> QED  BY <1>1, <1>5, <2>2 DEF RecordInv, BytesAreKept
<1>13. ErasedIsTold'
  BY <1>1, <1>3, <1>5 DEF RecordInv, ErasedIsTold, RefsWithin
<1> QED  BY <1>8, <1>9, <1>10, <1>11, <1>12, <1>13 DEF RecordInv

LEMMA EraseMessageKeeps ==
  ASSUME RecordInv, NEW m \in db.messages, EraseMessage(m)
  PROVE  RecordInv'
<1> DEFINE t == [kind |-> "message", n |-> erasures + 1, id |-> m.id, ref |-> m.ref]
<1>1. /\ phase = "up" /\ ingesting = 0 /\ db \in Database
      /\ RowsFit(db) /\ IndexFits(db, torn) /\ todo = {}
      /\ UNCHANGED <<files, phase, ingesting, answer, erasing, unlinking, captioning, sent, copy,
                     todo, restores, faults, lost, torn>>
      /\ erasures' = erasures + 1 /\ erasures \in Nat /\ sent \in Nat
  BY DEF RecordInv, TypeOK, EraseMessage, Serving, IndexesFit, CopyIsBehind, requests
<1>2. m \in Message /\ m.id \in Nat /\ m.ref \in Ref /\ m.ref \in Nat
  BY <1>1, RecordAssumption DEF RecordAssumption, Database, Message
<1>3. /\ t \in MessageTombstone /\ t.kind = "message" /\ t.id = m.id /\ t.ref = m.ref
      /\ t.n = erasures + 1
  BY <1>1, <1>2 DEF MessageTombstone
<1>4. db' = WithoutMessage(db, m, t)
  BY DEF EraseMessage
<1> HIDE DEF t
<1>5. /\ db'.messages = db.messages \ {m} /\ db'.journal = db.journal \cup {t}
      /\ db'.attachments = db.attachments /\ db'.captions = db.captions
      /\ db'.lastAttachment = db.lastAttachment
  BY <1>1, <1>3, <1>4, EraseMessageFields
<1>6. db' \in Database /\ RowsFit(db') /\ IndexFits(db', torn)
  BY <1>1, <1>3, <1>4, EraseMessageFits, EraseMessageType
<1>7. gone' = gone \/ (gone' = gone \cup {m.ref} /\ m.ref <= sent)
  BY DEF EraseMessage
<1>8. TypeOK'
  BY <1>1, <1>2, <1>6, <1>7 DEF RecordInv, TypeOK
<1>9. IndexesFit'
  BY <1>1, <1>6 DEF RecordInv, IndexesFit
<1>10. RequestsFit'
  BY <1>1, <1>5 DEF RecordInv, RequestsFit, Looked
<1>11. CopyIsBehind'
  <2>1. \A u \in db'.journal : u.n <= erasures'
    <3>1. \A u \in db.journal : u.n \in Nat /\ u.n <= erasures
      BY <1>1 DEF RecordInv, CopyIsBehind, Database, MessageTombstone, FileTombstone
    <3> QED  BY <1>1, <1>3, <1>5, <3>1
  <2>2. copy # NoCopy => t \notin copy.journal /\ \A u \in copy.journal : u.n <= erasures'
    <3>1. copy # NoCopy => \A u \in copy.journal : u.n \in Nat /\ u.n <= erasures
      BY DEF RecordInv, TypeOK, CopyIsBehind, Database, MessageTombstone, FileTombstone
    <3> QED  BY <1>1, <1>3, <3>1
  <2>3. \A k, i : copy # NoCopy /\ Buried(db.journal \ copy.journal, k, i)
                    => Buried(db'.journal \ copy.journal, k, i)
    BY <1>5 DEF Buried
  <2>4. copy # NoCopy => Buried(db'.journal \ copy.journal, "message", m.id)
    BY <1>3, <1>5, <2>2 DEF Buried
  <2>5. copy # NoCopy =>
          /\ \A a \in copy.attachments :
               a \in db'.attachments \/ Buried(db'.journal \ copy.journal, "attachment", a.id)
          /\ \A k \in copy.messages :
               k \in db'.messages \/ Buried(db'.journal \ copy.journal, "message", k.id)
    BY <1>1, <1>5, <2>3, <2>4 DEF RecordInv, CopyIsBehind
  <2> QED  BY <1>1, <2>1, <2>2, <2>5 DEF CopyIsBehind
<1>12. BytesAreKept'
  BY <1>1, <1>5 DEF RecordInv, BytesAreKept, Used
<1>13. ErasedIsTold'
  <2>1. \E n \in Nat : RefsWithin(n)'
    BY <1>1, <1>3, <1>5 DEF RecordInv, ErasedIsTold, RefsWithin
  <2>2. ASSUME NEW g \in gone'
        PROVE  g <= sent /\ \E u \in db'.journal : u.kind = "message" /\ u.ref = g
    BY <1>1, <1>3, <1>5, <1>7 DEF RecordInv, ErasedIsTold
  <2>3. ASSUME NEW k \in db'.messages
        PROVE  k.ref \notin gone'
    BY <1>1, <1>5, <1>7 DEF RecordInv, ErasedIsTold, RowsFit
  <2>4. ingesting \in {0, sent + 1} /\ answer \in {0, sent + 1} /\ (ingesting = 0 \/ answer = 0)
    BY DEF RecordInv, ErasedIsTold
  <2> QED  BY <1>1, <2>1, <2>2, <2>3, <2>4 DEF ErasedIsTold
<1> QED  BY <1>8, <1>9, <1>10, <1>11, <1>12, <1>13 DEF RecordInv

\* A start, a rebuild, a damage and the end of a restore leave the rows as they are.
LEMMA SameRowsKeep ==
  ASSUME RecordInv, SameRows(db, db'), db' \in Database,
         phase \in {"down", "rebuilding", "restoring"},
         phase = "restoring" => todo = {} /\ copy' = NoCopy,
         phase' \in {"up", "down", "rebuilding"},
         UNCHANGED <<files, requests, sent, todo, erasures, restores, histories>>,
         copy' \in {copy, NoCopy}, faults' \in Nat,
         phase' = "up" => IndexFits(db', torn),
         IndexFits(db', torn) \/ Unlisted(db')
  PROVE  RecordInv'
<1> USE DEF SameRows, requests, histories
<1>1. TypeOK'
  BY DEF RecordInv, TypeOK
<1>2. IndexesFit'
  <2>1. RowsFit(db')
    BY SameRowsFit DEF RecordInv, IndexesFit
  <2> QED  BY <2>1 DEF RecordInv, IndexesFit
<1>3. RequestsFit'
  BY DEF RecordInv, RequestsFit, Quiet, Looked
<1>4. CopyIsBehind'
  BY DEF RecordInv, CopyIsBehind
<1>5. BytesAreKept'
  BY DEF RecordInv, BytesAreKept, Used, Buried
<1>6. ErasedIsTold'
  BY DEF RecordInv, ErasedIsTold, RefsWithin, Buried
<1> QED  BY <1>1, <1>2, <1>3, <1>4, <1>5, <1>6 DEF RecordInv

LEMMA StartKeeps ==
  ASSUME RecordInv, Start \/ Rebuild \/ IndexDamaged \/ RestoreEnds
  PROVE  RecordInv'
<1> DEFINE Kept == /\ SameRows(db, db') /\ db' \in Database
                   /\ IndexFits(db', torn) \/ Unlisted(db')
                   /\ phase' = "up" => IndexFits(db', torn)
<1>1. /\ db \in Database /\ RowsFit(db) /\ (IndexFits(db, torn) \/ Unlisted(db))
      /\ phase = "restoring" => IndexFits(db, torn)
      /\ db.stemmed \in BOOLEAN /\ faults \in Nat /\ SameRows(db, db)
  BY DEF RecordInv, IndexesFit, TypeOK, Database, SameRows
<1>2. CASE Start
  <2>1. Kept
    <3>1. CASE db.stemmed
      <4>1. db' = db
        BY <1>2, <3>1 DEF Start
      <4>2. phase' = "up" => IndexFits(db, torn)
        BY <1>1, <1>2, EmptyInSync DEF Start
      <4> QED  BY <1>1, <4>1, <4>2
    <3>2. CASE ~db.stemmed
      <4>1. db' = Emptied(db) /\ phase' = "rebuilding"
        BY <1>2, <3>2 DEF Start, InSync
      <4>2. Emptied(db) \in Database /\ SameRows(db, Emptied(db)) /\ Unlisted(Emptied(db))
        BY <1>1, EmptiedFields
      <4> QED  BY <4>1, <4>2
    <3> QED  BY <3>1, <3>2
  <2> HIDE DEF Kept
  <2> QED  BY <1>1, <1>2, <2>1, SameRowsKeep DEF Start, Kept, counters
<1>3. CASE Rebuild
  <2>1. Kept
    BY <1>1, <1>3, RebuiltFits, RebuiltFields DEF Rebuild
  <2> HIDE DEF Kept
  <2> QED  BY <1>1, <1>3, <2>1, SameRowsKeep DEF Rebuild, Kept, counters
<1>4. CASE IndexDamaged
  <2>0. phase' = "down"
    BY <1>4 DEF IndexDamaged
  <2>1. ASSUME db' = [Emptied(db) EXCEPT !.stemmed = db.stemmed]
        PROVE  Kept
    <3>1. db' \in Database /\ SameRows(db, db') /\ Unlisted(db')
      BY <1>1, <2>1, EmptiedFields
    <3> QED  BY <2>0, <3>1
  <2>2. ASSUME db' = [db EXCEPT !.stemmed = FALSE]
        PROVE  Kept
    <3>1. /\ db' \in Database /\ SameRows(db, db') /\ db'.said = db.said
          /\ db'.entries = db.entries /\ db'.sized = db.sized
      BY <1>1, <2>2, EmptiedFields
    <3>2. IndexFits(db', torn) \/ Unlisted(db')
      BY <1>1, <3>1, SameIndexFits DEF Unlisted
    <3> QED  BY <2>0, <3>1, <3>2
  <2>3. Kept
    BY <1>4, <2>1, <2>2 DEF IndexDamaged
  <2> HIDE DEF Kept
  <2> QED  BY <1>1, <1>4, <2>3, SameRowsKeep DEF IndexDamaged, Kept
<1>5. CASE RestoreEnds
  <2>1. Kept
    BY <1>1, <1>5, RepairedFits DEF RestoreEnds
  <2> HIDE DEF Kept
  <2> QED  BY <1>1, <1>5, <2>1, SameRowsKeep DEF RestoreEnds, Kept, counters
<1> QED  BY <1>2, <1>3, <1>4, <1>5

LEMMA RestoreBeginsKeeps ==
  ASSUME RecordInv, RestoreBegins
  PROVE  RecordInv'
<1>1. /\ phase = "up" /\ Quiet /\ copy # NoCopy /\ copy \in Database /\ todo = {}
      /\ RowsFit(copy) /\ IndexFits(copy, torn) /\ db \in Database
      /\ phase' = "restoring" /\ todo' = db.journal \ copy.journal /\ restores \in Nat
      /\ restores' = restores + 1
      /\ UNCHANGED <<files, requests, sent, copy, erasures, faults, histories>>
  BY DEF RecordInv, TypeOK, RestoreBegins, IndexesFit, CopyIsBehind
<1>2. /\ db' \in Database /\ SameRows(copy, db') /\ RowsFit(db') /\ IndexFits(db', torn)
  BY <1>1, RepairedFits DEF RestoreBegins
<1>3. TypeOK'
  BY <1>1, <1>2 DEF RecordInv, TypeOK, requests, histories, Database
<1>4. IndexesFit'
  BY <1>1, <1>2 DEF RecordInv, IndexesFit, histories
<1>5. RequestsFit'
  BY <1>1 DEF RequestsFit, Quiet, requests, histories
<1>6. CopyIsBehind'
  BY <1>1, <1>2 DEF RecordInv, CopyIsBehind, SameRows
<1>7. BytesAreKept'
  <2>1. \A a \in db'.attachments : \/ a.file \in files \cup lost
                                   \/ Buried(todo', "attachment", a.id)
    BY <1>1, <1>2 DEF RecordInv, CopyIsBehind, BytesAreKept, SameRows
  <2> QED  BY <1>1, <2>1 DEF BytesAreKept, Quiet, requests, histories
<1>8. ErasedIsTold'
  <2>1. \E n \in Nat : RefsWithin(n)'
    BY <1>1, <1>2 DEF RecordInv, ErasedIsTold, RefsWithin, SameRows
  <2>2. ASSUME NEW g \in gone
        PROVE  g <= sent /\ \E t \in db'.journal \cup todo' : t.kind = "message" /\ t.ref = g
    BY <1>1, <1>2 DEF RecordInv, ErasedIsTold, SameRows
  <2>3. \A m \in db'.messages : m.ref \in gone => Buried(todo', "message", m.id)
    BY <1>1, <1>2 DEF RecordInv, ErasedIsTold, CopyIsBehind, SameRows
  <2>4. ingesting = 0 /\ answer = 0
    BY <1>1 DEF Quiet
  <2> QED  BY <1>1, <2>1, <2>2, <2>3, <2>4 DEF ErasedIsTold, requests, histories
<1> QED  BY <1>3, <1>4, <1>5, <1>6, <1>7, <1>8 DEF RecordInv

\* What a replayed tombstone does to the rows: those of its id go, and no other.
LEMMA ReplayRows ==
  ASSUME RecordInv, NEW t \in todo, Replay(t)
  PROVE  /\ db' \in Database /\ RowsFit(db') /\ IndexFits(db', torn)
         /\ db'.journal = db.journal \cup {t}
         /\ db'.messages = IF t.kind = "message" THEN {m \in db.messages : m.id # t.id}
                           ELSE db.messages
         /\ db'.attachments = IF t.kind = "message" THEN db.attachments
                              ELSE {a \in db.attachments : a.id # t.id}
         /\ files' \in SUBSET File
         /\ \A a \in db'.attachments : a.file \in files => a.file \in files'
<1>1. /\ db \in Database /\ RowsFit(db) /\ IndexFits(db, torn) /\ files \in SUBSET File
      /\ t \in MessageTombstone \cup FileTombstone
  BY DEF RecordInv, TypeOK, IndexesFit, Replay
<1>2. CASE t.kind = "message" /\ t.id \in Ids(db.messages)
  <2> DEFINE m == CHOOSE m \in db.messages : m.id = t.id
  <2>1. m \in db.messages /\ m.id = t.id
    BY <1>2 DEF Ids
  <2>2. db' = WithoutMessage(db, m, t) /\ files' = files
    BY <1>2 DEF Replay, ReplayMessage
  <2> HIDE DEF m
  <2>3. db.messages \ {m} = {k \in db.messages : k.id # t.id}
    BY <1>1, <2>1 DEF RowsFit
  <2> QED  BY <1>1, <1>2, <2>1, <2>2, <2>3, EraseMessageFields, EraseMessageType, EraseMessageFits
<1>3. CASE t.kind # "message" /\ t.id \in Ids(db.attachments)
  <2> DEFINE a == CHOOSE a \in db.attachments : a.id = t.id
             e == [row |-> a, words |-> Looked(db, a)]
  <2>1. a \in db.attachments /\ a.id = t.id
    BY <1>3 DEF Ids
  <2>2. /\ db' = WithoutAttachment(db, e, t)
        /\ files' = IF Used(db', a.file) THEN files ELSE files \ {a.file}
    BY <1>3 DEF Replay, ReplayFile
  <2>3. e.row = a /\ e.words = Looked(db, a)
    OBVIOUS
  <2> HIDE DEF a, e
  <2>4. db' \in Database /\ RowsFit(db') /\ IndexFits(db', torn)
    BY <1>1, <2>1, <2>2, <2>3, EraseType, EraseFits
  <2>5. /\ db'.journal = db.journal \cup {t} /\ db'.messages = db.messages
        /\ db'.attachments = {b \in db.attachments : b.id # t.id}
    BY <1>1, <2>1, <2>2, <2>3, EraseFields
  <2>6. \A b \in db'.attachments : b.file \in files => b.file \in files'
    BY <2>2 DEF Used
  <2> QED  BY <1>1, <1>3, <2>2, <2>4, <2>5, <2>6
<1>4. CASE \/ t.kind = "message" /\ t.id \notin Ids(db.messages)
           \/ t.kind # "message" /\ t.id \notin Ids(db.attachments)
  <2>1. db' = [db EXCEPT !.journal = @ \cup {t}] /\ files' = files
    BY <1>4 DEF Replay, ReplayMessage, ReplayFile
  <2>2. /\ db' \in Database /\ RowsFit(db') /\ IndexFits(db', torn)
        /\ db'.journal = db.journal \cup {t} /\ db'.messages = db.messages
        /\ db'.attachments = db.attachments
    BY <1>1, <2>1, ToldFits
  <2>3. t.kind = "message" => db.messages = {m \in db.messages : m.id # t.id}
    BY <1>4 DEF Ids
  <2>4. t.kind # "message" => db.attachments = {a \in db.attachments : a.id # t.id}
    BY <1>4 DEF Ids
  <2> QED  BY <1>1, <2>1, <2>2, <2>3, <2>4
<1> QED  BY <1>2, <1>3, <1>4

LEMMA ReplayKeeps ==
  ASSUME RecordInv, NEW t \in todo, Replay(t)
  PROVE  RecordInv'
<1>1. /\ phase = "restoring" /\ todo' = todo \ {t} /\ Quiet
      /\ UNCHANGED <<phase, requests, sent, copy, counters, histories>>
      /\ t \in MessageTombstone \cup FileTombstone
  BY DEF RecordInv, TypeOK, Replay, RequestsFit
<1>2. t.kind = "message" \/ t.kind = "attachment"
  BY <1>1 DEF MessageTombstone, FileTombstone
<1> DEFINE erased == t.kind = "message"
<1>3. /\ db' \in Database /\ RowsFit(db') /\ IndexFits(db', torn)
      /\ db'.journal = db.journal \cup {t}
      /\ files' \in SUBSET File
      /\ \A a \in db'.attachments : a.file \in files => a.file \in files'
      /\ db'.messages = IF t.kind = "message" THEN {m \in db.messages : m.id # t.id}
                        ELSE db.messages
      /\ db'.attachments = IF t.kind = "message" THEN db.attachments
                           ELSE {a \in db.attachments : a.id # t.id}
  BY ReplayRows
<1>4. TypeOK'
  BY <1>1, <1>3 DEF RecordInv, TypeOK, requests, counters, histories
<1>5. IndexesFit'
  BY <1>1, <1>3 DEF RecordInv, IndexesFit, histories
<1>6. RequestsFit'
  BY <1>1 DEF RequestsFit, Quiet, requests, histories
<1>7. CopyIsBehind'
  BY <1>1, <1>3 DEF RecordInv, CopyIsBehind, counters
<1>8. BytesAreKept'
  <2>1. \A a \in db'.attachments : \/ a.file \in files' \cup lost
                                   \/ Buried(todo', "attachment", a.id)
    <3> SUFFICES ASSUME NEW a \in db'.attachments, a.file \notin files' \cup lost
                 PROVE  Buried(todo', "attachment", a.id)
      OBVIOUS
    <3>1. a \in db.attachments /\ a.file \notin files \cup lost
      BY <1>3
    <3>2. PICK u \in todo : u.kind = "attachment" /\ u.id = a.id
      BY <3>1 DEF RecordInv, BytesAreKept, Buried
    <3>3. u # t
      BY <1>3, <3>2
    <3> QED  BY <1>1, <3>2, <3>3 DEF Buried
  <2> QED  BY <1>1, <2>1 DEF BytesAreKept, Quiet, requests, histories
<1>9. ErasedIsTold'
  <2>1. \E n \in Nat : RefsWithin(n)'
    BY <1>1, <1>3 DEF RecordInv, ErasedIsTold, RefsWithin
  <2>2. ASSUME NEW g \in gone
        PROVE  g <= sent /\ \E u \in db'.journal \cup todo' : u.kind = "message" /\ u.ref = g
    BY <1>1, <1>3 DEF RecordInv, ErasedIsTold
  <2>3. \A m \in db'.messages : m.ref \in gone => Buried(todo', "message", m.id)
    <3> SUFFICES ASSUME NEW m \in db'.messages, m.ref \in gone
                 PROVE  Buried(todo', "message", m.id)
      OBVIOUS
    <3>1. m \in db.messages
      BY <1>3
    <3>2. PICK u \in todo : u.kind = "message" /\ u.id = m.id
      BY <3>1 DEF RecordInv, ErasedIsTold, Buried
    <3>3. u # t
      BY <1>3, <3>2
    <3> QED  BY <1>1, <3>2, <3>3 DEF Buried
  <2>4. ingesting = 0 /\ answer = 0
    BY <1>1 DEF Quiet
  <2> QED  BY <1>1, <2>1, <2>2, <2>3, <2>4 DEF ErasedIsTold, requests, histories
<1> QED  BY <1>4, <1>5, <1>6, <1>7, <1>8, <1>9 DEF RecordInv

-----------------------------------------------------------------------------
(* The invariant, and what it gives. *)

LEMMA RecordStart == Init => RecordInv
<1> SUFFICES ASSUME Init PROVE RecordInv
  OBVIOUS
<1>1. /\ db.messages = {} /\ db.attachments = {} /\ db.captions = {} /\ db.journal = {}
      /\ db.said = {} /\ db.entries = {} /\ db.sized = {} /\ db \in Database
  BY DEF Init, Database
<1>2. TypeOK
  BY <1>1 DEF Init, TypeOK
<1>3. IndexesFit
  BY <1>1, FS_EmptySet DEF Init, IndexesFit, RowsFit, Unlisted
<1>4. RequestsFit /\ CopyIsBehind /\ BytesAreKept
  BY <1>1 DEF Init, RequestsFit, CopyIsBehind, BytesAreKept, Quiet
<1>5. ErasedIsTold
  <2>1. RefsWithin(0)
    BY <1>1 DEF Init, RefsWithin
  <2> QED  BY <1>1, <2>1 DEF Init, ErasedIsTold
<1> QED  BY <1>2, <1>3, <1>4, <1>5 DEF RecordInv

LEMMA RecordStep == RecordInv /\ [Next]_vars => RecordInv'
<1> SUFFICES ASSUME RecordInv, [Next]_vars PROVE RecordInv'
  OBVIOUS
<1>1. CASE UNCHANGED vars
  BY <1>1 DEF RecordInv, TypeOK, IndexesFit, RequestsFit, CopyIsBehind, BytesAreKept, ErasedIsTold,
              RefsWithin, Quiet, vars, requests, counters, histories
<1>2. CASE Next
  BY <1>2, IngestBeginsKeeps, IngestEndsKeeps, AnsweredKeeps, WindBackKeeps, CaptionReadsKeeps,
     EraseLooksKeeps, CaptionWritesKeeps, CaptionFailsKeeps, EraseWritesKeeps, UnlinkKeeps,
     EraseMessageKeeps, StartKeeps, CrashKeeps, SnapshotKeeps, RestoreBeginsKeeps, ReplayKeeps
     DEF Next
<1> QED  BY <1>1, <1>2

LEMMA RecordAlways == Spec => []RecordInv
<1> QED  BY RecordStart, RecordStep, PTL DEF Spec

\* Every variable keeps its type.
THEOREM RecordTypes == Spec => []TypeOK
<1>1. RecordInv => TypeOK
  BY DEF RecordInv
<1> QED  BY <1>1, RecordAlways, PTL

\* While the service is up, a search (episodic.py) finds what the record holds and
\* nothing else, through ingests, captions, erasures, damaged indexes, repairs that die
\* and restores; but for the words of a row that was captioned between its eraser's
\* reading and writing.
THEOREM IndexStaysTheRecord == Spec => []IndexIsTheRecord
<1>1. RecordInv => IndexIsTheRecord
  <2> SUFFICES ASSUME RecordInv, phase = "up" PROVE IndexIsTheRecord
    BY DEF IndexIsTheRecord
  <2> DEFINE words == UNION {Indexed(db, a) : a \in db.attachments}
  <2>1. db \in Database /\ RowsFit(db) /\ IndexFits(db, torn)
    BY DEF RecordInv, TypeOK, IndexesFit
  <2>2. MessageHits(db) = db.messages
    BY <2>1 DEF MessageHits, IndexFits, Ids
  <2>3. ~Drifted(db)
    <3> SUFFICES ASSUME NEW m \in db.messages PROVE db.said # {}
      BY DEF Drifted
    <3>1. m.id \in db.said
      BY <2>1 DEF IndexFits, Ids
    <3> QED  BY <3>1
  <2>4. Search(db).messages = db.messages /\ Search(db).files = FileHits(db)
    BY <2>2, <2>3 DEF Search
  <2>5. \A e \in db.entries : e \in words \/ (e.id \in torn /\ e.id \notin Ids(db.attachments))
    BY <2>1 DEF IndexFits
  <2>6. words \subseteq {e \in db.entries : e.id \in Ids(db.attachments)}
    <3> SUFFICES ASSUME NEW a \in db.attachments, NEW e \in Indexed(db, a)
                 PROVE  e \in db.entries /\ e.id \in Ids(db.attachments)
      OBVIOUS
    <3>1. e.id = a.id
      BY <2>1, IndexedType DEF Database
    <3> QED  BY <2>1, <3>1 DEF IndexFits, Ids
  <2>7. {e \in db.entries : e.id \in Ids(db.attachments)} = words
    BY <2>5, <2>6
  <2>8. ASSUME NEW e \in words
        PROVE  /\ e \in Entry
               /\ e.words = IF e.id \in db.captions THEN "caption" ELSE "text"
    <3>1. PICK a \in db.attachments : e \in Indexed(db, a)
      OBVIOUS
    <3> QED  BY <2>1, <3>1, IndexedType DEF Indexed, TextOf, Database
  <2> HIDE DEF words
  <2>9. FileHits(db) =
          {[id |-> e.id, matched |-> e.words,
            shown |-> IF e.id \in db.captions THEN "caption" ELSE "text"] : e \in words}
    BY <2>7 DEF FileHits
  <2>10. \A h \in FileHits(db) : h.shown = h.matched
    BY <2>8, <2>9
  <2>11. {[id |-> h.id, words |-> h.matched] : h \in FileHits(db)} = words
    <3>1. \A e \in words : e = [id |-> e.id, words |-> e.words]
      BY <2>8 DEF Entry
    <3>2. \A h \in FileHits(db) : \E e \in words : h.id = e.id /\ h.matched = e.words
      BY <2>9
    <3>3. ASSUME NEW e \in words
          PROVE  \E h \in FileHits(db) : h.id = e.id /\ h.matched = e.words
      <4> DEFINE h == [id |-> e.id, matched |-> e.words,
                       shown |-> IF e.id \in db.captions THEN "caption" ELSE "text"]
      <4>1. h \in FileHits(db) /\ h.id = e.id /\ h.matched = e.words
        BY <2>9
      <4> QED  BY <4>1
    <3>4. \A h \in FileHits(db) : [id |-> h.id, words |-> h.matched] \in words
      BY <3>1, <3>2
    <3>5. \A e \in words : \E h \in FileHits(db) : e = [id |-> h.id, words |-> h.matched]
      BY <3>1, <3>3
    <3> QED  BY <3>4, <3>5
  <2>12. db.said = Ids(db.messages) /\ db.sized = Ids(db.attachments)
    BY <2>1 DEF IndexFits
  <2> QED  BY <2>4, <2>5, <2>10, <2>11, <2>12 DEF IndexIsTheRecord, words
<1> QED  BY <1>1, RecordAlways, PTL

\* Outside a restore an attachment has its file (episodic.py, erasers.py), though files
\* are shared by their content and unlinked after the commit; but for the same bytes
\* ingested between the commit of their erasure and its unlink.
THEOREM BytesStayThere == Spec => []BytesAreThere
<1>1. RecordInv => BytesAreThere
  BY DEF RecordInv, BytesAreKept, BytesAreThere
<1> QED  BY <1>1, RecordAlways, PTL

\* A message the owner erased after its sender had the answer does not come back, from a copy that still has it or from a
\* sender that sends it again.
THEOREM ErasedMessagesStayOut == Spec => []ErasedStaysOut
<1>1. RecordInv => ErasedStaysOut
  BY DEF RecordInv, ErasedIsTold, ErasedStaysOut
<1> QED  BY <1>1, RecordAlways, PTL
=============================================================================

------------------------- MODULE EmbeddingsProofs --------------------------
(***************************************************************************)
(* Proofs about the facts' embeddings and what is drawn from them, for any *)
(* facts, models, chunk, pages, jobs and sample size.                      *)
(*                                                                         *)
(* Of Vectors: what a recall compares with its query is of the present     *)
(* text and of the query's space. A vector may be written long after its   *)
(* text was read, so the invariant speaks of the texts the threads have in *)
(* hand too (EmbedsAreFresh, RowsAreFresh); and a service that is down     *)
(* leaves vectors behind which the next one is to take for its own         *)
(* (VectorsAreStamped).                                                    *)
(*                                                                         *)
(* Of Galaxy: the scene shows the newest of the facts with a vector, and   *)
(* the busy marks are those of the jobs at work. A stamp is compared long  *)
(* after it was taken, so the invariant says of every projection there is, *)
(* the one of a job about to be saved too, that points and stamp are of    *)
(* one set of vectors to which nothing was added below its highest         *)
(* (ProjectionsReflect): equal stamps then mean equal sets.                *)
(***************************************************************************)
EXTENDS Vectors, Galaxy, FiniteSetTheorems, WellFoundedInduction, TLAPS

-----------------------------------------------------------------------------
(* Vectors. *)

\* A text in the hands of a thread is its fact's, unless the fact is marked torn.
EmbedsAreFresh ==
  \A e \in embeds :
    /\ text[e.fact] > 0 /\ Up(e.by)
    /\ e.fact \notin torn => e.text = text[e.fact]

RowsAreFresh ==
  \A p \in Process : \A f \in DOMAIN batch[p] :
    /\ text[f] > 0 /\ fill[p] = "ask"
    /\ f \notin torn => batch[p][f] = text[f]

VectorsAreFresh ==
  \A f \in Fact : vector[f] # NoVector =>
    /\ text[f] > 0
    /\ f \notin torn => vector[f].text = text[f]

\* Once there is a stamp, the vectors are of its space, running service or not.
VectorsAreStamped ==
  stamp # NoSpace =>
    \A f \in Fact \ foreign : vector[f] # NoVector => vector[f].space = stamp

VectorsInv == TypeOK /\ EmbedsAreFresh /\ RowsAreFresh /\ VectorsAreFresh /\ VectorsAreStamped

LEMMA NothingAsked == NoBatch \in [DOMAIN NoBatch -> Nat] /\ DOMAIN NoBatch = {}
  BY DEF NoBatch

\* A step that leaves the texts, the vectors and the fills alone, and spawns no embed.
LEMMA NothingWritten ==
  ASSUME VectorsInv, TypeOK',
         UNCHANGED <<text, vector, stamp, fill, batch, torn, foreign>>,
         embeds' \subseteq embeds,
         \A p \in Process : Up(p) => model'[p] = model[p]
  PROVE  VectorsInv'
<1> USE DEF VectorsInv
<1>1. EmbedsAreFresh'
  BY DEF TypeOK, EmbedsAreFresh, Embed, Up
<1>2. RowsAreFresh' /\ VectorsAreFresh' /\ VectorsAreStamped'
  BY DEF RowsAreFresh, VectorsAreFresh, VectorsAreStamped
<1> QED  BY <1>1, <1>2

LEMMA QuietKeeps ==
  ASSUME VectorsInv,
         \/ \E e \in embeds : EmbedFails(e)
         \/ \E s \in Space : ConfigChanges(s)
         \/ AdapterStarts \/ Resumes
  PROVE  VectorsInv'
<1> USE DEF db, work, histories, Fault, Starts, Up, Process
<1>1. TypeOK
  BY DEF VectorsInv
<1>2. ASSUME NEW e \in embeds, EmbedFails(e) PROVE VectorsInv'
  <2>1. TypeOK'
    BY <1>1, <1>2 DEF TypeOK, EmbedFails, Embed
  <2> QED  BY <1>2, <2>1, NothingWritten DEF EmbedFails
<1>3. ASSUME NEW s \in Space, ConfigChanges(s) PROVE VectorsInv'
  <2>1. TypeOK'
    BY <1>1, <1>3 DEF TypeOK, ConfigChanges
  <2> QED  BY <1>3, <2>1, NothingWritten DEF ConfigChanges
<1>4. CASE AdapterStarts \/ Resumes
  <2>1. TypeOK'
    BY <1>1, <1>4 DEF TypeOK, AdapterStarts, Resumes
  <2>2. \A p \in Process : Up(p) => model'[p] = model[p]
    BY <1>1, <1>4 DEF TypeOK, AdapterStarts, Resumes
  <2> QED  BY <1>4, <2>1, <2>2, NothingWritten DEF AdapterStarts, Resumes
<1> QED  BY <1>2, <1>3, <1>4

LEMMA EditKeeps ==
  ASSUME VectorsInv,
         NEW f \in Fact,
         Edit(f)
  PROVE  VectorsInv'
<1> USE NothingAsked, VectorsAssumption
    DEF VectorsAssumption, VectorsInv, Edit, Spawn, Fault, InFlight, Up, Vector, Embed, Process, db,
        work, histories
<1>1. TypeOK'
  BY DEF TypeOK, EmbedsAreFresh, RowsAreFresh
<1>2. EmbedsAreFresh'
  BY DEF TypeOK, EmbedsAreFresh
<1>3. RowsAreFresh'
  BY DEF TypeOK, RowsAreFresh
<1>4. VectorsAreFresh'
  BY DEF TypeOK, EmbedsAreFresh, RowsAreFresh, VectorsAreFresh
<1>5. VectorsAreStamped'
  BY DEF TypeOK, EmbedsAreFresh, RowsAreFresh, VectorsAreStamped
<1> QED  BY <1>1, <1>2, <1>3, <1>4, <1>5

LEMMA SaveKeeps ==
  ASSUME VectorsInv,
         NEW p \in Process, NEW f \in Fact,
         Save(p, f)
  PROVE  VectorsInv'
<1> USE NothingAsked, VectorsAssumption
    DEF VectorsAssumption, VectorsInv, Save, Spawn, Fault, Up, Vector, Embed, Process, db, work,
        histories
<1>1. TypeOK'
  BY DEF TypeOK, EmbedsAreFresh, RowsAreFresh
<1>2. EmbedsAreFresh'
  BY DEF TypeOK, EmbedsAreFresh
<1>3. RowsAreFresh'
  BY DEF TypeOK, RowsAreFresh
<1>4. VectorsAreFresh'
  BY DEF TypeOK, EmbedsAreFresh, RowsAreFresh, VectorsAreFresh
<1>5. VectorsAreStamped'
  BY DEF TypeOK, EmbedsAreFresh, RowsAreFresh, VectorsAreStamped
<1> QED  BY <1>1, <1>2, <1>3, <1>4, <1>5

LEMMA EmbedEndsKeeps ==
  ASSUME VectorsInv,
         NEW e \in embeds,
         EmbedEnds(e)
  PROVE  VectorsInv'
<1> USE NothingAsked, VectorsAssumption
    DEF VectorsAssumption, VectorsInv, EmbedEnds, Made, Up, Vector, Embed, Process, db, work,
        histories
<1>1. TypeOK'
  <2>1. /\ e \in Embed /\ e.by \in Process /\ e.fact \in Fact /\ e.text \in Nat
        /\ model[e.by] \in Space
    BY DEF TypeOK, EmbedsAreFresh
  <2>2. [text |-> e.text, space |-> model[e.by]] \in Vector
    BY <2>1
  <2>3. vector' \in [Fact -> Vector \cup {NoVector}]
    BY <2>1, <2>2 DEF TypeOK
  <2> QED  BY <2>1, <2>3 DEF TypeOK
<1>2. EmbedsAreFresh'
  BY DEF TypeOK, EmbedsAreFresh
<1>3. RowsAreFresh'
  BY DEF TypeOK, RowsAreFresh
<1>4. VectorsAreFresh'
  BY DEF TypeOK, EmbedsAreFresh, RowsAreFresh, VectorsAreFresh
<1>5. VectorsAreStamped'
  BY DEF TypeOK, EmbedsAreFresh, RowsAreFresh, VectorsAreStamped
<1> QED  BY <1>1, <1>2, <1>3, <1>4, <1>5

LEMMA FillReadsKeeps ==
  ASSUME VectorsInv,
         NEW p \in Process,
         FillReads(p)
  PROVE  VectorsInv'
<1> USE NothingAsked, VectorsAssumption
    DEF VectorsAssumption, VectorsInv, FillReads, FillEnds, Asks, Missing, Rows, Up, Vector,
        Embed, Process, db, work, histories
<1>1. TypeOK'
  <2>1. DOMAIN batch' = Process
    BY DEF TypeOK
  <2>2. \A q \in Process : batch'[q] = batch[q] \/ batch'[q] = NoBatch
                           \/ \E F \in SUBSET Fact : batch'[q] = [f \in F |-> text[f]]
    <3>1. PICK F \in SUBSET Fact : batch' = batch \/ batch' = [batch EXCEPT ![p] = NoBatch]
                                  \/ batch' = [batch EXCEPT ![p] = [f \in F |-> text[f]]]
      BY DEF TypeOK
    <3> QED  BY <3>1 DEF TypeOK
  <2>3. ASSUME NEW q \in Process
        PROVE  batch'[q] \in [DOMAIN batch'[q] -> Nat] /\ DOMAIN batch'[q] \subseteq Fact
    <3>1. CASE batch'[q] = batch[q] \/ batch'[q] = NoBatch
      BY <3>1 DEF TypeOK
    <3>2. ASSUME NEW F \in SUBSET Fact, batch'[q] = [f \in F |-> text[f]]
          PROVE  batch'[q] \in [DOMAIN batch'[q] -> Nat] /\ DOMAIN batch'[q] \subseteq Fact
      <4>1. DOMAIN batch'[q] = F /\ [f \in F |-> text[f]] \in [F -> Nat]
        BY <3>2 DEF TypeOK
      <4> QED  BY <3>2, <4>1
    <3> QED  BY <3>1, <3>2, <2>2
  <2> QED  BY <2>1, <2>3 DEF TypeOK
<1>2. EmbedsAreFresh'
  BY DEF TypeOK, EmbedsAreFresh
<1>3. RowsAreFresh'
  BY DEF TypeOK, RowsAreFresh
<1>4. VectorsAreFresh'
  BY DEF TypeOK, EmbedsAreFresh, RowsAreFresh, VectorsAreFresh
<1>5. VectorsAreStamped'
  BY DEF TypeOK, EmbedsAreFresh, RowsAreFresh, VectorsAreStamped
<1> QED  BY <1>1, <1>2, <1>3, <1>4, <1>5

LEMMA FillWritesKeeps ==
  ASSUME VectorsInv,
         NEW p \in Process,
         FillWrites(p)
  PROVE  VectorsInv'
<1> USE NothingAsked, VectorsAssumption
    DEF VectorsAssumption, VectorsInv, FillWrites, Answered, Made, Up, Vector, Embed,
        Process, db, work, histories
<1>1. TypeOK'
  BY DEF TypeOK, EmbedsAreFresh, RowsAreFresh
<1>2. EmbedsAreFresh'
  BY DEF TypeOK, EmbedsAreFresh
<1>3. RowsAreFresh'
  BY DEF TypeOK, RowsAreFresh
<1>4. VectorsAreFresh'
  BY DEF TypeOK, EmbedsAreFresh, RowsAreFresh, VectorsAreFresh
<1>5. VectorsAreStamped'
  BY DEF TypeOK, EmbedsAreFresh, RowsAreFresh, VectorsAreStamped
<1> QED  BY <1>1, <1>2, <1>3, <1>4, <1>5

LEMMA FillBeginsKeeps ==
  ASSUME VectorsInv,
         NEW p \in Process,
         FillBegins(p)
  PROVE  VectorsInv'
<1> USE NothingAsked, VectorsAssumption
    DEF VectorsAssumption, VectorsInv, FillBegins, Asks, Missing, Rows, Up, Vector, Embed,
        Process, db, work, histories
<1>1. TypeOK'
  BY DEF TypeOK, EmbedsAreFresh, RowsAreFresh
<1>2. EmbedsAreFresh'
  BY DEF TypeOK, EmbedsAreFresh
<1>3. RowsAreFresh'
  BY DEF TypeOK, RowsAreFresh
<1>4. VectorsAreFresh'
  BY DEF TypeOK, EmbedsAreFresh, RowsAreFresh, VectorsAreFresh
<1>5. VectorsAreStamped'
  BY DEF TypeOK, EmbedsAreFresh, RowsAreFresh, VectorsAreStamped
<1> QED  BY <1>1, <1>2, <1>3, <1>4, <1>5

LEMMA FillFailsKeeps ==
  ASSUME VectorsInv,
         NEW p \in Process,
         FillFails(p)
  PROVE  VectorsInv'
<1> USE NothingAsked, VectorsAssumption
    DEF VectorsAssumption, VectorsInv, FillFails, FillEnds, Fault, Up, Vector, Embed,
        Process, db, work, histories
<1>1. TypeOK'
  <2>1. DOMAIN batch' = Process
    BY DEF TypeOK
  <2>2. \A q \in Process : batch'[q] = batch[q] \/ batch'[q] = NoBatch
    BY DEF TypeOK
  <2>3. \A q \in Process :
           batch'[q] \in [DOMAIN batch'[q] -> Nat] /\ DOMAIN batch'[q] \subseteq Fact
    BY <2>2 DEF TypeOK
  <2>4. \A q \in Process : model'[q] = NoSpace => fill'[q] = "no"
    BY DEF TypeOK
  <2>5. embeds' \in SUBSET Embed /\ fill' \in [Process -> {"no", "read", "ask"}]
    BY DEF TypeOK
  <2>6. left' \subseteq Fact /\ faults' \in Nat
    BY DEF TypeOK, Missing
  <2>7. /\ model' \in [Process -> Space \cup {NoSpace}]
        /\ model'["service"] # NoSpace => stamp' = model'["service"]
    BY DEF TypeOK
  <2> QED  BY <2>1, <2>3, <2>4, <2>5, <2>6, <2>7 DEF TypeOK
<1>2. EmbedsAreFresh'
  BY DEF TypeOK, EmbedsAreFresh
<1>3. RowsAreFresh'
  BY DEF TypeOK, RowsAreFresh
<1>4. VectorsAreFresh'
  BY DEF TypeOK, EmbedsAreFresh, RowsAreFresh, VectorsAreFresh
<1>5. VectorsAreStamped'
  BY DEF TypeOK, EmbedsAreFresh, RowsAreFresh, VectorsAreStamped
<1> QED  BY <1>1, <1>2, <1>3, <1>4, <1>5

LEMMA StopsKeeps ==
  ASSUME VectorsInv,
         NEW p \in Process,
         Stops(p)
  PROVE  VectorsInv'
<1> USE NothingAsked, VectorsAssumption
    DEF VectorsAssumption, VectorsInv, Stops, FillEnds, Fault, Up, Vector, Embed, Process,
        db, work, histories
<1>1. TypeOK'
  <2>1. DOMAIN batch' = Process
    BY DEF TypeOK
  <2>2. \A q \in Process : batch'[q] = batch[q] \/ batch'[q] = NoBatch
    BY DEF TypeOK
  <2>3. \A q \in Process :
           batch'[q] \in [DOMAIN batch'[q] -> Nat] /\ DOMAIN batch'[q] \subseteq Fact
    BY <2>2 DEF TypeOK
  <2>4. \A q \in Process : model'[q] = NoSpace => fill'[q] = "no"
    BY DEF TypeOK
  <2>5. embeds' \in SUBSET Embed /\ fill' \in [Process -> {"no", "read", "ask"}]
    BY DEF TypeOK
  <2>6. left' \subseteq Fact /\ faults' \in Nat
    BY DEF TypeOK, Missing
  <2>7. /\ model' \in [Process -> Space \cup {NoSpace}]
        /\ model'["service"] # NoSpace => stamp' = model'["service"]
    BY DEF TypeOK
  <2> QED  BY <2>1, <2>3, <2>4, <2>5, <2>6, <2>7 DEF TypeOK
<1>2. EmbedsAreFresh'
  BY DEF TypeOK, EmbedsAreFresh
<1>3. RowsAreFresh'
  BY DEF TypeOK, RowsAreFresh
<1>4. VectorsAreFresh'
  BY DEF TypeOK, EmbedsAreFresh, RowsAreFresh, VectorsAreFresh
<1>5. VectorsAreStamped'
  BY DEF TypeOK, EmbedsAreFresh, RowsAreFresh, VectorsAreStamped
<1> QED  BY <1>1, <1>2, <1>3, <1>4, <1>5

LEMMA AdoptsKeeps ==
  ASSUME VectorsInv,
         Adopts
  PROVE  VectorsInv'
<1> USE NothingAsked, VectorsAssumption
    DEF VectorsAssumption, VectorsInv, Adopts, Starts, Up, Vector, Embed, Process, db, work,
        histories
<1>1. TypeOK'
  BY DEF TypeOK, EmbedsAreFresh, RowsAreFresh
<1>2. EmbedsAreFresh'
  BY DEF TypeOK, EmbedsAreFresh
<1>3. RowsAreFresh'
  BY DEF TypeOK, RowsAreFresh
<1>4. VectorsAreFresh'
  BY DEF TypeOK, EmbedsAreFresh, RowsAreFresh, VectorsAreFresh
<1>5. VectorsAreStamped'
  BY DEF TypeOK, EmbedsAreFresh, RowsAreFresh, VectorsAreStamped
<1> QED  BY <1>1, <1>2, <1>3, <1>4, <1>5

LEMMA WipesKeeps ==
  ASSUME VectorsInv,
         Wipes
  PROVE  VectorsInv'
<1> USE NothingAsked, VectorsAssumption
    DEF VectorsAssumption, VectorsInv, Wipes, Starts, InFlight, Up, Vector, Embed, Process,
        db, work, histories
<1>1. TypeOK'
  BY DEF TypeOK, EmbedsAreFresh, RowsAreFresh
<1>2. EmbedsAreFresh'
  BY DEF TypeOK, EmbedsAreFresh
<1>3. RowsAreFresh'
  BY DEF TypeOK, RowsAreFresh
<1>4. VectorsAreFresh'
  BY DEF TypeOK, EmbedsAreFresh, RowsAreFresh, VectorsAreFresh
<1>5. VectorsAreStamped'
  BY DEF TypeOK, EmbedsAreFresh, RowsAreFresh, VectorsAreStamped
<1> QED  BY <1>1, <1>2, <1>3, <1>4, <1>5

LEMMA StutterKeepsVectors == VectorsInv /\ UNCHANGED vars => VectorsInv'
<1> SUFFICES ASSUME VectorsInv, UNCHANGED vars  PROVE VectorsInv'
  OBVIOUS
<1> QED
  BY DEF VectorsInv, TypeOK, EmbedsAreFresh, RowsAreFresh, VectorsAreFresh, VectorsAreStamped,
         Up, vars, db, work, histories

LEMMA VectorsStart == Init => VectorsInv
  BY VectorsAssumption, NothingAsked
     DEF VectorsAssumption, Init, VectorsInv, TypeOK, EmbedsAreFresh, RowsAreFresh,
         VectorsAreFresh, VectorsAreStamped, Process, Up

LEMMA VectorsStep == VectorsInv /\ [Next]_vars => VectorsInv'
  BY StutterKeepsVectors, QuietKeeps, EditKeeps, SaveKeeps, EmbedEndsKeeps, FillReadsKeeps,
     FillWritesKeeps, FillBeginsKeeps, FillFailsKeeps, StopsKeeps, AdoptsKeeps, WipesKeeps
     DEF Next, Threads

LEMMA VectorsAlways == Spec => []VectorsInv
<1> QED  BY VectorsStart, VectorsStep, PTL DEF Spec

\* Every variable keeps its type, and a running service its own stamp.
THEOREM VectorsTypes == Spec => []TypeOK
<1>1. VectorsInv => TypeOK
  BY DEF VectorsInv
<1> QED  BY <1>1, VectorsAlways, PTL

\* What a recall compares with its query is the vector of the fact's present text in the
\* query's space (recall.py, embeddings.py), through saves, edits, fills, failed calls,
\* changes of the model and two processes; but for the two cases the code leaves open.
THEOREM LikeIsComparedWithLike == Spec => []ComparesLikeWithLike
<1>1. VectorsInv => ComparesLikeWithLike
  BY VectorsAssumption
     DEF VectorsAssumption, VectorsInv, TypeOK, VectorsAreFresh, VectorsAreStamped,
         ComparesLikeWithLike, Compared, QuerySpace, Up, Process
<1> QED  BY <1>1, VectorsAlways, PTL

-----------------------------------------------------------------------------
(* Galaxy. *)

\* A projection's stamp and its points are of one set of vectors, and no vector has come
\* since to a fact of that set's age.
Reflects(p) ==
  \/ p.odd
  \/ \E F \in SUBSET Id :
       /\ p.points = Newest(F) /\ p.stamp = StampOf(F)
       /\ {f \in embedded : f <= p.stamp.highest} \subseteq F

ProjectionsReflect ==
  /\ cache # NoCache => Reflects(cache)
  /\ \A j \in Job :
       /\ thread[j] = "saving" => Reflects(drawing[j])
       /\ thread[j] = "stamping" => drawing[j].odd \/ drawing[j].points = Newest(embedded)

\* A booked job is one page's, and has no thread yet.
BookedIsApart ==
  /\ \A r \in Page : page[r] = "starting" <=> booked[r] # NoJob
  /\ \A r \in Page : booked[r] # NoJob =>
       /\ thread[booked[r]] = "none"
       /\ \A q \in Page : booked[q] = booked[r] => q = r

GalaxyInv == GalaxyTypeOK /\ BusyIsWork /\ BookedIsApart /\ ProjectionsReflect

-----------------------------------------------------------------------------
(* Finite sets of numbers, and the operators of the projection. *)

LEMMA HasGreatest ==
  ASSUME NEW F \in SUBSET Nat, IsFiniteSet(F), F # {}
  PROVE  \E x \in F : \A y \in F : y <= x
<1> DEFINE Above(x) == {y \in F : y > x}
           Sizes == {Cardinality(Above(x)) : x \in F}
<1>1. \A x \in F : IsFiniteSet(Above(x)) /\ Cardinality(Above(x)) \in Nat
  BY FS_Subset, FS_CardinalityType
<1>2. PICK n \in Sizes : \A m \in Sizes : ~(<<m, n>> \in OpToRel(<, Nat))
  <2>1. Sizes \subseteq Nat /\ Sizes # {}
    BY <1>1
  <2> QED  BY <2>1, WFMin, NatLessThanWellFounded
<1>3. PICK x \in F : n = Cardinality(Above(x))
  BY <1>2
<1>4. ASSUME NEW y \in F, ~(y <= x)
      PROVE  FALSE
  <2>1. y > x
    BY <1>4
  <2>2. Above(y) \in SUBSET Above(x) /\ y \in Above(x) /\ y \notin Above(y)
    <3>1. x \in Nat /\ y \in Nat /\ \A z \in F : z \in Nat
      OBVIOUS
    <3>2. \A z \in Above(y) : z \in Above(x)
      BY <2>1, <3>1
    <3>3. y \in Above(x) /\ y \notin Above(y)
      BY <2>1, <3>1
    <3> QED  BY <3>2, <3>3
  <2>3. /\ Cardinality(Above(y)) <= Cardinality(Above(x))
        /\ Cardinality(Above(y)) # Cardinality(Above(x))
    BY <1>1, <2>2, FS_Subset
  <2>4. Cardinality(Above(y)) \in Sizes
    OBVIOUS
  <2>5. Cardinality(Above(y)) < n
    BY <1>1, <1>3, <2>3
  <2> QED  BY <1>1, <1>2, <1>3, <2>4, <2>5 DEF OpToRel
<1> QED  BY <1>4

\* What _stamp's max(id) is.
LEMMA HighestIsGreatest ==
  ASSUME NEW F \in SUBSET Id
  PROVE  /\ Highest(F) \in Nat /\ \A k \in F : k <= Highest(F)
         /\ F # {} => Highest(F) \in F
<1>1. F \in SUBSET Nat /\ IsFiniteSet(F) /\ 0 \notin F
  BY GalaxyAssumption, FS_Subset DEF GalaxyAssumption
<1>2. CASE F = {}
  BY <1>2 DEF Highest
<1>3. CASE F # {}
  <2>1. \E i \in F \cup {0} : \A k \in F : k <= i
    BY <1>1, <1>3, HasGreatest
  <2>2. Highest(F) \in F \cup {0} /\ \A k \in F : k <= Highest(F)
    BY <2>1 DEF Highest
  <2>3. Highest(F) # 0
    <3>1. PICK k \in F : TRUE
      BY <1>3
    <3> QED  BY <1>1, <2>2, <3>1
  <2> QED  BY <1>1, <2>2, <2>3
<1> QED  BY <1>2, <1>3

LEMMA StampType ==
  ASSUME NEW F \in SUBSET Id
  PROVE  StampOf(F) \in Stamp /\ StampOf(F).highest = Highest(F)
  BY HighestIsGreatest, GalaxyAssumption, FS_Subset, FS_CardinalityType
     DEF StampOf, Stamp, GalaxyAssumption

\* The newest fact with a vector is always drawn.
LEMMA HighestIsDrawn ==
  ASSUME NEW F \in SUBSET Id, F # {}
  PROVE  Highest(F) \in Newest(F)
<1>1. F \in SUBSET Nat
  BY GalaxyAssumption DEF GalaxyAssumption
<1>2. {g \in F : g >= Highest(F)} = {Highest(F)}
  <2>1. Highest(F) \in F /\ Highest(F) \in Nat /\ \A g \in F : g \in Nat /\ g <= Highest(F)
    BY <1>1, HighestIsGreatest
  <2> QED  BY <2>1
<1>3. Cardinality({g \in F : g >= Highest(F)}) = 1
  BY <1>2, FS_Singleton
<1> QED  BY <1>3, HighestIsGreatest, GalaxyAssumption DEF Newest, GalaxyAssumption

\* Two sets of vectors with one stamp, one within the other below it: the same set.
LEMMA StampTells ==
  ASSUME NEW F \in SUBSET Id, NEW G \in SUBSET Id, StampOf(F) = StampOf(G),
         {f \in G : f <= Highest(F)} \subseteq F
  PROVE  F = G
<1>1. Cardinality(F) = Cardinality(G) /\ Highest(F) = Highest(G)
  BY DEF StampOf
<1>2. G \subseteq F
  BY <1>1, HighestIsGreatest
<1>3. IsFiniteSet(F)
  BY GalaxyAssumption, FS_Subset DEF GalaxyAssumption
<1> QED  BY <1>1, <1>2, <1>3, FS_Subset

LEMMA ProjectionsMarked ==
  ASSUME NEW p \in Projection, NEW b
  PROVE  LET q == [p EXCEPT !.odd = @ \/ b]
         IN  q.points = p.points /\ q.stamp = p.stamp /\ (q.odd <=> p.odd \/ b)
  BY DEF Projection

LEMMA MarkedType ==
  ASSUME NEW p \in Projection, NEW b
  PROVE  [p EXCEPT !.odd = @ \/ b] \in Projection
<1>1. (p.odd \/ b) \in BOOLEAN
  OBVIOUS
<1> QED  BY <1>1 DEF Projection

LEMMA BlankType == Blank \in Projection
  BY DEF Blank, Projection, Stamp

-----------------------------------------------------------------------------
(* The vectors change. *)

\* What is faithful stays so, unless it is marked.
LEMMA StillReflects ==
  ASSUME GalaxyTypeOK, NEW p \in Projection, NEW q, NEW f \in Id, Reflects(p),
         \/ embedded' = embedded \ {f}
         \/ f \notin embedded /\ embedded' = embedded \cup {f},
         q.points = p.points, q.stamp = p.stamp,
         ~q.odd => /\ ~p.odd
                   /\ ~(f \notin embedded /\ f < Highest(embedded \cup p.points))
  PROVE  q.odd \/ \E F \in SUBSET Id :
                    /\ q.points = Newest(F) /\ q.stamp = StampOf(F)
                    /\ {g \in embedded' : g <= q.stamp.highest} \subseteq F
<1> SUFFICES ASSUME ~q.odd
             PROVE  \E F \in SUBSET Id :
                      /\ q.points = Newest(F) /\ q.stamp = StampOf(F)
                      /\ {g \in embedded' : g <= q.stamp.highest} \subseteq F
  OBVIOUS
<1>1. PICK F \in SUBSET Id : /\ p.points = Newest(F) /\ p.stamp = StampOf(F)
                               /\ {g \in embedded : g <= p.stamp.highest} \subseteq F
  BY DEF Reflects
<1>2. CASE embedded' = embedded \ {f}
  BY <1>1, <1>2
<1>3. CASE f \notin embedded /\ embedded' = embedded \cup {f}
  <2> DEFINE D == embedded \cup p.points
  <2>1. D \in SUBSET Id /\ embedded \subseteq Id
    BY DEF GalaxyTypeOK, Projection
  <2>2. Highest(D) \in Nat /\ \A k \in D : k <= Highest(D)
    BY <2>1, HighestIsGreatest
  <2>3. ~(f < Highest(D))
    BY <1>3
  <2>4. f <= Highest(F) => f \in F
    <3>1. CASE F = {}
      <4>1. Highest(F) = 0 
        BY <3>1 DEF Highest
      <4> QED  BY <4>1, GalaxyAssumption DEF GalaxyAssumption
    <3>2. CASE F # {}
      <4>1. Highest(F) \in F /\ Highest(F) \in D
        BY <3>2, <1>1, HighestIsDrawn, HighestIsGreatest
      <4>2. Highest(F) <= Highest(D) /\ Highest(F) \in Nat /\ f \in Nat
        BY <4>1, <2>2, HighestIsGreatest, GalaxyAssumption DEF GalaxyAssumption
      <4>3. f <= Highest(F) => f = Highest(F)
        BY <4>2, <2>2, <2>3
      <4> QED  BY <4>1, <4>3
    <3> QED  BY <3>1, <3>2
  <2>5. p.stamp.highest = Highest(F)
    BY <1>1, StampType
  <2> QED  BY <1>1, <1>3, <2>4, <2>5
<1> QED  BY <1>2, <1>3

LEMMA ChangesKeeps ==
  ASSUME GalaxyInv, NEW f \in Id,
         Changes(f),
         \/ f \in embedded /\ embedded' = embedded \ {f}
         \/ f \notin embedded /\ embedded' = embedded \cup {f}
  PROVE  GalaxyInv'
<1> USE DEF GalaxyInv
<1>1. \A j \in Job : /\ drawing'[j] = [drawing[j] EXCEPT !.odd = @ \/ Odd(drawing[j], j, f)]
                     /\ drawing[j] \in Projection
  BY DEF Changes, GalaxyTypeOK
<1>2. ASSUME NEW j \in Job
      PROVE  /\ drawing'[j].points = drawing[j].points /\ drawing'[j].stamp = drawing[j].stamp
             /\ drawing'[j].odd <=> drawing[j].odd \/ Odd(drawing[j], j, f)
             /\ drawing'[j] \in Projection
  <2> DEFINE b == Odd(drawing[j], j, f)
  <2>1. drawing'[j] = [drawing[j] EXCEPT !.odd = @ \/ b] /\ drawing[j] \in Projection
    BY <1>1
  <2> HIDE DEF b
  <2>2. /\ drawing'[j].points = drawing[j].points /\ drawing'[j].stamp = drawing[j].stamp
        /\ drawing'[j].odd <=> drawing[j].odd \/ b
    BY <2>1, ProjectionsMarked
  <2>3. drawing'[j] \in Projection
    BY <2>1, MarkedType
  <2> QED  BY <2>2, <2>3 DEF b
<1>3. cache # NoCache =>
        /\ cache' = [cache EXCEPT !.odd = @ \/ (/\ f \notin embedded
                                               /\ f < Highest(embedded \cup cache.points))]
        /\ cache \in Projection
  BY DEF Changes, GalaxyTypeOK
<1>4. ASSUME cache # NoCache
      PROVE  /\ cache'.points = cache.points /\ cache'.stamp = cache.stamp
             /\ cache'.odd <=> \/ cache.odd
                               \/ f \notin embedded /\ f < Highest(embedded \cup cache.points)
             /\ cache' \in Projection
  <2> DEFINE b == f \notin embedded /\ f < Highest(embedded \cup cache.points)
  <2>1. cache' = [cache EXCEPT !.odd = @ \/ b] /\ cache \in Projection
    BY <1>3, <1>4
  <2> HIDE DEF b
  <2>2. /\ cache'.points = cache.points /\ cache'.stamp = cache.stamp
        /\ cache'.odd <=> cache.odd \/ b
    BY <2>1, ProjectionsMarked
  <2>3. cache' \in Projection
    BY <2>1, MarkedType
  <2> QED  BY <2>2, <2>3 DEF b
<1>5. cache = NoCache => cache' = NoCache
  BY DEF Changes
<1>6. GalaxyTypeOK'
  <2>1. drawing' \in [Job -> Projection]
    BY <1>2 DEF Changes
  <2>2. cache' = NoCache \/ cache' \in Projection
    BY <1>4, <1>5
  <2> QED  BY <2>1, <2>2 DEF GalaxyTypeOK, Changes, jobs, requests
<1>7. BusyIsWork' /\ BookedIsApart'
  BY DEF BusyIsWork, BookedIsApart, Changes, jobs, requests
<1>8. ProjectionsReflect'
  <2>1. cache' # NoCache => Reflects(cache)'
    <3> SUFFICES ASSUME cache # NoCache PROVE Reflects(cache)'
      BY <1>5
    <3>1. Reflects(cache) /\ cache \in Projection
      BY <1>3 DEF ProjectionsReflect
    <3>2. /\ cache'.points = cache.points /\ cache'.stamp = cache.stamp
          /\ ~cache'.odd => /\ ~cache.odd
                            /\ ~(f \notin embedded /\ f < Highest(embedded \cup cache.points))
      BY <1>4
    <3>3. embedded' = embedded \ {f} \/ (f \notin embedded /\ embedded' = embedded \cup {f})
      OBVIOUS
    <3>4. GalaxyTypeOK
      OBVIOUS
    <3> HIDE DEF GalaxyInv
    <3>5. cache'.odd \/ \E F \in SUBSET Id :
                          /\ cache'.points = Newest(F) /\ cache'.stamp = StampOf(F)
                          /\ {g \in embedded' : g <= cache'.stamp.highest} \subseteq F
      BY <3>1, <3>2, <3>3, <3>4, StillReflects
    <3> QED  BY <3>5 DEF Reflects
  <2>2. ASSUME NEW j \in Job, thread'[j] = "saving"
        PROVE  Reflects(drawing[j])'
    <3>1. thread[j] = "saving" /\ Reflects(drawing[j])
      BY <2>2 DEF Changes, ProjectionsReflect
    <3>2. Odd(drawing[j], j, f) <=>
            f \notin embedded /\ f < Highest(embedded \cup drawing[j].points)
      BY <3>1 DEF Odd
    <3>3. /\ drawing'[j].points = drawing[j].points /\ drawing'[j].stamp = drawing[j].stamp
          /\ ~drawing'[j].odd =>
               /\ ~drawing[j].odd
               /\ ~(f \notin embedded /\ f < Highest(embedded \cup drawing[j].points))
      BY <1>2, <3>2
    <3>4. embedded' = embedded \ {f} \/ (f \notin embedded /\ embedded' = embedded \cup {f})
      OBVIOUS
    <3>5. GalaxyTypeOK /\ drawing[j] \in Projection
      BY <1>1
    <3> HIDE DEF GalaxyInv
    <3>6. drawing'[j].odd \/ \E F \in SUBSET Id :
                            /\ drawing'[j].points = Newest(F) /\ drawing'[j].stamp = StampOf(F)
                            /\ {g \in embedded' : g <= drawing'[j].stamp.highest} \subseteq F
      BY <3>1, <3>3, <3>4, <3>5, StillReflects
    <3> QED  BY <3>6 DEF Reflects
  <2>3. ASSUME NEW j \in Job, thread'[j] = "stamping"
        PROVE  drawing'[j].odd
    <3>1. thread[j] = "stamping"
      BY <2>3 DEF Changes
    <3> QED  BY <1>2, <3>1 DEF Odd
  <2> QED  BY <2>1, <2>2, <2>3 DEF ProjectionsReflect
<1> QED  BY <1>6, <1>7, <1>8

-----------------------------------------------------------------------------
(* The pages, and the jobs. *)

LEMMA AskKeeps ==
  ASSUME GalaxyInv, NEW r \in Page,
         Opens(r) \/ Ask(r) \/ CannotStart(r)
  PROVE  GalaxyInv'
<1> USE DEF GalaxyInv, Goes
<1>1. CASE Opens(r) \/ Shows(r) \/ Looks(r) \/ Waits(r) \/ Reports(r) \/ Clears(r)
  <2>1. GalaxyTypeOK'
    BY <1>1 DEF GalaxyTypeOK, Opens, Shows, Looks, Waits, Reports, Clears, jobs, threads
  <2>2. BusyIsWork' /\ BookedIsApart'
    BY <1>1
         DEF GalaxyTypeOK, BusyIsWork, BookedIsApart, Opens, Shows, Looks, Waits, Reports,
             Clears, jobs, threads
  <2>3. ProjectionsReflect'
    BY <1>1 DEF ProjectionsReflect, Reflects, Opens, Shows, Looks, Waits, Reports, Clears,
                jobs, threads
  <2> QED  BY <2>1, <2>2, <2>3
<1>2. ASSUME NEW j \in Job, Books(r, j)
      PROVE  GalaxyInv'
  <2>1. GalaxyTypeOK'
    BY <1>2 DEF GalaxyTypeOK, Books, threads
  <2>2. /\ booked[r] = NoJob /\ booked'[r] = j /\ j # NoJob /\ thread[j] = "none"
        /\ \A q \in Page \ {r} : booked'[q] = booked[q] /\ booked[q] # j /\ page'[q] = page[q]
        /\ page'[r] = "starting" /\ thread' = thread /\ marks' = marks \cup {j}
    BY <1>2, GalaxyAssumption
       DEF GalaxyAssumption, GalaxyTypeOK, Books, Idle, BookedIsApart, threads
  <2>3. BookedIsApart'
    BY <2>2 DEF BookedIsApart
  <2>4. {booked'[q] : q \in Page} \ {NoJob} = ({booked[q] : q \in Page} \ {NoJob}) \cup {j}
    BY <2>2
  <2>5. BusyIsWork'
    BY <2>2, <2>4 DEF BusyIsWork
  <2>6. ProjectionsReflect'
    BY <1>2 DEF ProjectionsReflect, Reflects, Books, threads
  <2> QED  BY <2>1, <2>3, <2>5, <2>6
<1>3. CASE StartsJob(r) \/ CannotStart(r)
  <2> DEFINE j == booked[r]
  <2>1. /\ j \in Job /\ j # NoJob /\ thread[j] = "none" /\ page[r] = "starting"
        /\ \A q \in Page \ {r} : booked[q] # j
    BY <1>3, GalaxyAssumption
       DEF GalaxyAssumption, GalaxyTypeOK, StartsJob, CannotStart, BookedIsApart
  <2>2. /\ booked' = [booked EXCEPT ![r] = NoJob]
        /\ page' = [page EXCEPT ![r] = "asking"] \/ page' = [page EXCEPT ![r] = "told"]
        /\ status' \in {status, "running"}
        /\ UNCHANGED <<embedded, cache, drawing, failing, changes>>
    BY <1>3 DEF StartsJob, CannotStart, threads
  <2>3. \/ /\ thread' = [thread EXCEPT ![j] = "reading"] /\ marks' = marks /\ mine' = j
           /\ mishaps' = mishaps
        \/ thread' = thread /\ marks' = marks \ {j} /\ mine' = mine /\ Mishap
    BY <1>3 DEF StartsJob, CannotStart, threads
  <2>4. /\ booked'[r] = NoJob /\ page'[r] # "starting"
        /\ \A q \in Page \ {r} : booked'[q] = booked[q] /\ page'[q] = page[q]
    BY <2>2 DEF GalaxyTypeOK
  <2> HIDE DEF j
  <2>5. GalaxyTypeOK'
    BY <2>1, <2>2, <2>3 DEF GalaxyTypeOK, Mishap
  <2>6. BookedIsApart'
    BY <2>1, <2>3, <2>4 DEF BookedIsApart, GalaxyTypeOK
  <2>7. {booked'[q] : q \in Page} \ {NoJob} = ({booked[q] : q \in Page} \ {NoJob}) \ {j}
    <3>1. \A q \in Page : booked'[q] # NoJob => booked'[q] = booked[q] /\ booked[q] # j
      BY <2>1, <2>4
    <3>2. \A q \in Page : booked[q] # NoJob /\ booked[q] # j => booked'[q] = booked[q]
      BY <2>1, <2>4 DEF j
    <3> QED  BY <3>1, <3>2
  <2>8. BusyIsWork'
    <3>1. \A i \in Job \ {j} : thread'[i] = thread[i]
      BY <2>1, <2>3 DEF GalaxyTypeOK
    <3>2. thread'[j] # "none" <=> marks' = marks
      BY <2>1, <2>3, BusyIsWork DEF GalaxyTypeOK, BusyIsWork, j
    <3>3. j \in marks
      BY <2>1 DEF BusyIsWork, j
    <3>4. marks' = {i \in Job : thread'[i] # "none"} \cup
                   (({booked[q] : q \in Page} \ {NoJob}) \ {j})
      BY <2>1, <2>3, <3>1, <3>2, <3>3 DEF BusyIsWork
    <3> QED  BY <2>7, <3>4 DEF BusyIsWork
  <2>9. ProjectionsReflect'
    <3>1. \A i \in Job : thread'[i] \in {"saving", "stamping"} => thread'[i] = thread[i]
      BY <2>1, <2>3 DEF GalaxyTypeOK
    <3> QED  BY <2>2, <3>1 DEF ProjectionsReflect, Reflects
  <2> QED  BY <2>5, <2>6, <2>8, <2>9
<1> QED  BY <1>1, <1>2, <1>3 DEF Ask

\* What a thread does to itself leaves the requests and, until it ends, the marks.
LEMMA RunKeepsMarks ==
  ASSUME GalaxyInv, NEW j \in Job,
         Run(j) \/ Raises(j)
  PROVE  BusyIsWork' /\ BookedIsApart'
<1> USE DEF GalaxyInv
<1>1. /\ booked' = booked /\ page' = page /\ thread[j] # "none"
      /\ \A i \in Job \ {j} : thread'[i] = thread[i]
      /\ IF thread'[j] = "none" THEN marks' = marks \ {j} ELSE marks' = marks
  BY DEF GalaxyTypeOK, Run, Reads, Stamps, Saves, Raises, Records, Unmarks, At, jobs, requests
<1>2. \A q \in Page : booked[q] # NoJob => booked[q] # j /\ booked[q] \in Job
  BY <1>1 DEF BookedIsApart, GalaxyTypeOK
<1>3. BookedIsApart'
  BY <1>1, <1>2 DEF BookedIsApart
<1>4. BusyIsWork'
  BY <1>1, <1>2 DEF BusyIsWork
<1> QED  BY <1>3, <1>4

LEMMA RunKeeps ==
  ASSUME GalaxyInv, NEW j \in Job,
         Run(j) \/ Raises(j)
  PROVE  GalaxyInv'
<1> USE DEF GalaxyInv
<1>1. CASE Reads(j)
  <2> DEFINE p == [Blank EXCEPT !.points = Newest(embedded)]
  <2>1. p \in Projection /\ p.points = Newest(embedded)
    BY DEF Blank, Projection, Stamp, GalaxyTypeOK, Newest
  <2> HIDE DEF p
  <2>2. drawing' = [drawing EXCEPT ![j] = p] /\ thread' = [thread EXCEPT ![j] = "stamping"]
    BY <1>1 DEF Reads, At, p
  <2>3. GalaxyTypeOK'
    BY <1>1, <2>1, <2>2 DEF GalaxyTypeOK, Reads, jobs, requests
  <2>4. ProjectionsReflect'
    BY <1>1, <2>1, <2>2 DEF ProjectionsReflect, Reflects, GalaxyTypeOK, Reads
  <2> QED  BY <2>3, <2>4, RunKeepsMarks
<1>2. CASE Stamps(j)
  <2> DEFINE p == [drawing[j] EXCEPT !.stamp = StampOf(embedded)]
  <2>1. /\ p \in Projection /\ p.points = drawing[j].points /\ p.stamp = StampOf(embedded)
        /\ p.odd <=> drawing[j].odd
    <3>1. StampOf(embedded) \in Stamp
      BY StampType DEF GalaxyTypeOK
    <3> QED  BY <3>1 DEF GalaxyTypeOK, Projection
  <2> HIDE DEF p
  <2>2. drawing' = [drawing EXCEPT ![j] = p] /\ thread' = [thread EXCEPT ![j] = "saving"]
    BY <1>2 DEF Stamps, At, p
  <2>3. GalaxyTypeOK'
    BY <1>2, <2>1, <2>2 DEF GalaxyTypeOK, Stamps, jobs, requests
  <2>4. Reflects(p)
    BY <1>2, <2>1 DEF Reflects, ProjectionsReflect, Stamps, At, GalaxyTypeOK
  <2>5. ProjectionsReflect'
    <3>1. Reflects(drawing[j])'
      BY <1>2, <2>2, <2>4 DEF Reflects, GalaxyTypeOK, Stamps
    <3>2. \A i \in Job \ {j} : drawing'[i] = drawing[i] /\ thread'[i] = thread[i]
      BY <2>2 DEF GalaxyTypeOK
    <3>3. thread'[j] = "saving"
      BY <2>2 DEF GalaxyTypeOK
    <3> QED  BY <1>2, <3>1, <3>2, <3>3 DEF ProjectionsReflect, Reflects, Stamps
  <2> QED  BY <2>3, <2>5, RunKeepsMarks
<1>3. CASE Saves(j)
  <2>1. GalaxyTypeOK'
    BY <1>3, BlankType DEF GalaxyTypeOK, Saves, At, jobs, requests
  <2>2. \A i \in Job \ {j} : drawing'[i] = drawing[i] /\ thread'[i] = thread[i]
    BY <1>3 DEF GalaxyTypeOK, Saves, At
  <2>3. thread'[j] = "ending" /\ cache' = drawing[j] /\ embedded' = embedded /\ thread[j] = "saving"
    BY <1>3 DEF GalaxyTypeOK, Saves, At
  <2>4. ProjectionsReflect'
    BY <2>2, <2>3 DEF ProjectionsReflect, Reflects
  <2> QED  BY <2>1, <2>4, RunKeepsMarks
<1>4. CASE Raises(j) \/ Records(j) \/ Unmarks(j)
  <2>1. GalaxyTypeOK'
    BY <1>4, BlankType DEF GalaxyTypeOK, Raises, Records, Unmarks, At, Mishap, jobs, requests
  <2>2. \A i \in Job \ {j} : drawing'[i] = drawing[i] /\ thread'[i] = thread[i]
    BY <1>4 DEF GalaxyTypeOK, Raises, Records, Unmarks, At
  <2>3. thread'[j] \notin {"saving", "stamping"} /\ cache' = cache /\ embedded' = embedded
    BY <1>4 DEF GalaxyTypeOK, Raises, Records, Unmarks, At, jobs
  <2>4. ProjectionsReflect'
    BY <2>2, <2>3 DEF ProjectionsReflect, Reflects
  <2> QED  BY <2>1, <2>4, RunKeepsMarks
<1> QED  BY <1>1, <1>2, <1>3, <1>4 DEF Run

LEMMA RestartKeeps ==
  ASSUME GalaxyInv, Restart
  PROVE  GalaxyInv'
<1> USE DEF GalaxyInv
<1>1. GalaxyTypeOK'
  BY BlankType DEF GalaxyTypeOK, Restart, Mishap
<1>2. BusyIsWork' /\ BookedIsApart'
  BY DEF BusyIsWork, BookedIsApart, Restart
<1>3. ProjectionsReflect'
  BY DEF ProjectionsReflect, Reflects, Restart
<1> QED  BY <1>1, <1>2, <1>3

-----------------------------------------------------------------------------

LEMMA GalaxyStart == GalaxyInit => GalaxyInv
<1> SUFFICES ASSUME GalaxyInit PROVE GalaxyInv
  OBVIOUS
<1>1. GalaxyTypeOK
  BY BlankType DEF GalaxyInit, GalaxyTypeOK
<1>2. BusyIsWork /\ BookedIsApart /\ ProjectionsReflect
  BY DEF GalaxyInit, BusyIsWork, BookedIsApart, ProjectionsReflect
<1> QED  BY <1>1, <1>2 DEF GalaxyInv

LEMMA GalaxyStep == GalaxyInv /\ [GalaxyNext]_galaxyVars => GalaxyInv'
<1> SUFFICES ASSUME GalaxyInv, [GalaxyNext]_galaxyVars PROVE GalaxyInv'
  OBVIOUS
<1>1. ASSUME NEW f \in Id, Embeds(f) \/ Drops(f) PROVE GalaxyInv'
  BY <1>1, ChangesKeeps DEF Embeds, Drops
<1>2. CASE UNCHANGED galaxyVars
  BY <1>2 DEF GalaxyInv, GalaxyTypeOK, BusyIsWork, BookedIsApart, ProjectionsReflect, Reflects,
              galaxyVars, jobs, requests, threads
<1> QED  BY <1>1, <1>2, AskKeeps, RunKeeps, RestartKeeps DEF GalaxyNext

LEMMA GalaxyAlways == GalaxySpec => []GalaxyInv
<1> QED  BY GalaxyStart, GalaxyStep, PTL DEF GalaxySpec

\* Every variable keeps its type.
THEOREM GalaxyTypes == GalaxySpec => []GalaxyTypeOK
<1>1. GalaxyInv => GalaxyTypeOK
  BY DEF GalaxyInv
<1> QED  BY <1>1, GalaxyAlways, PTL

\* A projection that answers shows the newest facts with a vector (viz._stamp, viz._cached),
\* whichever of two jobs saved last and whatever came or went meanwhile, but for the two
\* cases a stamp cannot tell.
THEOREM SceneStaysCurrent == GalaxySpec => []SceneIsCurrent
<1>1. GalaxyInv => SceneIsCurrent
  <2> SUFFICES ASSUME GalaxyInv, Cached, ~cache.odd PROVE Scene = Newest(embedded)
    BY DEF SceneIsCurrent
  <2>1. cache.stamp = StampOf(embedded) /\ Scene = cache.points /\ embedded \in SUBSET Id
    BY DEF Cached, Scene, GalaxyInv, GalaxyTypeOK
  <2>2. PICK F \in SUBSET Id : /\ cache.points = Newest(F) /\ cache.stamp = StampOf(F)
                                 /\ {f \in embedded : f <= cache.stamp.highest} \subseteq F
    BY DEF Cached, GalaxyInv, ProjectionsReflect, Reflects
  <2>3. {f \in embedded : f <= Highest(F)} \subseteq F
    BY <2>2, StampType
  <2>4. F = embedded
    BY <2>1, <2>2, <2>3, StampTells
  <2> QED  BY <2>1, <2>2, <2>4
<1> QED  BY <1>1, GalaxyAlways, PTL

\* The busy marks are the jobs at work or about to start (jobs.run, busy.py), whatever
\* fails: what the restart probe says is so.
THEOREM BusyStaysWork == GalaxySpec => []BusyIsWork
<1>1. GalaxyInv => BusyIsWork
  BY DEF GalaxyInv
<1> QED  BY <1>1, GalaxyAlways, PTL
=============================================================================

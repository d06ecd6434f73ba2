--------------------------- MODULE MiningProofs ----------------------------
(***************************************************************************)
(* Proofs about what is mined and where it comes from, for every number of *)
(* messages, facts, claims, days, threads, sessions, writes, faults and    *)
(* calls a sweep, and for every chunk size.                                *)
(*                                                                         *)
(* Of Distill: no message is passed over, no claim is kept twice, an older *)
(* or a held claim retires nothing, every turn of the loop narrows the     *)
(* chunk, and a skipped request is covered by the run that made it skip.   *)
(*                                                                         *)
(* Of Feed: what counts as covered was told or declined, and a turn is     *)
(* told of once.                                                           *)
(***************************************************************************)
EXTENDS Distill, Feed, FiniteSetTheorems, WellFoundedInduction, TLAPS

-----------------------------------------------------------------------------
(* Distill. *)

\* A chunk is finite, so its size is a number.
LEMMA ChunkSize == ASSUME NEW chunk \in SUBSET Msg
                   PROVE  IsFiniteSet(chunk) /\ Cardinality(chunk) \in Nat
<1>1. 1 \in Int /\ MaxMsg \in Int
  BY DistillAssumption DEF DistillAssumption
<1>2. IsFiniteSet(Msg)
  BY <1>1, FS_Interval DEF Msg
<1> QED
  BY <1>2, FS_Subset, FS_CardinalityType

\* Half of a chunk of more than one is at least one and less than any limit the
\* chunk kept to.
LEMMA HalfIsLess == ASSUME NEW n \in Nat, NEW limit \in Nat, n > 1, n <= limit
                    PROVE  n \div 2 \in Nat /\ n \div 2 < limit
OBVIOUS

\* Every row the miner can add is a row of the table.
LEMMA MinedRowsAreRows == ASSUME NEW row \in MinedRows
                          PROVE  /\ row \in FactRow
                                 /\ row.by = 0 /\ row.here
                                 /\ row.state \in {"live", "held"}
                                 /\ row.day \in Nat
<1>1. PICK s \in {"live", "held"}, c \in Claim, m \in Msg \cup {0}, d \in Days :
        row = [state |-> s, what |-> c, src |-> m, day |-> d, by |-> 0, here |-> TRUE]
  BY DEF MinedRows
<1>2. d \in Nat
  BY DistillAssumption DEF DistillAssumption
<1> QED
  BY <1>1, <1>2 DEF FactRow

-----------------------------------------------------------------------------
(* DistillTypes. *)

LEMMA OffIsRun == Off \in Run
  BY DEF Off, Run

LEMMA LookType == ASSUME TypeOK, NEW r \in Runner, NEW limit \in Nat,
                         NEW roomy \in BOOLEAN, Look(r, limit, roomy)
                  PROVE  run' \in [Runner -> Run]
<1>1. run \in [Runner -> Run] /\ run[r] \in Run
  BY DEF TypeOK
<1>2. [run[r] EXCEPT !.at = "look", !.last = 0, !.chunk = {}, !.valid = {},
         !.limit = limit, !.roomy = roomy] \in Run
  BY <1>1 DEF Run
<1> QED
  BY <1>1, <1>2 DEF Look

LEMMA DistillTypeInit == Init => TypeOK
<1> SUFFICES ASSUME Init PROVE TypeOK
  OBVIOUS
<1>1. NoRow \in FactRow
  BY DEF NoRow, FactRow
<1> QED
  BY <1>1, OffIsRun DEF Init, TypeOK

LEMMA DistillTypeStep == TypeOK /\ [Next]_vars => TypeOK'
<1> SUFFICES ASSUME TypeOK, [Next]_vars PROVE TypeOK'
  OBVIOUS
<1> USE DEF TypeOK
<1>0. CASE UNCHANGED vars
  BY <1>0 DEF vars
<1>1. ASSUME NEW m \in Msg, EraseMessage(m) PROVE TypeOK'
  <2>1. fact' \in [FactId -> FactRow]
    BY <1>1 DEF EraseMessage, FactRow
  <2> QED BY <1>1, <2>1 DEF EraseMessage
<1>2. ASSUME NEW m \in Msg, NEW kind \in Kinds, Ingest(m, kind) PROVE TypeOK'
  BY <1>2 DEF Ingest
<1>3. ASSUME NEW f \in FactId, NEW row \in FactRow, SetRow(f, row) PROVE TypeOK'
  BY <1>3 DEF SetRow
<1>4. ASSUME NEW f \in FactId, NEW c \in Claim, NEW d \in Days, SaveElsewhere(f, c, d)
      PROVE  TypeOK'
  <2>1. d \in Nat
    BY DistillAssumption DEF DistillAssumption
  <2>2. [NoRow EXCEPT !.state = "live", !.what = c, !.day = d] \in FactRow
    BY <2>1 DEF NoRow, FactRow
  <2> QED BY <1>3, <1>4, <2>2 DEF SaveElsewhere
<1>5. ASSUME NEW f \in FactId, Hold(f) \/ Approve(f) \/ EraseFact(f) PROVE TypeOK'
  <2>1. fact[f] \in FactRow
    OBVIOUS
  <2>2. /\ [fact[f] EXCEPT !.state = "held"] \in FactRow
        /\ [fact[f] EXCEPT !.state = "live"] \in FactRow
        /\ [NoRow EXCEPT !.state = "erased"] \in FactRow
    BY <2>1 DEF FactRow, NoRow
  <2> QED BY <1>3, <1>5, <2>2 DEF Hold, Approve, EraseFact
<1>6. CASE Skip
  BY <1>6 DEF Skip, Pending
<1>7. CASE Crash
  BY <1>7, OffIsRun DEF Crash
<1>8. ASSUME NEW r \in Runner, Start(r) PROVE TypeOK'
  <2>1. [Off EXCEPT !.at = "look", !.limit = ChunkMsgs] \in Run
    BY DistillAssumption DEF Off, Run, DistillAssumption
  <2> QED BY <1>8, <2>1 DEF Start
<1>9. ASSUME NEW r \in Runner, MineHalf(r) PROVE TypeOK'
  <2>1. run[r].chunk \in SUBSET Msg
    BY DEF Run
  <2>2. Cardinality(run[r].chunk) \in Nat /\ Cardinality(run[r].chunk) > 1
    BY <1>9, <2>1, ChunkSize DEF MineHalf
  <2>3. Cardinality(run[r].chunk) \div 2 \in Nat
    BY <2>2
  <2>4. run[r].roomy \in BOOLEAN
    BY DEF Run
  <2>5. run' \in [Runner -> Run]
    <3> HIDE DEF TypeOK
    <3> QED BY <1>9, <2>3, <2>4, LookType DEF MineHalf
  <2> QED BY <1>9, <2>5 DEF MineHalf
<1>10. ASSUME NEW r \in Runner, MineRoomy(r) PROVE TypeOK'
  <2>1. run[r].limit \in Nat
    BY DEF Run
  <2>2. run' \in [Runner -> Run]
    <3> HIDE DEF TypeOK
    <3> QED BY <1>10, <2>1, LookType DEF MineRoomy
  <2> QED BY <1>10, <2>2 DEF MineRoomy
<1>11. ASSUME NEW r \in Runner, NEW refused \in BOOLEAN, LeaveUnmined(r, refused)
       PROVE  TypeOK'
  <2>1. run[r].limit \in Nat /\ run[r].last \in Msg \cup {0} /\ run[r].chunk \in SUBSET Msg
    BY DEF Run
  <2>2. run' \in [Runner -> Run]
    <3> HIDE DEF TypeOK
    <3> QED BY <1>11, <2>1, LookType DEF LeaveUnmined
  <2> QED BY <1>11, <2>1, <2>2 DEF LeaveUnmined
<1>12. ASSUME NEW r \in Runner, ChunkDone(r) PROVE TypeOK'
  <2>1. run[r].limit \in Nat /\ run[r].last \in Msg \cup {0}
    BY DEF Run
  <2>2. run' \in [Runner -> Run]
    <3> HIDE DEF TypeOK
    <3> QED BY <1>12, <2>1, LookType DEF ChunkDone
  <2> QED BY <1>12, <2>1, <2>2 DEF ChunkDone
<1>13. ASSUME NEW r \in Runner, MinerAnswers(r) PROVE TypeOK'
  <2>1. [run[r] EXCEPT !.at = "lines"] \in Run /\ run[r].chunk \in SUBSET Msg
    BY DEF Run
  <2> QED BY <1>13, <2>1 DEF MinerAnswers
<1>14. ASSUME NEW r \in Runner, NothingPending(r) PROVE TypeOK'
  <2>1. [run[r] EXCEPT !.at = "leaving"] \in Run
    BY DEF Run
  <2> QED BY <1>14, <2>1 DEF NothingPending
<1>15. ASSUME NEW r \in Runner, Leaves(r) \/ Fails(r) PROVE TypeOK'
  BY <1>15, OffIsRun DEF Leaves, Fails, Release
<1>16. ASSUME NEW r \in Runner, NEW last \in Msg, SkipModelTurns(r, last) PROVE TypeOK'
  <2>1. [run[r] EXCEPT !.roomy = FALSE] \in Run
    BY ZenonT(40) DEF Run
  <2>2. UpTo(last) \in SUBSET Msg
    BY DEF UpTo, Pending
  <2> QED BY <1>16, <2>1, <2>2 DEF SkipModelTurns
<1>17. ASSUME NEW r \in Runner, NEW last \in Msg, CallMiner(r, last) PROVE TypeOK'
  <2>1. UpTo(last) \in SUBSET Msg
    BY DEF UpTo, Pending
  <2>2. [run[r] EXCEPT !.at = "miner", !.last = last, !.chunk = UpTo(last),
           !.valid = {f \in FactId : fact[f].state = "live" /\ fact[f].by = 0}] \in Run
    BY <2>1, ZenonT(40) DEF Run
  <2> QED BY <1>17, <2>2 DEF CallMiner
<1>18. ASSUME NEW r \in Runner, NEW f \in FactId, NEW row \in MinedRows,
              NEW old \in SUBSET FactId, AddLine(r, f, row, old)
       PROVE  TypeOK'
  <2>1. row \in FactRow /\ row.day \in Nat
    BY MinedRowsAreRows
  <2>2. PICK still \in SUBSET FactId :
          run' = IF still = {} THEN run
                 ELSE [run EXCEPT ![r] = [@ EXCEPT !.at = "supersede", !.new = f,
                                            !.day = row.day, !.old = still]]
    BY <1>18 DEF AddLine
  <2>3. [run[r] EXCEPT !.at = "supersede", !.new = f, !.day = row.day,
                       !.old = still] \in Run
    BY <2>1, <2>2, ZenonT(40) DEF Run
  <2>4. run' \in [Runner -> Run]
    BY <2>2, <2>3
  <2> QED BY <1>18, <2>1, <2>4 DEF AddLine
<1>19. ASSUME NEW r \in Runner, NEW t \in FactId, Supersede(r, t) PROVE TypeOK'
  <2>1. PICK still \in SUBSET FactId :
          run' = [run EXCEPT ![r] = IF still # {} THEN [@ EXCEPT !.old = still]
                   ELSE [@ EXCEPT !.at = "lines", !.new = 0, !.day = 0, !.old = {}]]
    BY <1>19 DEF Supersede, Run
  <2>2. /\ [run[r] EXCEPT !.old = still] \in Run
        /\ [run[r] EXCEPT !.at = "lines", !.new = 0, !.day = 0, !.old = {}] \in Run
    BY ZenonT(40) DEF Run
  <2>3. run' \in [Runner -> Run]
    BY <2>1, <2>2
  <2>4. run[r].new \in FactId \cup {0}
    BY DEF Run
  <2>5. [fact EXCEPT ![t].by = run[r].new] \in [FactId -> FactRow]
    BY <2>4 DEF FactRow
  <2> QED BY <1>19, <2>3, <2>5 DEF Supersede
<1> QED
  BY <1>0, <1>1, <1>2, <1>4, <1>5, <1>6, <1>7, <1>8, <1>9, <1>10, <1>11, <1>12,
     <1>13, <1>14, <1>15, <1>16, <1>17, <1>18, <1>19 DEF Next

\* Every step keeps every variable in its range.
THEOREM DistillTypes == Spec => []TypeOK
  BY DistillTypeInit, DistillTypeStep, PTL DEF Spec

-----------------------------------------------------------------------------
(* The watermark.  NothingPassedOver is not inductive: that the step of the     *)
(* watermark to the end of a chunk passes nothing over needs the chunk to hold  *)
(* everything up to there, which needs the watermark to have stood still since  *)
(* the chunk was taken, which needs the lock.                                   *)

Working == {"miner", "lines", "supersede"}

\* The lock is held by the one run that is under way.
LockHeld == \A r \in Runner : run[r].at # "off" <=> lock = r

\* Ids are given in order.
InOrder == \A k, m \in Msg : k < m /\ msg[k] = "unsent" => msg[m] = "unsent"

\* The watermark is at a message that arrived.
MinedSent == mined # 0 => msg[mined] # "unsent"

\* A run at work has everything kept between the watermark and the last message of
\* its chunk in the chunk, which is within the limit and, once the reply is in, read.
ChunkCovers ==
  \A r \in Runner : run[r].at \in Working =>
    /\ run[r].last \in Msg /\ mined < run[r].last /\ msg[run[r].last] # "unsent"
    /\ \A m \in Msg : Kept(m) /\ mined < m /\ m <= run[r].last => m \in run[r].chunk
    /\ Cardinality(run[r].chunk) <= run[r].limit
    /\ run[r].at # "miner" => run[r].chunk \subseteq handled

DistillInv ==
  /\ TypeOK /\ LockHeld /\ InOrder /\ MinedSent /\ ChunkCovers /\ NothingPassedOver

LEMMA DistillStart == Init => DistillInv
<1> SUFFICES ASSUME Init PROVE DistillInv
  OBVIOUS
<1>1. TypeOK
  BY DistillTypeInit
<1>2. LockHeld
  BY DistillAssumption DEF LockHeld, Init, Off, DistillAssumption
<1>3. InOrder /\ MinedSent
  BY DEF InOrder, MinedSent, Init
<1>4. ChunkCovers
  BY DEF ChunkCovers, Init, Off, Working
<1>5. NothingPassedOver
  BY DEF NothingPassedOver, Init, Msg
<1> QED
  BY <1>1, <1>2, <1>3, <1>4, <1>5 DEF DistillInv

\* Who works on the facts only, or asks in vain, disturbs none of this.
LEMMA QuietStep == ASSUME DistillInv, TypeOK', UNCHANGED <<msg, mined, lock, run, handled>>
                   PROVE  DistillInv'
<1> USE DEF DistillInv
<1>1. LockHeld' /\ InOrder' /\ MinedSent'
  BY DEF LockHeld, InOrder, MinedSent
<1>2. ChunkCovers'
  BY DEF ChunkCovers, Kept
<1>3. NothingPassedOver'
  BY DEF NothingPassedOver, Kept
<1> QED
  BY <1>1, <1>2, <1>3

\* While one run is under way the others are off.
LEMMA Alone == ASSUME LockHeld, NEW r \in Runner, run[r].at # "off",
                      NEW q \in Runner, q # r
               PROVE  run[q].at = "off"
  BY DEF LockHeld

\* A run that stops leaves every run off.
LEMMA ReleaseStep == ASSUME DistillInv, TypeOK', NEW r \in Runner, run[r].at # "off",
                            Release(r), UNCHANGED <<msg, mined, handled>>
                     PROVE  DistillInv'
<1> USE DEF DistillInv
<1>1. \A q \in Runner : run'[q].at = "off"
  BY Alone DEF Release, Off, TypeOK
<1>2. LockHeld'
  BY <1>1, DistillAssumption DEF LockHeld, Release, DistillAssumption
<1>3. ChunkCovers'
  BY <1>1 DEF ChunkCovers, Working
<1>4. InOrder' /\ MinedSent'
  BY DEF InOrder, MinedSent
<1>5. NothingPassedOver'
  BY DEF NothingPassedOver, Kept
<1> QED
  BY <1>2, <1>3, <1>4, <1>5

\* A run that goes back to the top of the loop, with the watermark where it was or
\* at the end of the chunk it has dealt with.
LEMMA LookStep ==
  ASSUME DistillInv, TypeOK', NEW r \in Runner, run[r].at \in Working,
         NEW limit, NEW roomy, Look(r, limit, roomy), UNCHANGED <<msg, lock>>,
         \/ mined' = mined /\ handled' = handled
         \/ mined' = run[r].last /\ handled' = handled \cup run[r].chunk
  PROVE  DistillInv'
<1> USE DEF DistillInv
<1>1. run[r].at # "off"
  BY DEF Working
<1>2. \A q \in Runner : run'[q].at = IF q = r THEN "look" ELSE "off"
  BY <1>1, Alone DEF Look, TypeOK
<1>3. LockHeld'
  BY <1>1, <1>2 DEF LockHeld
<1>4. ChunkCovers'
  BY <1>2 DEF ChunkCovers, Working
<1>5. InOrder'
  BY DEF InOrder
<1>6. /\ run[r].last \in Msg /\ msg[run[r].last] # "unsent"
      /\ \A m \in Msg : Kept(m) /\ mined < m /\ m <= run[r].last => m \in run[r].chunk
  BY DEF ChunkCovers
<1>7. MinedSent'
  BY <1>6 DEF MinedSent
<1>8. \A m \in Msg : m \in Int /\ mined \in Int
  BY DistillAssumption DEF Msg, TypeOK, DistillAssumption
<1>9. NothingPassedOver'
  BY <1>6, <1>8 DEF NothingPassedOver, Kept
<1> QED
  BY <1>3, <1>4, <1>5, <1>7, <1>9

\* Between the reply and the end of the chunk a run changes nothing of what it
\* knows of the chunk.
LEMMA LineRuns ==
  ASSUME TypeOK, NEW r \in Runner,
         \/ \E f \in FactId, row \in MinedRows, old \in SUBSET FactId :
              AddLine(r, f, row, old)
         \/ \E t \in FactId : Supersede(r, t)
  PROVE  /\ run'[r].at \in {"lines", "supersede"}
         /\ run'[r].last = run[r].last /\ run'[r].chunk = run[r].chunk
         /\ run'[r].limit = run[r].limit
         /\ \A q \in Runner : q # r => run'[q] = run[q]
<1>0. run \in [Runner -> Run] /\ run[r] \in Run
  BY DEF TypeOK
<1>1. ASSUME NEW new, run' = [run EXCEPT ![r] = new],
             new.at \in {"lines", "supersede"},
             new.last = run[r].last, new.chunk = run[r].chunk, new.limit = run[r].limit
      PROVE  /\ run'[r].at \in {"lines", "supersede"}
             /\ run'[r].last = run[r].last /\ run'[r].chunk = run[r].chunk
             /\ run'[r].limit = run[r].limit
             /\ \A q \in Runner : q # r => run'[q] = run[q]
  BY <1>0, <1>1
<1>2. ASSUME NEW f \in FactId, NEW row \in MinedRows, NEW old \in SUBSET FactId,
             AddLine(r, f, row, old)
      PROVE  \E new : /\ run' = [run EXCEPT ![r] = new]
                      /\ new.at \in {"lines", "supersede"}
                      /\ new.last = run[r].last /\ new.chunk = run[r].chunk
                      /\ new.limit = run[r].limit
  <2>1. PICK still : run' = IF still = {} THEN run
                            ELSE [run EXCEPT ![r] = [@ EXCEPT !.at = "supersede", !.new = f,
                                                       !.day = row.day, !.old = still]]
    BY <1>2 DEF AddLine
  <2> DEFINE new == IF still = {} THEN run[r]
                    ELSE [run[r] EXCEPT !.at = "supersede", !.new = f,
                                        !.day = row.day, !.old = still]
  <2>2. run' = [run EXCEPT ![r] = new]
    BY <1>0, <2>1
  <2>3. /\ new.at \in {"lines", "supersede"}
        /\ new.last = run[r].last /\ new.chunk = run[r].chunk /\ new.limit = run[r].limit
    BY <1>0, <1>2 DEF AddLine, At, Run
  <2> HIDE DEF new
  <2> QED BY <2>2, <2>3
<1>3. ASSUME NEW t \in FactId, Supersede(r, t)
      PROVE  \E new : /\ run' = [run EXCEPT ![r] = new]
                      /\ new.at \in {"lines", "supersede"}
                      /\ new.last = run[r].last /\ new.chunk = run[r].chunk
                      /\ new.limit = run[r].limit
  <2>1. PICK still : run' = [run EXCEPT ![r] = IF still # {} THEN [@ EXCEPT !.old = still]
                               ELSE [@ EXCEPT !.at = "lines", !.new = 0, !.day = 0,
                                              !.old = {}]]
    BY <1>3 DEF Supersede
  <2> DEFINE new == IF still # {} THEN [run[r] EXCEPT !.old = still]
                    ELSE [run[r] EXCEPT !.at = "lines", !.new = 0, !.day = 0, !.old = {}]
  <2>2. run' = [run EXCEPT ![r] = new]
    BY <2>1
  <2>3. /\ new.at \in {"lines", "supersede"}
        /\ new.last = run[r].last /\ new.chunk = run[r].chunk /\ new.limit = run[r].limit
    BY <1>0, <1>3 DEF Supersede, At, Run
  <2> HIDE DEF new
  <2> QED BY <2>2, <2>3
<1>4. \E new : /\ run' = [run EXCEPT ![r] = new]
               /\ new.at \in {"lines", "supersede"}
               /\ new.last = run[r].last /\ new.chunk = run[r].chunk
               /\ new.limit = run[r].limit
  BY <1>2, <1>3
<1> QED
  BY <1>1, <1>4

LEMMA DistillStep == DistillInv /\ [Next]_vars => DistillInv'
<1> SUFFICES ASSUME DistillInv, [Next]_vars PROVE DistillInv'
  OBVIOUS
<1>0. TypeOK /\ TypeOK'
  BY DistillTypeStep DEF DistillInv
<1>1. \A m \in Msg : m \in Int /\ mined \in Int /\ (0 < m)
  BY <1>0, DistillAssumption DEF Msg, TypeOK, DistillAssumption
<1>2. CASE UNCHANGED vars
  BY <1>0, <1>2, QuietStep DEF vars
<1>3. ASSUME NEW m \in Msg, EraseMessage(m) PROVE DistillInv'
  <2> USE <1>3 DEF DistillInv, EraseMessage
  <2>1. /\ "unsent" \notin Kinds /\ "erased" \notin Kinds
        /\ msg[m] # "unsent"
    BY DistillAssumption DEF DistillAssumption, Kept
  <2>2. /\ \A k \in Msg : msg'[k] = "unsent" <=> msg[k] = "unsent"
        /\ \A k \in Msg : Kept(k)' => Kept(k)
    BY <1>0, <2>1 DEF TypeOK, Kept
  <2>3. LockHeld' /\ InOrder' /\ MinedSent'
    BY <1>0, <2>2 DEF LockHeld, InOrder, MinedSent, TypeOK
  <2>4. ChunkCovers'
    BY <2>2 DEF ChunkCovers
  <2>5. NothingPassedOver'
    BY <2>2 DEF NothingPassedOver
  <2> QED BY <1>0, <2>3, <2>4, <2>5
<1>4. ASSUME NEW m \in Msg, NEW kind \in Kinds, Ingest(m, kind) PROVE DistillInv'
  <2> USE <1>4 DEF DistillInv, Ingest
  <2>1. "unsent" \notin Kinds
    BY DistillAssumption DEF DistillAssumption
  <2>2. /\ msg[m] = "unsent" /\ msg'[m] # "unsent"
        /\ \A k \in Msg : k # m => msg'[k] = msg[k]
        /\ \A k \in Msg : m < k => msg[k] = "unsent"
    BY <1>0, <2>1 DEF TypeOK, InOrder
  <2>3. InOrder'
    BY <1>1, <2>2 DEF InOrder
  <2>4. LockHeld' /\ MinedSent'
    BY <1>0, <2>2 DEF LockHeld, MinedSent, TypeOK
  <2>5. mined < m
    BY <1>0, <1>1, <2>2 DEF MinedSent, TypeOK
  <2>6. ASSUME NEW r \in Runner, run[r].at \in Working PROVE run[r].last < m
    BY <1>1, <2>2, <2>6 DEF ChunkCovers
  <2>7. ChunkCovers'
    BY <1>1, <2>2, <2>6 DEF ChunkCovers, Kept
  <2>8. NothingPassedOver'
    BY <1>1, <2>2, <2>5 DEF NothingPassedOver, Kept
  <2> QED BY <1>0, <2>3, <2>4, <2>7, <2>8
<1>5. ASSUME NEW f \in FactId,
             \/ \E c \in Claim, d \in Days : SaveElsewhere(f, c, d)
             \/ Hold(f) \/ Approve(f) \/ EraseFact(f)
      PROVE  DistillInv'
  BY <1>0, <1>5, QuietStep DEF SaveElsewhere, Hold, Approve, EraseFact, SetRow
<1>6. CASE Skip
  BY <1>0, <1>6, QuietStep DEF Skip
<1>7. CASE Crash
  <2> USE <1>7 DEF DistillInv, Crash
  <2>1. LockHeld' /\ ChunkCovers'
    BY DistillAssumption DEF LockHeld, ChunkCovers, Working, Off, DistillAssumption
  <2>2. InOrder' /\ MinedSent' /\ NothingPassedOver'
    BY DEF InOrder, MinedSent, NothingPassedOver, Kept
  <2> QED BY <1>0, <2>1, <2>2
<1>8. ASSUME NEW r \in Runner, Start(r) PROVE DistillInv'
  <2> USE <1>8 DEF DistillInv, Start
  <2>1. \A q \in Runner : run'[q].at = IF q = r THEN "look" ELSE "off"
    BY <1>0, DistillAssumption DEF LockHeld, At, Off, TypeOK, DistillAssumption
  <2>2. LockHeld' /\ ChunkCovers'
    BY <2>1 DEF LockHeld, ChunkCovers, Working
  <2>3. InOrder' /\ MinedSent' /\ NothingPassedOver'
    BY DEF InOrder, MinedSent, NothingPassedOver, Kept
  <2> QED BY <1>0, <2>2, <2>3
<1>9. ASSUME NEW r \in Runner, NEW refused \in BOOLEAN,
             MineHalf(r) \/ MineRoomy(r) \/ LeaveUnmined(r, refused)
      PROVE  DistillInv'
  BY <1>0, <1>9, LookStep DEF MineHalf, MineRoomy, LeaveUnmined, At, Working
<1>10. ASSUME NEW r \in Runner, ChunkDone(r) PROVE DistillInv'
  <2>1. run[r].at \in Working /\ run[r].chunk \subseteq handled
    BY <1>10 DEF DistillInv, ChunkDone, ChunkCovers, At, Working
  <2>2. handled' = handled \cup run[r].chunk
    BY <1>10, <2>1 DEF ChunkDone
  <2> QED BY <1>0, <1>10, <2>1, <2>2, LookStep DEF ChunkDone
<1>11. ASSUME NEW r \in Runner, MinerAnswers(r) PROVE DistillInv'
  <2> USE <1>11 DEF DistillInv, MinerAnswers
  <2>1. run[r].at = "miner" /\ run' = [run EXCEPT ![r].at = "lines"]
    BY DEF At
  <2>2. /\ run'[r].last = run[r].last /\ run'[r].chunk = run[r].chunk
        /\ run'[r].limit = run[r].limit /\ run'[r].at = "lines"
        /\ \A q \in Runner : q # r => run'[q] = run[q]
    BY <1>0, <2>1 DEF TypeOK, Run
  <2>3. LockHeld'
    BY <2>1, <2>2 DEF LockHeld
  <2>4. ChunkCovers'
    BY <2>1, <2>2 DEF ChunkCovers, Working, Kept
  <2>5. InOrder' /\ MinedSent' /\ NothingPassedOver'
    BY DEF InOrder, MinedSent, NothingPassedOver, Kept
  <2> QED BY <1>0, <2>3, <2>4, <2>5
<1>12. ASSUME NEW r \in Runner, NothingPending(r) PROVE DistillInv'
  <2>1. run[r].at = "look"
    BY <1>12 DEF NothingPending, At
  <2> USE <1>12 DEF DistillInv, NothingPending
  <2>2. /\ run'[r].at = "leaving"
        /\ \A q \in Runner : q # r => run'[q] = run[q]
    BY <1>0 DEF TypeOK, Run
  <2>3. LockHeld' /\ ChunkCovers'
    BY <2>1, <2>2 DEF LockHeld, ChunkCovers, Working, Kept
  <2>4. InOrder' /\ MinedSent' /\ NothingPassedOver'
    BY DEF InOrder, MinedSent, NothingPassedOver, Kept
  <2> QED BY <1>0, <2>3, <2>4
<1>13. ASSUME NEW r \in Runner, Leaves(r) \/ Fails(r) PROVE DistillInv'
  <2>1. run[r].at # "off"
    BY <1>13 DEF Leaves, Fails, At
  <2> QED BY <1>0, <1>13, <2>1, ReleaseStep DEF Leaves, Fails
<1>14. ASSUME NEW r \in Runner, NEW last \in Msg, SkipModelTurns(r, last) PROVE DistillInv'
  <2> USE <1>14 DEF DistillInv, SkipModelTurns
  <2>1. run[r].at = "look" /\ Kept(last) /\ msg[last] # "unsent"
    BY DistillAssumption DEF At, IsChunk, Pending, Kept, DistillAssumption
  <2>2. /\ \A q \in Runner : q # r => run[q].at = "off" /\ run'[q] = run[q]
        /\ run'[r].at = "look"
    BY <1>0, <2>1, Alone DEF TypeOK, Run
  <2>3. LockHeld' /\ ChunkCovers'
    BY <2>1, <2>2 DEF LockHeld, ChunkCovers, Working
  <2>4. InOrder' /\ MinedSent'
    BY <2>1 DEF InOrder, MinedSent
  <2>5. NothingPassedOver'
    BY <1>1 DEF NothingPassedOver, Kept, UpTo, Pending
  <2> QED BY <1>0, <2>3, <2>4, <2>5
<1>15. ASSUME NEW r \in Runner, NEW last \in Msg, CallMiner(r, last) PROVE DistillInv'
  <2> USE <1>15 DEF DistillInv, CallMiner
  <2>1. /\ run[r].at = "look" /\ mined < last /\ msg[last] # "unsent"
        /\ Cardinality(UpTo(last)) <= run[r].limit
        /\ \A m \in Msg : Kept(m) /\ mined < m /\ m <= last => m \in UpTo(last)
    BY <1>1, DistillAssumption
       DEF At, IsChunk, Pending, Kept, UpTo, DistillAssumption
  <2>2. /\ run'[r].at = "miner" /\ run'[r].last = last /\ run'[r].chunk = UpTo(last)
        /\ run'[r].limit = run[r].limit
        /\ \A q \in Runner : q # r => run'[q] = run[q]
    <3>1. run \in [Runner -> Run] /\ run[r] \in Run
      BY <1>0 DEF TypeOK
    <3>2. run'[r] = [run[r] EXCEPT !.at = "miner", !.last = last, !.chunk = UpTo(last),
                       !.valid = {f \in FactId : fact[f].state = "live" /\ fact[f].by = 0}]
      BY <3>1
    <3> QED BY <3>1, <3>2 DEF Run
  <2>3. \A q \in Runner : q # r => run[q].at = "off"
    BY <2>1, Alone
  <2>4. LockHeld'
    BY <2>1, <2>2 DEF LockHeld
  <2>5. ChunkCovers'
    BY <2>1, <2>2, <2>3 DEF ChunkCovers, Working, Kept
  <2>6. InOrder' /\ MinedSent' /\ NothingPassedOver'
    BY DEF InOrder, MinedSent, NothingPassedOver, Kept
  <2> QED BY <1>0, <2>4, <2>5, <2>6
<1>16. ASSUME NEW r \in Runner,
              \/ \E f \in FactId, row \in MinedRows, old \in SUBSET FactId :
                   AddLine(r, f, row, old)
              \/ \E t \in FactId : Supersede(r, t)
       PROVE  DistillInv'
  <2> USE <1>16 DEF DistillInv
  <2>1. /\ UNCHANGED <<msg, mined, lock, handled>>
        /\ run[r].at \in {"lines", "supersede"}
    BY DEF AddLine, Supersede, At
  <2>2. /\ run'[r].at \in {"lines", "supersede"}
        /\ run'[r].last = run[r].last /\ run'[r].chunk = run[r].chunk
        /\ run'[r].limit = run[r].limit
        /\ \A q \in Runner : q # r => run'[q] = run[q]
    BY <1>0, <1>16, LineRuns
  <2>3. LockHeld'
    BY <2>1, <2>2 DEF LockHeld
  <2>4. ChunkCovers'
    BY <2>1, <2>2 DEF ChunkCovers, Working, Kept
  <2>5. InOrder' /\ MinedSent' /\ NothingPassedOver'
    BY <2>1 DEF InOrder, MinedSent, NothingPassedOver, Kept
  <2> QED BY <1>0, <2>3, <2>4, <2>5
<1> QED
  BY <1>2, <1>3, <1>4, <1>5, <1>6, <1>7, <1>8, <1>9, <1>10, <1>11, <1>12, <1>13,
     <1>14, <1>15, <1>16 DEF Next

LEMMA DistillAlways == Spec => []DistillInv
  BY DistillStart, DistillStep, PTL DEF Spec

\* Nothing kept is below the watermark unread, whatever fails, arrives, is erased or
\* dies, and however many threads ask for the same conversation.
THEOREM NothingIsPassedOver == Spec => []NothingPassedOver
<1>1. DistillInv => NothingPassedOver
  BY DEF DistillInv
<1> QED
  BY <1>1, DistillAlways, PTL

-----------------------------------------------------------------------------
(* What a step never does. *)

\* Only the end of a chunk moves the watermark, and the chunk ends above it.
LEMMA MinedMoves ==
  ASSUME DistillInv, Next, mined' # mined
  PROVE  mined < mined'
<1> USE DEF DistillInv
<1>1. ASSUME NEW r \in Runner, run[r].at \in Working, mined' = run[r].last
      PROVE  mined < mined'
  BY <1>1 DEF ChunkCovers
<1>2. ASSUME NEW r \in Runner, NEW refused \in BOOLEAN,
             LeaveUnmined(r, refused) \/ ChunkDone(r)
      PROVE  mined < mined'
  BY <1>1, <1>2 DEF LeaveUnmined, ChunkDone, At, Working
<1>3. ASSUME NEW r \in Runner, NEW last \in Msg, SkipModelTurns(r, last)
      PROVE  mined < mined'
  BY <1>3 DEF SkipModelTurns, IsChunk, Pending
<1> QED
  BY <1>2, <1>3, ZenonT(40) DEF Next, EraseMessage, Ingest, SaveElsewhere, Hold, Approve,
       EraseFact, SetRow, Skip, Crash, Start, MineHalf, MineRoomy, MinerAnswers,
       NothingPending, Leaves, Fails, CallMiner, AddLine, Supersede

\* A message dealt with is not mined again: no run, failure or restart takes the
\* watermark back.
THEOREM WatermarkOnlyAdvances == Spec => WatermarkNeverBack
<1>1. DistillInv /\ [Next]_vars => [mined' >= mined]_vars
  <2> SUFFICES ASSUME DistillInv, [Next]_vars PROVE mined' >= mined
    OBVIOUS
  <2>1. mined \in Int
    BY DistillAssumption DEF DistillInv, TypeOK, Msg, DistillAssumption
  <2>2. CASE mined' = mined
    BY <2>1, <2>2
  <2>3. CASE mined' # mined
    <3>1. mined < mined'
      BY <2>3, MinedMoves DEF vars
    <3>2. mined' \in Int
      BY DistillTypeStep, DistillAssumption DEF DistillInv, TypeOK, Msg, DistillAssumption
    <3> QED BY <2>1, <3>1, <3>2
  <2> QED BY <2>2, <2>3
<1> QED
  BY <1>1, DistillAlways, PTL DEF Spec, WatermarkNeverBack

\* From the miner or from the lines a run goes back to the top of the loop by one of
\* four actions only.
LEMMA BackToTheTop ==
  ASSUME TypeOK, Next, NEW r \in Runner,
         run[r].at \in {"miner", "lines"}, run'[r].at = "look"
  PROVE  MineHalf(r) \/ MineRoomy(r) \/ ChunkDone(r)
           \/ \E refused \in BOOLEAN : LeaveUnmined(r, refused)
<1>0. run \in [Runner -> Run] /\ \A q \in Runner : run[q] \in Run
  BY DEF TypeOK
<1>1. ASSUME NEW q \in Runner, q # r, NEW new, run' = [run EXCEPT ![q] = new]
      PROVE  FALSE
  BY <1>0, <1>1
<1>2. ASSUME UNCHANGED run PROVE FALSE
  BY <1>2
<1>3. ~Crash
  BY <1>0 DEF Crash, Off
<1>4. ASSUME NEW q \in Runner,
             \/ Start(q) \/ NothingPending(q) \/ Leaves(q) \/ Fails(q)
             \/ MinerAnswers(q)
             \/ \E last \in Msg : SkipModelTurns(q, last) \/ CallMiner(q, last)
      PROVE  FALSE
  <2>1. q = r
    BY <1>1, <1>2, <1>4 DEF Start, NothingPending, Leaves, Fails, Release,
         MinerAnswers, SkipModelTurns, CallMiner
  <2>2. ~(Start(r) \/ \E last \in Msg : SkipModelTurns(r, last) \/ CallMiner(r, last))
    BY DEF Start, SkipModelTurns, CallMiner, At
  <2>3. ~(Leaves(r) \/ Fails(r) \/ NothingPending(r))
    BY <1>0 DEF Leaves, Fails, NothingPending, Release, Off, At
  <2>4. ~MinerAnswers(r)
    BY <1>0 DEF MinerAnswers, Run
  <2> QED BY <1>4, <2>1, <2>2, <2>3, <2>4
<1>5. ASSUME NEW q \in Runner,
             \/ \E f \in FactId, row \in MinedRows, old \in SUBSET FactId :
                  AddLine(q, f, row, old)
             \/ \E t \in FactId : Supersede(q, t)
      PROVE  FALSE
  <2>1. run'[q].at \in {"lines", "supersede"}
        /\ \A p \in Runner : p # q => run'[p] = run[p]
    BY <1>5, LineRuns
  <2> QED BY <2>1
<1>6. ASSUME NEW q \in Runner,
             MineHalf(q) \/ MineRoomy(q) \/ ChunkDone(q)
               \/ \E refused \in BOOLEAN : LeaveUnmined(q, refused)
      PROVE  q = r
  BY <1>1, <1>6 DEF MineHalf, MineRoomy, ChunkDone, LeaveUnmined, Look
<1> QED
  BY <1>2, <1>3, <1>4, <1>5, <1>6 DEF Next, EraseMessage, Ingest, SaveElsewhere,
     Hold, Approve, EraseFact, SetRow, Skip

\* The loop over the chunks makes way at every turn, so a model whose replies are
\* always cut short cannot keep a run, and the conversation's lock, for ever.
THEOREM TurnsNarrow == Spec => EveryTurnNarrows
<1>1. ASSUME DistillInv, Next, NEW r \in Runner,
             run[r].at \in {"miner", "lines"}, run'[r].at = "look"
      PROVE  \/ mined' > mined
             \/ run'[r].limit < run[r].limit
             \/ run'[r].limit = run[r].limit /\ ~run[r].roomy /\ run'[r].roomy
  <2>1. /\ run \in [Runner -> Run] /\ run[r] \in Run
        /\ run[r].at \in Working
    BY <1>1 DEF DistillInv, TypeOK, Working
  <2>2. mined < run[r].last /\ Cardinality(run[r].chunk) <= run[r].limit
    BY <1>1, <2>1 DEF DistillInv, ChunkCovers
  <2>3. CASE MineHalf(r)
    <3>1. /\ Cardinality(run[r].chunk) \in Nat /\ run[r].limit \in Nat
          /\ Cardinality(run[r].chunk) > 1
      BY <2>1, <2>3, ChunkSize DEF Run, MineHalf
    <3>2. run'[r].limit = Cardinality(run[r].chunk) \div 2
      BY <2>1, <2>3 DEF MineHalf, Look, Run
    <3>3. run'[r].limit < run[r].limit
      BY <2>2, <3>1, <3>2, HalfIsLess
    <3> QED BY <3>3
  <2>4. CASE MineRoomy(r)
    BY <2>1, <2>4 DEF MineRoomy, Look, Run
  <2>5. CASE ChunkDone(r) \/ \E refused \in BOOLEAN : LeaveUnmined(r, refused)
    <3>1. mined' = run[r].last
      BY <2>5 DEF ChunkDone, LeaveUnmined
    <3>2. run[r].last \in Int /\ mined \in Int
      BY <1>1, <2>1, DistillAssumption DEF DistillInv, TypeOK, Run, Msg, DistillAssumption
    <3> QED BY <2>2, <3>1, <3>2
  <2> QED BY <1>1, <2>3, <2>4, <2>5, BackToTheTop DEF DistillInv
<1>2. DistillInv /\ [Next]_vars =>
        [\A r \in Runner :
           run[r].at \in {"miner", "lines"} /\ run'[r].at = "look" =>
             \/ mined' > mined
             \/ run'[r].limit < run[r].limit
             \/ run'[r].limit = run[r].limit /\ ~run[r].roomy /\ run'[r].roomy]_vars
  BY <1>1
<1> QED
  BY <1>2, DistillAlways, PTL DEF Spec, EveryTurnNarrows

-----------------------------------------------------------------------------
(* The facts. *)

LEMMA TwinsStep == TypeOK /\ NoTwins /\ [Next]_vars => NoTwins'
<1> SUFFICES ASSUME TypeOK, NoTwins, [Next]_vars PROVE NoTwins'
  OBVIOUS
<1>0. fact \in [FactId -> FactRow] /\ \A f \in FactId : fact[f] \in FactRow
  BY DEF TypeOK
<1>1. ASSUME \A f \in FactId : Current(f)' /\ fact'[f].here =>
               Current(f) /\ fact[f].here /\ fact'[f].what = fact[f].what
      PROVE  NoTwins'
  BY <1>1 DEF NoTwins
<1>2. CASE UNCHANGED fact
  BY <1>2 DEF NoTwins, Current, InLedger
<1>3. ASSUME NEW m \in Msg, EraseMessage(m) PROVE NoTwins'
  <2>1. \A f \in FactId : Current(f)' /\ fact'[f].here =>
          Current(f) /\ fact[f].here /\ fact'[f].what = fact[f].what
    BY <1>0, <1>3 DEF EraseMessage, Current, InLedger, FactRow
  <2> QED BY <1>1, <2>1
<1>4. ASSUME NEW f \in FactId,
             \/ \E c \in Claim, d \in Days : SaveElsewhere(f, c, d)
             \/ Hold(f) \/ Approve(f) \/ EraseFact(f)
      PROVE  NoTwins'
  <2>1. \A g \in FactId : g # f => fact'[g] = fact[g]
    BY <1>0, <1>4 DEF SaveElsewhere, Hold, Approve, EraseFact, SetRow
  <2>2. CASE EraseFact(f) \/ \E c \in Claim, d \in Days : SaveElsewhere(f, c, d)
    <3>1. ~fact'[f].here
      BY <1>0, <2>2 DEF SaveElsewhere, EraseFact, SetRow, NoRow
    <3>2. \A g \in FactId : Current(g)' /\ fact'[g].here =>
            Current(g) /\ fact[g].here /\ fact'[g].what = fact[g].what
      BY <2>1, <3>1 DEF Current, InLedger
    <3> QED BY <1>1, <3>2
  <2>3. CASE Hold(f) \/ Approve(f)
    <3>1. /\ fact[f].state \in {"live", "held"} /\ fact'[f].by = fact[f].by
          /\ fact'[f].here = fact[f].here /\ fact'[f].what = fact[f].what
      BY <1>0, <2>3 DEF Hold, Approve, SetRow, FactRow
    <3>2. \A g \in FactId : Current(g)' /\ fact'[g].here =>
            Current(g) /\ fact[g].here /\ fact'[g].what = fact[g].what
      BY <2>1, <3>1 DEF Current, InLedger
    <3> QED BY <1>1, <3>2
  <2> QED BY <1>4, <2>2, <2>3
<1>5. ASSUME NEW r \in Runner, NEW t \in FactId, Supersede(r, t) PROVE NoTwins'
  <2>1. \A g \in FactId : Current(g)' /\ fact'[g].here =>
          Current(g) /\ fact[g].here /\ fact'[g].what = fact[g].what
    BY <1>0, <1>5 DEF Supersede, Current, InLedger, FactRow
  <2> QED BY <1>1, <2>1
<1>6. ASSUME NEW r \in Runner, NEW f \in FactId, NEW row \in MinedRows,
             NEW old \in SUBSET FactId, AddLine(r, f, row, old)
      PROVE  NoTwins'
  <2>1. /\ fact'[f].what = row.what
        /\ \A g \in FactId : g # f => fact'[g] = fact[g]
        /\ \A g \in FactId : Current(g) /\ fact[g].here => fact[g].what # row.what
    BY <1>0, <1>6 DEF AddLine, Duplicate
  <2>2. \A g \in FactId : g # f => (Current(g)' <=> Current(g))
    BY <2>1 DEF Current, InLedger
  <2> QED BY <2>1, <2>2 DEF NoTwins
<1>7. ASSUME NEW r \in Runner,
             \/ Start(r) \/ MineHalf(r) \/ MineRoomy(r) \/ MinerAnswers(r) \/ ChunkDone(r)
             \/ NothingPending(r) \/ Leaves(r) \/ Fails(r)
             \/ \E refused \in BOOLEAN : LeaveUnmined(r, refused)
             \/ \E last \in Msg : SkipModelTurns(r, last) \/ CallMiner(r, last)
      PROVE  NoTwins'
  BY <1>2, <1>7 DEF Start, MineHalf, MineRoomy, MinerAnswers, ChunkDone, NothingPending,
       Leaves, Fails, LeaveUnmined, SkipModelTurns, CallMiner
<1> QED
  BY <1>2, <1>3, <1>4, <1>5, <1>6, <1>7 DEF Next, Ingest, Skip, Crash, vars

\* However often the same messages are mined, a conversation has a claim once.
THEOREM NoClaimTwice == Spec => []NoTwins
<1>1. Init => NoTwins
  BY DEF Init, NoTwins, Current, InLedger, NoRow
<1> QED
  BY <1>1, DistillTypes, TwinsStep, PTL DEF Spec

\* A line that goes on to supersede was added in use.
LEMMA HeldLinesRetireNothing ==
  ASSUME TypeOK, [Next]_vars, NEW r \in Runner,
         run[r].at = "lines", run'[r].at = "supersede"
  PROVE  fact'[run'[r].new].state = "live"
<1>0. /\ run \in [Runner -> Run] /\ \A q \in Runner : run[q] \in Run
      /\ fact \in [FactId -> FactRow]
  BY DEF TypeOK
<1>1. ASSUME NEW q \in Runner, NEW new, run' = [run EXCEPT ![q] = new],
             new.at # "supersede"
      PROVE  FALSE
  BY <1>0, <1>1
<1>2. ASSUME UNCHANGED run PROVE FALSE
  BY <1>2
<1>3. ~Crash
  BY <1>0 DEF Crash, Off
<1>4. ASSUME NEW q \in Runner, NEW limit, NEW roomy, Look(q, limit, roomy) PROVE FALSE
  <2>1. [run[q] EXCEPT !.at = "look", !.last = 0, !.chunk = {}, !.valid = {},
           !.limit = limit, !.roomy = roomy].at = "look"
    BY <1>0 DEF Run
  <2> QED BY <1>1, <1>4, <2>1 DEF Look
<1>5. ASSUME NEW q \in Runner, Leaves(q) \/ Fails(q) PROVE FALSE
  BY <1>1, <1>5 DEF Leaves, Fails, Release, Off
<1>6. ASSUME NEW q \in Runner, NothingPending(q) PROVE FALSE
  <2>1. [run[q] EXCEPT !.at = "leaving"].at = "leaving"
    BY <1>0 DEF Run
  <2> QED BY <1>1, <1>6, <2>1 DEF NothingPending
<1>7. ASSUME NEW q \in Runner, NEW last \in Msg, SkipModelTurns(q, last) PROVE FALSE
  <2>1. [run[q] EXCEPT !.roomy = FALSE].at = "look"
    BY <1>0, <1>7 DEF SkipModelTurns, At, Run
  <2> QED BY <1>1, <1>7, <2>1 DEF SkipModelTurns
<1>8. ASSUME NEW q \in Runner, Start(q) \/ MinerAnswers(q) PROVE FALSE
  <2>1. /\ [Off EXCEPT !.at = "look", !.limit = ChunkMsgs].at = "look"
        /\ [run[q] EXCEPT !.at = "lines"].at = "lines"
    BY <1>0 DEF Off, Run
  <2> QED BY <1>1, <1>8, <2>1 DEF Start, MinerAnswers
<1>9. ASSUME NEW q \in Runner, NEW last \in Msg, CallMiner(q, last) PROVE FALSE
  <2>1. [run[q] EXCEPT !.at = "miner", !.last = last, !.chunk = UpTo(last),
           !.valid = {f \in FactId : fact[f].state = "live" /\ fact[f].by = 0}].at
          = "miner"
    BY <1>0 DEF Run
  <2> QED BY <1>1, <1>9, <2>1 DEF CallMiner
<1>10. ASSUME NEW q \in Runner, NEW t \in FactId, Supersede(q, t) PROVE FALSE
  <2>1. run[q].at = "supersede"
    BY <1>10 DEF Supersede, At
  <2>2. q # r /\ \A p \in Runner : p # q => run'[p] = run[p]
    BY <1>10, <2>1, LineRuns
  <2> QED BY <2>2
<1>11. ASSUME NEW q \in Runner, NEW f \in FactId, NEW row \in MinedRows,
              NEW old \in SUBSET FactId, AddLine(q, f, row, old)
       PROVE  fact'[run'[r].new].state = "live"
  <2>1. q = r
    <3>1. \A p \in Runner : p # q => run'[p] = run[p]
      BY <1>11, LineRuns
    <3> QED BY <3>1
  <2>2. CASE row.state = "held"
    <3>1. UNCHANGED run
      BY <1>11, <2>2 DEF AddLine
    <3> QED BY <1>2, <3>1
  <2>3. CASE row.state = "live"
    <3>1. fact' = [fact EXCEPT ![f] = row]
      BY <1>11 DEF AddLine
    <3>2. PICK still :
            run' = IF still = {} THEN run
                   ELSE [run EXCEPT ![q] = [@ EXCEPT !.at = "supersede", !.new = f,
                                              !.day = row.day, !.old = still]]
      BY <1>11 DEF AddLine
    <3>3. still # {}
      BY <1>2, <3>2
    <3>4. run'[q].new = f
      BY <1>0, <3>2, <3>3 DEF Run
    <3> QED BY <1>0, <2>1, <2>3, <3>1, <3>4
  <2> QED BY <2>2, <2>3, MinedRowsAreRows
<1> QED
  BY <1>2, <1>3, <1>4, <1>5, <1>6, <1>7, <1>8, <1>9, <1>10, <1>11 DEF Next,
     EraseMessage, Ingest, SaveElsewhere, Hold, Approve, EraseFact, SetRow, Skip,
     MineHalf, MineRoomy, ChunkDone, LeaveUnmined, vars

\* What a fact is superseded by is written by Supersede only, after the dates have
\* been compared.
LEMMA OlderClaimsRetireNothing ==
  ASSUME TypeOK, [Next]_vars, NEW t \in FactId, fact[t].by = 0, fact'[t].by # 0
  PROVE  \E r \in Runner : run[r].at = "supersede" /\ fact[t].day - run[r].day <= 1
<1>0. fact \in [FactId -> FactRow] /\ \A f \in FactId : fact[f] \in FactRow
  BY DEF TypeOK
<1>1. ASSUME NEW m \in Msg, EraseMessage(m) PROVE FALSE
  BY <1>0, <1>1 DEF EraseMessage, FactRow
<1>2. ASSUME NEW f \in FactId, NEW row, row.by = 0 \/ row.by = fact[f].by,
             fact' = [fact EXCEPT ![f] = row]
      PROVE  FALSE
  BY <1>0, <1>2
<1>3. ASSUME NEW f \in FactId,
             \/ \E c \in Claim, d \in Days : SaveElsewhere(f, c, d)
             \/ EraseFact(f)
      PROVE  FALSE
  <2>1. /\ \A c \in Claim, d \in Days :
             [NoRow EXCEPT !.state = "live", !.what = c, !.day = d].by = 0
        /\ [NoRow EXCEPT !.state = "erased"].by = 0
    BY DEF NoRow
  <2> QED BY <1>2, <1>3, <2>1 DEF SaveElsewhere, EraseFact, SetRow
<1>4. ASSUME NEW f \in FactId, Hold(f) \/ Approve(f) PROVE FALSE
  <2>1. /\ [fact[f] EXCEPT !.state = "held"].by = fact[f].by
        /\ [fact[f] EXCEPT !.state = "live"].by = fact[f].by
    BY <1>0 DEF FactRow
  <2> QED BY <1>2, <1>4, <2>1 DEF Hold, Approve, SetRow
<1>5. ASSUME NEW r \in Runner, NEW f \in FactId, NEW row \in MinedRows,
             NEW old \in SUBSET FactId, AddLine(r, f, row, old)
      PROVE  FALSE
  BY <1>2, <1>5, MinedRowsAreRows DEF AddLine
<1>6. ASSUME NEW r \in Runner, NEW u \in FactId, Supersede(r, u)
      PROVE  run[r].at = "supersede" /\ fact[t].day - run[r].day <= 1
  <2>1. run[r].at = "supersede"
    BY <1>6 DEF Supersede, At
  <2>2. u = t /\ fact[u].day - run[r].day <= 1
    BY <1>0, <1>6 DEF Supersede
  <2> QED BY <2>1, <2>2
<1>7. fact' # fact
  OBVIOUS
<1> QED
  BY <1>1, <1>3, <1>4, <1>5, <1>6, <1>7 DEF Next, Ingest, Skip, Crash, Start, MineHalf,
     MineRoomy, LeaveUnmined, MinerAnswers, ChunkDone, NothingPending, Leaves,
     Fails, SkipModelTurns, CallMiner, vars

\* Mining retires a fact only for one in use, and never for an older claim.
THEOREM SupersedesSoundly == Spec => SoundSupersession
<1>1. TypeOK /\ [Next]_vars =>
        [\A r \in Runner : run[r].at = "lines" /\ run'[r].at = "supersede" =>
           fact'[run'[r].new].state = "live"]_vars
  BY HeldLinesRetireNothing
<1>2. TypeOK /\ [Next]_vars =>
        [\A t \in FactId : fact[t].by = 0 /\ fact'[t].by # 0 =>
           \E r \in Runner : run[r].at = "supersede" /\ fact[t].day - run[r].day <= 1]_vars
  BY OlderClaimsRetireNothing
<1> QED
  BY <1>1, <1>2, DistillTypes, PTL DEF Spec, SoundSupersession

-----------------------------------------------------------------------------
(* Requests that were skipped.                                                  *)

\* What was left to the run in flight has arrived, and is below the watermark from when
\* that run has found nothing pending.
OwedSettled ==
  /\ \A m \in owed : msg[m] # "unsent"
  /\ lock = NoRunner \/ run[lock].at = "leaving" =>
       \A m \in owed : Kept(m) => m <= mined

\* A run that goes on mining owes still.
LEMMA StillOwed ==
  ASSUME TypeOK, LockHeld, NEW r \in Runner, run[r].at # "off", run'[r].at # "leaving",
         \A m \in owed : msg[m] # "unsent", UNCHANGED <<msg, lock, owed>>
  PROVE  OwedSettled'
<1>1. lock' = r /\ lock' # NoRunner
  BY DistillAssumption DEF LockHeld, DistillAssumption
<1> QED
  BY <1>1 DEF OwedSettled

LEMMA OwedStep == DistillInv /\ OwedSettled /\ [Next]_vars => OwedSettled'
<1> SUFFICES ASSUME DistillInv, OwedSettled, [Next]_vars PROVE OwedSettled'
  OBVIOUS
<1>0. /\ TypeOK /\ LockHeld /\ run \in [Runner -> Run]
      /\ \A r \in Runner : run[r] \in Run
      /\ \A m \in owed : msg[m] # "unsent" /\ m \in Msg
  BY DEF DistillInv, OwedSettled, TypeOK
<1>1. \A m \in Msg : m \in Int /\ mined \in Int
  BY <1>0, DistillAssumption DEF Msg, TypeOK, DistillAssumption
<1>2. ASSUME UNCHANGED <<msg, mined, lock, run, owed>> PROVE OwedSettled'
  BY <1>2 DEF OwedSettled, Kept
<1>3. ASSUME NEW m \in Msg, EraseMessage(m) PROVE OwedSettled'
  <2>1. \A k \in owed : msg'[k] # "unsent" /\ (Kept(k)' => Kept(k))
    BY <1>0, <1>3, DistillAssumption DEF EraseMessage, Kept, TypeOK, DistillAssumption
  <2> QED BY <1>3, <2>1 DEF EraseMessage, OwedSettled
<1>4. ASSUME NEW m \in Msg, NEW kind \in Kinds, Ingest(m, kind) PROVE OwedSettled'
  <2>1. m \notin owed
    BY <1>0, <1>4 DEF Ingest
  <2>2. \A k \in owed : msg'[k] = msg[k]
    BY <1>0, <1>4, <2>1 DEF Ingest, TypeOK
  <2> QED BY <1>4, <2>2 DEF Ingest, OwedSettled, Kept
<1>5. CASE Skip
  <2>1. /\ lock \in Runner
        /\ \A m \in Pending : msg[m] # "unsent"
    BY <1>0, <1>5, DistillAssumption DEF Skip, TypeOK, Pending, Kept, DistillAssumption
  <2> QED BY <1>5, <2>1 DEF Skip, At, OwedSettled, Kept
<1>6. ASSUME owed' = {} PROVE OwedSettled'
  BY <1>6 DEF OwedSettled
<1>7. ASSUME NEW r \in Runner, NothingPending(r) PROVE OwedSettled'
  <2>1. \A m \in owed : Kept(m) => m <= mined
    BY <1>0, <1>1, <1>7 DEF NothingPending, Pending
  <2> QED BY <1>0, <1>7, <2>1 DEF NothingPending, OwedSettled, Kept
<1>8. ASSUME NEW r \in Runner, Leaves(r) PROVE OwedSettled'
  <2>1. run[lock].at = "leaving"
    BY <1>0, <1>8 DEF Leaves, At, LockHeld
  <2> QED BY <1>8, <2>1 DEF Leaves, OwedSettled, Kept
<1>9. ASSUME NEW r \in Runner, NEW limit, NEW roomy, run[r].at # "off",
             Look(r, limit, roomy), UNCHANGED <<msg, lock, owed>>
      PROVE  OwedSettled'
  <2>1. run'[r].at = "look"
    BY <1>0, <1>9 DEF Look, Run
  <2> QED BY <1>0, <1>9, <2>1, StillOwed
<1>10. ASSUME NEW r \in Runner, MineHalf(r) \/ MineRoomy(r) \/ ChunkDone(r) PROVE OwedSettled'
  BY <1>9, <1>10 DEF MineHalf, MineRoomy, ChunkDone, At
<1>11. ASSUME NEW r \in Runner, NEW refused \in BOOLEAN, LeaveUnmined(r, refused)
       PROVE  OwedSettled'
  BY <1>9, <1>11 DEF LeaveUnmined, At
<1>12. ASSUME NEW r \in Runner, MinerAnswers(r) PROVE OwedSettled'
  <2>1. run[r].at = "miner" /\ run'[r].at = "lines"
    BY <1>0, <1>12 DEF MinerAnswers, At, Run
  <2> QED BY <1>0, <1>12, <2>1, StillOwed DEF MinerAnswers
<1>13. ASSUME NEW r \in Runner, NEW last \in Msg, SkipModelTurns(r, last) PROVE OwedSettled'
  <2>1. run[r].at = "look" /\ run'[r].at = "look"
    BY <1>0, <1>13 DEF SkipModelTurns, At, Run
  <2> QED BY <1>0, <1>13, <2>1, StillOwed DEF SkipModelTurns
<1>14. ASSUME NEW r \in Runner, NEW last \in Msg, CallMiner(r, last) PROVE OwedSettled'
  <2>1. run[r].at = "look" /\ run'[r].at = "miner"
    BY <1>0, <1>14 DEF CallMiner, At, Run
  <2> QED BY <1>0, <1>14, <2>1, StillOwed DEF CallMiner
<1>15. ASSUME NEW r \in Runner,
              \/ \E f \in FactId, row \in MinedRows, old \in SUBSET FactId :
                   AddLine(r, f, row, old)
              \/ \E t \in FactId : Supersede(r, t)
       PROVE  OwedSettled'
  <2>1. run'[r].at \in {"lines", "supersede"}
    BY <1>0, <1>15, LineRuns
  <2>2. run[r].at \in {"lines", "supersede"} /\ UNCHANGED <<msg, lock, owed>>
    BY <1>15 DEF AddLine, Supersede, At
  <2> QED BY <1>0, <2>1, <2>2, StillOwed
<1> QED
  BY <1>2, <1>3, <1>4, <1>5, <1>6, <1>7, <1>8, <1>10, <1>11, <1>12, <1>13, <1>14, <1>15
     DEF Next, Start, Fails, Crash, SaveElsewhere, Hold, Approve, EraseFact, SetRow, vars

\* A request that was skipped before the run in flight found nothing pending is covered
\* by it, unless that run fails.
THEOREM SkippedRequestsCovered == Spec => []SkippedIsCovered
<1>1. Init => OwedSettled
  BY DEF Init, OwedSettled
<1>2. OwedSettled => SkippedIsCovered
  BY DEF OwedSettled, SkippedIsCovered
<1> QED
  BY <1>1, <1>2, DistillAlways, OwedStep, PTL DEF Spec

-----------------------------------------------------------------------------
(* Feed. *)

OnAPart == phase \in {"asking", "storing", "marking"}

\* Writes are numbered as they come, and coverage lags behind them.
Numbered ==
  /\ \A s \in Session : turns[s] \subseteq 1 .. clock
  /\ \A s \in Session : covered[s] <= clock

\* The part in work begins where its session's coverage ends.
PartIsNext ==
  OnAPart => /\ part \in Note /\ part.from = covered[part.of]
             /\ part.from < part.upto /\ part.upto <= clock

\* A note begins in what is covered now, and lies in it unless it is the one just
\* stored, or its session is torn.
NotesAreCovered ==
  /\ notes \subseteq written
  /\ \A n \in written : n.from <= covered[n.of]
  /\ \A n \in written :
       n.of \notin torn => n.upto <= covered[n.of] \/ (phase = "marking" /\ n = part)

\* When the coverage is about to be moved, a note tells of all it moves over.
MarkedIsTold ==
  phase = "marking" =>
    \E m \in written : m.of = part.of /\ m.upto = part.upto /\ m.from <= part.from

FeedInv ==
  /\ FeedTypeOK /\ Numbered /\ PartIsNext /\ NotesAreCovered /\ MarkedIsTold /\ CoveredWasTold

-----------------------------------------------------------------------------
(* FeedTypes, and the last turn of a part. *)

\* A set of numbers up to a bound has a last one.
LEMMA LastOf == ASSUME NEW n \in Nat, NEW T \in SUBSET (1 .. n), T # {}
                PROVE  Last(T) \in T
<1> DEFINE Left == {n - t : t \in T}
<1>1. Left \subseteq Nat /\ Left # {}
  <2>1. PICK t \in T : TRUE
    OBVIOUS
  <2>2. n - t \in Left
    BY <2>1
  <2>3. \A u \in T : n - u \in Nat
    OBVIOUS
  <2> QED
    BY <2>2, <2>3
<1>2. PICK x \in Left : \A y \in Left : ~(<<y, x>> \in OpToRel(<, Nat))
  BY <1>1, WFMin, NatLessThanWellFounded
<1>3. \A y \in Left : ~(y < x)
  BY <1>1, <1>2 DEF OpToRel
<1>4. PICK t \in T : x = n - t
  BY <1>2
<1>5. \A u \in T : u <= t
  <2> SUFFICES ASSUME NEW u \in T PROVE u <= t
    OBVIOUS
  <2>1. ~(n - u < x)
    BY <1>3
  <2> QED
    BY <2>1, <1>4
<1> QED
  BY <1>4, <1>5 DEF Last

\* The part of a session that is asked about begins after its coverage and has arrived.
LEMMA NewPart ==
  ASSUME FeedTypeOK, Numbered, NEW s \in Session, Worth(New(s))
  PROVE  Last(New(s)) \in Nat /\ Last(New(s)) > covered[s] /\ Last(New(s)) <= clock
<1>1. New(s) \in SUBSET (1 .. clock) /\ New(s) # {} /\ clock \in Nat
  BY DEF New, Worth, Numbered, FeedTypeOK
<1>2. Last(New(s)) \in New(s)
  BY <1>1, LastOf
<1> QED
  BY <1>1, <1>2 DEF New

LEMMA FeedTypeInit == FeedInit => FeedTypeOK
  BY DEF FeedInit, FeedTypeOK

LEMMA FeedTypeStep == FeedTypeOK /\ Numbered /\ PartIsNext /\ [FeedNext]_feedVars => FeedTypeOK'
<1> SUFFICES ASSUME FeedTypeOK, Numbered, PartIsNext, [FeedNext]_feedVars PROVE FeedTypeOK'
  OBVIOUS
<1> USE DEF FeedTypeOK, files, table, sweep, histories
<1>1. ASSUME NEW s \in Session, NEW b \in BOOLEAN, TurnWritten(s, b) PROVE FeedTypeOK'
  BY <1>1 DEF TurnWritten, Written
<1>2. ASSUME NEW s \in Session, OtherWritten(s) PROVE FeedTypeOK'
  BY <1>2 DEF OtherWritten, Written
<1>3. ASSUME NEW s \in Session, Rests(s) PROVE FeedTypeOK'
  BY <1>3 DEF Rests
<1>4. ASSUME NEW m \in notes, EraseNote(m) PROVE FeedTypeOK'
  BY <1>4 DEF EraseNote
<1>5. CASE SweepBegins
  <2>1. due' \in SUBSET Due
    BY <1>5 DEF SweepBegins, Due
  <2> QED
    BY <1>5, <2>1 DEF SweepBegins
<1>6. ASSUME NEW d \in due, Passes(d) PROVE FeedTypeOK'
  BY <1>6 DEF Passes, Record, Looking, Due
<1>7. ASSUME NEW d \in due, Asks(d) PROVE FeedTypeOK'
  <2>1. d.of \in Session
    BY DEF Due
  <2>2. part' \in Note
    BY <1>7, <2>1, NewPart DEF Asks, Note
  <2> QED
    BY <1>7, <2>2 DEF Asks
<1>8. ASSUME NEW d \in due, Declines(d) PROVE FeedTypeOK'
  <2>1. part \in Note /\ part.of \in Session /\ part.upto \in Nat /\ d.mtime \in Nat
    BY <1>8 DEF Declines, PartIsNext, OnAPart, Note, Due
  <2> QED
    BY <1>8, <2>1 DEF Declines, Record, NextFile
<1>9. CASE Answers
  BY <1>9 DEF Answers
<1>10. CASE Stores
  BY <1>10 DEF Stores, PartIsNext, OnAPart
<1>11. ASSUME NEW d \in due, Marks(d) PROVE FeedTypeOK'
  <2>1. part \in Note /\ part.of \in Session /\ part.upto \in Nat /\ d.mtime \in Nat
    BY <1>11 DEF Marks, PartIsNext, OnAPart, Note, Due
  <2> QED
    BY <1>11, <2>1 DEF Marks, Record, NextFile
<1>12. CASE SweepEnds
  BY <1>12 DEF SweepEnds
<1>13. ASSUME NEW d \in due, ReadFails(d) PROVE FeedTypeOK'
  BY <1>13 DEF ReadFails
<1>14. ASSUME NEW d \in due, CallFails(d) PROVE FeedTypeOK'
  BY <1>14 DEF CallFails, NextFile
<1>15. CASE NoKey
  BY <1>15 DEF NoKey
<1>16. CASE SweepDies
  <2>1. phase = "marking" => part.of \in Session
    BY DEF PartIsNext, OnAPart, Note
  <2> QED
    BY <1>16, <2>1 DEF SweepDies
<1>17. CASE UNCHANGED feedVars
  BY <1>17 DEF feedVars
<1> QED
  BY <1>1, <1>2, <1>3, <1>4, <1>5, <1>6, <1>7, <1>8, <1>9, <1>10, <1>11, <1>12, <1>13,
     <1>14, <1>15, <1>16, <1>17 DEF FeedNext, Step

-----------------------------------------------------------------------------
(* The invariant. *)

Coverage == Numbered /\ PartIsNext /\ NotesAreCovered /\ MarkedIsTold /\ CoveredWasTold

LEMMA FeedStart == FeedInit => FeedInv
  BY FeedTypeInit
     DEF FeedInit, FeedInv, Numbered, PartIsNext, OnAPart, NotesAreCovered, MarkedIsTold,
         CoveredWasTold

\* What neither writes a turn nor stores a note nor works on a part leaves it true.
LEMMA Between ==
  ASSUME FeedInv, ~OnAPart',
         UNCHANGED <<clock, turns, covered, written, declined>>,
         notes' \subseteq notes, torn \subseteq torn',
         phase = "marking" => part.of \in torn'
  PROVE  Coverage'
<1> USE DEF FeedInv, Coverage
<1>1. Numbered' /\ PartIsNext' /\ MarkedIsTold'
  BY DEF Numbered, PartIsNext, MarkedIsTold, OnAPart
<1>2. NotesAreCovered'
  BY DEF NotesAreCovered, OnAPart
<1>3. CoveredWasTold'
  BY DEF CoveredWasTold, Tells
<1> QED
  BY <1>1, <1>2, <1>3

\* A write: the new turn is past everything covered.
LEMMA WriteCovers ==
  ASSUME FeedInv, NEW s \in Session, Written(s),
         \A u \in Session : turns'[u] \subseteq turns[u] \cup {clock + 1}
  PROVE  Coverage'
<1> USE DEF FeedInv, Coverage, Written, table, sweep, histories
<1>1. clock \in Nat /\ clock' = clock + 1 /\ (\A u \in Session : covered[u] \in Nat)
  BY DEF FeedTypeOK
<1>2. Numbered'
  BY <1>1 DEF Numbered
<1>3. PartIsNext'
  BY <1>1 DEF PartIsNext, OnAPart, Note
<1>4. NotesAreCovered' /\ MarkedIsTold'
  BY DEF NotesAreCovered, MarkedIsTold
<1>5. CoveredWasTold'
  <2> SUFFICES ASSUME NEW u \in Session, NEW t \in turns'[u], t <= covered'[u]
               PROVE  \E m \in written' \cup declined' : m.of = u /\ Tells(m, t)
    BY DEF CoveredWasTold, Tells
  <2>1. covered'[u] = covered[u] /\ covered[u] <= clock
    BY DEF Numbered
  <2>2. t \in turns[u]
    BY <2>1, <1>1
  <2> QED
    BY <2>1, <2>2 DEF CoveredWasTold
<1> QED
  BY <1>2, <1>3, <1>4, <1>5

\* The coverage moves over the part in work, which a note or the model's refusal is of.
LEMMA MoveCovers ==
  ASSUME FeedInv, OnAPart, phase = "asking" \/ phase = "marking", phase' = "next",
         covered' = [covered EXCEPT ![part.of] = part.upto],
         UNCHANGED <<clock, turns, notes, written, torn>>,
         declined' = IF phase = "asking" THEN declined \cup {part} ELSE declined
  PROVE  Coverage'
<1> USE DEF FeedInv, Coverage
<1>1. /\ part \in Note /\ part.of \in Session /\ part.upto \in Nat /\ part.from \in Nat
      /\ part.from = covered[part.of] /\ part.from < part.upto /\ part.upto <= clock
  BY DEF PartIsNext, Note
<1>2. /\ covered \in [Session -> Nat] /\ clock \in Nat
      /\ \A u \in Session : covered'[u] = IF u = part.of THEN part.upto ELSE covered[u]
  BY DEF FeedTypeOK
<1>3. \A u \in Session : covered[u] <= covered'[u]
  BY <1>1, <1>2
<1>4. Numbered'
  BY <1>1, <1>2 DEF Numbered
<1>5. PartIsNext' /\ MarkedIsTold'
  BY DEF PartIsNext, MarkedIsTold, OnAPart
<1>6. NotesAreCovered'
  <2>1. ASSUME NEW n \in written
        PROVE  /\ n.of \in Session /\ n.from \in Nat /\ n.upto \in Nat
               /\ covered[n.of] \in Nat /\ covered'[n.of] \in Nat
               /\ covered[n.of] <= covered'[n.of]
    <3>1. n.of \in Session /\ n.from \in Nat /\ n.upto \in Nat
      BY DEF FeedTypeOK, Note
    <3> QED
      BY <3>1, <1>1, <1>2, <1>3
  <2>2. ASSUME NEW n \in written PROVE n.from <= covered'[n.of]
    <3>1. n.from <= covered[n.of]
      BY DEF NotesAreCovered
    <3> QED
      BY <3>1, <2>1
  <2>3. ASSUME NEW n \in written, n.of \notin torn PROVE n.upto <= covered'[n.of]
    <3>1. CASE n.upto <= covered[n.of]
      BY <3>1, <2>1
    <3>2. CASE n = part
      BY <3>2, <1>1, <1>2
    <3> QED
      BY <2>3, <3>1, <3>2 DEF NotesAreCovered
  <2> QED
    BY <2>2, <2>3 DEF NotesAreCovered
<1>7. CoveredWasTold'
  <2> SUFFICES ASSUME NEW u \in Session, NEW t \in turns[u], t <= covered'[u]
               PROVE  \E m \in written \cup declined' : m.of = u /\ Tells(m, t)
    BY DEF CoveredWasTold, Tells
  <2>0. t \in Nat
    BY <1>2 DEF Numbered
  <2>1. CASE t <= covered[u]
    BY <2>1 DEF CoveredWasTold
  <2>2. CASE ~(t <= covered[u])
    <3>1. u = part.of /\ part.from < t /\ t <= part.upto
      BY <2>0, <2>2, <1>1, <1>2
    <3>2. CASE phase = "asking"
      BY <3>1, <3>2 DEF Tells
    <3>3. CASE phase = "marking"
      <4>1. PICK m \in written : m.of = part.of /\ m.upto = part.upto /\ m.from <= part.from
        BY <3>3 DEF MarkedIsTold
      <4>2. m.from \in Nat
        BY DEF FeedTypeOK, Note
      <4>3. m.from < t
        BY <4>1, <4>2, <3>1, <1>1, <2>0
      <4> QED
        BY <4>1, <4>3, <3>1 DEF Tells
    <3> QED
      BY <3>2, <3>3
  <2> QED
    BY <2>1, <2>2
<1> QED
  BY <1>4, <1>5, <1>6, <1>7

\* A note is stored, or one with its end is there already.
LEMMA StoreCovers == ASSUME FeedInv, Stores PROVE Coverage'
<1> USE DEF FeedInv, Coverage, Stores, files, table
<1>1. /\ part \in Note /\ part.of \in Session /\ part.upto \in Nat /\ part.from \in Nat
      /\ part.from = covered[part.of] /\ part.from < part.upto /\ part.upto <= clock
  BY DEF PartIsNext, Note, OnAPart
<1>2. Numbered' /\ PartIsNext'
  BY DEF Numbered, PartIsNext, OnAPart
<1>3. /\ written \subseteq written' /\ written' \subseteq written \cup {part}
      /\ notes' \subseteq written' /\ UNCHANGED <<covered, torn, declined, turns, part>>
      /\ phase = "storing" /\ phase' = "marking"
  BY DEF NotesAreCovered
<1>4. NotesAreCovered'
  BY <1>1, <1>3 DEF NotesAreCovered
<1>5. MarkedIsTold'
  <2>1. CASE \E m \in notes : m.of = part.of /\ m.upto = part.upto
    <3>1. PICK m \in notes : m.of = part.of /\ m.upto = part.upto
      BY <2>1
    <3>2. m \in written /\ m.from <= covered[m.of]
      BY DEF NotesAreCovered
    <3> QED
      BY <3>1, <3>2, <1>1, <1>3 DEF MarkedIsTold
  <2>2. CASE ~ \E m \in notes : m.of = part.of /\ m.upto = part.upto
    BY <2>2, <1>1, <1>3 DEF MarkedIsTold
  <2> QED
    BY <2>1, <2>2
<1>6. CoveredWasTold'
  BY <1>3 DEF CoveredWasTold, Tells
<1> QED
  BY <1>2, <1>4, <1>5, <1>6

LEMMA FeedStep == FeedInv /\ [FeedNext]_feedVars => FeedInv'
<1> SUFFICES ASSUME FeedInv, [FeedNext]_feedVars PROVE Coverage'
  BY FeedTypeStep DEF FeedInv, Coverage
<1> USE DEF files, table, sweep, histories
<1>0. FeedTypeOK
  BY DEF FeedInv
<1>1. ASSUME NEW s \in Session, NEW b \in BOOLEAN, TurnWritten(s, b) PROVE Coverage'
  <2>1. \A u \in Session : turns'[u] \subseteq turns[u] \cup {clock + 1}
    BY <1>0, <1>1 DEF TurnWritten, FeedTypeOK
  <2> QED
    BY <1>1, <2>1, WriteCovers DEF TurnWritten
<1>2. ASSUME NEW s \in Session, OtherWritten(s) PROVE Coverage'
  <2>1. \A u \in Session : turns'[u] \subseteq turns[u] \cup {clock + 1}
    BY <1>2 DEF OtherWritten
  <2> QED
    BY <1>2, <2>1, WriteCovers DEF OtherWritten
<1>3. ASSUME UNCHANGED <<clock, turns, covered, written, declined, torn, part, phase>>,
             notes' \subseteq notes
      PROVE  Coverage'
  BY <1>3 DEF FeedInv, Coverage, Numbered, PartIsNext, OnAPart, NotesAreCovered, MarkedIsTold,
              CoveredWasTold, Tells
<1>4. ASSUME NEW s \in Session, Rests(s) PROVE Coverage'
  BY <1>3, <1>4 DEF Rests
<1>5. ASSUME NEW m \in notes, EraseNote(m) PROVE Coverage'
  BY <1>3, <1>5 DEF EraseNote
<1>6. CASE SweepBegins \/ SweepEnds \/ NoKey
  BY <1>6, Between DEF SweepBegins, SweepEnds, NoKey, OnAPart
<1>7. ASSUME NEW d \in due, Passes(d) PROVE Coverage'
  <2>1. covered' = covered
    BY <1>0, <1>7 DEF Passes, Record, FeedTypeOK
  <2> QED
    BY <1>3, <1>7, <2>1 DEF Passes
<1>8. ASSUME NEW d \in due, Asks(d) PROVE Coverage'
  <2>1. d.of \in Session /\ phase = "next" /\ phase' = "asking" /\ Worth(New(d.of))
    BY <1>0, <1>8 DEF FeedTypeOK, Due, Asks, Looking
  <2>2. /\ Last(New(d.of)) \in Nat /\ Last(New(d.of)) > covered[d.of]
        /\ Last(New(d.of)) <= clock /\ covered[d.of] \in Nat
    BY <1>0, <2>1, NewPart DEF FeedInv, FeedTypeOK
  <2>3. PartIsNext'
    BY <1>8, <2>1, <2>2 DEF Asks, PartIsNext, OnAPart, Note
  <2>4. Numbered' /\ NotesAreCovered' /\ MarkedIsTold' /\ CoveredWasTold'
    BY <1>8, <2>1 DEF Asks, FeedInv, Numbered, NotesAreCovered, MarkedIsTold, CoveredWasTold,
                      Tells
  <2> QED
    BY <2>3, <2>4 DEF Coverage
<1>9. ASSUME NEW d \in due, Declines(d) PROVE Coverage'
  BY <1>9, MoveCovers DEF Declines, Record, NextFile, OnAPart
<1>10. CASE Answers
  BY <1>10 DEF Answers, FeedInv, Coverage, Numbered, PartIsNext, OnAPart, NotesAreCovered,
               MarkedIsTold, CoveredWasTold, Tells
<1>11. CASE Stores
  BY <1>11, StoreCovers
<1>12. ASSUME NEW d \in due, Marks(d) PROVE Coverage'
  BY <1>12, MoveCovers DEF Marks, Record, NextFile, OnAPart
<1>13. ASSUME NEW d \in due, ReadFails(d) PROVE Coverage'
  BY <1>3, <1>13 DEF ReadFails
<1>14. ASSUME NEW d \in due, CallFails(d) PROVE Coverage'
  BY <1>14, Between DEF CallFails, NextFile, OnAPart
<1>15. CASE SweepDies
  BY <1>15, Between DEF SweepDies, OnAPart
<1>16. CASE UNCHANGED feedVars
  BY <1>3, <1>16 DEF feedVars
<1> QED
  BY <1>1, <1>2, <1>4, <1>5, <1>6, <1>7, <1>8, <1>9, <1>10, <1>11, <1>12, <1>13, <1>14,
     <1>15, <1>16 DEF FeedNext, Step

LEMMA FeedAlways == FeedSpec => []FeedInv
<1>1. FeedInit => FeedInv
  BY FeedStart
<1>2. FeedInv /\ [FeedNext]_feedVars => FeedInv'
  BY FeedStep
<1> QED
  BY <1>1, <1>2, PTL DEF FeedSpec

-----------------------------------------------------------------------------
(* Theorems. *)

\* Every variable has its type.
THEOREM FeedTypes == FeedSpec => []FeedTypeOK
  BY FeedAlways, PTL DEF FeedInv

\* What counts as covered was in a note or declined, whenever calls fail, notes are
\* erased and the process dies.
THEOREM CoveredIsTold == FeedSpec => []CoveredWasTold
  BY FeedAlways, PTL DEF FeedInv

\* Only Stores adds a note, and it tells of turns past the coverage, in which every
\* earlier note of the session lies.
LEMMA NoteIsNew ==
  ASSUME FeedInv, [FeedNext]_feedVars,
         NEW m \in notes' \ notes, NEW n \in written, m.of = n.of, m.of \notin torn,
         NEW t \in 1 .. clock
  PROVE  ~(Tells(m, t) /\ Tells(n, t))
<1>1. Stores /\ m = part
  BY DEF FeedNext, Step, feedVars, files, table, sweep, histories, TurnWritten, OtherWritten,
         Written, Rests, EraseNote, SweepBegins, Passes, Asks, Declines, Answers, Stores, Marks,
         SweepEnds, ReadFails, CallFails, NoKey, SweepDies
<1>2. part.from = covered[part.of] /\ n.upto <= covered[n.of]
  BY <1>1 DEF Stores, FeedInv, PartIsNext, OnAPart, NotesAreCovered
<1>3. m.from \in Nat /\ n.upto \in Nat /\ n.upto <= m.from
  BY <1>1, <1>2 DEF Stores, FeedInv, PartIsNext, OnAPart, FeedTypeOK, Note
<1> QED
  BY <1>3 DEF Tells

\* No turn is told of twice: an erased note stays erased, unless the process died between
\* storing a note and marking it.
THEOREM ToldOnce == FeedSpec => ErasedStaysErased
<1>1. FeedInv /\ [FeedNext]_feedVars =>
        [\A m \in notes' \ notes : \A n \in written : m.of = n.of /\ m.of \notin torn =>
           \A t \in 1 .. clock : ~(Tells(m, t) /\ Tells(n, t))]_feedVars
  BY NoteIsNew
<1> QED
  BY <1>1, FeedAlways, PTL DEF FeedSpec, ErasedStaysErased
=============================================================================

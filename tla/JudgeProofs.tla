---------------------------- MODULE JudgeProofs ----------------------------
(***************************************************************************)
(* Proofs about the judge, for any facts and rows, any batch and any day.  *)
(*                                                                         *)
(* Of Review: a decision stands because it takes the fact out of every     *)
(* later pass, unless the judge had a copy; a doubtful fact in use has a   *)
(* cause because a hold that lowers the confidence can be told by its      *)
(* reason, whatever the judge made of it.                                  *)
(*                                                                         *)
(* Of JudgeRounds: no row is looked at twice within a day, since a batch   *)
(* holds rows that are due, and a row's age changes only with the next     *)
(* pass or with the look itself.                                           *)
(***************************************************************************)
EXTENDS Review, JudgeRounds, TLAPS

-----------------------------------------------------------------------------
(* Review. *)

\* A fact is decided on only once it is there.
DecidedIsKept == \A f \in Fact : decided[f] # "none" => Kept(f)

\* A decision made when the judge had no copy keeps the fact out of every later pass.
JudgeStaysAway ==
  \A f \in Fact : decided[f] # "none" /\ ~raced[f] => ~WithJudge(f)

\* A low confidence nothing else explains is the hold's own: the fact is held, for a
\* reason that approval will know to have lowered it.
LowExplained ==
  \A f \in Fact : Kept(f) /\ fact[f].conf = "low" /\ doubt[f] = "none" =>
    fact[f].held /\ HoldLoweredConfidence(f)

\* So it is with what an approval is about to write.
ApprovalExplained == approving.conf = "low" => approving.doubt # "none"

ReviewInv ==
  /\ TypeOK
  /\ DismissedIsHeld /\ DecisionStands /\ DecidedIsKept /\ JudgeStaysAway
  /\ LowExplained /\ ApprovalExplained

-----------------------------------------------------------------------------
(* ReviewTypes. *)

LEMMA ReviewTypeInit == Init => TypeOK
  BY ReviewAssumption DEF ReviewAssumption, Init, TypeOK, Blank, Idle, Row, Reason,
     Lowering, MinerHold, Confidence, Doubt

LEMMA ClassesOfReason ==
  /\ Births \subseteq Reason /\ Lowering \subseteq Reason
  /\ {"none", "owner", "source-deleted", "cleared", "judged"} \subseteq Reason
  /\ {"none", "owner", "source-deleted", "cleared"} \cap Lowering = {}
  BY ReviewAssumption DEF ReviewAssumption, SavedUnder, Reason, Lowering, MinerHold

\* What the statements make of a row is a row.
LEMMA RowUpdates ==
  ASSUME NEW r \in Row, NEW why \in Reason, NEW conf \in Confidence
  PROVE  /\ [r EXCEPT !.retired = TRUE] \in Row
         /\ [r EXCEPT !.dismissed = TRUE] \in Row
         /\ [r EXCEPT !.held = TRUE, !.why = why] \in Row
         /\ [r EXCEPT !.held = FALSE, !.dismissed = FALSE, !.why = why] \in Row
         /\ [r EXCEPT !.held = FALSE, !.dismissed = FALSE, !.why = why,
                      !.conf = conf] \in Row
         /\ [r EXCEPT !.why = why] \in Row
         /\ [r EXCEPT !.conf = conf] \in Row
  BY DEF Row

LEMMA DecideType ==
  ASSUME TypeOK, NEW S, NEW d \in {"approved", "dismissed", "held"}, Decide(S, d)
  PROVE  /\ decided' \in [Fact -> {"none", "approved", "dismissed", "held"}]
         /\ raced' \in [Fact -> BOOLEAN]
<1>1. \A f \in Fact : WithJudge(f) \in BOOLEAN
  BY DEF WithJudge
<1> QED
  BY <1>1 DEF Decide, TypeOK

LEMMA ReviewTypeStep == TypeOK /\ [Next]_vars => TypeOK'
<1> SUFFICES ASSUME TypeOK, [Next]_vars PROVE TypeOK'
  OBVIOUS
<1> USE DEF TypeOK
<1>0. /\ fact \in [Fact -> Row] /\ \A f \in Fact : fact[f] \in Row
      /\ {"low", "high"} = Confidence
      /\ {"none", "saved", "owner", "judge"} = Doubt
  BY DEF Confidence, Doubt
<1>1. CASE UNCHANGED vars
  BY <1>1 DEF vars, judge, histories
<1>2. ASSUME NEW f \in Fact, NEW why \in Births, NEW sent \in {"low", "high"},
             Save(f, why, sent)
      PROVE  TypeOK'
  <2>1. [state |-> "kept", held |-> why # "none", dismissed |-> FALSE,
         retired |-> FALSE, why |-> why,
         conf |-> IF why \in Lowering THEN "low" ELSE sent] \in Row
    BY <1>0, ClassesOfReason DEF Row
  <2>2. (IF why \notin Lowering /\ sent = "low" THEN "saved" ELSE "none") \in Doubt
    BY <1>0
  <2> QED BY <1>2, <2>1, <2>2 DEF Save, judge
<1>3. ASSUME NEW f \in Fact, NEW c \in Confidence, SetConfidence(f, c) PROVE TypeOK'
  <2>1. [fact[f] EXCEPT !.conf = c] \in Row
    BY <1>0, ClassesOfReason, RowUpdates
  <2> QED BY <1>0, <1>3, <2>1 DEF SetConfidence, judge
<1>4. ASSUME NEW f \in Fact, Supersede(f) PROVE TypeOK'
  <2>1. [fact[f] EXCEPT !.retired = TRUE] \in Row
    BY <1>0, ClassesOfReason, RowUpdates
  <2> QED BY <1>4, <2>1 DEF Supersede, judge, histories
<1>5. ASSUME NEW f \in Fact, ApproveReads(f) PROVE TypeOK'
  <2>1. fact[f].conf \in Confidence /\ "high" \in Confidence
    BY <1>0 DEF Row
  <2> QED BY <1>5, <2>1 DEF ApproveReads, judge, histories
<1>6. ASSUME NEW f \in Fact, Erase(f) PROVE TypeOK'
  <2>1. [Blank EXCEPT !.state = "erased"] \in Row
    BY <1>0, ClassesOfReason DEF Blank, Row
  <2> QED BY <1>0, <1>6, <2>1 DEF Erase
<1>7. ASSUME NEW f \in Fact, Look(f) \/ DayPasses(f) PROVE TypeOK'
  BY <1>7 DEF Look, DayPasses, judge, histories
<1>8. ASSUME NEW S \in SUBSET Fact, HoldSourceOf(S) \/ Quarantine(S) PROVE TypeOK'
  <2>1. \A f \in Fact : /\ [fact[f] EXCEPT !.held = TRUE, !.why = "source-deleted"] \in Row
                        /\ [fact[f] EXCEPT !.held = TRUE, !.why = "owner"] \in Row
    BY <1>0, ClassesOfReason, RowUpdates
  <2>2. CASE HoldSourceOf(S)
    BY <1>0, <2>1, <2>2 DEF HoldSourceOf, judge
  <2>3. CASE Quarantine(S)
    <3>1. fact' \in [Fact -> Row]
      BY <1>0, <2>1, <2>3 DEF Quarantine
    <3>2. /\ decided' \in [Fact -> {"none", "approved", "dismissed", "held"}]
          /\ raced' \in [Fact -> BOOLEAN]
      BY <2>3, DecideType DEF Quarantine
    <3> QED BY <2>3, <3>1, <3>2 DEF Quarantine, judge
  <2> QED BY <1>8, <2>2, <2>3
<1>9. ASSUME NEW S \in SUBSET Fact, Dismiss(S) PROVE TypeOK'
  <2>1. \A f \in Fact : [fact[f] EXCEPT !.dismissed = TRUE] \in Row
    BY <1>0, ClassesOfReason, RowUpdates
  <2>2. fact' \in [Fact -> Row]
    BY <1>0, <1>9, <2>1 DEF Dismiss
  <2>3. /\ decided' \in [Fact -> {"none", "approved", "dismissed", "held"}]
        /\ raced' \in [Fact -> BOOLEAN]
    BY <1>9, DecideType DEF Dismiss
  <2> QED BY <1>9, <2>2, <2>3 DEF Dismiss, judge
<1>10. ASSUME NEW S \in SUBSET Fact, PassStarts(S) PROVE TypeOK'
  <2>1. \A f \in Fact : fact[f].why \in Reason
    BY <1>0 DEF Row
  <2> QED BY <1>10, <2>1 DEF PassStarts, histories
<1>11. CASE ApproveWrites
  <2>1. Idle \in [of : Fact \cup {NoFact}, conf : Confidence, doubt : Doubt]
    BY <1>0 DEF Idle
  <2>2. approving.of \in Fact /\ approving.conf \in Confidence /\ approving.doubt \in Doubt
    BY <1>11 DEF ApproveWrites
  <2>3. [fact[approving.of] EXCEPT !.held = FALSE, !.dismissed = FALSE,
           !.why = "none", !.conf = approving.conf] \in Row
    BY <1>0, <2>2, ClassesOfReason, RowUpdates
  <2>4. fact' \in [Fact -> Row]
    <3> DEFINE row == [fact[approving.of] EXCEPT !.held = FALSE, !.dismissed = FALSE,
                         !.why = "none", !.conf = approving.conf]
    <3>1. fact' = fact \/ fact' = [fact EXCEPT ![approving.of] = row]
      <4>1. CASE Kept(approving.of)
        BY <1>11, <4>1, Zenon DEF ApproveWrites
      <4>2. CASE ~Kept(approving.of)
        BY <1>11, <4>2, Zenon DEF ApproveWrites
      <4> QED BY <4>1, <4>2
    <3>2. row \in Row
      BY <2>3
    <3> HIDE DEF row
    <3> QED BY <1>0, <2>2, <3>1, <3>2
  <2>5. /\ decided' \in [Fact -> {"none", "approved", "dismissed", "held"}]
        /\ raced' \in [Fact -> BOOLEAN]
    BY <1>11, DecideType DEF ApproveWrites
  <2>6. doubt' \in [Fact -> Doubt]
    BY <1>11, <2>2 DEF ApproveWrites
  <2> QED BY <1>11, <2>1, <2>4, <2>5, <2>6 DEF ApproveWrites, judge
<1>12. ASSUME NEW proved \in BOOLEAN, Verdict(proved) PROVE TypeOK'
  <2>1. looking \in Fact
    BY <1>12 DEF Verdict
  <2>2. Cleared(fact[looking]) \in Row /\ Relabelled(fact[looking]) \in Row
    <3>1. fact[looking] \in Row /\ "cleared" \in Reason /\ "judged" \in Reason
      BY <1>0, <2>1, ClassesOfReason
    <3> HIDE DEF TypeOK
    <3> QED BY <1>0, <3>1, RowUpdates DEF Cleared, Relabelled
  <2>3. fact' \in [Fact -> Row]
    BY <1>12, <2>1, <2>2 DEF Verdict
  <2>4. doubt' \in [Fact -> Doubt]
    BY <1>0, <1>12, <2>1 DEF Verdict
  <2> QED BY <1>12, <2>1, <2>3, <2>4, ClassesOfReason DEF Verdict
<1>13. CASE VerdictOnErased \/ Restart
  <2>1. Idle \in [of : Fact \cup {NoFact}, conf : Confidence, doubt : Doubt]
    BY <1>0 DEF Idle
  <2> QED BY <1>13, <2>1, ClassesOfReason
          DEF VerdictOnErased, Restart, PassIsOver, histories
<1> QED
  BY <1>1, <1>2, <1>3, <1>4, <1>5, <1>6, <1>7, <1>8, <1>9, <1>10, <1>11, <1>12,
     <1>13 DEF Next, Owner

\* Every step keeps every column and every local of the judge and the approval in
\* its range.
THEOREM ReviewTypes == Spec => []TypeOK
  BY ReviewTypeInit, ReviewTypeStep, PTL DEF Spec

-----------------------------------------------------------------------------
(* The review. *)

LEMMA ReviewStart == Init => ReviewInv
<1> SUFFICES ASSUME Init PROVE ReviewInv
  OBVIOUS
<1>1. TypeOK
  BY ReviewTypeInit
<1>2. \A f \in Fact : fact[f] = Blank /\ decided[f] = "none" /\ ~Kept(f)
  BY DEF Init, Blank, Kept
<1>3. DismissedIsHeld /\ DecisionStands /\ DecidedIsKept /\ JudgeStaysAway /\ LowExplained
  BY <1>2 DEF DismissedIsHeld, DecisionStands, DecidedIsKept, JudgeStaysAway,
     LowExplained, Blank
<1>4. ApprovalExplained
  BY DEF Init, Idle, ApprovalExplained
<1> QED
  BY <1>1, <1>3, <1>4 DEF ReviewInv

\* What the rows and the decisions say stays true when neither the rows nor the
\* histories change and the judge copies no fact that the owner has decided on.
LEMMA JudgeStep ==
  ASSUME ReviewInv, TypeOK', UNCHANGED <<fact, approving, histories>>,
         \A f \in Fact : WithJudge(f)' => WithJudge(f) \/ Eligible(f)
  PROVE  ReviewInv'
<1> USE DEF ReviewInv, histories
<1>1. DismissedIsHeld' /\ DecisionStands' /\ DecidedIsKept' /\ LowExplained'
        /\ ApprovalExplained'
  BY DEF DismissedIsHeld, DecisionStands, DecidedIsKept, LowExplained,
     ApprovalExplained, Kept, HoldLoweredConfidence
<1>2. ASSUME NEW f \in Fact, decided[f] # "none", ~raced[f] PROVE ~Eligible(f)
  <2>1. /\ Kept(f)
        /\ decided[f] = "dismissed" => fact[f].held /\ fact[f].dismissed
        /\ decided[f] = "held" => fact[f].held /\ fact[f].why = "owner"
        /\ decided[f] = "approved" => ~fact[f].held /\ fact[f].why = "none"
    BY <1>2 DEF DecisionStands, DecidedIsKept
  <2>2. decided[f] \in {"dismissed", "held", "approved"}
    BY <1>2 DEF TypeOK
  <2> QED BY <2>1, <2>2 DEF Eligible, InQueue
<1>3. JudgeStaysAway'
  BY <1>2 DEF JudgeStaysAway
<1> QED
  BY <1>1, <1>3

\* A change of one row that the owner has not decided on, or of columns the
\* decisions do not speak of.
LEMMA OneRowStep ==
  ASSUME ReviewInv, TypeOK', NEW g \in Fact, UNCHANGED <<pass, looking, approving>>,
         \A f \in Fact : f # g => /\ fact'[f] = fact[f] /\ decided'[f] = decided[f]
                                 /\ raced'[f] = raced[f] /\ doubt'[f] = doubt[f],
         fact'[g].dismissed => fact'[g].held,
         \/ decided'[g] = "none"
         \/ /\ decided'[g] = decided[g] /\ raced'[g] = raced[g]
            /\ fact'[g].state = fact[g].state
            /\ fact'[g].held = fact[g].held /\ fact'[g].dismissed = fact[g].dismissed
            /\ fact'[g].why = fact[g].why,
         fact'[g].state = "kept" /\ fact'[g].conf = "low" /\ doubt'[g] = "none" =>
           fact'[g].held /\ fact'[g].why \in Lowering
  PROVE  ReviewInv'
<1> USE DEF ReviewInv, Kept
<1>1. DismissedIsHeld' /\ ApprovalExplained'
  BY DEF DismissedIsHeld, ApprovalExplained
<1>2. DecisionStands' /\ DecidedIsKept'
  BY DEF DecisionStands, DecidedIsKept
<1>3. JudgeStaysAway'
  BY DEF JudgeStaysAway, WithJudge
<1>4. LowExplained'
  BY DEF LowExplained, HoldLoweredConfidence
<1> QED
  BY <1>1, <1>2, <1>3, <1>4

\* A decision to hold or to dismiss some of the facts.
LEMMA OwnersStep ==
  ASSUME ReviewInv, TypeOK', NEW S \in SUBSET Fact, NEW d \in {"held", "dismissed"},
         Decide(S, d), \A f \in Fact \ S : fact'[f] = fact[f],
         \A f \in S : /\ Kept(f)' /\ fact'[f].held
                      /\ d = "held" => fact'[f].why = "owner"
                      /\ d = "dismissed" => fact'[f].dismissed
                      /\ fact'[f].conf = "low" /\ doubt[f] = "none" =>
                           fact'[f].why \in Lowering,
         UNCHANGED <<judge, approving, doubt>>
  PROVE  ReviewInv'
<1> USE DEF ReviewInv
<1>1. \A f \in Fact : /\ decided'[f] = IF f \in S THEN d ELSE decided[f]
                      /\ raced'[f] = IF f \in S THEN WithJudge(f) ELSE raced[f]
                      /\ WithJudge(f)' = WithJudge(f)
  BY DEF Decide, judge, WithJudge
<1>2. ApprovalExplained'
  BY DEF ApprovalExplained
<1>3. ASSUME NEW f \in Fact PROVE fact'[f].dismissed => fact'[f].held
  <2>1. CASE f \in S
    BY <2>1
  <2>2. CASE f \notin S
    BY <2>2 DEF DismissedIsHeld
  <2> QED BY <2>1, <2>2
<1>4. ASSUME NEW f \in Fact, Kept(f)', ~raced'[f]
      PROVE  /\ decided'[f] = "dismissed" => fact'[f].held /\ fact'[f].dismissed
             /\ decided'[f] = "held" => fact'[f].held /\ fact'[f].why = "owner"
             /\ decided'[f] = "approved" => ~fact'[f].held /\ fact'[f].why = "none"
  <2>1. CASE f \in S
    <3>1. decided'[f] = d /\ d # "approved" /\ fact'[f].held
      BY <1>1, <2>1
    <3> QED BY <2>1, <3>1
  <2>2. CASE f \notin S
    <3>1. fact'[f] = fact[f] /\ decided'[f] = decided[f] /\ raced'[f] = raced[f]
      BY <1>1, <2>2
    <3>2. Kept(f) /\ ~raced[f]
      BY <1>4, <3>1 DEF Kept
    <3> QED BY <3>1, <3>2 DEF DecisionStands
  <2> QED BY <2>1, <2>2
<1>5. ASSUME NEW f \in Fact, decided'[f] # "none" PROVE Kept(f)'
  BY <1>1, <1>5 DEF DecidedIsKept, Kept
<1>6. JudgeStaysAway'
  BY <1>1 DEF JudgeStaysAway
<1>7. ASSUME NEW f \in Fact, Kept(f)', fact'[f].conf = "low", doubt'[f] = "none"
      PROVE  fact'[f].held /\ fact'[f].why \in Lowering
  <2>1. CASE f \in S
    BY <1>7, <2>1
  <2>2. CASE f \notin S
    BY <1>7, <2>2 DEF LowExplained, HoldLoweredConfidence, Kept
  <2> QED BY <2>1, <2>2
<1>8. DismissedIsHeld' /\ DecidedIsKept'
  BY <1>3, <1>5 DEF DismissedIsHeld, DecidedIsKept
<1>9. DecisionStands'
  BY <1>4 DEF DecisionStands
<1>10. LowExplained'
  BY <1>7 DEF LowExplained, HoldLoweredConfidence
<1> QED
  BY <1>2, <1>6, <1>8, <1>9, <1>10

\* An erased source takes back what was decided on the facts it puts on hold.
LEMMA SourceStep ==
  ASSUME ReviewInv, TypeOK', NEW S \in SUBSET Fact,
         \A f \in Fact \ S : fact'[f] = fact[f] /\ decided'[f] = decided[f],
         \A f \in S : /\ decided'[f] = "none" /\ fact'[f].held
                      /\ ~(fact'[f].conf = "low" /\ doubt[f] = "none"),
         UNCHANGED <<judge, approving, raced, doubt>>
  PROVE  ReviewInv'
<1> USE DEF ReviewInv
<1>1. ApprovalExplained'
  BY DEF ApprovalExplained
<1>2. ASSUME NEW f \in Fact PROVE fact'[f].dismissed => fact'[f].held
  <2>1. CASE f \in S
    BY <2>1
  <2>2. CASE f \notin S
    BY <2>2 DEF DismissedIsHeld
  <2> QED BY <2>1, <2>2
<1>3. ASSUME NEW f \in Fact, decided'[f] # "none"
      PROVE  fact'[f] = fact[f] /\ decided'[f] = decided[f]
  BY <1>3
<1>4. DismissedIsHeld'
  BY <1>2 DEF DismissedIsHeld
<1>5. DecisionStands' /\ DecidedIsKept'
  BY <1>3 DEF DecisionStands, DecidedIsKept, Kept
<1>6. JudgeStaysAway'
  BY <1>3 DEF JudgeStaysAway, WithJudge, judge
<1>7. LowExplained'
  BY DEF LowExplained, HoldLoweredConfidence, Kept
<1> QED
  BY <1>1, <1>4, <1>5, <1>6, <1>7

LEMMA ReviewStep == ReviewInv /\ [Next]_vars => ReviewInv'
<1> SUFFICES ASSUME ReviewInv, [Next]_vars PROVE ReviewInv'
  OBVIOUS
<1>0. /\ TypeOK /\ TypeOK'
      /\ fact \in [Fact -> Row] /\ \A f \in Fact : fact[f] \in Row
      /\ decided \in [Fact -> {"none", "approved", "dismissed", "held"}]
      /\ raced \in [Fact -> BOOLEAN] /\ doubt \in [Fact -> Doubt]
  BY ReviewTypeStep DEF ReviewInv, TypeOK
<1>1. CASE UNCHANGED vars
  BY <1>0, <1>1, JudgeStep DEF vars, judge, WithJudge
<1>2. ASSUME NEW f \in Fact, NEW why \in Births, NEW sent \in {"low", "high"},
             Save(f, why, sent)
      PROVE  ReviewInv'
  <2>1. decided'[f] = "none"
    BY <1>0, <1>2 DEF Save, ReviewInv, DecidedIsKept, Kept
  <2>2. /\ ~fact'[f].dismissed
        /\ fact'[f].conf = "low" /\ doubt'[f] = "none" =>
             fact'[f].held /\ fact'[f].why \in Lowering
    BY <1>0, <1>2, ClassesOfReason DEF Save
  <2> QED BY <1>0, <1>2, <2>1, <2>2, OneRowStep DEF Save, judge
<1>3. ASSUME NEW f \in Fact, NEW c \in Confidence, SetConfidence(f, c) PROVE ReviewInv'
  <2>1. /\ fact'[f] = [fact[f] EXCEPT !.conf = c]
        /\ doubt'[f] = IF c = "low" THEN "owner" ELSE "none"
        /\ UNCHANGED <<pass, looking, approving, decided, raced>>
        /\ \A g \in Fact : g # f => fact'[g] = fact[g] /\ doubt'[g] = doubt[g]
    BY <1>0, <1>3 DEF SetConfidence, judge
  <2>2. /\ fact'[f].state = fact[f].state /\ fact'[f].held = fact[f].held
        /\ fact'[f].dismissed = fact[f].dismissed /\ fact'[f].why = fact[f].why
        /\ fact'[f].conf = c
    BY <1>0, <2>1 DEF Row
  <2>3. fact[f].dismissed => fact[f].held
    BY DEF ReviewInv, DismissedIsHeld
  <2> QED BY <1>0, <2>1, <2>2, <2>3, OneRowStep, ZenonT(40)
<1>4. ASSUME NEW f \in Fact, Supersede(f) PROVE ReviewInv'
  <2>1. /\ fact'[f] = [fact[f] EXCEPT !.retired = TRUE]
        /\ UNCHANGED <<pass, looking, approving, decided, raced, doubt>>
        /\ \A g \in Fact : g # f => fact'[g] = fact[g]
    BY <1>0, <1>4 DEF Supersede, judge, histories
  <2>2. /\ fact'[f].state = fact[f].state /\ fact'[f].held = fact[f].held
        /\ fact'[f].dismissed = fact[f].dismissed /\ fact'[f].why = fact[f].why
        /\ fact'[f].conf = fact[f].conf
    BY <1>0, <2>1 DEF Row
  <2>3. /\ fact[f].dismissed => fact[f].held
        /\ fact[f].state = "kept" /\ fact[f].conf = "low" /\ doubt[f] = "none" =>
             fact[f].held /\ fact[f].why \in Lowering
    BY DEF ReviewInv, DismissedIsHeld, LowExplained, Kept, HoldLoweredConfidence
  <2> QED BY <1>0, <2>1, <2>2, <2>3, OneRowStep
<1>5. ASSUME NEW f \in Fact, Erase(f) PROVE ReviewInv'
  <2>1. fact'[f] = [Blank EXCEPT !.state = "erased"] /\ decided'[f] = "none"
    BY <1>0, <1>5 DEF Erase
  <2>2. ~fact'[f].dismissed /\ fact'[f].state = "erased"
    BY <2>1 DEF Blank
  <2> QED BY <1>0, <1>5, <2>1, <2>2, OneRowStep DEF Erase
<1>6. ASSUME NEW f \in Fact, ApproveReads(f) PROVE ReviewInv'
  <2>1. approving'.conf = "low" => approving'.doubt # "none"
    BY <1>6 DEF ApproveReads, ReviewInv, LowExplained
  <2> QED BY <1>0, <1>6, <2>1 DEF ApproveReads, ReviewInv, DismissedIsHeld, DecisionStands,
          DecidedIsKept, JudgeStaysAway, LowExplained, ApprovalExplained, judge,
          histories, Kept, WithJudge, HoldLoweredConfidence
<1>7. ASSUME NEW f \in Fact, Look(f) \/ DayPasses(f) PROVE ReviewInv'
  BY <1>0, <1>7, JudgeStep DEF Look, DayPasses, WithJudge
<1>8. ASSUME NEW S \in SUBSET Fact, PassStarts(S) PROVE ReviewInv'
  BY <1>0, <1>8, JudgeStep DEF PassStarts, WithJudge
<1>9. CASE VerdictOnErased
  BY <1>0, <1>9, ReviewAssumption, JudgeStep
     DEF ReviewAssumption, VerdictOnErased, PassIsOver, WithJudge
<1>10. CASE Restart
  <2>1. \A f \in Fact : ~WithJudge(f)'
    BY <1>10, ReviewAssumption DEF ReviewAssumption, Restart, PassIsOver, WithJudge
  <2> QED BY <1>0, <1>10, <2>1 DEF Restart, ReviewInv, DismissedIsHeld, DecisionStands,
          DecidedIsKept, JudgeStaysAway, LowExplained, ApprovalExplained, Idle,
          histories, Kept, HoldLoweredConfidence
<1>12. ASSUME NEW S \in SUBSET Fact, Quarantine(S) PROVE ReviewInv'
  <2>1. \A f \in S : /\ fact'[f] = [fact[f] EXCEPT !.held = TRUE, !.why = "owner"]
                     /\ Kept(f) /\ ~fact[f].held
    BY <1>12 DEF Quarantine
  <2>2. ASSUME NEW f \in S
        PROVE  /\ fact'[f].held /\ fact'[f].why = "owner"
               /\ fact'[f].state = fact[f].state /\ fact'[f].conf = fact[f].conf
    <3>1. fact[f] \in Row /\ fact'[f] = [fact[f] EXCEPT !.held = TRUE, !.why = "owner"]
      BY <1>0, <2>1
    <3> QED BY <3>1 DEF Row
  <2>3. \A f \in S : ~(fact[f].conf = "low" /\ doubt[f] = "none")
    BY <2>1 DEF ReviewInv, LowExplained
  <2>4. /\ \A f \in Fact \ S : fact'[f] = fact[f]
        /\ Decide(S, "held") /\ UNCHANGED <<judge, approving, doubt>>
    BY <1>12 DEF Quarantine
  <2>5. \A f \in S : /\ Kept(f)' /\ fact'[f].held
                     /\ "held" = "held" => fact'[f].why = "owner"
                     /\ "held" = "dismissed" => fact'[f].dismissed
                     /\ fact'[f].conf = "low" /\ doubt[f] = "none" =>
                          fact'[f].why \in Lowering
    BY <2>1, <2>2, <2>3 DEF Kept
  <2> QED BY <1>0, <2>4, <2>5, OwnersStep
<1>13. ASSUME NEW S \in SUBSET Fact, Dismiss(S) PROVE ReviewInv'
  <2>1. \A f \in S : /\ fact'[f] = [fact[f] EXCEPT !.dismissed = TRUE]
                     /\ Kept(f) /\ fact[f].held
    BY <1>13 DEF Dismiss
  <2>2. ASSUME NEW f \in S
        PROVE  /\ fact'[f].held = fact[f].held /\ fact'[f].dismissed
               /\ fact'[f].why = fact[f].why
               /\ fact'[f].state = fact[f].state /\ fact'[f].conf = fact[f].conf
    <3>1. fact[f] \in Row /\ fact'[f] = [fact[f] EXCEPT !.dismissed = TRUE]
      BY <1>0, <2>1
    <3> QED BY <3>1 DEF Row
  <2>3. \A f \in S : fact[f].conf = "low" /\ doubt[f] = "none" => fact[f].why \in Lowering
    BY <2>1 DEF ReviewInv, LowExplained, HoldLoweredConfidence
  <2>4. /\ \A f \in Fact \ S : fact'[f] = fact[f]
        /\ Decide(S, "dismissed") /\ UNCHANGED <<judge, approving, doubt>>
    BY <1>13 DEF Dismiss
  <2>5. \A f \in S : Kept(f)' /\ fact'[f].held
    BY <2>1, <2>2 DEF Kept
  <2> QED BY <1>0, <2>1, <2>2, <2>3, <2>4, <2>5, OwnersStep
<1>14. ASSUME NEW S \in SUBSET Fact, HoldSourceOf(S) PROVE ReviewInv'
  <2>1. \A f \in S : /\ fact'[f] = [fact[f] EXCEPT !.held = TRUE, !.why = "source-deleted"]
                     /\ decided'[f] = "none" /\ Kept(f) /\ ~fact[f].held
    BY <1>14 DEF HoldSourceOf
  <2>2. ASSUME NEW f \in S PROVE fact'[f].held /\ fact'[f].conf = fact[f].conf
    <3>1. fact[f] \in Row /\ fact'[f] = [fact[f] EXCEPT !.held = TRUE, !.why = "source-deleted"]
      BY <1>0, <2>1
    <3> QED BY <3>1 DEF Row
  <2>3. /\ \A f \in Fact \ S : fact'[f] = fact[f] /\ decided'[f] = decided[f]
        /\ UNCHANGED <<judge, approving, raced, doubt>>
    BY <1>14 DEF HoldSourceOf
  <2>4. \A f \in S : ~(fact[f].conf = "low" /\ doubt[f] = "none")
    BY <2>1 DEF ReviewInv, LowExplained
  <2>5. \A f \in S : /\ decided'[f] = "none" /\ fact'[f].held
                     /\ ~(fact'[f].conf = "low" /\ doubt[f] = "none")
    BY <2>1, <2>2, <2>4
  <2> QED BY <1>0, <2>3, <2>5, SourceStep
<1>15. CASE ApproveWrites
  <2> DEFINE g == approving.of
  <2> USE <1>0, <1>15 DEF ReviewInv
  <2>1. g \in Fact /\ approving' = Idle /\ UNCHANGED judge
    BY DEF ApproveWrites, TypeOK
  <2>2. ApprovalExplained'
    BY <2>1 DEF ApprovalExplained, Idle
  <2>3. CASE ~Kept(g)
    BY <2>1, <2>2, <2>3 DEF ApproveWrites, DismissedIsHeld, DecisionStands,
       DecidedIsKept, JudgeStaysAway, LowExplained, judge, Kept, WithJudge,
       HoldLoweredConfidence
  <2>4. CASE Kept(g)
    <3>1. /\ fact' = [fact EXCEPT ![g].held = FALSE, ![g].dismissed = FALSE,
                                  ![g].why = "none", ![g].conf = approving.conf]
          /\ Decide({g}, "approved")
          /\ doubt' = [doubt EXCEPT ![g] = approving.doubt]
      BY <2>4 DEF ApproveWrites
    <3>2. /\ ~fact'[g].held /\ ~fact'[g].dismissed /\ fact'[g].why = "none"
          /\ fact'[g].conf = approving.conf /\ fact'[g].state = fact[g].state
      <4>1. fact'[g] = [fact[g] EXCEPT !.held = FALSE, !.dismissed = FALSE,
                          !.why = "none", !.conf = approving.conf]
        BY <2>1, <3>1
      <4> HIDE DEF g
      <4> QED BY <2>1, <4>1 DEF Row
    <3>3. \A f \in Fact : f # g => fact'[f] = fact[f]
      BY <2>1, <3>1
    <3>4. /\ \A f \in Fact : f # g => decided'[f] = decided[f] /\ raced'[f] = raced[f]
                                      /\ doubt'[f] = doubt[f]
          /\ decided'[g] = "approved" /\ raced'[g] = WithJudge(g)
          /\ doubt'[g] = approving.doubt
          /\ \A f \in Fact : WithJudge(f)' = WithJudge(f)
      BY <2>1, <3>1 DEF Decide, WithJudge, judge
    <3> HIDE DEF g
    <3>5. DismissedIsHeld'
      BY <3>2, <3>3 DEF DismissedIsHeld
    <3>6. DecisionStands' /\ DecidedIsKept'
      BY <2>4, <3>2, <3>3, <3>4 DEF DecisionStands, DecidedIsKept, Kept
    <3>7. JudgeStaysAway'
      BY <3>4 DEF JudgeStaysAway
    <3>8. LowExplained'
      BY <3>2, <3>3, <3>4 DEF LowExplained, ApprovalExplained, HoldLoweredConfidence, Kept
    <3> QED BY <2>2, <3>5, <3>6, <3>7, <3>8
  <2> QED BY <2>3, <2>4
<1>16. ASSUME NEW proved \in BOOLEAN, Verdict(proved) PROVE ReviewInv'
  <2> DEFINE g == looking
  <2> USE <1>0, <1>16 DEF ReviewInv
  <2>1. /\ g \in Fact /\ Kept(g) /\ WithJudge(g)
        /\ pass' = pass /\ looking' = NoFact
        /\ UNCHANGED <<approving, decided, raced>>
    BY DEF Verdict, TypeOK, WithJudge
  <2>2. \A f \in Fact : WithJudge(f)' => WithJudge(f)
    BY <2>1, ReviewAssumption DEF WithJudge, ReviewAssumption
  <2>3. decided[g] = "none" \/ raced[g]
    BY <2>1 DEF JudgeStaysAway
  <2>4. \A f \in Fact : f # g => fact'[f] = fact[f] /\ doubt'[f] = doubt[f]
    BY <2>1 DEF Verdict
  <2>5. /\ fact'[g].state = fact[g].state /\ fact'[g].conf = fact[g].conf
        /\ fact'[g].dismissed => fact'[g].held
        /\ fact'[g].conf = "low" /\ doubt'[g] = "none" =>
             fact'[g].held /\ fact'[g].why \in Lowering
    <3>1. CASE fact' = fact /\ doubt' = doubt
      BY <2>1, <3>1 DEF DismissedIsHeld, LowExplained, HoldLoweredConfidence
    <3>2. CASE proved /\ copied[g] = "grounding"
      <4>1. /\ fact'[g] = Cleared(fact[g])
            /\ fact[g].conf = "low" => doubt'[g] = "judge"
        BY <2>1, <3>2 DEF Verdict
      <4>2. /\ fact'[g].state = fact[g].state /\ fact'[g].conf = fact[g].conf
            /\ ~fact'[g].dismissed
        <5> HIDE DEF g
        <5> QED BY <2>1, <4>1 DEF Cleared, Row
      <4> QED BY <4>1, <4>2
    <3>3. CASE proved /\ copied[g] # "grounding"
      <4>1. fact'[g] = Relabelled(fact[g]) /\ doubt' = doubt
        BY <2>1, <3>3 DEF Verdict
      <4>2. /\ fact'[g].state = fact[g].state /\ fact'[g].conf = fact[g].conf
            /\ fact'[g].dismissed = fact[g].dismissed /\ fact'[g].held = fact[g].held
            /\ fact'[g].why = "judged"
        <5> HIDE DEF g
        <5> QED BY <2>1, <4>1 DEF Relabelled, Row
      <4>3. "judged" \in Lowering
        BY DEF Lowering, MinerHold
      <4> QED BY <2>1, <4>1, <4>2, <4>3 DEF DismissedIsHeld, LowExplained
    <3>4. ~proved => fact' = fact /\ doubt' = doubt
      BY DEF Verdict
    <3> QED BY <3>1, <3>2, <3>3, <3>4
  <2> HIDE DEF g
  <2>6. DismissedIsHeld' /\ ApprovalExplained'
    BY <2>1, <2>4, <2>5 DEF DismissedIsHeld, ApprovalExplained
  <2>7. DecisionStands' /\ DecidedIsKept'
    BY <2>1, <2>3, <2>4, <2>5 DEF DecisionStands, DecidedIsKept, Kept
  <2>8. JudgeStaysAway'
    BY <2>1, <2>2 DEF JudgeStaysAway
  <2>9. LowExplained'
    BY <2>4, <2>5 DEF LowExplained, HoldLoweredConfidence, Kept
  <2> QED BY <2>6, <2>7, <2>8, <2>9
<1> QED
  BY <1>1, <1>2, <1>3, <1>4, <1>5, <1>6, <1>7, <1>8, <1>9, <1>10, <1>12, <1>13,
     <1>14, <1>15, <1>16 DEF Next, Owner, Confidence

LEMMA ReviewAlways == Spec => []ReviewInv
  BY ReviewStart, ReviewStep, PTL DEF Spec

\* No interleaving of approvals, dismissals and verdicts leaves a fact dismissed and
\* in use.
THEOREM DismissedStaysHeld == Spec => []DismissedIsHeld
<1>1. ReviewInv => DismissedIsHeld
  BY DEF ReviewInv
<1> QED
  BY <1>1, ReviewAlways, PTL

\* What the owner decides while the judge has no copy of the fact stands.
THEOREM OwnersDecisionStands == Spec => []DecisionStands
<1>1. ReviewInv => DecisionStands
  BY DEF ReviewInv
<1> QED
  BY <1>1, ReviewAlways, PTL

\* A fact in use is doubtful only for a cause that outlives the hold.
THEOREM DoubtIsExplained == Spec => []DoubtHasACause
<1>1. ReviewInv => DoubtHasACause
  BY DEF ReviewInv, LowExplained, DoubtHasACause
<1> QED
  BY <1>1, ReviewAlways, PTL

-----------------------------------------------------------------------------
(* JudgeRounds. *)

\* What a pass has still to look at was due when it began, and is.
BatchIsDue == \A i \in batch : age[i] = Day

RoundsInv == RoundsTypeOK /\ BatchIsDue

-----------------------------------------------------------------------------
LEMMA FirstOfDue == ASSUME NEW D PROVE FirstOf(D) \subseteq D
  BY DEF FirstOf

\* An hour more, to the day and no further.
LEMMA Older ==
  ASSUME NEW a \in 0..Day
  PROVE  (IF a < Day THEN a + 1 ELSE Day) \in 0..Day
  BY JudgeRoundsAssumption DEF JudgeRoundsAssumption

LEMMA RoundsStart == RoundsInit => RoundsInv
  BY JudgeRoundsAssumption
     DEF JudgeRoundsAssumption, RoundsInit, RoundsInv, RoundsTypeOK, BatchIsDue, Id

LEMMA RoundsStep == RoundsInv /\ [RoundsNext]_roundsVars => RoundsInv'
<1> SUFFICES ASSUME RoundsInv, [RoundsNext]_roundsVars PROVE RoundsInv'
  OBVIOUS
<1> USE DEF RoundsInv, RoundsTypeOK, BatchIsDue
<1>1. ASSUME NEW i \in Id, Arrives(i) PROVE RoundsInv'
  BY <1>1 DEF Arrives
<1>2. ASSUME NEW i \in Id, Leaves(i) PROVE RoundsInv'
  BY <1>2 DEF Leaves
<1>3. CASE PassChooses
  <2>1. age' \in [Id -> 0..Day]
    BY <1>3, Older DEF PassChooses
  <2>2. batch' \subseteq {i \in Id : Due(i, age')}
    BY <1>3, FirstOfDue DEF PassChooses
  <2>3. \A i \in batch' : i \in Id /\ age'[i] = Day
    BY <2>2 DEF Due
  <2> QED BY <1>3, <2>1, <2>3 DEF PassChooses
<1>4. ASSUME NEW i \in Id, Looks(i) PROVE RoundsInv'
  <2>1. age' \in [Id -> 0..Day]
    BY <1>4, JudgeRoundsAssumption DEF JudgeRoundsAssumption, Looks
  <2>2. \A j \in batch' : j \in batch /\ j # i /\ age'[j] = age[j]
    BY <1>4 DEF Looks
  <2> QED BY <1>4, <2>1, <2>2 DEF Looks
<1>5. ASSUME NEW i \in Id, LooksAtErased(i) PROVE RoundsInv'
  BY <1>5 DEF LooksAtErased
<1>6. CASE UNCHANGED roundsVars
  BY <1>6 DEF roundsVars
<1> QED
  BY <1>1, <1>2, <1>3, <1>4, <1>5, <1>6 DEF RoundsNext

\* Every row stays in one of its states, and its age within the day.
THEOREM RoundsTypes == RoundsSpec => []RoundsTypeOK
<1>1. RoundsInv => RoundsTypeOK
  BY DEF RoundsInv
<1> QED
  BY <1>1, RoundsStart, RoundsStep, PTL DEF RoundsSpec

\* A pass, a look, an arrival, a decision: none makes a row younger that is not a
\* day old.
LEMMA LookStep ==
  RoundsInv /\ [RoundsNext]_roundsVars =>
    [\A i \in Id : age'[i] < age[i] => age[i] = Day]_roundsVars
<1> SUFFICES ASSUME RoundsInv, RoundsNext, NEW i \in Id, age'[i] < age[i] PROVE age[i] = Day
  OBVIOUS
<1> USE DEF RoundsInv, RoundsTypeOK, BatchIsDue
<1>0. age[i] \in 0..Day /\ Day \in Nat
  BY JudgeRoundsAssumption DEF JudgeRoundsAssumption
<1>1. ~(age' = age)
  BY <1>0
<1>2. CASE PassChooses
  <2>1. age'[i] = IF age[i] < Day THEN age[i] + 1 ELSE Day
    BY <1>2 DEF PassChooses
  <2> QED BY <1>0, <2>1
<1>3. ASSUME NEW j \in Id, Looks(j) PROVE age[i] = Day
  <2>1. i = j
    BY <1>0, <1>3 DEF Looks
  <2> QED BY <1>3, <2>1 DEF Looks
<1> QED
  BY <1>1, <1>2, <1>3 DEF RoundsNext, Arrives, Leaves, LooksAtErased

\* The judge looks at a row once a day at most.
THEOREM LooksOnceADay == RoundsSpec => OnceADay
<1>1. RoundsInv /\ [RoundsNext]_roundsVars => RoundsInv'
  BY RoundsStep
<1> QED
  BY <1>1, RoundsStart, LookStep, PTL DEF RoundsSpec, OnceADay
=============================================================================

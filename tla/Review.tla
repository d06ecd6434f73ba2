------------------------------- MODULE Review -------------------------------
(***************************************************************************)
(* The review of held facts (memory_service/ledger.py, erasers.py, the     *)
(* routes of api.py that call them, and judge.py).                         *)
(*                                                                         *)
(* Three parties write the same columns of a fact's row: the owner, whose  *)
(* handlers run in threads of their own; the writers that hold facts (the  *)
(* walls, the write gate, an erased source); and the judge, which copies a *)
(* batch of rows, spends minutes in a model call on each, and then writes  *)
(* by id alone.  Approval reads a row and writes it in two statements.     *)
(*                                                                         *)
(* Reasons are kept as the classes the code tells apart.  What the judge's *)
(* model says is left open: any verdict, on any row it looks at.           *)
(***************************************************************************)
EXTENDS Naturals

CONSTANTS
  Fact,   \* ids a fact can get
  NoFact, \* the judge looks at nothing; no approval is being written
  Births  \* the reasons facts are saved under, "none" for a fact in use

\* The classes of quarantine_reason.  "mined" is a miner's hold the judge leaves
\* to people: another wall, or several flags on one row.
MinerHold == {"grounding", "persona", "judged", "mined"}
Lowering == MinerHold \cup {"origin"}
Reason == Lowering \cup {"none", "web", "owner", "source-deleted", "cleared"}
SavedUnder == (Lowering \ {"judged"}) \cup {"none", "web"}
Confidence == {"low", "high"}
Doubt == {"none", "saved", "owner", "judge"}

ASSUME ReviewAssumption == NoFact \notin Fact /\ Births \subseteq SavedUnder

\* A row of facts: where it is, quarantined_at and review_dismissed_at as flags,
\* invalidated_at as a flag, quarantine_reason, confidence (low, or not low).
Row == [state : {"unborn", "kept", "erased"}, held : BOOLEAN, dismissed : BOOLEAN,
        retired : BOOLEAN, why : Reason, conf : Confidence]

VARIABLES
  fact,      \* fact[f]: the row
  recent,    \* recent[f]: judge_attempts says f was looked at within the day
  pass,      \* the rows the judge's pass has still to look at
  looking,   \* the row in the judge's model call, or NoFact
  copied,    \* copied[f]: the reason the pass read when it chose f
  approving, \* an approval between its read and its write: the fact or NoFact,
             \* the confidence to write, and what explained it (history)
  decided,   \* history: the owner's last decision on f
  raced,     \* history: that decision was made while the judge had a copy of f
  doubt      \* history: what gave f a low confidence that approval may keep

judge == <<recent, pass, looking, copied>>
histories == <<decided, raced, doubt>>
vars == <<fact, judge, approving, histories>>

Kept(f) == fact[f].state = "kept"
InQueue(f) == Kept(f) /\ fact[f].held /\ ~fact[f].dismissed
WithJudge(f) == f \in pass \/ f = looking

TypeOK ==
  /\ fact \in [Fact -> Row]
  /\ recent \in [Fact -> BOOLEAN]
  /\ pass \in SUBSET Fact
  /\ looking \in Fact \cup {NoFact}
  /\ copied \in [Fact -> Reason]
  /\ approving \in [of : Fact \cup {NoFact}, conf : Confidence, doubt : Doubt]
  /\ decided \in [Fact -> {"none", "approved", "dismissed", "held"}]
  /\ raced \in [Fact -> BOOLEAN]
  /\ doubt \in [Fact -> Doubt]

Idle == [of |-> NoFact, conf |-> "high", doubt |-> "none"]

Blank == [state |-> "unborn", held |-> FALSE, dismissed |-> FALSE, retired |-> FALSE,
          why |-> "none", conf |-> "high"]

Init ==
  /\ fact = [f \in Fact |-> Blank]
  /\ recent = [f \in Fact |-> FALSE]
  /\ pass = {} /\ looking = NoFact
  /\ copied = [f \in Fact |-> "none"]
  /\ approving = Idle
  /\ decided = [f \in Fact |-> "none"]
  /\ raced = [f \in Fact |-> FALSE]
  /\ doubt = [f \in Fact |-> "none"]

-----------------------------------------------------------------------------
(* Writers. *)

\* add_fact, for a direct save or for the miner.  The holds in Lowering set the
\* confidence to low; a web stamp and a free save keep the one that was sent.
Save(f, why, sent) ==
  /\ fact[f].state = "unborn"
  /\ fact' = [fact EXCEPT ![f] =
       [state |-> "kept", held |-> why # "none", dismissed |-> FALSE, retired |-> FALSE,
        why |-> why, conf |-> IF why \in Lowering THEN "low" ELSE sent]]
  /\ doubt' = [doubt EXCEPT ![f] =
       IF why \notin Lowering /\ sent = "low" THEN "saved" ELSE "none"]
  /\ UNCHANGED <<judge, approving, decided, raced>>

\* mark_superseded, by the owner or the miner.
Supersede(f) ==
  /\ Kept(f) /\ ~fact[f].retired
  /\ fact' = [fact EXCEPT ![f].retired = TRUE]
  /\ UNCHANGED <<judge, approving, histories>>

\* An erased message or a forgotten person: the facts in use are held.
HoldSourceOf(S) ==
  /\ S # {}
  /\ \A f \in S : Kept(f) /\ ~fact[f].retired /\ ~fact[f].held
  /\ fact' = [f \in Fact |-> IF f \in S
                THEN [fact[f] EXCEPT !.held = TRUE, !.why = "source-deleted"]
                ELSE fact[f]]
  /\ decided' = [f \in Fact |-> IF f \in S THEN "none" ELSE decided[f]]
  /\ UNCHANGED <<judge, approving, raced, doubt>>

-----------------------------------------------------------------------------
(* The owner. *)

Decide(S, d) ==
  /\ decided' = [f \in Fact |-> IF f \in S THEN d ELSE decided[f]]
  /\ raced' = [f \in Fact |-> IF f \in S THEN WithJudge(f) ELSE raced[f]]

\* quarantine_many: the rows of the request that are not held yet.
Quarantine(S) ==
  /\ S # {}
  /\ \A f \in S : Kept(f) /\ ~fact[f].held
  /\ fact' = [f \in Fact |-> IF f \in S
                THEN [fact[f] EXCEPT !.held = TRUE, !.why = "owner"] ELSE fact[f]]
  /\ Decide(S, "held")
  /\ UNCHANGED <<judge, approving, doubt>>

\* Mutant of HoldLoweredConfidence: the reason the judge leaves is not known to
\* come from one of the holds.
HoldLoweredUnlessJudged(f) == fact[f].why \in Lowering \ {"judged"}

HoldLoweredConfidence(f) == fact[f].why \in Lowering

\* approve: the row is read, and what its confidence will be is worked out ...
ApproveReads(f) ==
  /\ approving = Idle /\ Kept(f)
  /\ approving' = [of |-> f,
                   conf |-> IF fact[f].conf = "low" /\ HoldLoweredConfidence(f)
                              THEN "high" ELSE fact[f].conf,
                   doubt |-> doubt[f]]
  /\ UNCHANGED <<fact, judge, histories>>

\* ... and written, whatever the row has become, if it is still there.
ApproveWrites ==
  LET f == approving.of IN
  /\ f # NoFact
  /\ approving' = Idle
  /\ IF Kept(f)
       THEN /\ fact' = [fact EXCEPT ![f].held = FALSE, ![f].dismissed = FALSE,
                                    ![f].why = "none", ![f].conf = approving.conf]
            /\ Decide({f}, "approved")
            /\ doubt' = [doubt EXCEPT ![f] = approving.doubt]
       ELSE UNCHANGED <<fact, decided, raced, doubt>>
  /\ UNCHANGED judge

\* dismiss, bulk dismiss, dismiss_all: rows that are held, dismissed or not.
Dismiss(S) ==
  /\ S # {}
  /\ \A f \in S : Kept(f) /\ fact[f].held
  /\ fact' = [f \in Fact |-> IF f \in S
                THEN [fact[f] EXCEPT !.dismissed = TRUE] ELSE fact[f]]
  /\ Decide(S, "dismissed")
  /\ UNCHANGED <<judge, approving, doubt>>

\* PATCH /facts/{id} with a confidence.
SetConfidence(f, c) ==
  /\ Kept(f)
  /\ fact' = [fact EXCEPT ![f].conf = c]
  /\ doubt' = [doubt EXCEPT ![f] = IF c = "low" THEN "owner" ELSE "none"]
  /\ UNCHANGED <<judge, approving, decided, raced>>

\* erase_fact: the row and the judge's record of it.
Erase(f) ==
  /\ Kept(f)
  /\ fact' = [fact EXCEPT ![f] = [Blank EXCEPT !.state = "erased"]]
  /\ recent' = [recent EXCEPT ![f] = FALSE]
  /\ decided' = [decided EXCEPT ![f] = "none"]
  /\ raced' = [raced EXCEPT ![f] = FALSE]
  /\ doubt' = [doubt EXCEPT ![f] = "none"]
  /\ UNCHANGED <<pass, looking, copied, approving>>

-----------------------------------------------------------------------------
(* The judge. *)

\* Mutant of Eligible: dismissed rows are looked at like any other held row.
EligibleIfDismissed(f) ==
  /\ Kept(f) /\ fact[f].held /\ ~fact[f].retired /\ ~recent[f]
  /\ fact[f].why \in {"grounding", "persona"}

\* The rows a pass may look at: in the queue, current, not looked at today, and
\* held by one flag of the two classes.
Eligible(f) ==
  /\ InQueue(f) /\ ~fact[f].retired /\ ~recent[f]
  /\ fact[f].why \in {"grounding", "persona"}

\* _run_pass copies the first rows that qualify.
PassStarts(S) ==
  /\ pass = {} /\ looking = NoFact
  /\ S # {} /\ \A f \in S : Eligible(f)
  /\ pass' = S
  /\ copied' = [f \in Fact |-> IF f \in S THEN fact[f].why ELSE copied[f]]
  /\ UNCHANGED <<fact, recent, looking, approving, histories>>

Look(f) ==
  /\ looking = NoFact /\ f \in pass
  /\ looking' = f
  /\ pass' = pass \ {f}
  /\ UNCHANGED <<fact, recent, copied, approving, histories>>

\* Mutant of Cleared: the dismissal stays on the row.
ClearedAsDismissed(r) == [r EXCEPT !.held = FALSE, !.why = "cleared"]

\* The row as a verdict for it leaves it, going by the copy.
Cleared(r) == [r EXCEPT !.held = FALSE, !.dismissed = FALSE, !.why = "cleared"]
Relabelled(r) == [r EXCEPT !.why = "judged"]

\* The answer is in.  A verified witness clears a grounding hold, "technical"
\* relabels a persona hold, and everything else leaves the row; the attempt is
\* recorded in the same commit.
Verdict(proved) ==
  LET f == looking IN
  /\ f # NoFact /\ Kept(f)
  /\ fact' = IF ~proved THEN fact
             ELSE [fact EXCEPT ![f] = IF copied[f] = "grounding" THEN Cleared(@)
                                      ELSE Relabelled(@)]
  /\ doubt' = IF proved /\ copied[f] = "grounding" /\ fact[f].conf = "low"
                THEN [doubt EXCEPT ![f] = "judge"] ELSE doubt
  /\ recent' = [recent EXCEPT ![f] = TRUE]
  /\ looking' = NoFact
  /\ copied' = [copied EXCEPT ![f] = "none"]
  /\ UNCHANGED <<pass, approving, decided, raced>>

PassIsOver == pass' = {} /\ looking' = NoFact /\ copied' = [f \in Fact |-> "none"]

\* The row was erased during the call: its attempt cannot be recorded (a foreign
\* key), and the exception ends the pass.
VerdictOnErased ==
  /\ looking # NoFact /\ ~Kept(looking)
  /\ PassIsOver
  /\ UNCHANGED <<fact, recent, approving, histories>>

\* ATTEMPT_INTERVAL has passed.
DayPasses(f) ==
  /\ recent[f]
  /\ recent' = [recent EXCEPT ![f] = FALSE]
  /\ UNCHANGED <<fact, pass, looking, copied, approving, histories>>

\* The process dies and comes back: the threads are gone, the rows stay.
Restart ==
  /\ PassIsOver /\ approving' = Idle
  /\ UNCHANGED <<fact, recent, histories>>

-----------------------------------------------------------------------------
\* The routes.  The bulk ones read which ids are in the queue and then act on each, as
\* its own route would: what they add is less than the single ones may do anyway.
Owner ==
  \/ \E f \in Fact :
       \/ \E c \in Confidence : SetConfidence(f, c)
       \/ Supersede(f) \/ ApproveReads(f) \/ Erase(f)
  \/ \E S \in SUBSET Fact : Quarantine(S) \/ Dismiss(S)
  \/ ApproveWrites

Next ==
  \/ Owner
  \/ \E f \in Fact :
       \/ \E why \in Births, sent \in {"low", "high"} : Save(f, why, sent)
       \/ Look(f) \/ DayPasses(f)
  \/ \E S \in SUBSET Fact : HoldSourceOf(S) \/ PassStarts(S)
  \/ \E proved \in BOOLEAN : Verdict(proved)
  \/ VerdictOnErased \/ Restart

Spec == Init /\ [][Next]_vars

-----------------------------------------------------------------------------
(* Properties. *)

\* The queue, the lists and the bulk actions read "dismissed" as a kind of held:
\* no interleaving of approvals, dismissals and verdicts leaves a row dismissed
\* and in use.
DismissedIsHeld == \A f \in Fact : fact[f].dismissed => fact[f].held

\* What the owner decided about a row the judge had no copy of stands until the
\* owner decides again or the row's source is erased: no later pass may touch it.
DecisionStands ==
  \A f \in Fact : Kept(f) /\ ~raced[f] =>
    /\ decided[f] = "dismissed" => fact[f].held /\ fact[f].dismissed
    /\ decided[f] = "held" => fact[f].held /\ fact[f].why = "owner"
    /\ decided[f] = "approved" => ~fact[f].held /\ fact[f].why = "none"

\* A fact in use reads as doubtful only for a reason that outlives the hold: it
\* was saved low, the owner set it low, or the judge (which does not touch the
\* confidence) cleared it.  An approval undoes every other low, under whatever
\* reason the judge has moved the hold to meanwhile.
DoubtHasACause ==
  \A f \in Fact :
    Kept(f) /\ ~fact[f].held /\ fact[f].conf = "low" => doubt[f] # "none"

=============================================================================

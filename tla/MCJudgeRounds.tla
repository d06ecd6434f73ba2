--------------------------- MODULE MCJudgeRounds ---------------------------
(* JudgeRounds with a day of two passes of two rows. *)
EXTENDS JudgeRounds
=============================================================================

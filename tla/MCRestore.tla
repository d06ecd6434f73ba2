----------------------------- MODULE MCRestore -----------------------------
(* Restore with facts and sign-ins that are alike. *)
EXTENDS Restore, TLC

Alike == Permutations(Fact)
=============================================================================

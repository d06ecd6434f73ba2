------------------------------ MODULE MCReview ------------------------------
(* Review on a few facts. *)
EXTENDS Review, TLC

FactSymmetry == Permutations(Fact)
=============================================================================

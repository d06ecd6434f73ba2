------------------------------ MODULE MCDistill ------------------------------
(* Distill on a short conversation and a small ledger. *)
EXTENDS Distill, TLC

Symmetries == Permutations(Claim) \cup Permutations(Runner)
=============================================================================

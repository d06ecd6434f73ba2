----------------------------- MODULE MCPersons -----------------------------
(* Persons with people and recordings that are alike. *)
EXTENDS Persons, TLC

Alike == Permutations(Person) \cup Permutations(Sha)
=============================================================================

----------------------------- MODULE MCRepository -----------------------------
(* Instances of Repository for TLC. *)
EXTENDS Repository, TLC

Symmetry == Permutations(Slugs) \cup Permutations(Workers)
====

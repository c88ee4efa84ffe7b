------------------------------- MODULE MCEvidence -------------------------------
(* Small instances of Evidence. *)
EXTENDS Evidence, TLC

Symmetry == Permutations(Probers) \cup Permutations(Clients) \cup Permutations(Texts) \cup Permutations(Keys)
=================================================================================

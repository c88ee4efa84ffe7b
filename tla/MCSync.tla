------------------------------- MODULE MCSync -------------------------------
(* Small instances of Sync: the definitions and the texts are model values,  *)
(* all alike.                                                                *)
EXTENDS Sync, TLC

Symmetry == Permutations(Defs) \cup Permutations(Texts)

=============================================================================

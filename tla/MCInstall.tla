------------------------------- MODULE MCInstall --------------------------------
(* Small instances of Install. *)
EXTENDS Install, TLC

Symmetry == Permutations(Procs) \cup Permutations(Projects)
=================================================================================

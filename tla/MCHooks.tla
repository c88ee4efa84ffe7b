--------------------------------- MODULE MCHooks ---------------------------------
(* Small instances of Hooks. *)
EXTENDS Hooks, TLC

ProcSymmetry == Permutations(Procs)
=================================================================================

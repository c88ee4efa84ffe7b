----------------------------- MODULE MCCheckpoint -----------------------------
(* Small instances of Checkpoint. *)
EXTENDS Checkpoint
===============================================================================

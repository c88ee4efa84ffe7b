------------------------------- MODULE MCContext --------------------------------
(* Small instances of Context. *)
EXTENDS Context
=================================================================================

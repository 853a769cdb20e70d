-------------------------------- MODULE MCCbs --------------------------------
(* Bounds for model checking Cbs; the values are in the cfg. *)
EXTENDS Cbs
=============================================================================

---------------------------- MODULE MCComposites ----------------------------
(***************************************************************************)
(* Every composite type, with clones, received values and setters.         *)
(***************************************************************************)
EXTENDS Composites

AllTypes == DOMAIN composites
=============================================================================

------------------------------ MODULE MCSender ------------------------------
(***************************************************************************)
(* The sender for TLC.  CREDIT_MOD only has to exceed what the bounds let  *)
(* the credit be: a credit that wraps is then larger than all the sends.   *)
(***************************************************************************)
EXTENDS Sender
=============================================================================

---------------------------- MODULE MCConnection ----------------------------
(***************************************************************************)
(* The connection for TLC: a header of two bytes, a local idle time-out of *)
(* three ticks and a remote one of four of which half may pass before an   *)
(* empty frame is due, an application that lets up to two ticks pass       *)
(* between two calls of connection_dowork.                                 *)
(***************************************************************************)
EXTENDS Connection
=============================================================================

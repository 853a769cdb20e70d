----------------------------- MODULE MCSessions -----------------------------
(***************************************************************************)
(* Sessions for TLC, any of which may be the application's or the peer's;  *)
(* the handles are interchangeable.                                        *)
(***************************************************************************)
EXTENDS Sessions, TLC

Handles == Permutations(Handle)
=============================================================================

--------------------------------- MODULE Xio ---------------------------------
(***************************************************************************)
(* What an io of the library promises to the one that opened it: the       *)
(* interface IO_INTERFACE_DESCRIPTION as connection.c and saslclientio.c   *)
(* use it.  An open reports success at most once, bytes are given only     *)
(* while the io is open, and an io that has been closed, or has failed to  *)
(* open, stays closed until it is opened again.  A failure to open may be  *)
(* reported while the open goes on.                                        *)
(***************************************************************************)
EXTENDS Naturals

VARIABLES
    phase,    \* "closed", "opening", "open", "closing" or "error"
    oks,      \* successes reported for the current open
    data      \* bytes given since the current open

vars == <<phase, oks, data>>

Init == phase = "closed" /\ oks = 0 /\ data = 0

Open == phase = "closed" /\ phase' = "opening" /\ oks' = 0 /\ data' = 0

Opened ==
    /\ phase = "opening"
    /\ oks = 0
    /\ phase' = "open"
    /\ oks' = 1
    /\ UNCHANGED data

NotOpened == phase = "opening" /\ phase' = "closed" /\ UNCHANGED <<oks, data>>

Data ==
    /\ phase = "open"
    /\ data' > data
    /\ UNCHANGED <<phase, oks>>

Fails == phase = "open" /\ phase' = "error" /\ UNCHANGED <<oks, data>>

Close ==
    /\ phase \in {"opening", "open", "error"}
    /\ phase' \in {"closing", "closed"}
    /\ UNCHANGED <<oks, data>>

Closed == phase = "closing" /\ phase' = "closed" /\ UNCHANGED <<oks, data>>

Next == Open \/ Opened \/ NotOpened \/ Data \/ Fails \/ Close \/ Closed

Spec == Init /\ [][Next]_vars
=============================================================================

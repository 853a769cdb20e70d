----------------------------- MODULE Operations -----------------------------
(***************************************************************************)
(* What src/src/cbs.c promises of the operations that its user starts:     *)
(* each one that was accepted completes once, with success only if the     *)
(* peer granted that very operation, unless the user cancelled it, and     *)
(* none is left when the instance is gone.                                 *)
(***************************************************************************)
EXTENDS Naturals

CONSTANT MaxOperations     \* bound: operations accepted

VARIABLES
    status,      \* of each operation
    granted,     \* the operations that the peer has answered with success
    alive        \* the instance has not been destroyed

vars == <<status, granted, alive>>

Ops == 1 .. MaxOperations

Pending == {n \in Ops : status[n] = "pending"}

Init ==
    /\ status = [n \in Ops |-> "new"]
    /\ granted = {}
    /\ alive = TRUE

Submit(n) ==
    /\ alive
    /\ status[n] = "new"
    /\ status' = [status EXCEPT ![n] = "pending"]
    /\ UNCHANGED <<granted, alive>>

Grant(n) ==
    /\ status[n] # "new"
    /\ granted' = granted \cup {n}
    /\ UNCHANGED <<status, alive>>

Succeed(n) ==
    /\ alive
    /\ n \in Pending \cap granted
    /\ status' = [status EXCEPT ![n] = "ok"]
    /\ UNCHANGED <<granted, alive>>

failing(S) == [n \in Ops |-> IF n \in S THEN "failed" ELSE status[n]]

Fail(S) ==
    /\ alive
    /\ status' = failing(S)
    /\ UNCHANGED <<granted, alive>>

Cancel(n) ==
    /\ alive
    /\ n \in Pending
    /\ status' = [status EXCEPT ![n] = "cancelled"]
    /\ UNCHANGED <<granted, alive>>

Destroy ==
    /\ alive
    /\ alive' = FALSE
    /\ status' = failing(Pending)
    /\ UNCHANGED granted

Next ==
    \/ \E n \in Ops : Submit(n) \/ Grant(n) \/ Succeed(n) \/ Cancel(n)
    \/ \E S \in SUBSET Pending : Fail(S)
    \/ Destroy

Spec == Init /\ [][Next]_vars
=============================================================================

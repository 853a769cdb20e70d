------------------------------ MODULE CbsProofs ------------------------------
(***************************************************************************)
(* Proofs about cbs.c on amqp_management.c, for any number of operations,  *)
(* opens, failures and stray messages.                                     *)
(*                                                                         *)
(* The operators of Cbs take the library from one state to another in the  *)
(* middle of an action.  `Step' is what each of them keeps of the          *)
(* operations and of the opens, `Settled' what holds of the states of      *)
(* cbs.c and amqp_management.c whenever no event is under way.             *)
(***************************************************************************)
EXTENDS Cbs, TLAPS

Events == {"none", "open_ok", "open_error", "open_cancelled", "error"}

\* The library in the middle of an action.
Work ==
    [cbs : {"CLOSED", "OPENING", "OPEN", "ERROR"},
     management : {"IDLE", "OPENING", "CLOSING", "OPEN", "ERROR"},
     connected : SUBSET Sides,
     next_message_id : Nat,
     messaging : [Sides -> {"IDLE", "OPENING", "OPEN", "CLOSING", "ERROR"}],
     link : [Sides -> {"DETACHED", "HALF_ATTACHED", "ATTACHED", "ERROR"}],
     begun : SUBSET Sides,
     closed : SUBSET Sides,
     detaching : SUBSET Sides,
     ops : Seq(Operation),
     answers : Nat,
     event : Events,
     fail : SUBSET Sides]

\* The opens that have been answered or are being worked on.
balance(L) == L.answers + (IF L.cbs = "OPENING" THEN 1 ELSE 0)

\* One operation: its pointers are good, and it completes at most once.
Good(op) ==
    /\ op.pending <=> op.cbs_pending
    /\ op.pending => (op.send # "none" <=> ~op.message_send_confirmed)
    /\ op.pending => (op.send_async_context <=> op.send # "none")
    /\ op.send # "none" => op.pending
    /\ op.cbs_pending => op.calls = 0
    /\ op.calls \in {0, 1}

\* What the library may do to an operation unasked: nothing that the user sees,
\* or let it fail.
OpStep(p, q) ==
    Good(p) =>
        /\ Good(q)
        /\ q.message_id = p.message_id
        /\ \/ q.cbs_pending = p.cbs_pending /\ q.calls = p.calls /\ q.result = p.result
           \/ /\ p.cbs_pending /\ p.calls = 0
              /\ ~q.cbs_pending /\ q.calls = 1 /\ q.result = "FAILED"

OpsStep(s, t) == Len(t) = Len(s) /\ \A n \in 1 .. Len(s) : OpStep(s[n], t[n])

Step(L, M) ==
    /\ M \in Work
    /\ balance(M) = balance(L)
    /\ M.next_message_id = L.next_message_id
    /\ OpsStep(L.ops, M.ops)

NoSends(L) == \A n \in 1 .. Len(L.ops) : L.ops[n].send = "none"

Unopened(L) == L.cbs \in {"CLOSED", "OPENING"}

\* cbs.c opens on nothing that is open already, and an amqp_management.c that
\* could not be closed has no sender left that could be closed.
Settled(L) ==
    /\ Unopened(L) => /\ L.management # "OPEN"
                      /\ L.management \in {"CLOSING", "ERROR"} => ~Closable(L, "sender")
    /\ L.cbs = "CLOSED" => L.management # "OPENING"

\* The operations are numbered by their message ids, and what is under way
\* belongs to one of them.
Numbered ==
    /\ Len(lib.ops) <= MaxOperations
    /\ lib.next_message_id = Len(lib.ops)
    /\ \A n \in 1 .. Len(lib.ops) : lib.ops[n].message_id + 1 = n
    /\ \A r \in requests : r.operation \in 1 .. Len(lib.ops) /\ r.message_id + 1 = r.operation
    /\ \A r \in responses : /\ r.operation \in 1 .. Len(lib.ops) /\ r.message_id + 1 = r.operation
                            /\ r.ok => r.operation \in granted

\* The inductive invariant.
IInv ==
    /\ TypeOK
    /\ Settled(lib)
    /\ \A n \in 1 .. Len(lib.ops) : Good(lib.ops[n])
    /\ opens = balance(lib)
    /\ Numbered

-----------------------------------------------------------------------------
(* Operations *)

LEMMA OpFields ==
    ASSUME NEW op \in Operation
    PROVE  /\ op.message_id \in Nat /\ op.calls \in Nat
           /\ op.pending \in BOOLEAN /\ op.cbs_pending \in BOOLEAN
           /\ op.message_send_confirmed \in BOOLEAN /\ op.send_async_context \in BOOLEAN
           /\ op.send \in {"none", "waiting", "transferred"}
           /\ op.result \in {"NONE", "OK", "FAILED"}
BY DEF Operation

\* An operation completes: its record, whatever was in it before.
LEMMA Completed ==
    ASSUME NEW op \in Operation, ~op.pending, NEW result \in {"NONE", "OK", "FAILED"}
    PROVE  on_execute_operation_complete(op, result) =
               [message_id |-> op.message_id, pending |-> FALSE, cbs_pending |-> FALSE,
                message_send_confirmed |-> FALSE, send_async_context |-> FALSE,
                send |-> op.send, result |-> result, calls |-> op.calls + 1]
BY DEF on_execute_operation_complete, freed, Operation

LEMMA SendFails ==
    ASSUME NEW op \in Operation
    PROVE  send_over(op, "ERROR") =
               [message_id |-> op.message_id, pending |-> FALSE, cbs_pending |-> FALSE,
                message_send_confirmed |-> FALSE, send_async_context |-> FALSE,
                send |-> "none", result |-> "FAILED", calls |-> op.calls + 1]
<1> DEFINE p == [[op EXCEPT !.send = "none"] EXCEPT !.pending = FALSE]
<1>1. p \in Operation /\ ~p.pending /\ p.send = "none" /\ p.calls = op.calls
      /\ p.message_id = op.message_id
    BY DEF Operation
<1>2. send_over(op, "ERROR") = on_execute_operation_complete(p, "FAILED")
    BY DEF send_over, on_message_send_complete
<1> HIDE DEF p
<1> QED BY <1>1, <1>2, Completed

failed(op) ==
    [message_id |-> op.message_id, pending |-> FALSE, cbs_pending |-> FALSE,
     message_send_confirmed |-> FALSE, send_async_context |-> FALSE,
     send |-> "none", result |-> "FAILED", calls |-> op.calls + 1]

LEMMA FailedStep ==
    ASSUME NEW op \in Operation, op.pending \/ op.cbs_pending \/ op.send # "none"
    PROVE  /\ failed(op) \in Operation /\ failed(op).send = "none" /\ ~failed(op).cbs_pending
           /\ OpStep(op, failed(op))
<1> DEFINE q == failed(op)
<1>1. op.message_id \in Nat /\ op.calls \in Nat
    BY OpFields
<1>2. /\ ~q.pending /\ ~q.cbs_pending /\ q.send = "none" /\ q.result = "FAILED"
      /\ q.calls = op.calls + 1 /\ q.message_id = op.message_id
    BY DEF failed
<1>3. q \in Operation
    BY <1>1 DEF failed, Operation
<1> HIDE DEF q
<1>4. ASSUME Good(op)
      PROVE  Good(q) /\ op.cbs_pending /\ op.calls = 0 /\ q.calls = 1
    <2>1. op.cbs_pending
        BY <1>4 DEF Good
    <2>2. op.calls = 0
        BY <1>4, <2>1 DEF Good
    <2>3. q.calls = 1
        BY <1>2, <2>2
    <2>4. Good(q)
        BY <1>2, <2>3 DEF Good
    <2> QED BY <2>1, <2>2, <2>3, <2>4
<1>5. OpStep(op, q)
    BY <1>2, <1>4 DEF OpStep
<1> QED BY <1>2, <1>3, <1>5 DEF q

\* What a failing send does, and what is done to an operation without one.
LEMMA SendFailsStep ==
    ASSUME NEW op \in Operation, op.send # "none"
    PROVE  /\ send_over(op, "ERROR") \in Operation
           /\ send_over(op, "ERROR").send = "none"
           /\ OpStep(op, send_over(op, "ERROR"))
<1>1. send_over(op, "ERROR") = failed(op)
    BY SendFails DEF failed
<1> QED BY <1>1, FailedStep

LEMMA PendingFailsStep ==
    ASSUME NEW op \in Operation, op.send = "none", op.pending \/ op.cbs_pending
    PROVE  LET q == on_execute_operation_complete([op EXCEPT !.pending = FALSE], "FAILED")
           IN  /\ q \in Operation /\ q.send = "none" /\ ~q.cbs_pending
               /\ OpStep(op, q)
<1> DEFINE p == [op EXCEPT !.pending = FALSE]
<1>1. p \in Operation /\ ~p.pending /\ p.send = op.send /\ p.calls = op.calls
      /\ p.message_id = op.message_id
    BY DEF Operation
<1>2. on_execute_operation_complete(p, "FAILED") = failed(op)
    BY <1>1, Completed DEF failed
<1> QED BY <1>2, FailedStep

LEMMA OpStepRefl ==
    ASSUME NEW op
    PROVE  OpStep(op, op)
BY DEF OpStep

LEMMA OpStepTrans ==
    ASSUME NEW p, NEW q, NEW r, OpStep(p, q), OpStep(q, r)
    PROVE  OpStep(p, r)
BY DEF OpStep

-----------------------------------------------------------------------------
(* The library: lists of operations *)

LEMMA WorkFields ==
    ASSUME NEW L \in Work
    PROVE  /\ L.cbs \in {"CLOSED", "OPENING", "OPEN", "ERROR"}
           /\ L.management \in {"IDLE", "OPENING", "CLOSING", "OPEN", "ERROR"}
           /\ L.connected \in SUBSET Sides /\ L.next_message_id \in Nat
           /\ L.messaging \in [Sides -> {"IDLE", "OPENING", "OPEN", "CLOSING", "ERROR"}]
           /\ L.link \in [Sides -> {"DETACHED", "HALF_ATTACHED", "ATTACHED", "ERROR"}]
           /\ L.begun \in SUBSET Sides /\ L.closed \in SUBSET Sides /\ L.detaching \in SUBSET Sides
           /\ L.ops \in Seq(Operation) /\ L.answers \in Nat
           /\ L.event \in Events /\ L.fail \in SUBSET Sides
BY DEF Work

LEMMA OpsStepRefl ==
    ASSUME NEW s
    PROVE  OpsStep(s, s)
BY OpStepRefl DEF OpsStep

LEMMA StepRefl ==
    ASSUME NEW L \in Work
    PROVE  Step(L, L)
BY OpsStepRefl DEF Step

LEMMA StepWork ==
    ASSUME NEW L, NEW M, Step(L, M)
    PROVE  M \in Work
BY DEF Step

LEMMA StepTrans ==
    ASSUME NEW L, NEW M, NEW N, Step(L, M), Step(M, N)
    PROVE  Step(L, N)
<1>1. OpsStep(L.ops, N.ops)
    BY OpStepTrans DEF Step, OpsStep
<1> QED BY <1>1 DEF Step

\* All but the operations.
SameStates(L, M) ==
    /\ M.cbs = L.cbs /\ M.management = L.management /\ M.messaging = L.messaging
    /\ M.event = L.event

\* A pass over the operations that lets some of them fail.
LEMMA OpsPass ==
    ASSUME NEW L \in Work, NEW f \in [1 .. Len(L.ops) -> Operation],
           \A n \in 1 .. Len(L.ops) : OpStep(L.ops[n], f[n])
    PROVE  LET M == [L EXCEPT !.ops = f]
           IN  M.ops = f /\ Len(f) = Len(L.ops) /\ SameStates(L, M) /\ Step(L, M)
<1> DEFINE M == [L EXCEPT !.ops = f]
<1>1. L.ops \in Seq(Operation)
    BY WorkFields
<1>2. f \in Seq(Operation) /\ Len(f) = Len(L.ops)
    BY <1>1
<1>3. M \in Work
    BY <1>2 DEF Work
<1>4. /\ M.ops = f /\ M.answers = L.answers /\ M.next_message_id = L.next_message_id
      /\ SameStates(L, M)
    BY DEF Work, SameStates
<1>5. OpsStep(L.ops, f)
    BY <1>2 DEF OpsStep
<1> QED BY <1>2, <1>3, <1>4, <1>5 DEF Step, SameStates, balance

\* The operations in a call of indicate_all_messages_as_error or
\* remove_all_pending_deliveries.
LEMMA SendsFail ==
    ASSUME NEW L \in Work, NEW states, "none" \notin states
    PROVE  LET M == sends_fail(L, states)
           IN  /\ SameStates(L, M) /\ Step(L, M)
               /\ NoSends(L) => NoSends(M)
               /\ {"waiting", "transferred"} \subseteq states => NoSends(M)
<1> DEFINE f == [n \in DOMAIN L.ops |->
                    IF L.ops[n].send \in states THEN send_over(L.ops[n], "ERROR") ELSE L.ops[n]]
<1>1. sends_fail(L, states) = [L EXCEPT !.ops = f]
    BY DEF sends_fail
<1>2. L.ops \in Seq(Operation) /\ DOMAIN L.ops = 1 .. Len(L.ops)
    BY WorkFields
<1>3. ASSUME NEW n \in 1 .. Len(L.ops)
      PROVE  /\ f[n] \in Operation /\ OpStep(L.ops[n], f[n])
             /\ L.ops[n].send = "none" => f[n].send = "none"
             /\ {"waiting", "transferred"} \subseteq states => f[n].send = "none"
    <2>1. L.ops[n] \in Operation
        BY <1>2
    <2>2. CASE L.ops[n].send \in states
        BY <1>2, <2>1, <2>2, SendFailsStep
    <2>3. CASE L.ops[n].send \notin states
        BY <1>2, <2>1, <2>3, OpFields, OpStepRefl
    <2> QED BY <2>2, <2>3
<1>4. f \in [1 .. Len(L.ops) -> Operation]
    BY <1>2, <1>3
<1> HIDE DEF f
<1> QED BY <1>1, <1>3, <1>4, OpsPass DEF NoSends

LEMMA AllAsError ==
    ASSUME NEW L \in Work
    PROVE  LET M == indicate_all_messages_as_error(L)
           IN  SameStates(L, M) /\ Step(L, M) /\ NoSends(M)
BY SendsFail DEF indicate_all_messages_as_error

LEMMA DeliveriesRemoved ==
    ASSUME NEW L \in Work
    PROVE  LET M == remove_all_pending_deliveries(L)
           IN  SameStates(L, M) /\ Step(L, M) /\ (NoSends(L) => NoSends(M))
BY SendsFail DEF remove_all_pending_deliveries

LEMMA PendingClosed ==
    ASSUME NEW L \in Work, NoSends(L)
    PROVE  LET M == all_pending_closed(L)
           IN  SameStates(L, M) /\ Step(L, M) /\ NoSends(M)
<1> DEFINE f == [n \in DOMAIN L.ops |->
                    IF L.ops[n].pending
                    THEN on_execute_operation_complete([L.ops[n] EXCEPT !.pending = FALSE], "FAILED")
                    ELSE L.ops[n]]
<1>1. all_pending_closed(L) = [L EXCEPT !.ops = f]
    BY DEF all_pending_closed
<1>2. L.ops \in Seq(Operation) /\ DOMAIN L.ops = 1 .. Len(L.ops)
    BY WorkFields
<1>3. ASSUME NEW n \in 1 .. Len(L.ops)
      PROVE  f[n] \in Operation /\ OpStep(L.ops[n], f[n]) /\ f[n].send = "none"
    <2>1. L.ops[n] \in Operation /\ L.ops[n].send = "none"
        BY <1>2 DEF NoSends
    <2>2. CASE L.ops[n].pending
        BY <1>2, <2>1, <2>2, PendingFailsStep
    <2>3. CASE ~L.ops[n].pending
        BY <1>2, <2>1, <2>3, OpStepRefl
    <2> QED BY <2>2, <2>3
<1>4. f \in [1 .. Len(L.ops) -> Operation]
    BY <1>2, <1>3
<1> HIDE DEF f
<1> QED BY <1>1, <1>3, <1>4, OpsPass DEF NoSends

-----------------------------------------------------------------------------
(* The library: states *)

\* Assignments to the fields that hold no operations.
WithConnected(L, c) == [L EXCEPT !.connected = c]
WithEvent(L, e) == [L EXCEPT !.event = e]
WithManagement(L, m, e) == [L EXCEPT !.management = m, !.event = e]
WithOnlyManagement(L, m) == [L EXCEPT !.management = m]
WithMessaging(L, s, new) == [L EXCEPT !.messaging[s] = new]
WithLink(L, s, new) == [L EXCEPT !.link[s] = new]
WithClosed(L, c) == [L EXCEPT !.closed = c]
WithDetached(L, c, d) == [L EXCEPT !.closed = c, !.detaching = d]
WithBegun(L, b) == [L EXCEPT !.begun = b]
WithFail(L, F) == [L EXCEPT !.fail = F]

LEMMA SetConnected ==
    ASSUME NEW L \in Work, NEW c \in SUBSET Sides
    PROVE  LET M == WithConnected(L, c)
           IN  Step(L, M) /\ SameStates(L, M) /\ M.ops = L.ops /\ M.link = L.link
<1> DEFINE M == WithConnected(L, c)
<1>1. M \in Work
    BY DEF Work, WithConnected
<1>2. /\ M.ops = L.ops /\ M.answers = L.answers /\ M.next_message_id = L.next_message_id
      /\ M.link = L.link /\ SameStates(L, M)
    BY DEF Work, WithConnected, SameStates
<1> QED BY <1>1, <1>2, OpsStepRefl DEF Step, SameStates, balance

LEMMA SetEvent ==
    ASSUME NEW L \in Work, NEW e \in Events
    PROVE  LET M == WithEvent(L, e)
           IN  /\ Step(L, M) /\ M.cbs = L.cbs /\ M.messaging = L.messaging /\ M.ops = L.ops
               /\ M.event = e /\ M.management = L.management
<1> DEFINE M == WithEvent(L, e)
<1>1. M \in Work
    BY DEF Work, WithEvent
<1>2. /\ M.ops = L.ops /\ M.answers = L.answers /\ M.next_message_id = L.next_message_id
      /\ M.cbs = L.cbs /\ M.messaging = L.messaging /\ M.event = e /\ M.management = L.management
    BY DEF Work, WithEvent
<1> QED BY <1>1, <1>2, OpsStepRefl DEF Step, balance

LEMMA SetManagement ==
    ASSUME NEW L \in Work, NEW e \in Events,
           NEW m \in {"IDLE", "OPENING", "CLOSING", "OPEN", "ERROR"}
    PROVE  LET M == WithManagement(L, m, e)
           IN  /\ Step(L, M) /\ M.cbs = L.cbs /\ M.messaging = L.messaging /\ M.ops = L.ops
               /\ M.event = e /\ M.management = m
<1> DEFINE M == WithManagement(L, m, e)
<1>1. M \in Work
    BY DEF Work, WithManagement
<1>2. /\ M.ops = L.ops /\ M.answers = L.answers /\ M.next_message_id = L.next_message_id
      /\ M.cbs = L.cbs /\ M.messaging = L.messaging /\ M.event = e /\ M.management = m
    BY DEF Work, WithManagement
<1> QED BY <1>1, <1>2, OpsStepRefl DEF Step, balance

LEMMA SetOnlyManagement ==
    ASSUME NEW L \in Work, NEW m \in {"IDLE", "OPENING", "CLOSING", "OPEN", "ERROR"}
    PROVE  LET M == WithOnlyManagement(L, m)
           IN  /\ Step(L, M) /\ M.cbs = L.cbs /\ M.messaging = L.messaging /\ M.ops = L.ops
               /\ M.event = L.event /\ M.management = m
<1> DEFINE M == WithOnlyManagement(L, m)
<1>1. M \in Work
    BY DEF Work, WithOnlyManagement
<1>2. /\ M.ops = L.ops /\ M.answers = L.answers /\ M.next_message_id = L.next_message_id
      /\ M.cbs = L.cbs /\ M.messaging = L.messaging /\ M.event = L.event /\ M.management = m
    BY DEF Work, WithOnlyManagement
<1> QED BY <1>1, <1>2, OpsStepRefl DEF Step, balance

\* M is L but for the state of one side.
Assigned(L, M, s, new) ==
    /\ Step(L, M) /\ M.cbs = L.cbs /\ M.ops = L.ops
    /\ M.event = L.event /\ M.management = L.management
    /\ M.messaging[s] = new
    /\ \A t \in Sides \ {s} : M.messaging[t] = L.messaging[t]

LEMMA SetMessaging ==
    ASSUME NEW L \in Work, NEW s \in Sides, NEW new \in {"IDLE", "OPENING", "OPEN", "CLOSING", "ERROR"}
    PROVE  Assigned(L, WithMessaging(L, s, new), s, new)
<1> DEFINE M == WithMessaging(L, s, new)
<1>1. M \in Work
    BY DEF Work, WithMessaging
<1>2. /\ M.ops = L.ops /\ M.answers = L.answers /\ M.next_message_id = L.next_message_id
      /\ M.cbs = L.cbs /\ M.event = L.event /\ M.management = L.management
      /\ M.messaging[s] = new
      /\ \A t \in Sides \ {s} : M.messaging[t] = L.messaging[t]
    BY DEF Work, WithMessaging
<1>3. Step(L, M)
    BY <1>1, <1>2, OpsStepRefl DEF Step, balance
<1> QED BY <1>2, <1>3 DEF Assigned

LEMMA SetLink ==
    ASSUME NEW L \in Work, NEW s \in Sides, NEW new \in {"DETACHED", "HALF_ATTACHED", "ATTACHED", "ERROR"}
    PROVE  LET M == WithLink(L, s, new)
           IN  Step(L, M) /\ SameStates(L, M) /\ M.ops = L.ops
<1> DEFINE M == WithLink(L, s, new)
<1>1. M \in Work
    BY DEF Work, WithLink
<1>2. /\ M.ops = L.ops /\ M.answers = L.answers /\ M.next_message_id = L.next_message_id
      /\ SameStates(L, M)
    BY DEF Work, WithLink, SameStates
<1> QED BY <1>1, <1>2, OpsStepRefl DEF Step, SameStates, balance

LEMMA SetClosed ==
    ASSUME NEW L \in Work, NEW c \in SUBSET Sides
    PROVE  LET M == WithClosed(L, c)
           IN  Step(L, M) /\ SameStates(L, M) /\ M.ops = L.ops /\ M.link = L.link
<1> DEFINE M == WithClosed(L, c)
<1>1. M \in Work
    BY DEF Work, WithClosed
<1>2. /\ M.ops = L.ops /\ M.answers = L.answers /\ M.next_message_id = L.next_message_id
      /\ M.link = L.link /\ SameStates(L, M)
    BY DEF Work, WithClosed, SameStates
<1> QED BY <1>1, <1>2, OpsStepRefl DEF Step, SameStates, balance

LEMMA SetDetached ==
    ASSUME NEW L \in Work, NEW c \in SUBSET Sides, NEW d \in SUBSET Sides
    PROVE  LET M == WithDetached(L, c, d)
           IN  Step(L, M) /\ SameStates(L, M) /\ M.ops = L.ops /\ M.link = L.link
<1> DEFINE M == WithDetached(L, c, d)
<1>1. M \in Work
    BY DEF Work, WithDetached
<1>2. /\ M.ops = L.ops /\ M.answers = L.answers /\ M.next_message_id = L.next_message_id
      /\ M.link = L.link /\ SameStates(L, M)
    BY DEF Work, WithDetached, SameStates
<1> QED BY <1>1, <1>2, OpsStepRefl DEF Step, SameStates, balance

LEMMA SetBegun ==
    ASSUME NEW L \in Work, NEW b \in SUBSET Sides
    PROVE  LET M == WithBegun(L, b)
           IN  Step(L, M) /\ SameStates(L, M) /\ M.ops = L.ops
<1> DEFINE M == WithBegun(L, b)
<1>1. M \in Work
    BY DEF Work, WithBegun
<1>2. /\ M.ops = L.ops /\ M.answers = L.answers /\ M.next_message_id = L.next_message_id
      /\ SameStates(L, M)
    BY DEF Work, WithBegun, SameStates
<1> QED BY <1>1, <1>2, OpsStepRefl DEF Step, SameStates, balance

LEMMA SetFail ==
    ASSUME NEW L \in Work, NEW F \in SUBSET Sides
    PROVE  LET M == WithFail(L, F)
           IN  Step(L, M) /\ SameStates(L, M) /\ M.ops = L.ops /\ M.fail = F
<1> DEFINE M == WithFail(L, F)
<1>1. M \in Work
    BY DEF Work, WithFail
<1>2. /\ M.ops = L.ops /\ M.answers = L.answers /\ M.next_message_id = L.next_message_id
      /\ SameStates(L, M) /\ M.fail = F
    BY DEF Work, WithFail, SameStates
<1> QED BY <1>1, <1>2, OpsStepRefl DEF Step, SameStates, balance

\* What sender and receiver tell amqp_management.c when they leave OPENING or
\* OPEN, and what it tells cbs.c.
Moves(L, M) ==
    /\ Step(L, M) /\ M.cbs = L.cbs
    /\ NoSends(L) => NoSends(M)
    /\ Closable(M, "sender") => Closable(L, "sender")
    /\ \/ M.management = L.management /\ M.event = L.event
       \/ L.management = "OPENING" /\ M.management = "IDLE" /\ M.event = "open_error"
       \/ L.management = "OPEN" /\ M.management = "ERROR" /\ M.event = "error"
       \/ /\ L.management = "CLOSING" /\ M.management = "ERROR" /\ M.event = "error"
          /\ ~Closable(M, "sender")

LEMMA StateSet ==
    ASSUME NEW L \in Work, NEW s \in Sides, NEW new \in {"IDLE", "CLOSING", "ERROR"}
    PROVE  LET M == set_state(L, s, new)
           IN  /\ Moves(L, M) /\ M.messaging[s] = new
               /\ s = "receiver" \/ new = "CLOSING" =>
                    (L.management = "CLOSING" => M.management = "CLOSING" /\ M.event = L.event)
               /\ \A t \in Sides \ {s} : M.messaging[t] = L.messaging[t]
<1> DEFINE K == WithMessaging(L, s, new)
           M == set_state(L, s, new)
<1>1. CASE L.messaging[s] = new
    <2>1. M = L
        BY <1>1 DEF set_state
    <2> QED BY <1>1, <2>1, StepRefl DEF Moves
<1>2. CASE L.messaging[s] # new
    <2>1. M = state_changed(K, s, new)
        BY <1>2 DEF set_state, WithMessaging
    <2>2. /\ Step(L, K) /\ K \in Work /\ K.cbs = L.cbs /\ K.ops = L.ops
          /\ K.event = L.event /\ K.management = L.management /\ K.messaging[s] = new
          /\ \A t \in Sides \ {s} : K.messaging[t] = L.messaging[t]
        <3>1. new \in {"IDLE", "OPENING", "OPEN", "CLOSING", "ERROR"}
            OBVIOUS
        <3>2. Assigned(L, K, s, new)
            BY <3>1, SetMessaging
        <3> QED BY <3>2, StepWork DEF Assigned
    <2> HIDE DEF K
    <2>3. {"none", "open_ok", "open_error", "open_cancelled", "error"} \subseteq Events
        BY DEF Events
    <2>4. L.management \in {"IDLE", "OPENING", "CLOSING", "OPEN", "ERROR"}
        BY WorkFields
    <2>5. Closable(K, "sender") => Closable(L, "sender")
        BY <2>2 DEF Closable, Sides
    <2>6. NoSends(L) => NoSends(K)
        BY <2>2 DEF NoSends
    <2>7. CASE L.management = "OPENING"
        <3>1. M = WithManagement(K, "IDLE", "open_error")
            BY <2>1, <2>2, <2>7 DEF state_changed, WithManagement
        <3>2. /\ Step(K, M) /\ M.cbs = K.cbs /\ M.messaging = K.messaging /\ M.ops = K.ops
              /\ M.event = "open_error" /\ M.management = "IDLE"
            BY <2>3, <2>2, <3>1, SetManagement
        <3>3. Step(L, M)
            BY <2>2, <3>2, StepTrans
        <3> QED BY <2>2, <2>5, <2>6, <2>7, <3>2, <3>3 DEF Moves, Closable, NoSends
    <2>8. CASE L.management = "OPEN"
        <3>1. M = WithManagement(K, "ERROR", "error")
            BY <2>1, <2>2, <2>8 DEF state_changed, WithManagement
        <3>2. /\ Step(K, M) /\ M.cbs = K.cbs /\ M.messaging = K.messaging /\ M.ops = K.ops
              /\ M.event = "error" /\ M.management = "ERROR"
            BY <2>3, <2>2, <3>1, SetManagement
        <3>3. Step(L, M)
            BY <2>2, <3>2, StepTrans
        <3> QED BY <2>2, <2>5, <2>6, <2>8, <3>2, <3>3 DEF Moves, Closable, NoSends
    <2>9. CASE L.management = "CLOSING" /\ s = "sender" /\ new = "ERROR"
        <3>1. M = WithManagement(K, "ERROR", "error")
            BY <2>1, <2>2, <2>9 DEF state_changed, WithManagement
        <3>2. /\ Step(K, M) /\ M.cbs = K.cbs /\ M.messaging = K.messaging /\ M.ops = K.ops
              /\ M.event = "error" /\ M.management = "ERROR"
            BY <2>3, <2>2, <3>1, SetManagement
        <3>3. Step(L, M)
            BY <2>2, <3>2, StepTrans
        <3> QED BY <2>2, <2>6, <2>9, <3>2, <3>3 DEF Moves, Closable, NoSends
    <2>10. CASE /\ L.management \notin {"OPENING", "OPEN"}
               /\ ~(L.management = "CLOSING" /\ s = "sender" /\ new = "ERROR")
        <3>1. M = K
            BY <2>1, <2>2, <2>10 DEF state_changed
        <3> QED BY <2>2, <2>5, <2>6, <2>10, <3>1 DEF Moves
    <2> QED BY <2>4, <2>7, <2>8, <2>9, <2>10
<1> QED BY <1>1, <1>2

LEMMA SameMoves ==
    ASSUME NEW L, NEW K, NEW M, SameStates(L, K), Step(L, K), NoSends(L) => NoSends(K), Moves(K, M)
    PROVE  Moves(L, M)
<1>1. Step(L, M)
    BY StepTrans DEF Moves
<1> QED BY <1>1 DEF SameStates, Moves, Closable

LEMMA MovesRefl ==
    ASSUME NEW L \in Work
    PROVE  Moves(L, L)
BY StepRefl DEF Moves

\* A receiver says nothing to an amqp_management.c that is CLOSING.
Quiet(L, s, M) ==
    s = "receiver" /\ L.management = "CLOSING" => M.management = "CLOSING" /\ M.event = L.event

LEMMA LinkStateMoves ==
    ASSUME NEW L \in Work, NEW s \in Sides, NEW new \in {"DETACHED", "HALF_ATTACHED", "ERROR"}
    PROVE  Moves(L, on_link_state_changed(L, s, new)) /\ Quiet(L, s, on_link_state_changed(L, s, new))
<1> DEFINE reported == IF s = "sender" THEN indicate_all_messages_as_error(L) ELSE L
           M == on_link_state_changed(L, s, new)
<1>1. /\ SameStates(L, reported) /\ Step(L, reported) /\ reported \in Work
      /\ NoSends(L) => NoSends(reported)
    <2>1. CASE s = "sender"
        BY <2>1, AllAsError, StepWork
    <2>2. CASE s # "sender"
        BY <2>2, StepRefl DEF SameStates
    <2> QED BY <2>1, <2>2
<1>2. \/ M = L
      \/ \E t \in {"IDLE", "CLOSING", "ERROR"} : M = set_state(L, s, t) \/ M = set_state(reported, s, t)
    BY DEF on_link_state_changed
<1> HIDE DEF reported, M
<1>3. CASE M = L
    BY <1>3, MovesRefl DEF M, Quiet
<1>4. ASSUME NEW t \in {"IDLE", "CLOSING", "ERROR"}, M = set_state(L, s, t)
      PROVE  Moves(L, M) /\ Quiet(L, s, M)
    BY <1>4, StateSet DEF Quiet
<1>5. ASSUME NEW t \in {"IDLE", "CLOSING", "ERROR"}, M = set_state(reported, s, t)
      PROVE  Moves(L, M) /\ Quiet(L, s, M)
    <2>1. Moves(reported, M) /\ Quiet(reported, s, M)
        BY <1>1, <1>5, StateSet DEF Quiet
    <2>2. Moves(L, M)
        BY <1>1, <2>1, SameMoves
    <2>3. Quiet(L, s, M)
        BY <1>1, <2>1 DEF Quiet, SameStates
    <2> QED BY <2>2, <2>3
<1>6. Moves(L, M) /\ Quiet(L, s, M)
    BY <1>2, <1>3, <1>4, <1>5, MovesRefl DEF Quiet
<1> QED BY <1>6 DEF M

LEMMA SetLinkStateMoves ==
    ASSUME NEW L \in Work, NEW s \in Sides, NEW new \in {"DETACHED", "HALF_ATTACHED", "ERROR"}
    PROVE  Moves(L, set_link_state(L, s, new)) /\ Quiet(L, s, set_link_state(L, s, new))
<1> DEFINE K == WithLink(L, s, new)
           M == set_link_state(L, s, new)
<1>1. M = on_link_state_changed(K, s, new)
    BY DEF set_link_state, WithLink
<1>2. new \in {"DETACHED", "HALF_ATTACHED", "ATTACHED", "ERROR"}
    OBVIOUS
<1>3. Step(L, K) /\ SameStates(L, K) /\ K.ops = L.ops
    BY <1>2, SetLink
<1>4. K \in Work
    BY <1>3, StepWork
<1> HIDE DEF K, M
<1>5. Moves(K, M) /\ Quiet(K, s, M)
    BY <1>1, <1>4, LinkStateMoves
<1>6. Moves(L, M)
    BY <1>3, <1>5, SameMoves DEF NoSends
<1>7. Quiet(L, s, M)
    BY <1>3, <1>5 DEF Quiet, SameStates
<1> QED BY <1>6, <1>7 DEF M

LEMMA LinkDetachMoves ==
    ASSUME NEW L \in Work, NEW s \in Sides
    PROVE  Moves(L, link_detach(L, s)) /\ Quiet(L, s, link_detach(L, s))
<1> DEFINE c == L.closed \cup {s}
           K == WithClosed(L, c)
           M == link_detach(L, s)
<1>1. CASE M = L
    BY <1>1, MovesRefl DEF Quiet
<1>2. CASE \E new \in {"DETACHED", "HALF_ATTACHED", "ERROR"} : M = set_link_state(K, s, new)
    <2>1. c \in SUBSET Sides
        BY WorkFields
    <2>2. Step(L, K) /\ SameStates(L, K) /\ K.ops = L.ops
        BY <2>1, SetClosed
    <2>3. K \in Work
        BY <2>2, StepWork
    <2> HIDE DEF K, M
    <2>4. Moves(K, M) /\ Quiet(K, s, M)
        BY <1>2, <2>3, SetLinkStateMoves
    <2>5. Moves(L, M)
        BY <2>2, <2>4, SameMoves DEF NoSends
    <2>6. Quiet(L, s, M)
        BY <2>2, <2>4 DEF Quiet, SameStates
    <2> QED BY <2>5, <2>6 DEF M
<1> QED BY <1>1, <1>2 DEF link_detach, WithClosed

\* cbs.c is told of an event, outside of OPENING.
LEMMA Told ==
    ASSUME NEW L \in Work, L.cbs # "OPENING" \/ L.event = "none"
    PROVE  LET M == told(L)
           IN  /\ Step(L, M) /\ M.event = "none" /\ M.ops = L.ops
               /\ M.management = L.management /\ M.messaging = L.messaging
               /\ M.cbs = L.cbs \/ (L.cbs = "OPEN" /\ M.cbs = "ERROR" /\ L.event # "none")
<1>1. CASE L.event = "none" \/ L.cbs \in {"CLOSED", "ERROR"}
    <2>1. told(L) = WithEvent(L, "none") /\ "none" \in Events
        BY <1>1 DEF told, WithEvent, Events
    <2> QED BY <2>1, SetEvent
<1>2. CASE L.event # "none" /\ L.cbs = "OPEN"
    <2> DEFINE M == [L EXCEPT !.cbs = "ERROR", !.event = "none"]
    <2>1. told(L) = M
        BY <1>2 DEF told
    <2>2. M \in Work
        BY DEF Work, Events
    <2>3. /\ M.ops = L.ops /\ M.answers = L.answers /\ M.next_message_id = L.next_message_id
          /\ M.cbs = "ERROR" /\ M.messaging = L.messaging /\ M.event = "none"
          /\ M.management = L.management
        BY DEF Work
    <2> QED BY <1>2, <2>1, <2>2, <2>3, OpsStepRefl DEF Step, balance
<1> QED BY <1>1, <1>2, WorkFields

-----------------------------------------------------------------------------
(* Closing *)

\* What the calls that close do to the states.
Closes(L, M) ==
    /\ Step(L, M) /\ M.event = "none"
    /\ NoSends(L) => NoSends(M)
    /\ Closable(M, "sender") => Closable(L, "sender")
    /\ M.cbs = L.cbs \/ (L.cbs = "OPEN" /\ M.cbs = "ERROR")
    /\ M.management = L.management \/ (L.management = "CLOSING" /\ M.management = "ERROR")

\* Where they are called.
Closing(L) == L.event = "none" /\ L.management \in {"IDLE", "CLOSING", "ERROR"}

LEMMA ClosesTrans ==
    ASSUME NEW L, NEW M, NEW N, Closes(L, M), Closes(M, N)
    PROVE  Closes(L, N)
<1>1. Step(L, N)
    BY StepTrans DEF Closes
<1> QED BY <1>1 DEF Closes

LEMMA ClosesClosing ==
    ASSUME NEW L, NEW M, Closes(L, M), Closing(L)
    PROVE  Closing(M) /\ M \in Work
BY StepWork DEF Closes, Closing

LEMMA ToldCloses ==
    ASSUME NEW L \in Work, NEW M, Closing(L), Moves(L, M), M.cbs # "OPENING" \/ M.event = "none"
    PROVE  Closes(L, told(M)) /\ told(M).messaging = M.messaging
<1>1. M \in Work
    BY StepWork DEF Moves
<1> DEFINE N == told(M)
<1>2. /\ Step(M, N) /\ N.event = "none" /\ N.ops = M.ops
      /\ N.management = M.management /\ N.messaging = M.messaging
      /\ N.cbs = M.cbs \/ (M.cbs = "OPEN" /\ N.cbs = "ERROR")
    BY <1>1, Told
<1> HIDE DEF N
<1>3. Step(L, N)
    BY <1>2, StepTrans DEF Moves
<1>4. NoSends(L) => NoSends(N)
    BY <1>2 DEF Moves, NoSends
<1>5. Closable(N, "sender") => Closable(L, "sender")
    BY <1>2 DEF Moves, Closable
<1>6. Closes(L, N)
    BY <1>2, <1>3, <1>4, <1>5 DEF Closes, Closing, Moves
<1> QED BY <1>2, <1>6 DEF N

\* messagesender_close and messagereceiver_close
LEMMA CloseCloses ==
    ASSUME NEW L \in Work, NEW s \in Sides, Closing(L),
           L.cbs = "OPENING" /\ L.management = "CLOSING" => ~Closable(L, "sender")
    PROVE  /\ Closes(L, close(L, s))
           /\ s = "sender" => NoSends(close(L, s)) /\ ~Closable(close(L, s), "sender")
<1> DEFINE K == set_state(L, s, "CLOSING")
           M == told(K)
           E == set_state(M, s, "ERROR")
           D == link_detach(M, s)
           N == IF ~Closable(L, s) THEN L ELSE IF link_detach_fails(M, s) THEN told(E) ELSE told(D)
<1>1. Closes(L, N) /\ (s = "sender" => ~Closable(N, "sender")) /\ N \in Work
    <2>1. CASE ~Closable(L, s)
        BY <2>1, StepRefl DEF Closes, Closing
    <2>2. CASE Closable(L, s)
        <3>1. Moves(L, K) /\ K.messaging[s] = "CLOSING" /\ K.event = "none" /\ K.cbs = L.cbs
            BY StateSet DEF Closing, Moves
        <3>2. Closes(L, M) /\ M.messaging = K.messaging
            BY <3>1, ToldCloses
        <3>3. Closing(M) /\ M \in Work /\ M.messaging[s] = "CLOSING" /\ M.cbs \in {L.cbs, "ERROR"}
            BY <3>1, <3>2, ClosesClosing DEF Closes
        <3>4. M.cbs = "OPENING" => M.management # "CLOSING" \/ s = "receiver"
            BY <2>2, <3>2, <3>3 DEF Closes, Sides
        <3>5. s = "sender" => ~Closable(M, "sender")
            BY <3>3 DEF Closable
        <3> HIDE DEF K, M
        <3>6. Moves(M, E) /\ Quiet(M, s, E)
            BY <3>3, StateSet DEF Quiet
        <3>7. Moves(M, D) /\ Quiet(M, s, D)
            BY <3>3, LinkDetachMoves
        <3>8. ASSUME NEW X, Moves(M, X), Quiet(M, s, X)
              PROVE  Closes(L, told(X)) /\ (s = "sender" => ~Closable(told(X), "sender"))
            <4>1. X.cbs # "OPENING" \/ X.event = "none"
                BY <3>3, <3>4, <3>8 DEF Moves, Quiet, Closing
            <4>2. Closes(M, told(X))
                BY <3>3, <3>8, <4>1, ToldCloses
            <4>3. Closes(L, told(X))
                BY <3>2, <4>2, ClosesTrans
            <4> QED BY <3>5, <4>2, <4>3 DEF Closes
        <3>9. N = told(E) \/ N = told(D)
            BY <2>2
        <3> HIDE DEF N, E, D
        <3>10. Closes(L, N) /\ (s = "sender" => ~Closable(N, "sender"))
            BY <3>6, <3>7, <3>8, <3>9
        <3> QED BY <3>10, ClosesClosing
    <2> QED BY <2>1, <2>2
<1>2. close(L, s) = IF s = "sender" THEN indicate_all_messages_as_error(N) ELSE N
    BY DEF close
<1> HIDE DEF N
<1>3. CASE s = "sender"
    <2> DEFINE R == indicate_all_messages_as_error(N)
    <2>1. SameStates(N, R) /\ Step(N, R) /\ NoSends(R)
        BY <1>1, AllAsError
    <2> HIDE DEF R
    <2>2. Step(L, R)
        BY <1>1, <2>1, StepTrans DEF Closes
    <2>3. Closes(L, R) /\ ~Closable(R, "sender")
        BY <1>1, <1>3, <2>1, <2>2 DEF Closes, SameStates, Closable
    <2> QED BY <1>2, <1>3, <2>1, <2>3 DEF R
<1>4. CASE s # "sender"
    BY <1>1, <1>2, <1>4
<1> QED BY <1>3, <1>4

\* amqp_management_close from messagesender_close on.
Ended(L, M) ==
    /\ Step(L, M) /\ M.event = "none"
    /\ NoSends(M) /\ ~Closable(M, "sender")
    /\ M.cbs = L.cbs \/ (L.cbs = "OPEN" /\ M.cbs = "ERROR")
    /\ M.management \in {"IDLE", "CLOSING", "ERROR"}

LEMMA ClosingEnds ==
    ASSUME NEW L \in Work, Closing(L),
           L.cbs = "OPENING" /\ L.management = "CLOSING" => ~Closable(L, "sender")
    PROVE  /\ Ended(L, closing(L))
           /\ ~closing_fails(L) => closing(L).management = "IDLE"
<1> DEFINE M == close(L, "sender")
           N == close(M, "receiver")
           P == all_pending_closed(N)
           I == WithOnlyManagement(P, "IDLE")
<1>1. "sender" \in Sides /\ "receiver" \in Sides
    BY DEF Sides
<1>2. Closes(L, M) /\ NoSends(M) /\ ~Closable(M, "sender")
    BY <1>1, CloseCloses
<1>3. Closing(M) /\ M \in Work
    BY <1>2, ClosesClosing
<1>4. closing(L) = IF close_fails(L, "sender") THEN M ELSE IF close_fails(M, "receiver") THEN N ELSE I
    BY DEF closing, WithOnlyManagement
<1>5. closing_fails(L) <=> close_fails(L, "sender") \/ close_fails(M, "receiver")
    BY DEF closing_fails
<1> HIDE DEF M
<1>6. Closes(M, N)
    BY <1>1, <1>2, <1>3, CloseCloses
<1>7. Closes(L, N) /\ NoSends(N) /\ ~Closable(N, "sender") /\ Closing(N) /\ N \in Work
    BY <1>2, <1>3, <1>6, ClosesTrans, ClosesClosing DEF Closes
<1> HIDE DEF N
<1>8. SameStates(N, P) /\ Step(N, P) /\ NoSends(P)
    BY <1>7, PendingClosed
<1>9. P \in Work
    BY <1>8, StepWork
<1> HIDE DEF P
<1>10. /\ Step(P, I) /\ I.cbs = P.cbs /\ I.messaging = P.messaging /\ I.ops = P.ops
      /\ I.event = P.event /\ I.management = "IDLE"
    BY <1>9, SetOnlyManagement
<1> HIDE DEF I
<1>11. Step(L, I)
    BY <1>7, <1>8, <1>10, StepTrans DEF Closes
<1>12. Ended(L, I)
    BY <1>7, <1>8, <1>10, <1>11 DEF Ended, Closes, SameStates, NoSends, Closable
<1>13. Ended(L, M)
    BY <1>2, <1>3 DEF Ended, Closes, Closing
<1>14. Ended(L, N)
    BY <1>7 DEF Ended, Closes, Closing
<1> QED BY <1>4, <1>5, <1>10, <1>12, <1>13, <1>14

LEMMA CloseBelow ==
    ASSUME NEW L \in Work, L.cbs = "CLOSED", L.event = "none"
    PROVE  LET M == close_below(L)
           IN  /\ Step(L, M) /\ M.event = "none" /\ M.cbs = "CLOSED" /\ Settled(M)
               /\ M.management \in {"IDLE", "CLOSING", "ERROR"}
               /\ L.management = "IDLE" => M.management = "IDLE"
<1>1. CASE L.management = "IDLE"
    <2>1. close_below(L) = L
        BY <1>1 DEF close_below
    <2> QED BY <1>1, <2>1, StepRefl DEF Settled
<1>2. CASE L.management # "IDLE"
    <2> DEFINE K == WithOnlyManagement(L, "CLOSING")
               M == closing(K)
    <2>1. close_below(L) = M
        BY <1>2 DEF close_below, WithOnlyManagement
    <2>2. Step(L, K) /\ K.cbs = "CLOSED" /\ K.event = "none" /\ K.management = "CLOSING"
        BY SetOnlyManagement
    <2>3. K \in Work
        BY <2>2, StepWork
    <2> HIDE DEF K
    <2>4. Ended(K, M)
        BY <2>2, <2>3, ClosingEnds DEF Closing
    <2> HIDE DEF M
    <2>5. Step(L, M)
        BY <2>2, <2>4, StepTrans DEF Ended
    <2>6. M.event = "none" /\ M.cbs = "CLOSED" /\ M.management \in {"IDLE", "CLOSING", "ERROR"}
        BY <2>2, <2>4 DEF Ended
    <2>7. Settled(M)
        BY <2>4, <2>6 DEF Ended, Settled
    <2> QED BY <1>2, <2>1, <2>5, <2>6, <2>7
<1> QED BY <1>1, <1>2

-----------------------------------------------------------------------------
(* Events *)

\* What must hold for cbs.c to be told.
Ready(L) == L.cbs = "CLOSED" \/ (L.cbs = "OPENING" /\ L.event = "none") => Settled(L)

Handles(L, M) ==
    /\ Step(L, M) /\ M.event = "none" /\ Settled(M)
    /\ M.management = L.management \/ M.management \in {"IDLE", "CLOSING", "ERROR"}
    /\ L.management = "IDLE" => M.management = "IDLE"
    /\ L.event = "none" => M.management = L.management /\ M.cbs = L.cbs
    /\ L.cbs = "CLOSED" => M.cbs = "CLOSED"

LEMMA HandledHandles ==
    ASSUME NEW L \in Work, Ready(L)
    PROVE  Handles(L, handled(L))
<1>1. CASE L.cbs = "OPENING" /\ L.event = "open_ok"
    <2> DEFINE M == [L EXCEPT !.cbs = "OPEN", !.answers = @ + 1, !.event = "none"]
    <2>1. handled(L) = M
        BY <1>1 DEF handled
    <2>2. L.answers \in Nat
        BY WorkFields
    <2>3. M \in Work
        <3> DEFINE a == L.answers + 1
        <3>1. M = [L EXCEPT !.cbs = "OPEN", !.answers = a, !.event = "none"] /\ a \in Nat
            BY <2>2
        <3> HIDE DEF a
        <3> QED BY <3>1, ZenonT(60) DEF Work, Events
    <2>4. /\ M.ops = L.ops /\ M.answers = L.answers + 1 /\ M.next_message_id = L.next_message_id
          /\ M.cbs = "OPEN" /\ M.event = "none" /\ M.management = L.management
        BY DEF Work
    <2> HIDE DEF M
    <2>5. balance(M) = balance(L)
        BY <1>1, <2>2, <2>4 DEF balance
    <2>6. Step(L, M)
        BY <2>3, <2>4, <2>5, OpsStepRefl DEF Step
    <2>7. Handles(L, M)
        BY <1>1, <2>4, <2>6 DEF Handles, Settled, Unopened
    <2> QED BY <2>1, <2>7
<1>2. CASE L.cbs = "OPENING" /\ L.event \in {"open_error", "open_cancelled", "error"}
    <2> DEFINE K == [L EXCEPT !.cbs = "CLOSED", !.event = "none"]
               B == close_below(K)
               M == [B EXCEPT !.answers = @ + 1]
    <2>1. handled(L) = M
        BY <1>2 DEF handled
    <2>2. K \in Work
        BY DEF Work, Events
    <2>3. /\ K.ops = L.ops /\ K.answers = L.answers /\ K.next_message_id = L.next_message_id
          /\ K.cbs = "CLOSED" /\ K.event = "none" /\ K.management = L.management
        BY DEF Work
    <2> HIDE DEF K
    <2>4. /\ Step(K, B) /\ B.event = "none" /\ B.cbs = "CLOSED" /\ Settled(B)
          /\ B.management \in {"IDLE", "CLOSING", "ERROR"}
          /\ K.management = "IDLE" => B.management = "IDLE"
        BY <2>2, <2>3, CloseBelow
    <2>5. B \in Work
        BY <2>4, StepWork
    <2> HIDE DEF B
    <2>6. L.answers \in Nat /\ B.answers \in Nat /\ K.answers \in Nat
        BY <2>2, <2>5, WorkFields
    <2>7. M \in Work
        <3> DEFINE a == B.answers + 1
        <3>1. M = [B EXCEPT !.answers = a] /\ a \in Nat
            BY <2>6
        <3> HIDE DEF a
        <3> QED BY <2>5, <3>1 DEF Work
    <2>8. /\ M.ops = B.ops /\ M.answers = B.answers + 1 /\ M.next_message_id = B.next_message_id
          /\ M.cbs = "CLOSED" /\ M.event = "none" /\ M.management = B.management
          /\ M.messaging = B.messaging
        BY <2>4, <2>5 DEF Work
    <2> HIDE DEF M
    <2>9. balance(M) = balance(L)
        <3>1. balance(K) = K.answers /\ balance(B) = B.answers /\ balance(M) = M.answers
              /\ balance(L) = L.answers + 1
            BY <1>2, <2>3, <2>4, <2>6, <2>7, <2>8, WorkFields DEF balance
        <3>2. balance(B) = balance(K)
            BY <2>4 DEF Step
        <3> QED BY <2>3, <2>8, <3>1, <3>2
    <2>10. Step(L, M)
        BY <2>3, <2>4, <2>7, <2>8, <2>9 DEF Step
    <2>11. Settled(M)
        BY <2>4, <2>8 DEF Settled, Closable, Unopened
    <2>12. Handles(L, M)
        BY <1>2, <2>3, <2>4, <2>8, <2>10, <2>11 DEF Handles
    <2> QED BY <2>1, <2>12
<1>3. CASE L.cbs # "OPENING" \/ L.event = "none"
    <2> DEFINE M == told(L)
    <2>1. handled(L) = M
        BY <1>3 DEF handled
    <2>2. /\ Step(L, M) /\ M.event = "none"
          /\ M.management = L.management /\ M.messaging = L.messaging
          /\ M.cbs = L.cbs \/ (L.cbs = "OPEN" /\ M.cbs = "ERROR" /\ L.event # "none")
        BY <1>3, Told
    <2> HIDE DEF M
    <2>3. Settled(M)
        <3>1. CASE M.cbs \in {"CLOSED", "OPENING"}
            <4>1. Settled(L)
                BY <1>3, <2>2, <3>1 DEF Ready
            <4> QED BY <2>2, <3>1, <4>1 DEF Settled, Unopened, Closable
        <3>2. CASE M.cbs \notin {"CLOSED", "OPENING"}
            BY <3>2 DEF Settled, Unopened
        <3> QED BY <3>1, <3>2
    <2>4. Handles(L, M)
        BY <2>2, <2>3 DEF Handles
    <2> QED BY <2>1, <2>4
<1> QED BY <1>1, <1>2, <1>3, WorkFields DEF Events

LEMMA MovesReady ==
    ASSUME NEW L \in Work, NEW M, Settled(L), L.event = "none", Moves(L, M)
    PROVE  Ready(M) /\ M \in Work
<1>1. M \in Work
    BY StepWork DEF Moves
<1>2. ASSUME M.cbs = "CLOSED" \/ (M.cbs = "OPENING" /\ M.event = "none")
      PROVE  Settled(M)
    BY <1>2 DEF Moves, Settled, Unopened
<1> QED BY <1>1, <1>2 DEF Ready

LEMMA ManagementClose ==
    ASSUME NEW L \in Work, Settled(L), L.event = "none"
    PROVE  LET M == amqp_management_close(L)
           IN  /\ Step(L, M) /\ M.event = "none" /\ Settled(M)
               /\ M.management \in {"IDLE", "CLOSING", "ERROR"}
               /\ ~amqp_management_close_fails(L) => M.management = "IDLE"
<1>1. CASE L.management = "IDLE"
    <2>1. amqp_management_close(L) = L
        BY <1>1 DEF amqp_management_close
    <2> QED BY <1>1, <2>1, StepRefl DEF amqp_management_close_fails
<1>2. CASE L.management # "IDLE"
    <2> DEFINE e == IF L.management = "OPENING" THEN "open_cancelled" ELSE "none"
               X == WithManagement(L, "CLOSING", e)
               H == handled(X)
               M == closing(H)
    <2>1. /\ amqp_management_close(L) = M
          /\ amqp_management_close_fails(L) <=> closing_fails(H)
        BY <1>2 DEF amqp_management_close, amqp_management_close_fails, management_cancelled,
                    WithManagement
    <2>2. e \in Events
        BY DEF Events
    <2>3. /\ Step(L, X) /\ X.cbs = L.cbs /\ X.messaging = L.messaging
          /\ X.event = e /\ X.management = "CLOSING"
        BY <2>2, SetManagement
    <2>4. X \in Work
        BY <2>3, StepWork
    <2>5. L.management \in {"OPENING", "CLOSING", "OPEN", "ERROR"}
        BY <1>2, WorkFields
    <2> HIDE DEF X
    <2>6. Ready(X)
        BY <2>3, <2>5 DEF Ready, Settled, Unopened, Closable
    <2>7. Handles(X, H)
        BY <2>4, <2>6, HandledHandles
    <2>8. H \in Work /\ Closing(H) /\ Settled(H)
        BY <2>3, <2>7, StepWork DEF Handles, Closing
    <2> HIDE DEF H
    <2>9. H.cbs = "OPENING" /\ H.management = "CLOSING" => ~Closable(H, "sender")
        BY <2>8 DEF Settled, Unopened
    <2>10. Ended(H, M) /\ (~closing_fails(H) => M.management = "IDLE")
        BY <2>8, <2>9, ClosingEnds
    <2> HIDE DEF M
    <2>11. Step(L, M)
        BY <2>3, <2>7, <2>10, StepTrans DEF Handles, Ended
    <2>12. Settled(M)
        BY <2>10 DEF Ended, Settled
    <2> QED BY <2>1, <2>10, <2>11, <2>12 DEF Ended
<1> QED BY <1>1, <1>2

LEMMA CbsClosed ==
    ASSUME NEW L \in Work, Settled(L), L.event = "none"
    PROVE  LET R == cbs_closed(L) IN Step(L, R) /\ R.event = "none" /\ Settled(R)
<1> DEFINE M == amqp_management_close(L)
           a == IF M.cbs = "OPENING" THEN M.answers + 1 ELSE M.answers
           R == [M EXCEPT !.cbs = "CLOSED", !.answers = a]
<1>1. /\ Step(L, M) /\ M.event = "none" /\ Settled(M)
      /\ ~amqp_management_close_fails(L) => M.management = "IDLE"
    BY ManagementClose
<1>2. cbs_closed(L) = IF amqp_management_close_fails(L) THEN M ELSE R
    BY DEF cbs_closed
<1> HIDE DEF M
<1>3. M \in Work /\ M.answers \in Nat
    BY <1>1, StepWork, WorkFields
<1>4. a \in Nat /\ balance(M) = a
    BY <1>3 DEF balance
<1> HIDE DEF a
<1>5. R \in Work
    BY <1>3, <1>4 DEF Work
<1>6. /\ R.ops = M.ops /\ R.answers = a /\ R.next_message_id = M.next_message_id
      /\ R.cbs = "CLOSED" /\ R.event = "none" /\ R.management = M.management
    BY <1>1, <1>3 DEF Work
<1> HIDE DEF R
<1>7. balance(R) = balance(M)
    BY <1>4, <1>6 DEF balance
<1>8. Step(M, R)
    BY <1>5, <1>6, <1>7, OpsStepRefl DEF Step
<1>9. Step(L, R)
    BY <1>1, <1>8, StepTrans
<1>10. ASSUME ~amqp_management_close_fails(L) PROVE Settled(R)
    BY <1>1, <1>6, <1>10 DEF Settled
<1> QED BY <1>1, <1>2, <1>6, <1>9, <1>10

\* cbs_destroy leaves no operation.
LEMMA CbsDestroyed ==
    ASSUME NEW L \in Work, Settled(L), L.event = "none"
    PROVE  LET R == cbs_destroyed(L)
           IN  /\ Step(L, R) /\ R.event = "none" /\ Settled(R)
               /\ \A n \in 1 .. Len(R.ops) : ~R.ops[n].cbs_pending
<1> DEFINE M == IF L.cbs = "CLOSED" THEN L ELSE amqp_management_close(L)
           X == amqp_management_close(M)
           S == close(X, "sender")
           N == close(S, "receiver")
           f == [n \in DOMAIN N.ops |->
                   IF N.ops[n].cbs_pending
                   THEN on_execute_operation_complete([N.ops[n] EXCEPT !.pending = FALSE], "FAILED")
                   ELSE N.ops[n]]
           R == [N EXCEPT !.ops = f]
<1>1. "sender" \in Sides /\ "receiver" \in Sides
    BY DEF Sides
<1>2. cbs_destroyed(L) = R
    BY DEF cbs_destroyed
<1>3. Step(L, M) /\ M.event = "none" /\ Settled(M)
    BY StepRefl, ManagementClose
<1>4. M \in Work
    BY <1>3, StepWork
<1> HIDE DEF M
<1>5. /\ Step(M, X) /\ X.event = "none" /\ Settled(X)
      /\ X.management \in {"IDLE", "CLOSING", "ERROR"}
    BY <1>3, <1>4, ManagementClose
<1>6. X \in Work /\ Closing(X)
    BY <1>5, StepWork DEF Closing
<1> HIDE DEF X
<1>7. X.cbs = "OPENING" /\ X.management = "CLOSING" => ~Closable(X, "sender")
    BY <1>5 DEF Settled, Unopened
<1>8. Closes(X, S) /\ NoSends(S) /\ ~Closable(S, "sender")
    BY <1>1, <1>6, <1>7, CloseCloses
<1>9. Closing(S) /\ S \in Work
    BY <1>6, <1>8, ClosesClosing
<1> HIDE DEF S
<1>10. Closes(S, N)
    BY <1>1, <1>8, <1>9, CloseCloses
<1>11. Closing(N) /\ N \in Work /\ NoSends(N) /\ ~Closable(N, "sender")
    BY <1>8, <1>9, <1>10, ClosesClosing DEF Closes
<1> HIDE DEF N
<1>12. N.ops \in Seq(Operation) /\ DOMAIN N.ops = 1 .. Len(N.ops)
    BY <1>11, WorkFields
<1>13. ASSUME NEW n \in 1 .. Len(N.ops)
       PROVE  f[n] \in Operation /\ OpStep(N.ops[n], f[n]) /\ ~f[n].cbs_pending
    <2>1. N.ops[n] \in Operation /\ N.ops[n].send = "none"
        BY <1>11, <1>12 DEF NoSends
    <2>2. CASE N.ops[n].cbs_pending
        BY <1>12, <2>1, <2>2, PendingFailsStep
    <2>3. CASE ~N.ops[n].cbs_pending
        BY <1>12, <2>1, <2>3, OpStepRefl
    <2> QED BY <2>2, <2>3
<1>14. f \in [1 .. Len(N.ops) -> Operation]
    BY <1>12, <1>13
<1> HIDE DEF f
<1>15. R.ops = f /\ Len(f) = Len(N.ops) /\ SameStates(N, R) /\ Step(N, R)
    BY <1>11, <1>13, <1>14, OpsPass
<1> HIDE DEF R
<1>16. Step(L, R)
    BY <1>3, <1>5, <1>8, <1>10, <1>15, StepTrans DEF Closes
<1>17. R.event = "none" /\ Settled(R)
    BY <1>11, <1>15 DEF SameStates, Closing, Settled, Closable
<1> QED BY <1>2, <1>13, <1>15, <1>16, <1>17

-----------------------------------------------------------------------------
(* Opening *)

\* What a notification, or an open in the course of an open, leaves.
Keeps(L, M) ==
    /\ Step(L, M) /\ M.event = "none" /\ Settled(M)
    /\ L.management \in {"OPENING", "IDLE"} => M.management \in {"OPENING", "IDLE"}

LEMMA KeepsTrans ==
    ASSUME NEW L, NEW M, NEW N, Keeps(L, M), Keeps(M, N)
    PROVE  Keeps(L, N) /\ N \in Work
<1>1. Step(L, N)
    BY StepTrans DEF Keeps
<1> QED BY <1>1, StepWork DEF Keeps

LEMMA SameKeeps ==
    ASSUME NEW L, NEW M, Step(L, M), SameStates(L, M), Settled(L), L.event = "none"
    PROVE  Keeps(L, M)
BY DEF Keeps, SameStates, Settled, Unopened, Closable

\* The event of a state that sender or receiver leave is handled.
LEMMA MovesHandled ==
    ASSUME NEW L \in Work, NEW M, Settled(L), L.event = "none", Moves(L, M)
    PROVE  Keeps(L, handled(M))
<1>1. Ready(M) /\ M \in Work
    BY MovesReady
<1>2. Handles(M, handled(M))
    BY <1>1, HandledHandles
<1>3. Step(L, handled(M))
    BY <1>2, StepTrans DEF Moves, Handles
<1> QED BY <1>2, <1>3 DEF Keeps, Handles, Moves

LEMMA AttachedTo ==
    ASSUME NEW L \in Work, NEW s \in Sides
    PROVE  LET M == attached_to(L, s) IN Step(L, M) /\ SameStates(L, M)
<1>1. CASE attached_to(L, s) = L
    BY <1>1, StepRefl DEF SameStates
<1>2. CASE attached_to(L, s) = WithLink(L, s, "HALF_ATTACHED")
    BY <1>2, SetLink
<1> QED BY <1>1, <1>2 DEF attached_to, WithLink

LEMMA SessionChanged ==
    ASSUME NEW L \in Work, NEW s \in Sides, Settled(L), L.event = "none",
           NEW state \in {"UNMAPPED", "MAPPED", "DISCARDING", "ERROR"}
    PROVE  Keeps(L, on_session_state_changed(L, s, state))
<1> DEFINE failing == IF s = "sender" THEN remove_all_pending_deliveries(L) ELSE L
           M == on_session_state_changed(L, s, state)
<1>1. SameStates(L, failing) /\ Step(L, failing) /\ (NoSends(L) => NoSends(failing))
    BY DeliveriesRemoved, StepRefl DEF SameStates
<1>2. failing \in Work
    BY <1>1, StepWork
<1>3. \/ M = attached_to(L, s)
      \/ M = L
      \/ \E new \in {"DETACHED", "HALF_ATTACHED", "ERROR"} : M = handled(set_link_state(failing, s, new))
    BY DEF on_session_state_changed
<1> HIDE DEF failing, M
<1>4. ASSUME M = attached_to(L, s) PROVE Keeps(L, M)
    BY <1>4, AttachedTo, SameKeeps
<1>5. ASSUME M = L PROVE Keeps(L, M)
    BY <1>5, StepRefl DEF Keeps
<1>6. ASSUME NEW new \in {"DETACHED", "HALF_ATTACHED", "ERROR"},
             M = handled(set_link_state(failing, s, new))
      PROVE  Keeps(L, M)
    <2>1. Moves(failing, set_link_state(failing, s, new))
        BY <1>2, SetLinkStateMoves
    <2>2. Moves(L, set_link_state(failing, s, new))
        BY <1>1, <2>1, SameMoves
    <2> QED BY <1>6, <2>2, MovesHandled
<1>7. Keeps(L, M)
    BY <1>3, <1>4, <1>5, <1>6
<1> QED BY <1>7 DEF M

LEMMA LinkAttach ==
    ASSUME NEW L \in Work, NEW s \in Sides, Settled(L), L.event = "none",
           NEW state \in {"UNMAPPED", "MAPPED", "DISCARDING", "ERROR"}
    PROVE  Keeps(L, link_attach(L, s, state))
<1>1. CASE link_attach(L, s, state) = L
    BY <1>1, StepRefl DEF Keeps
<1> DEFINE b == L.begun \cup {s}
           K == WithBegun(L, b)
<1>2. CASE link_attach(L, s, state) = on_session_state_changed(K, s, state)
    <2>1. b \in SUBSET Sides
        BY WorkFields
    <2>2. Step(L, K) /\ SameStates(L, K)
        BY <2>1, SetBegun
    <2>3. K \in Work /\ Keeps(L, K)
        BY <2>2, StepWork, SameKeeps
    <2> HIDE DEF K
    <2>4. Keeps(K, on_session_state_changed(K, s, state))
        BY <2>3, SessionChanged DEF Keeps
    <2> QED BY <1>2, <2>3, <2>4, KeepsTrans
<1> QED BY <1>1, <1>2 DEF link_attach, WithBegun

\* messagesender_open and messagereceiver_open
LEMMA OpenKeeps ==
    ASSUME NEW L \in Work, NEW s \in Sides, Settled(L), L.event = "none",
           L.management \in {"OPENING", "IDLE"},
           NEW state \in {"UNMAPPED", "MAPPED", "DISCARDING", "ERROR"}
    PROVE  Keeps(L, open(L, s, state))
<1> DEFINE M == set_state(L, s, "OPENING")
<1>1. CASE L.messaging[s] # "IDLE"
    <2>1. open(L, s, state) = L
        BY <1>1 DEF open
    <2> QED BY <2>1, StepRefl DEF Keeps
<1>2. CASE L.messaging[s] = "IDLE"
    <2> DEFINE K == WithMessaging(L, s, "OPENING")
    <2>1. Assigned(L, K, s, "OPENING")
        BY SetMessaging
    <2>2. M = state_changed(K, s, "OPENING")
        BY <1>2 DEF set_state, WithMessaging
    <2> HIDE DEF K
    <2>3. M = K
        BY <2>1, <2>2 DEF state_changed, Assigned
    <2>4. Keeps(L, M) /\ M \in Work
        BY <2>1, <2>3, StepWork DEF Assigned, Keeps, Settled, Unopened
    <2>5. open(L, s, state) = IF link_attach_fails(M, s) THEN handled(set_state(M, s, "ERROR"))
                              ELSE link_attach(M, s, state)
        BY <1>2 DEF open
    <2> HIDE DEF M
    <2>6. Keeps(M, handled(set_state(M, s, "ERROR")))
        BY <2>4, StateSet, MovesHandled DEF Keeps
    <2>7. Keeps(M, link_attach(M, s, state))
        BY <2>4, LinkAttach DEF Keeps
    <2> QED BY <2>4, <2>5, <2>6, <2>7, KeepsTrans
<1> QED BY <1>1, <1>2

LEMMA ManagementOpen ==
    ASSUME NEW L \in Work, Settled(L), L.event = "none", L.cbs = "OPENING",
           NEW state \in {"UNMAPPED", "MAPPED", "DISCARDING", "ERROR"}
    PROVE  LET T == amqp_management_open_async(L, state)
           IN  Step(L, T) /\ T.event = "none" /\ Settled(T)
<1> DEFINE M == WithOnlyManagement(L, "OPENING")
           R == open(M, "receiver", state)
           S == open(R, "sender", state)
           RI == WithOnlyManagement(R, "IDLE")
           SI == WithOnlyManagement(S, "IDLE")
           C == close(SI, "receiver")
           T == amqp_management_open_async(L, state)
<1>1. "sender" \in Sides /\ "receiver" \in Sides
    BY DEF Sides
<1>2. T = IF L.management # "IDLE" THEN L
          ELSE IF open_fails(M, "receiver") THEN RI
          ELSE IF open_fails(R, "sender") THEN C ELSE S
    BY DEF amqp_management_open_async, WithOnlyManagement
<1>3. Step(L, M) /\ M.cbs = "OPENING" /\ M.event = "none" /\ M.management = "OPENING"
    BY SetOnlyManagement
<1>4. M \in Work /\ Settled(M)
    BY <1>3, StepWork DEF Settled
<1> HIDE DEF M
<1>5. Keeps(M, R)
    BY <1>1, <1>3, <1>4, OpenKeeps
<1>6. /\ R \in Work /\ R.event = "none" /\ Settled(R) /\ R.management \in {"OPENING", "IDLE"}
      /\ Step(L, R)
    BY <1>3, <1>5, StepWork, StepTrans DEF Keeps
<1> HIDE DEF R
<1>7. Keeps(R, S)
    BY <1>1, <1>6, OpenKeeps
<1>8. S \in Work /\ S.event = "none" /\ Settled(S) /\ Step(L, S)
    BY <1>6, <1>7, StepWork, StepTrans DEF Keeps
<1> HIDE DEF S
<1>9. Step(R, RI) /\ RI.event = "none" /\ RI.management = "IDLE"
    BY <1>6, SetOnlyManagement
<1>10. Step(L, RI) /\ Settled(RI)
    BY <1>6, <1>9, StepTrans DEF Settled
<1>11. Step(S, SI) /\ SI.event = "none" /\ SI.management = "IDLE"
    BY <1>8, SetOnlyManagement
<1>12. SI \in Work /\ Step(L, SI) /\ Closing(SI)
    BY <1>8, <1>11, StepTrans, StepWork DEF Closing
<1> HIDE DEF RI, SI
<1>13. Closes(SI, C)
    BY <1>1, <1>11, <1>12, CloseCloses
<1> HIDE DEF C
<1>14. Step(L, C) /\ C.event = "none" /\ C.management = "IDLE"
    BY <1>11, <1>12, <1>13, StepTrans DEF Closes
<1>15. Settled(C)
    BY <1>14 DEF Settled
<1> QED BY <1>2, <1>8, <1>9, <1>10, <1>14, <1>15, StepRefl

LEMMA AttachReady ==
    ASSUME NEW L \in Work, NEW s \in Sides, Settled(L), L.event = "none"
    PROVE  LET X == set_link_state(L, s, "ATTACHED") IN Step(L, X) /\ Ready(X)
<1> DEFINE K == WithLink(L, s, "ATTACHED")
           A == WithMessaging(K, s, "OPEN")
           P == WithConnected(A, A.connected \cup {s})
           O == WithManagement(P, "OPEN", "open_ok")
           E == WithManagement(A, "ERROR", "error")
           X == set_link_state(L, s, "ATTACHED")
<1>1. Step(L, K) /\ SameStates(L, K)
    BY SetLink
<1>2. K \in Work
    BY <1>1, StepWork
<1>3. X = on_link_state_changed(K, s, "ATTACHED")
    BY DEF set_link_state, WithLink
<1> HIDE DEF K
<1>4. Assigned(K, A, s, "OPEN")
    BY <1>2, SetMessaging
<1>5. A \in Work /\ Step(L, A)
    BY <1>1, <1>4, StepWork, StepTrans DEF Assigned
<1>6. CASE K.messaging[s] # "OPENING"
    <2>1. X = K
        BY <1>3, <1>6 DEF on_link_state_changed
    <2>2. Ready(K)
        BY <1>1 DEF Ready, SameStates, Settled, Unopened, Closable
    <2> QED BY <1>1, <2>1, <2>2
<1>7. CASE K.messaging[s] = "OPENING"
    <2>1. X = set_state(K, s, "OPEN")
        BY <1>3, <1>7 DEF on_link_state_changed
    <2>2. X = state_changed(A, s, "OPEN")
        BY <1>7, <2>1 DEF set_state, WithMessaging
    <2> HIDE DEF A
    <2>3. /\ A.cbs = L.cbs /\ A.management = L.management /\ A.event = "none"
          /\ s = "receiver" => (Closable(A, "sender") <=> Closable(L, "sender"))
          /\ s = "sender" => Closable(L, "sender")
        BY <1>1, <1>4, <1>7 DEF Assigned, SameStates, Closable, Sides
    <2>4. CASE A.management = "OPENING"
        <3>1. A.connected \cup {s} \in SUBSET Sides
            BY <1>5, WorkFields
        <3>2. Step(A, P) /\ SameStates(A, P)
            BY <1>5, <3>1, SetConnected
        <3>3. P \in Work /\ Step(L, P)
            BY <1>5, <3>2, StepWork, StepTrans
        <3>4. X = P \/ X = O
            BY <2>2, <2>4 DEF state_changed, WithConnected, WithManagement
        <3> HIDE DEF P
        <3>5. "open_ok" \in Events
            BY DEF Events
        <3>6. Step(P, O) /\ O.cbs = P.cbs /\ O.event = "open_ok" /\ O.management = "OPEN"
            BY <3>3, <3>5, SetManagement
        <3> HIDE DEF O
        <3>7. L.cbs # "CLOSED"
            BY <2>3, <2>4 DEF Settled
        <3>8. Ready(P)
            BY <2>3, <2>4, <3>2, <3>7 DEF SameStates, Ready, Settled, Unopened
        <3>9. Ready(O) /\ Step(L, O)
            BY <2>3, <3>2, <3>3, <3>6, <3>7, StepTrans DEF SameStates, Ready
        <3> QED BY <3>3, <3>4, <3>8, <3>9
    <2>5. CASE A.management = "CLOSING" /\ s = "sender"
        <3>1. X = E
            BY <2>2, <2>5 DEF state_changed, WithManagement
        <3>2. "error" \in Events
            BY DEF Events
        <3>3. Step(A, E) /\ E.cbs = A.cbs /\ E.event = "error"
            BY <1>5, <3>2, SetManagement
        <3> HIDE DEF E
        <3>4. ~Unopened(L)
            BY <2>3, <2>5 DEF Settled
        <3>5. Ready(E)
            BY <2>3, <3>3, <3>4 DEF Ready, Unopened
        <3> QED BY <1>5, <3>1, <3>3, <3>5, StepTrans
    <2>6. CASE A.management # "OPENING" /\ ~(A.management = "CLOSING" /\ s = "sender")
        <3>1. X = A
            BY <2>2, <2>6 DEF state_changed
        <3>2. Ready(A)
            BY <2>3, <2>6 DEF Ready, Settled, Unopened, Sides
        <3> QED BY <1>5, <3>1, <3>2
    <2> QED BY <2>4, <2>5, <2>6
<1> QED BY <1>6, <1>7

-----------------------------------------------------------------------------
(* Actions *)

LEMMA Bounds ==
    MaxOperations \in Nat /\ MaxOpens \in Nat /\ MaxFaults \in Nat
BY CbsAssumption DEF CbsAssumption

\* Between two actions the library is one in which no event is under way.
LEMMA LibraryIsWork ==
    ASSUME IInv
    PROVE  lib \in Work /\ lib.event = "none" /\ Settled(lib) /\ lib.fail = {}
<1>1. lib \in Library
    BY DEF IInv, TypeOK
<1>2. lib.answers \in Nat /\ lib.event \in Events /\ lib.fail \in SUBSET Sides
    BY <1>1, Bounds DEF Library, Events
<1>3. lib \in Work
    BY <1>1, <1>2 DEF Library, Work
<1> QED BY <1>1, <1>3 DEF Library, IInv

LEMMA WorkIsLibrary ==
    ASSUME NEW L \in Work, L.event = "none", L.fail = {}, L.answers <= MaxOpens
    PROVE  L \in Library
<1>1. L.answers \in 0 .. MaxOpens
    BY WorkFields, Bounds
<1> QED BY <1>1 DEF Work, Library

LEMMA WithFails ==
    ASSUME IInv, NEW F \in SUBSET Sides
    PROVE  /\ with(F) \in Work /\ Step(lib, with(F)) /\ SameStates(lib, with(F))
           /\ with(F).ops = lib.ops /\ Settled(with(F)) /\ with(F).event = "none"
<1>1. with(F) = WithFail(lib, F)
    BY DEF with, WithFail
<1>2. Step(lib, with(F)) /\ SameStates(lib, with(F)) /\ with(F).ops = lib.ops
    BY <1>1, LibraryIsWork, SetFail
<1>3. Settled(with(F)) /\ with(F).event = "none"
    BY <1>2, LibraryIsWork DEF SameStates, Settled, Unopened, Closable
<1> QED BY <1>2, <1>3, StepWork

\* An action in which the library runs: it ends in M, and `more' opens more
\* were let in.
Runs(M, more) ==
    /\ M \in Work /\ M.event = "none" /\ Settled(M)
    /\ M.next_message_id = lib.next_message_id
    /\ OpsStep(lib.ops, M.ops)
    /\ balance(M) = balance(lib) + more
    /\ lib' = done(M)
    /\ alive
    /\ opens' = opens + more
    /\ faults' \in 0 .. MaxFaults
    /\ requests' \subseteq requests /\ granted' = granted /\ responses' \subseteq responses
    /\ session' \in {"UNMAPPED", "MAPPED", "DISCARDING", "ERROR"}

LEMMA FaultsType ==
    ASSUME IInv, NEW F, Failing(F) \/ Fault
    PROVE  faults' \in 0 .. MaxFaults
BY Bounds DEF IInv, TypeOK, Failing, Fault

LEMMA StepRuns ==
    ASSUME IInv, NEW L, NEW M, Step(lib, L), Step(L, M)
    PROVE  /\ M \in Work /\ M.next_message_id = lib.next_message_id
           /\ OpsStep(lib.ops, M.ops) /\ balance(M) = balance(lib) + 0
<1>1. Step(lib, M)
    BY StepTrans
<1>2. balance(lib) \in Nat
    BY LibraryIsWork, WorkFields DEF balance
<1> QED BY <1>1, <1>2 DEF Step

\* cbs_open_async
LEMMA OpenRuns ==
    ASSUME IInv, NEW F \in SUBSET Sides, cbs_open_async(F)
    PROVE  opens' \in 0 .. MaxOpens /\ alive' = alive /\ \E M : Runs(M, 1)
<1> DEFINE L == with(F)
           O == [L EXCEPT !.cbs = "OPENING"]
           M == amqp_management_open_async(O, session)
<1>1. /\ L \in Work /\ Step(lib, L) /\ SameStates(lib, L) /\ L.ops = lib.ops /\ Settled(L)
      /\ L.event = "none" /\ L.cbs = "CLOSED"
    BY WithFails DEF cbs_open_async, SameStates
<1> HIDE DEF L
<1>2. O \in Work
    BY <1>1 DEF Work
<1>3. /\ O.cbs = "OPENING" /\ O.management = L.management /\ O.messaging = L.messaging
      /\ O.ops = L.ops /\ O.next_message_id = L.next_message_id /\ O.answers = L.answers
      /\ O.event = "none"
    BY <1>1 DEF Work
<1> HIDE DEF O
<1>4. Settled(O)
    BY <1>1, <1>3 DEF Settled, Unopened, Closable
<1>5. session \in {"UNMAPPED", "MAPPED", "DISCARDING", "ERROR"}
    BY DEF IInv, TypeOK
<1>6. Step(O, M) /\ M.event = "none" /\ Settled(M)
    BY <1>2, <1>3, <1>4, <1>5, ManagementOpen
<1> HIDE DEF M
<1>7. balance(M) = balance(lib) + 1
    <2>1. balance(M) = balance(O) /\ balance(L) = balance(lib)
        BY <1>1, <1>6 DEF Step
    <2>2. L.answers \in Nat
        BY <1>1, WorkFields
    <2>3. balance(O) = L.answers + 1 /\ balance(L) = L.answers
        BY <1>1, <1>3, <2>2 DEF balance
    <2> QED BY <2>1, <2>3
<1>8. M \in Work /\ M.next_message_id = lib.next_message_id /\ OpsStep(lib.ops, M.ops)
    BY <1>1, <1>3, <1>6 DEF Step
<1>9. opens' = opens + 1 /\ opens' \in 0 .. MaxOpens /\ alive' = alive /\ lib' = done(M)
    BY Bounds DEF cbs_open_async, IInv, TypeOK, L, O, M
<1>10. faults' \in 0 .. MaxFaults
    BY FaultsType DEF cbs_open_async
<1>11. /\ alive /\ requests' = requests /\ granted' = granted /\ responses' \subseteq responses
       /\ session' = session
    BY DEF cbs_open_async, peer
<1> QED BY <1>5, <1>6, <1>7, <1>8, <1>9, <1>10, <1>11 DEF Runs

\* What the other actions have in common.
LEMMA RunsByStep ==
    ASSUME IInv, NEW F \in SUBSET Sides, NEW M, Step(with(F), M), M.event = "none", Settled(M),
           Failing(F) \/ Fault, lib' = done(M), alive, opens' = opens,
           requests' \subseteq requests, granted' = granted, responses' \subseteq responses,
           session' \in {"UNMAPPED", "MAPPED", "DISCARDING", "ERROR"}
    PROVE  Runs(M, 0)
<1>1. /\ M \in Work /\ M.next_message_id = lib.next_message_id
      /\ OpsStep(lib.ops, M.ops) /\ balance(M) = balance(lib) + 0
    BY WithFails, StepRuns
<1>2. faults' \in 0 .. MaxFaults
    BY FaultsType
<1>3. opens' = opens + 0
    BY Bounds DEF IInv, TypeOK
<1> QED BY <1>1, <1>2, <1>3 DEF Runs

LEMMA CloseRuns ==
    ASSUME IInv, NEW F \in SUBSET Sides, cbs_close(F)
    PROVE  alive' = alive /\ \E M : Runs(M, 0)
<1> DEFINE M == cbs_closed(with(F))
<1>1. Step(with(F), M) /\ M.event = "none" /\ Settled(M)
    BY WithFails, CbsClosed
<1>2. lib' = done(M)
    BY DEF cbs_close
<1> HIDE DEF M
<1>3. /\ alive /\ alive' = alive /\ opens' = opens /\ Failing(F)
      /\ requests' = requests /\ granted' = granted /\ responses' \subseteq responses
      /\ session' \in {"UNMAPPED", "MAPPED", "DISCARDING", "ERROR"}
    BY DEF cbs_close, peer, IInv, TypeOK
<1> QED BY <1>1, <1>2, <1>3, RunsByStep

LEMMA DestroyRuns ==
    ASSUME IInv, NEW F \in SUBSET Sides, cbs_destroy(F)
    PROVE  /\ alive' = FALSE
           /\ \E M : Runs(M, 0) /\ \A n \in 1 .. Len(M.ops) : ~M.ops[n].cbs_pending
<1> DEFINE M == cbs_destroyed(with(F))
<1>1. /\ Step(with(F), M) /\ M.event = "none" /\ Settled(M)
      /\ \A n \in 1 .. Len(M.ops) : ~M.ops[n].cbs_pending
    BY WithFails, CbsDestroyed
<1>2. lib' = done(M)
    BY DEF cbs_destroy
<1> HIDE DEF M
<1>3. /\ alive /\ alive' = FALSE /\ opens' = opens /\ Failing(F)
      /\ requests' = requests /\ granted' = granted /\ responses' \subseteq responses
      /\ session' \in {"UNMAPPED", "MAPPED", "DISCARDING", "ERROR"}
    BY DEF cbs_destroy, peer, IInv, TypeOK
<1>4. Runs(M, 0)
    BY <1>1, <1>2, <1>3, RunsByStep
<1> QED BY <1>1, <1>3, <1>4

LEMMA MappedRuns ==
    ASSUME IInv, NEW F \in SUBSET Sides, session_mapped(F)
    PROVE  alive' = alive /\ \E M : Runs(M, 0)
<1> DEFINE L == with(F)
           S == IF "sender" \in lib.begun THEN attached_to(L, "sender") ELSE L
           R == IF "receiver" \in lib.begun THEN attached_to(S, "receiver") ELSE S
<1>1. "sender" \in Sides /\ "receiver" \in Sides
    BY DEF Sides
<1>2. L \in Work /\ Settled(L) /\ L.event = "none" /\ Keeps(L, L)
    BY WithFails, StepRefl DEF Keeps
<1>3. lib' = done(R)
    BY DEF session_mapped
<1>4. Keeps(L, S)
    BY <1>1, <1>2, AttachedTo, SameKeeps
<1> HIDE DEF S
<1>5. S \in Work /\ Settled(S) /\ S.event = "none" /\ Keeps(S, S)
    BY <1>4, StepRefl, StepWork DEF Keeps
<1>6. Keeps(S, R)
    BY <1>1, <1>5, AttachedTo, SameKeeps
<1> HIDE DEF R
<1>7. Step(L, R) /\ R.event = "none" /\ Settled(R)
    BY <1>4, <1>6, KeepsTrans DEF Keeps
<1>8. /\ alive /\ alive' = alive /\ opens' = opens /\ Failing(F)
      /\ requests' = requests /\ granted' = granted /\ responses' \subseteq responses
      /\ session' \in {"UNMAPPED", "MAPPED", "DISCARDING", "ERROR"}
    BY DEF session_mapped, peer, IInv, TypeOK
<1> QED BY <1>3, <1>7, <1>8, RunsByStep

LEMMA LostRuns ==
    ASSUME IInv, NEW F \in SUBSET Sides, NEW state \in {"DISCARDING", "ERROR"},
           session_lost(state, F)
    PROVE  alive' = alive /\ \E M : Runs(M, 0)
<1> DEFINE L == with(F)
           S == IF "sender" \in lib.begun \ lib.detaching
                THEN on_session_state_changed(L, "sender", state) ELSE L
           R == IF "receiver" \in lib.begun \ lib.detaching
                THEN on_session_state_changed(S, "receiver", state) ELSE S
<1>1. /\ "sender" \in Sides /\ "receiver" \in Sides
      /\ state \in {"UNMAPPED", "MAPPED", "DISCARDING", "ERROR"}
    BY DEF Sides
<1>2. L \in Work /\ Settled(L) /\ L.event = "none" /\ Keeps(L, L)
    BY WithFails, StepRefl DEF Keeps
<1>3. lib' = done(R)
    BY DEF session_lost
<1>4. Keeps(L, S)
    BY <1>1, <1>2, SessionChanged
<1> HIDE DEF S
<1>5. S \in Work /\ Settled(S) /\ S.event = "none" /\ Keeps(S, S)
    BY <1>4, StepRefl, StepWork DEF Keeps
<1>6. Keeps(S, R)
    BY <1>1, <1>5, SessionChanged
<1> HIDE DEF R
<1>7. Step(L, R) /\ R.event = "none" /\ Settled(R)
    BY <1>4, <1>6, KeepsTrans DEF Keeps
<1>8. /\ alive /\ alive' = alive /\ opens' = opens /\ Failing(F)
      /\ requests' \subseteq requests /\ granted' = granted /\ responses' \subseteq responses
      /\ session' \in {"UNMAPPED", "MAPPED", "DISCARDING", "ERROR"}
    BY DEF session_lost, IInv, TypeOK
<1> QED BY <1>3, <1>7, <1>8, RunsByStep

\* Events that the library is told of and handles.
LEMMA ReadyStep ==
    ASSUME NEW L, NEW M, Step(L, M), Ready(M)
    PROVE  LET N == handled(M) IN Step(L, N) /\ N.event = "none" /\ Settled(N)
<1>1. Handles(M, handled(M))
    BY StepWork, HandledHandles
<1> QED BY <1>1, StepTrans DEF Handles

LEMMA ErrorStep ==
    ASSUME NEW L \in Work, Settled(L), L.event = "none"
    PROVE  LET N == handled([L EXCEPT !.event = "error"])
           IN  Step(L, N) /\ N.event = "none" /\ Settled(N)
<1> DEFINE M == WithEvent(L, "error")
<1>1. M = [L EXCEPT !.event = "error"] /\ "error" \in Events
    BY DEF WithEvent, Events
<1>2. /\ Step(L, M) /\ M.cbs = L.cbs /\ M.messaging = L.messaging
      /\ M.event = "error" /\ M.management = L.management
    BY <1>1, SetEvent
<1> HIDE DEF M
<1>3. Ready(M)
    BY <1>2 DEF Ready, Settled, Unopened, Closable
<1> QED BY <1>1, <1>2, <1>3, ReadyStep

LEMMA AttachRuns ==
    ASSUME IInv, NEW F \in SUBSET Sides, NEW s \in Sides, attach_received(s, F)
    PROVE  alive' = alive /\ \E M : Runs(M, 0)
<1> DEFINE M == handled(set_link_state(with(F), s, "ATTACHED"))
<1>1. Step(with(F), M) /\ M.event = "none" /\ Settled(M)
    BY WithFails, AttachReady, ReadyStep
<1>2. lib' = done(M)
    BY DEF attach_received
<1> HIDE DEF M
<1>3. /\ alive /\ alive' = alive /\ opens' = opens /\ Failing(F)
      /\ requests' = requests /\ granted' = granted /\ responses' \subseteq responses
      /\ session' \in {"UNMAPPED", "MAPPED", "DISCARDING", "ERROR"}
    BY DEF attach_received, Receives, peer, IInv, TypeOK
<1> QED BY <1>1, <1>2, <1>3, RunsByStep

LEMMA DetachRuns ==
    ASSUME IInv, NEW F \in SUBSET Sides, NEW s \in Sides,
           NEW close_it \in BOOLEAN, NEW error \in BOOLEAN, detach_received(s, close_it, error, F)
    PROVE  alive' = alive /\ \E M : Runs(M, 0)
<1> DEFINE L == with(F)
           c == IF close_it /\ s \notin F THEN L.closed \cup {s} ELSE L.closed
           d == L.detaching \cup {s}
           M == WithDetached(L, c, d)
           N == IF s = "sender" THEN remove_all_pending_deliveries(M) ELSE M
           new == IF error THEN "ERROR" ELSE "DETACHED"
           R == handled(set_link_state(N, s, new))
<1>1. L \in Work /\ Settled(L) /\ L.event = "none"
    BY WithFails
<1>2. lib' = done(R)
    BY DEF detach_received, WithDetached
<1>3. c \in SUBSET Sides /\ d \in SUBSET Sides
    BY <1>1, WorkFields
<1> HIDE DEF c, d
<1>4. Step(L, M) /\ SameStates(L, M) /\ M.ops = L.ops
    BY <1>1, <1>3, SetDetached
<1> HIDE DEF M
<1>5. Keeps(L, M) /\ M \in Work
    BY <1>1, <1>4, SameKeeps, StepWork
<1>6. Keeps(M, N)
    BY <1>5, DeliveriesRemoved, SameKeeps, StepRefl DEF Keeps
<1> HIDE DEF N
<1>7. N \in Work /\ Settled(N) /\ N.event = "none" /\ new \in {"DETACHED", "HALF_ATTACHED", "ERROR"}
    BY <1>6, StepWork DEF Keeps
<1> HIDE DEF new
<1>8. Keeps(N, R)
    BY <1>7, SetLinkStateMoves, MovesHandled
<1> HIDE DEF R
<1>9. Step(L, R) /\ R.event = "none" /\ Settled(R)
    BY <1>5, <1>6, <1>8, KeepsTrans DEF Keeps
<1>10. /\ alive /\ alive' = alive /\ opens' = opens /\ Failing(F)
       /\ requests' = requests /\ granted' = granted /\ responses' \subseteq responses
       /\ session' \in {"UNMAPPED", "MAPPED", "DISCARDING", "ERROR"}
    BY DEF detach_received, Receives, peer, IInv, TypeOK
<1> QED BY <1>2, <1>9, <1>10, RunsByStep

LEMMA StrayRuns ==
    ASSUME IInv, NEW F \in SUBSET Sides, NEW decoded \in BOOLEAN, stray_received(decoded, F)
    PROVE  alive' = alive /\ \E M : Runs(M, 0)
<1> DEFINE L == with(F)
           E == handled([L EXCEPT !.event = "error"])
           S == handled(set_state(L, "receiver", "ERROR"))
           M == IF decoded THEN E ELSE S
<1>1. L \in Work /\ Settled(L) /\ L.event = "none" /\ "receiver" \in Sides
    BY WithFails DEF Sides
<1>2. Step(L, E) /\ E.event = "none" /\ Settled(E)
    BY <1>1, ErrorStep
<1>3. Step(L, S) /\ S.event = "none" /\ Settled(S)
    BY <1>1, StateSet, MovesHandled DEF Keeps
<1>4. lib' = done(M)
    BY DEF stray_received
<1>5. Step(L, M) /\ M.event = "none" /\ Settled(M)
    BY <1>2, <1>3
<1> HIDE DEF M
<1>6. /\ alive /\ alive' = alive /\ opens' = opens /\ Fault
      /\ requests' = requests /\ granted' = granted /\ responses' \subseteq responses
      /\ session' \in {"UNMAPPED", "MAPPED", "DISCARDING", "ERROR"}
    BY DEF stray_received, Receives, IInv, TypeOK
<1> QED BY <1>4, <1>5, <1>6, RunsByStep

-----------------------------------------------------------------------------
(* The inductive invariant *)

\* Actions that leave the number of operations and their message ids alone.
LEMMA KeptIInv ==
    ASSUME IInv,
           lib' \in Library, Settled(lib'), opens' = balance(lib'),
           Len(lib'.ops) = Len(lib.ops), lib'.next_message_id = lib.next_message_id,
           \A n \in 1 .. Len(lib.ops) : /\ Good(lib'.ops[n])
                                        /\ lib'.ops[n].message_id = lib.ops[n].message_id,
           session' \in {"UNMAPPED", "MAPPED", "DISCARDING", "ERROR"}, alive' \in BOOLEAN,
           opens' \in 0 .. MaxOpens, faults' \in 0 .. MaxFaults,
           requests' \subseteq Request, responses' \subseteq Response,
           granted' \subseteq 1 .. Len(lib.ops),
           \A r \in requests' : r.operation \in 1 .. Len(lib.ops) /\ r.message_id + 1 = r.operation,
           \A r \in responses' : /\ r.operation \in 1 .. Len(lib.ops)
                                 /\ r.message_id + 1 = r.operation
                                 /\ r.ok => r.operation \in granted'
    PROVE  IInv'
<1>1. lib'.ops \in Seq(Operation)
    BY DEF Library
<1>2. DOMAIN lib'.ops = 1 .. Len(lib.ops)
    BY <1>1
<1>3. TypeOK'
    BY <1>2 DEF TypeOK
<1>4. Settled(lib)' /\ (\A n \in 1 .. Len(lib.ops) : Good(lib.ops[n]))' /\ (opens = balance(lib))'
    OBVIOUS
<1>5. Numbered'
    BY DEF IInv, Numbered
<1> QED BY <1>3, <1>4, <1>5 DEF IInv

LEMMA RunsIInv ==
    ASSUME IInv, NEW M, NEW more, Runs(M, more), opens' \in 0 .. MaxOpens, alive' \in BOOLEAN
    PROVE  IInv'
<1>1. lib' = WithFail(M, {}) /\ {} \in SUBSET Sides /\ M \in Work
    BY DEF Runs, done, WithFail
<1>2. Step(M, lib') /\ SameStates(M, lib') /\ lib'.ops = M.ops /\ lib'.fail = {}
    BY <1>1, SetFail
<1>3. lib' \in Work /\ lib'.event = "none" /\ Settled(lib')
    BY <1>2, StepWork DEF Runs, SameStates, Settled, Unopened, Closable
<1>4. opens' = balance(lib')
    BY <1>2 DEF Step, Runs, IInv
<1>5. lib'.answers <= MaxOpens
    <2>1. lib'.answers \in Nat
        BY <1>3, WorkFields
    <2> QED BY <1>4, <2>1, Bounds DEF balance
<1>6. lib' \in Library
    BY <1>2, <1>3, <1>5, WorkIsLibrary
<1>7. /\ Len(lib'.ops) = Len(lib.ops)
      /\ \A n \in 1 .. Len(lib.ops) : /\ Good(lib'.ops[n])
                                      /\ lib'.ops[n].message_id = lib.ops[n].message_id
    BY <1>2 DEF Runs, OpsStep, OpStep, IInv
<1>8. lib'.next_message_id = lib.next_message_id
    BY <1>2 DEF Step, Runs
<1>9. lib.ops \in Seq(Operation)
    BY LibraryIsWork, WorkFields
<1>10. /\ requests' \subseteq Request /\ responses' \subseteq Response
       /\ granted' \subseteq 1 .. Len(lib.ops)
       /\ \A r \in requests' : r.operation \in 1 .. Len(lib.ops) /\ r.message_id + 1 = r.operation
       /\ \A r \in responses' : /\ r.operation \in 1 .. Len(lib.ops)
                                /\ r.message_id + 1 = r.operation
                                /\ r.ok => r.operation \in granted'
    BY <1>9 DEF Runs, IInv, TypeOK, Numbered
<1>11. /\ session' \in {"UNMAPPED", "MAPPED", "DISCARDING", "ERROR"}
       /\ faults' \in 0 .. MaxFaults
    BY DEF Runs
<1> QED BY <1>3, <1>4, <1>6, <1>7, <1>8, <1>10, <1>11, KeptIInv

\* An action on one operation.
WithOp(L, n, q) == [L EXCEPT !.ops[n] = q]

LEMMA SetOp ==
    ASSUME NEW L \in Library, NEW n \in 1 .. Len(L.ops), NEW q \in Operation
    PROVE  LET M == WithOp(L, n, q)
           IN  /\ M \in Library /\ SameStates(L, M) /\ M.answers = L.answers
               /\ M.next_message_id = L.next_message_id
               /\ Len(M.ops) = Len(L.ops) /\ M.ops[n] = q
               /\ \A k \in 1 .. Len(L.ops) : k # n => M.ops[k] = L.ops[k]
<1> DEFINE M == WithOp(L, n, q)
           t == [L.ops EXCEPT ![n] = q]
<1>1. L.ops \in Seq(Operation)
    BY DEF Library
<1>2. /\ t \in Seq(Operation) /\ Len(t) = Len(L.ops) /\ t[n] = q
      /\ \A k \in 1 .. Len(L.ops) : k # n => t[k] = L.ops[k]
    BY <1>1
<1>3. M = [L EXCEPT !.ops = t]
    BY DEF WithOp
<1> HIDE DEF t
<1>4. M \in Library /\ M.ops = t
    BY <1>2, <1>3, ZenonT(60) DEF Library
<1>5. SameStates(L, M) /\ M.answers = L.answers /\ M.next_message_id = L.next_message_id
    BY <1>3 DEF Library, SameStates
<1> HIDE DEF M
<1>6. /\ M \in Library /\ SameStates(L, M) /\ M.answers = L.answers
      /\ M.next_message_id = L.next_message_id
      /\ Len(M.ops) = Len(L.ops) /\ M.ops[n] = q
      /\ \A k \in 1 .. Len(L.ops) : k # n => M.ops[k] = L.ops[k]
    BY <1>2, <1>4, <1>5
<1> QED BY <1>6 DEF M

LEMMA OneOpIInv ==
    ASSUME IInv, NEW n \in 1 .. Len(lib.ops), NEW q \in Operation, Good(q),
           q.message_id = lib.ops[n].message_id, lib' = WithOp(lib, n, q),
           session' = session, alive' = alive, opens' = opens,
           faults' \in 0 .. MaxFaults, granted' = granted, responses' \subseteq responses,
           requests' = requests \/ requests' = requests \cup {request(q.message_id, n)}
    PROVE  IInv'
<1>1. lib \in Library /\ lib.ops \in Seq(Operation)
    BY DEF IInv, TypeOK, Library
<1>2. /\ lib' \in Library /\ SameStates(lib, lib') /\ lib'.answers = lib.answers
      /\ lib'.next_message_id = lib.next_message_id
      /\ Len(lib'.ops) = Len(lib.ops) /\ lib'.ops[n] = q
      /\ \A k \in 1 .. Len(lib.ops) : k # n => lib'.ops[k] = lib.ops[k]
    BY <1>1, SetOp
<1>3. Settled(lib') /\ opens' = balance(lib')
    BY <1>2 DEF IInv, SameStates, Settled, Unopened, Closable, balance
<1>4. \A k \in 1 .. Len(lib.ops) : /\ Good(lib'.ops[k])
                                   /\ lib'.ops[k].message_id = lib.ops[k].message_id
    BY <1>2 DEF IInv
<1>5. q.message_id \in Nat /\ q.message_id + 1 = n /\ n \in 1 .. MaxOperations
    BY OpFields, Bounds DEF IInv, Numbered
<1>6. LET r == request(q.message_id, n)
      IN  r \in Request /\ r.operation = n /\ r.message_id = q.message_id
    BY <1>5 DEF request, Request
<1>7. /\ requests' \subseteq Request
      /\ \A r \in requests' : r.operation \in 1 .. Len(lib.ops) /\ r.message_id + 1 = r.operation
    BY <1>5, <1>6 DEF IInv, TypeOK, Numbered
<1>8. /\ responses' \subseteq Response /\ granted' \subseteq 1 .. Len(lib.ops)
      /\ \A r \in responses' : /\ r.operation \in 1 .. Len(lib.ops)
                               /\ r.message_id + 1 = r.operation
                               /\ r.ok => r.operation \in granted'
    BY <1>1 DEF IInv, TypeOK, Numbered
<1>9. /\ session' \in {"UNMAPPED", "MAPPED", "DISCARDING", "ERROR"}
      /\ opens' \in 0 .. MaxOpens
    BY DEF IInv, TypeOK
<1>10. alive' \in BOOLEAN
    BY DEF IInv, TypeOK
<1> QED BY <1>2, <1>3, <1>4, <1>7, <1>8, <1>9, <1>10, KeptIInv

\* The operation in the actions on one operation.
Unseen(p, q) == q.cbs_pending = p.cbs_pending /\ q.calls = p.calls /\ q.result = p.result

LEMMA CancelledOp ==
    ASSUME NEW op \in Operation, Good(op), op.cbs_pending
    PROVE  LET q == cancelled(op)
           IN  /\ q \in Operation /\ Good(q) /\ q.message_id = op.message_id
               /\ ~q.cbs_pending /\ q.calls = 0
<1> DEFINE q == cancelled(op)
<1>1. q = [message_id |-> op.message_id, pending |-> FALSE, cbs_pending |-> FALSE,
           message_send_confirmed |-> FALSE, send_async_context |-> FALSE,
           send |-> "none", result |-> op.result, calls |-> op.calls]
    BY DEF cancelled, freed, Operation
<1>2. op.calls = 0
    BY DEF Good
<1>3. q \in Operation
    BY <1>1, OpFields DEF Operation
<1> QED BY <1>1, <1>2, <1>3 DEF Good

LEMMA TransferredOp ==
    ASSUME NEW op \in Operation, Good(op), op.send = "waiting"
    PROVE  LET q == [op EXCEPT !.send = "transferred"]
           IN  q \in Operation /\ Good(q) /\ q.message_id = op.message_id /\ Unseen(op, q)
<1> DEFINE q == [op EXCEPT !.send = "transferred"]
<1>1. q \in Operation
    BY DEF Operation
<1>2. /\ q.pending = op.pending /\ q.cbs_pending = op.cbs_pending
      /\ q.message_send_confirmed = op.message_send_confirmed
      /\ q.send_async_context = op.send_async_context /\ q.send = "transferred"
      /\ q.calls = op.calls /\ q.message_id = op.message_id /\ q.result = op.result
    BY DEF Operation
<1> HIDE DEF q
<1>3. Good(q)
    BY <1>2 DEF Good
<1> QED BY <1>1, <1>2, <1>3 DEF Unseen, q

LEMMA ConfirmedOp ==
    ASSUME NEW op \in Operation, Good(op), op.send = "transferred"
    PROVE  LET q == send_over(op, "OK")
           IN  q \in Operation /\ Good(q) /\ q.message_id = op.message_id /\ Unseen(op, q)
<1> DEFINE q == send_over(op, "OK")
<1>1. q = [[op EXCEPT !.send = "none"]
           EXCEPT !.message_send_confirmed = TRUE, !.send_async_context = FALSE]
    BY DEF send_over, on_message_send_complete
<1>2. q \in Operation
    BY <1>1 DEF Operation
<1>3. /\ q.pending = op.pending /\ q.cbs_pending = op.cbs_pending
      /\ q.message_send_confirmed /\ ~q.send_async_context /\ q.send = "none"
      /\ q.calls = op.calls /\ q.message_id = op.message_id /\ q.result = op.result
    BY <1>1 DEF Operation
<1> HIDE DEF q
<1>4. Good(q)
    BY <1>3 DEF Good
<1> QED BY <1>2, <1>3, <1>4 DEF Unseen, q

LEMMA FailedOp ==
    ASSUME NEW op \in Operation, Good(op), op.send # "none"
    PROVE  LET q == send_over(op, "ERROR")
           IN  /\ q \in Operation /\ Good(q) /\ q.message_id = op.message_id
               /\ op.cbs_pending /\ op.calls = 0
               /\ ~q.cbs_pending /\ q.calls = 1 /\ q.result = "FAILED"
<1> DEFINE q == send_over(op, "ERROR")
<1>1. q \in Operation /\ OpStep(op, q)
    BY SendFailsStep
<1>2. q.send = "none" /\ ~q.cbs_pending /\ q.result = "FAILED"
    BY SendFails
<1> HIDE DEF q
<1>3. op.cbs_pending
    BY DEF Good
<1>4. op.calls = 0
    BY <1>3 DEF Good
<1> QED BY <1>1, <1>2, <1>3, <1>4 DEF OpStep, q

LEMMA AnsweredOp ==
    ASSUME NEW op \in Operation, Good(op), op.pending, NEW ok \in BOOLEAN
    PROVE  LET q == answered(op, ok)
           IN  /\ q \in Operation /\ Good(q) /\ q.message_id = op.message_id
               /\ op.cbs_pending /\ op.calls = 0
               /\ ~q.cbs_pending /\ q.calls = 1
               /\ q.result = "FAILED" \/ (q.result = "OK" /\ ok)
<1> DEFINE p == [op EXCEPT !.pending = FALSE, !.send = "none", !.send_async_context = FALSE]
           result == IF op.message_send_confirmed /\ ok THEN "OK" ELSE "FAILED"
           q == answered(op, ok)
<1>1. p \in Operation /\ ~p.pending /\ p.send = "none" /\ p.calls = op.calls
      /\ p.message_id = op.message_id
    BY DEF Operation
<1>2. q = on_execute_operation_complete(p, result)
    BY DEF answered
<1>3. result \in {"NONE", "OK", "FAILED"} /\ (result = "FAILED" \/ (result = "OK" /\ ok))
    OBVIOUS
<1>4. op.cbs_pending
    BY DEF Good
<1>5. op.calls = 0 /\ op.message_id \in Nat
    BY <1>4, OpFields DEF Good
<1> HIDE DEF p, result
<1>6. q = [message_id |-> op.message_id, pending |-> FALSE, cbs_pending |-> FALSE,
           message_send_confirmed |-> FALSE, send_async_context |-> FALSE,
           send |-> "none", result |-> result, calls |-> op.calls + 1]
    BY <1>1, <1>2, <1>3, Completed
<1>7. op.calls + 1 = 1
    BY <1>5
<1>8. q \in Operation
    BY <1>3, <1>5, <1>6, <1>7 DEF Operation
<1> QED BY <1>3, <1>4, <1>5, <1>6, <1>7, <1>8 DEF Good

-----------------------------------------------------------------------------
(* The actions on one operation *)

\* What an action does to operation n as the user sees it.
Changes(n, q) ==
    /\ n \in 1 .. Len(lib.ops) /\ q \in Operation
    /\ lib' = WithOp(lib, n, q)
    /\ alive /\ alive' = alive /\ granted' = granted
    /\ \/ Unseen(lib.ops[n], q)
       \/ lib.ops[n].cbs_pending /\ ~q.cbs_pending /\ q.calls = 0
       \/ lib.ops[n].cbs_pending /\ ~q.cbs_pending /\ q.calls = 1 /\ q.result = "FAILED"
       \/ /\ lib.ops[n].cbs_pending /\ ~q.cbs_pending /\ q.calls = 1 /\ q.result = "OK"
          /\ n \in granted

LEMMA OpsGood ==
    ASSUME IInv, NEW n \in DOMAIN lib.ops
    PROVE  n \in 1 .. Len(lib.ops) /\ lib.ops[n] \in Operation /\ Good(lib.ops[n])
<1>1. lib.ops \in Seq(Operation)
    BY LibraryIsWork, WorkFields
<1> QED BY <1>1 DEF IInv

LEMMA CancelStep ==
    ASSUME IInv, NEW n \in DOMAIN lib.ops, cbs_put_token_cancel_handler(n)
    PROVE  IInv' /\ \E q : Changes(n, q)
<1> DEFINE q == cancelled(lib.ops[n])
<1>1. n \in 1 .. Len(lib.ops) /\ lib.ops[n] \in Operation /\ Good(lib.ops[n])
    BY OpsGood
<1>2. /\ q \in Operation /\ Good(q) /\ q.message_id = lib.ops[n].message_id
      /\ ~q.cbs_pending /\ q.calls = 0
    BY <1>1, CancelledOp DEF cbs_put_token_cancel_handler
<1>3. lib' = WithOp(lib, n, q)
    BY DEF cbs_put_token_cancel_handler, WithOp
<1> HIDE DEF q
<1>4. /\ alive /\ alive' = alive /\ session' = session /\ opens' = opens
      /\ granted' = granted /\ responses' \subseteq responses /\ requests' = requests
      /\ faults' \in 0 .. MaxFaults /\ lib.ops[n].cbs_pending
    BY DEF cbs_put_token_cancel_handler, peer, IInv, TypeOK
<1>5. IInv'
    BY <1>1, <1>2, <1>3, <1>4, OneOpIInv
<1> QED BY <1>1, <1>2, <1>3, <1>4, <1>5 DEF Changes

LEMMA SendStep ==
    ASSUME IInv, NEW n \in DOMAIN lib.ops, send_pending(n)
    PROVE  IInv' /\ \E q : Changes(n, q)
<1>1. n \in 1 .. Len(lib.ops) /\ lib.ops[n] \in Operation /\ Good(lib.ops[n])
    BY OpsGood
<1>2. /\ alive /\ alive' = alive /\ session' = session /\ opens' = opens
      /\ granted' = granted /\ responses' \subseteq responses
      /\ faults' \in 0 .. MaxFaults /\ lib.ops[n].send = "waiting"
    BY DEF send_pending, peer, IInv, TypeOK
<1>3. CASE /\ lib' = [lib EXCEPT !.ops[n].send = "transferred"]
           /\ requests' = requests \cup {request(lib.ops[n].message_id, n)}
    <2> DEFINE q == [lib.ops[n] EXCEPT !.send = "transferred"]
    <2>1. q \in Operation /\ Good(q) /\ q.message_id = lib.ops[n].message_id /\ Unseen(lib.ops[n], q)
        BY <1>1, <1>2, TransferredOp
    <2>2. lib' = WithOp(lib, n, q)
        BY <1>3 DEF WithOp
    <2> HIDE DEF q
    <2>3. IInv'
        BY <1>1, <1>2, <1>3, <2>1, <2>2, OneOpIInv
    <2> QED BY <1>1, <1>2, <2>1, <2>2, <2>3 DEF Changes
<1>4. CASE lib' = [lib EXCEPT !.ops[n] = send_over(@, "ERROR")] /\ requests' = requests
    <2> DEFINE q == send_over(lib.ops[n], "ERROR")
    <2>1. /\ q \in Operation /\ Good(q) /\ q.message_id = lib.ops[n].message_id
          /\ lib.ops[n].cbs_pending /\ ~q.cbs_pending /\ q.calls = 1 /\ q.result = "FAILED"
        BY <1>1, <1>2, FailedOp
    <2>2. lib' = WithOp(lib, n, q)
        BY <1>4 DEF WithOp
    <2> HIDE DEF q
    <2>3. IInv'
        BY <1>1, <1>2, <1>4, <2>1, <2>2, OneOpIInv
    <2> QED BY <1>1, <1>2, <2>1, <2>2, <2>3 DEF Changes
<1> QED BY <1>3, <1>4 DEF send_pending

LEMMA SettledStep ==
    ASSUME IInv, NEW n \in DOMAIN lib.ops, NEW send_result \in {"OK", "ERROR"},
           delivery_settled(n, send_result)
    PROVE  IInv' /\ \E q : Changes(n, q)
<1> DEFINE q == send_over(lib.ops[n], send_result)
<1>1. n \in 1 .. Len(lib.ops) /\ lib.ops[n] \in Operation /\ Good(lib.ops[n])
    BY OpsGood
<1>2. /\ alive /\ alive' = alive /\ session' = session /\ opens' = opens
      /\ granted' = granted /\ responses' \subseteq responses /\ requests' = requests
      /\ faults' \in 0 .. MaxFaults /\ lib.ops[n].send = "transferred"
    BY DEF delivery_settled, Receives, peer, IInv, TypeOK
<1>3. lib' = WithOp(lib, n, q)
    BY DEF delivery_settled, WithOp
<1>4. /\ q \in Operation /\ Good(q) /\ q.message_id = lib.ops[n].message_id
      /\ \/ Unseen(lib.ops[n], q)
         \/ lib.ops[n].cbs_pending /\ ~q.cbs_pending /\ q.calls = 1 /\ q.result = "FAILED"
    <2>1. CASE send_result = "OK"
        BY <1>1, <1>2, <2>1, ConfirmedOp
    <2>2. CASE send_result = "ERROR"
        BY <1>1, <1>2, <2>2, FailedOp
    <2> QED BY <2>1, <2>2
<1> HIDE DEF q
<1>5. IInv'
    BY <1>1, <1>2, <1>3, <1>4, OneOpIInv
<1> QED BY <1>1, <1>2, <1>3, <1>4, <1>5 DEF Changes

\* A response runs the library for an error, or completes its own operation.
LEMMA ResponseStep ==
    ASSUME IInv, NEW F \in SUBSET Sides, NEW r \in responses, on_message_received(r, F)
    PROVE  /\ IInv' /\ alive' = alive
           /\ (\E M : Runs(M, 0)) \/ \E n, q : Changes(n, q)
<1> DEFINE found == {n \in DOMAIN lib.ops : matches(lib.ops[n], r)}
           first == CHOOSE n \in found : \A k \in found : n <= k
<1>1. /\ alive /\ alive' = alive /\ session' = session /\ opens' = opens
      /\ granted' = granted /\ responses' \subseteq responses /\ requests' = requests
      /\ Failing(F) /\ opens \in 0 .. MaxOpens
      /\ session \in {"UNMAPPED", "MAPPED", "DISCARDING", "ERROR"}
    BY DEF on_message_received, Receives, IInv, TypeOK
<1>2. alive' \in BOOLEAN
    BY DEF on_message_received, IInv, TypeOK
<1>3. CASE found # {}
    <2>1. PICK m \in DOMAIN lib.ops : matches(lib.ops[m], r)
        BY <1>3
    <2>2. \A n \in found : n = r.operation
        <3> SUFFICES ASSUME NEW n \in found PROVE n = r.operation
            OBVIOUS
        <3>1. n \in 1 .. Len(lib.ops) /\ lib.ops[n].message_id = r.message_id
            BY OpsGood DEF matches
        <3> QED BY <3>1 DEF IInv, Numbered
    <2>3. first = m /\ m = r.operation
        BY <2>1, <2>2
    <2> DEFINE q == answered(lib.ops[m], r.ok)
    <2>4. lib' = WithOp(lib, m, q)
        BY <1>3, <2>3 DEF on_message_received, WithOp
    <2>5. r.ok \in BOOLEAN /\ (r.ok => m \in granted)
        BY <2>3 DEF IInv, TypeOK, Numbered, Response
    <2>6. m \in 1 .. Len(lib.ops) /\ lib.ops[m] \in Operation /\ Good(lib.ops[m]) /\ lib.ops[m].pending
        BY <2>1, OpsGood DEF matches
    <2>7. /\ q \in Operation /\ Good(q) /\ q.message_id = lib.ops[m].message_id
          /\ lib.ops[m].cbs_pending /\ ~q.cbs_pending /\ q.calls = 1
          /\ q.result = "FAILED" \/ (q.result = "OK" /\ r.ok)
        BY <2>5, <2>6, AnsweredOp
    <2> HIDE DEF q, first
    <2>8. faults' \in 0 .. MaxFaults
        BY <1>1, FaultsType
    <2>9. IInv'
        BY <1>1, <2>4, <2>6, <2>7, <2>8, OneOpIInv
    <2>10. Changes(m, q)
        BY <1>1, <2>4, <2>5, <2>6, <2>7 DEF Changes
    <2> QED BY <1>1, <2>9, <2>10
<1>4. CASE found = {}
    <2> DEFINE M == handled([with(F) EXCEPT !.event = "error"])
    <2>1. lib' = done(M)
        BY <1>4 DEF on_message_received
    <2>2. Step(with(F), M) /\ M.event = "none" /\ Settled(M)
        BY WithFails, ErrorStep
    <2> HIDE DEF M
    <2>3. Runs(M, 0)
        BY <1>1, <2>1, <2>2, RunsByStep
    <2>4. IInv'
        BY <1>1, <1>2, <2>3, RunsIInv
    <2> QED BY <1>1, <2>3, <2>4
<1> QED BY <1>3, <1>4

LEMMA SubmitIInv ==
    ASSUME IInv, amqp_management_execute_operation_async
    PROVE  /\ IInv' /\ alive /\ alive' = alive /\ granted' = granted
           /\ \E op \in Operation : /\ op.cbs_pending /\ op.calls = 0
                                    /\ lib'.ops = Append(lib.ops, op)
           /\ Len(lib.ops) < MaxOperations
<1> DEFINE k == Len(lib.ops)
           id == lib.next_message_id
<1>1. PICK send \in send_outcomes :
         /\ lib' = [lib EXCEPT !.ops = Append(@, new_operation(send)), !.next_message_id = @ + 1]
         /\ requests' = IF send = "transferred"
                        THEN requests \cup {request(lib.next_message_id, Len(lib.ops) + 1)}
                        ELSE requests
    BY DEF amqp_management_execute_operation_async
<1>2. send \in {"waiting", "transferred"}
    BY DEF send_outcomes
<1>3. lib \in Library /\ lib.ops \in Seq(Operation) /\ k \in Nat /\ id = k /\ k < MaxOperations
    BY DEF IInv, TypeOK, Library, Numbered, amqp_management_execute_operation_async, Accepting
<1> DEFINE op == new_operation(send)
<1>4. op \in Operation /\ Good(op) /\ op.message_id = id /\ op.cbs_pending /\ op.calls = 0
    BY <1>2, <1>3 DEF new_operation, Operation, Good
<1> HIDE DEF op
<1> DEFINE t == Append(lib.ops, op)
<1>5. /\ t \in Seq(Operation) /\ Len(t) = k + 1 /\ t[k + 1] = op
      /\ \A n \in 1 .. k : t[n] = lib.ops[n]
    BY <1>3, <1>4
<1> HIDE DEF t
<1> DEFINE i == lib.next_message_id + 1
<1>6. i \in Nat /\ i = k + 1
    BY <1>3
<1>7. lib' = [lib EXCEPT !.ops = t, !.next_message_id = i]
    BY <1>1 DEF t, op
<1> HIDE DEF i
<1>8. lib' \in Library
    BY <1>3, <1>5, <1>6, <1>7 DEF Library
<1>9. /\ lib'.ops = t /\ lib'.next_message_id = i
      /\ SameStates(lib, lib') /\ lib'.answers = lib.answers
    BY <1>3, <1>7 DEF Library, SameStates
<1>10. Settled(lib') /\ opens' = balance(lib')
    BY <1>9 DEF SameStates, Settled, Unopened, Closable, balance, IInv,
                amqp_management_execute_operation_async
<1>11. /\ alive /\ alive' = alive /\ session' = session /\ opens' = opens
       /\ granted' = granted /\ responses' = responses /\ faults' = faults
    BY DEF amqp_management_execute_operation_async, Accepting
<1> DEFINE r == request(id, k + 1)
<1>12. r \in Request /\ r.operation = k + 1 /\ r.message_id = k
    BY <1>3, Bounds DEF request, Request
<1> HIDE DEF r
<1>13. requests' \subseteq requests \cup {r}
    BY <1>1 DEF r
<1>14. DOMAIN lib'.ops = 1 .. k + 1 /\ DOMAIN lib.ops = 1 .. k
    BY <1>3, <1>5, <1>9
<1>15. granted \subseteq 1 .. k + 1
    BY <1>3, <1>14 DEF IInv, TypeOK
<1>16. alive' \in BOOLEAN
    BY DEF amqp_management_execute_operation_async, IInv, TypeOK
<1>17. TypeOK'
    BY <1>8, <1>11, <1>12, <1>13, <1>14, <1>15, <1>16 DEF IInv, TypeOK
<1>18. \A n \in 1 .. k + 1 : n \in 1 .. k \/ n = k + 1
    BY <1>3
<1>19. \A n \in 1 .. Len(lib'.ops) : Good(lib'.ops[n]) /\ lib'.ops[n].message_id + 1 = n
    BY <1>3, <1>4, <1>5, <1>9, <1>18 DEF IInv, Numbered
<1>20. \A x \in requests' : x.operation \in 1 .. k + 1 /\ x.message_id + 1 = x.operation
    BY <1>3, <1>12, <1>13 DEF IInv, Numbered
<1>21. \A x \in responses' : /\ x.operation \in 1 .. k + 1 /\ x.message_id + 1 = x.operation
                             /\ x.ok => x.operation \in granted'
    BY <1>3, <1>11 DEF IInv, Numbered
<1>22. Numbered'
    BY <1>3, <1>5, <1>6, <1>9, <1>19, <1>20, <1>21, Bounds DEF Numbered
<1>23. IInv'
    BY <1>10, <1>17, <1>19, <1>22 DEF IInv
<1> QED BY <1>3, <1>4, <1>9, <1>11, <1>23 DEF t

LEMMA AnswersIInv ==
    ASSUME IInv, NEW r \in requests, NEW ok \in BOOLEAN, peer_answers(r, ok)
    PROVE  /\ IInv' /\ lib' = lib /\ alive' = alive /\ r.operation \in 1 .. Len(lib.ops)
           /\ granted' = granted \/ granted' = granted \cup {r.operation}
<1> DEFINE a == [message_id |-> r.message_id, operation |-> r.operation, ok |-> ok]
<1>1. r.operation \in 1 .. Len(lib.ops) /\ r.message_id + 1 = r.operation
    BY DEF IInv, Numbered
<1>2. a \in Response
    BY DEF IInv, TypeOK, Request, Response
<1>3. a.message_id = r.message_id /\ a.operation = r.operation /\ a.ok = ok
    OBVIOUS
<1>4. responses' = responses \cup {a}
    BY DEF peer_answers
<1> HIDE DEF a
<1>5. /\ lib' = lib /\ session' = session /\ alive' = alive /\ opens' = opens
      /\ faults' = faults /\ requests' \subseteq requests
      /\ granted' = IF ok THEN granted \cup {r.operation} ELSE granted
    BY DEF peer_answers
<1>6. lib.ops \in Seq(Operation) /\ granted \subseteq 1 .. Len(lib.ops)
    BY DEF IInv, TypeOK, Library
<1>7. /\ requests' \subseteq Request /\ responses' \subseteq Response
      /\ granted' \subseteq 1 .. Len(lib.ops)
      /\ \A x \in requests' : x.operation \in 1 .. Len(lib.ops) /\ x.message_id + 1 = x.operation
    BY <1>1, <1>2, <1>4, <1>5, <1>6 DEF IInv, TypeOK, Numbered
<1>8. \A x \in responses' : /\ x.operation \in 1 .. Len(lib.ops)
                            /\ x.message_id + 1 = x.operation
    BY <1>1, <1>3, <1>4 DEF IInv, Numbered
<1>9. \A x \in responses' : x.ok => x.operation \in granted'
    BY <1>3, <1>4, <1>5 DEF IInv, Numbered
<1>10. /\ lib' \in Library /\ Settled(lib') /\ opens' = balance(lib')
       /\ \A n \in 1 .. Len(lib.ops) : /\ Good(lib'.ops[n])
                                       /\ lib'.ops[n].message_id = lib.ops[n].message_id
       /\ session' \in {"UNMAPPED", "MAPPED", "DISCARDING", "ERROR"}
       /\ opens' \in 0 .. MaxOpens /\ faults' \in 0 .. MaxFaults
    BY <1>5 DEF IInv, TypeOK
<1>11. alive' \in BOOLEAN
    BY <1>5 DEF IInv, TypeOK
<1>12. IInv'
    BY <1>5, <1>7, <1>8, <1>9, <1>10, <1>11, KeptIInv
<1> QED BY <1>1, <1>5, <1>12

-----------------------------------------------------------------------------
(* Every step *)

\* A step of the library for which nobody asked, which is the end of the
\* instance or is not.
Runs0 ==
    \/ alive' = alive /\ \E M, more : Runs(M, more)
    \/ /\ alive' = FALSE
       /\ \E M : Runs(M, 0) /\ \A n \in 1 .. Len(M.ops) : ~M.ops[n].cbs_pending

Submits ==
    /\ alive /\ alive' = alive /\ granted' = granted
    /\ \E op \in Operation : op.cbs_pending /\ op.calls = 0 /\ lib'.ops = Append(lib.ops, op)
    /\ Len(lib.ops) < MaxOperations

Grants ==
    /\ lib' = lib /\ alive' = alive
    /\ \E n \in 1 .. Len(lib.ops) : granted' = granted \/ granted' = granted \cup {n}

LEMMA InitIInv ==
    ASSUME Init
    PROVE  IInv
<1>1. <<>> \in Seq(Operation) /\ Len(<<>>) = 0
    OBVIOUS
<1>2. lib \in Library
    BY <1>1, Bounds DEF Init, Library
<1>3. lib.ops = <<>> /\ lib.answers = 0 /\ lib.cbs = "CLOSED" /\ lib.management = "IDLE"
      /\ lib.next_message_id = 0
    BY DEF Init
<1>4. TypeOK
    BY <1>2, Bounds DEF Init, TypeOK
<1>5. Settled(lib) /\ balance(lib) = 0 /\ opens = 0
    BY <1>3 DEF Init, Settled, balance
<1>6. Numbered
    BY <1>1, <1>3, Bounds DEF Init, Numbered
<1> QED BY <1>1, <1>3, <1>4, <1>5, <1>6 DEF IInv

LEMMA RunsAlive ==
    ASSUME IInv, NEW M, Runs(M, 0), alive' = alive \/ alive' = FALSE
    PROVE  IInv'
<1>1. opens' \in 0 .. MaxOpens
    BY Bounds DEF Runs, IInv, TypeOK
<1>2. alive' \in BOOLEAN
    BY DEF IInv, TypeOK
<1> QED BY <1>1, <1>2, RunsIInv

LEMMA NextStep ==
    ASSUME IInv, Next
    PROVE  IInv' /\ (Runs0 \/ Submits \/ Grants \/ \E n, q : Changes(n, q))
<1>1. ASSUME NEW F \in SUBSET Sides, cbs_open_async(F) PROVE IInv' /\ Runs0
    <2>1. opens' \in 0 .. MaxOpens /\ alive' = alive /\ \E M : Runs(M, 1)
        BY <1>1, OpenRuns
    <2>2. alive' \in BOOLEAN
        BY <2>1 DEF IInv, TypeOK
    <2>3. IInv'
        BY <2>1, <2>2, RunsIInv
    <2> QED BY <2>1, <2>3 DEF Runs0
<1>2. ASSUME NEW F \in SUBSET Sides, cbs_close(F) PROVE IInv' /\ Runs0
    BY <1>2, CloseRuns, RunsAlive DEF Runs0
<1>3. ASSUME NEW F \in SUBSET Sides, cbs_destroy(F) PROVE IInv' /\ Runs0
    BY <1>3, DestroyRuns, RunsAlive DEF Runs0
<1>4. ASSUME NEW F \in SUBSET Sides, session_mapped(F) PROVE IInv' /\ Runs0
    BY <1>4, MappedRuns, RunsAlive DEF Runs0
<1>5. ASSUME NEW F \in SUBSET Sides, NEW state \in {"DISCARDING", "ERROR"}, session_lost(state, F)
      PROVE  IInv' /\ Runs0
    BY <1>5, LostRuns, RunsAlive DEF Runs0
<1>6. ASSUME NEW F \in SUBSET Sides, NEW s \in Sides, attach_received(s, F) PROVE IInv' /\ Runs0
    BY <1>6, AttachRuns, RunsAlive DEF Runs0
<1>7. ASSUME NEW F \in SUBSET Sides, NEW s \in Sides, NEW close_it \in BOOLEAN, NEW error \in BOOLEAN,
             detach_received(s, close_it, error, F)
      PROVE  IInv' /\ Runs0
    BY <1>7, DetachRuns, RunsAlive DEF Runs0
<1>8. ASSUME NEW F \in SUBSET Sides, NEW r \in responses, on_message_received(r, F)
      PROVE  IInv' /\ (Runs0 \/ \E n, q : Changes(n, q))
    BY <1>8, ResponseStep DEF Runs0
<1>9. ASSUME NEW F \in SUBSET Sides, NEW decoded \in BOOLEAN, stray_received(decoded, F)
      PROVE  IInv' /\ Runs0
    BY <1>9, StrayRuns, RunsAlive DEF Runs0
<1>10. ASSUME amqp_management_execute_operation_async PROVE IInv' /\ Submits
    BY <1>10, SubmitIInv DEF Submits
<1>11. ASSUME NEW n \in DOMAIN lib.ops, cbs_put_token_cancel_handler(n)
       PROVE  IInv' /\ \E q : Changes(n, q)
    BY <1>11, CancelStep
<1>12. ASSUME NEW n \in DOMAIN lib.ops, send_pending(n) PROVE IInv' /\ \E q : Changes(n, q)
    BY <1>12, SendStep
<1>13. ASSUME NEW n \in DOMAIN lib.ops, NEW send_result \in {"OK", "ERROR"},
              delivery_settled(n, send_result)
       PROVE  IInv' /\ \E q : Changes(n, q)
    BY <1>13, SettledStep
<1>14. ASSUME NEW r \in requests, NEW ok \in BOOLEAN, peer_answers(r, ok) PROVE IInv' /\ Grants
    BY <1>14, AnswersIInv DEF Grants
<1> QED BY <1>1, <1>2, <1>3, <1>4, <1>5, <1>6, <1>7, <1>8, <1>9, <1>10, <1>11, <1>12, <1>13, <1>14
        DEF Next

LEMMA StutterIInv ==
    ASSUME IInv, UNCHANGED vars
    PROVE  IInv'
<1>1. /\ lib' = lib /\ session' = session /\ alive' = alive /\ requests' = requests
      /\ responses' = responses /\ granted' = granted /\ opens' = opens
      /\ faults' = faults
    BY DEF vars, peer
<1>2. TypeOK' <=> TypeOK
    BY <1>1 DEF TypeOK
<1> QED BY <1>1, <1>2 DEF IInv, Numbered

\* The lists, the states and the opens of cbs.c and amqp_management.c stay
\* consistent through every action.
THEOREM Invariance == Spec => []IInv
<1>1. IInv /\ [Next]_vars => IInv'
    BY NextStep, StutterIInv
<1> QED BY <1>1, InitIInv, PTL DEF Spec

\* The library is one of its states after every call and every frame,
\* whatever fails.
THEOREM TypeCorrect == Spec => []TypeOK
<1>1. IInv => TypeOK
    BY DEF IInv
<1> QED BY <1>1, Invariance, PTL

\* The lists of cbs.c, amqp_management.c and message_sender.c hold the same
\* operations and hold no pointer to one that was freed.
THEOREM Pointers == Spec => []PointersLive
<1>1. IInv => PointersLive
    BY OpsGood DEF PointersLive, Good
<1> QED BY <1>1, Invariance, PTL

\* on_cbs_open_complete is called once for every open.
THEOREM AnsweredOnce == Spec => []OpenAnsweredOnce
<1>1. IInv => OpenAnsweredOnce
    BY DEF IInv, OpenAnsweredOnce, balance
<1> QED BY <1>1, Invariance, PTL

-----------------------------------------------------------------------------
(* The user's view *)

shown(op) ==
    CASE op.cbs_pending /\ op.calls = 0 -> "pending"
      [] ~op.cbs_pending /\ op.calls = 0 -> "cancelled"
      [] ~op.cbs_pending /\ op.calls = 1 -> IF op.result = "OK" THEN "ok" ELSE "failed"
      [] OTHER -> "completed again"

LEMMA StatusAt ==
    /\ status = [n \in 1 .. MaxOperations |-> IF n > Len(lib.ops) THEN "new" ELSE shown(lib.ops[n])]
    /\ status' = [n \in 1 .. MaxOperations |-> IF n > Len(lib'.ops) THEN "new" ELSE shown(lib'.ops[n])]
BY DEF status, shown

LEMMA ShownPending ==
    ASSUME NEW op, Good(op)
    PROVE  op.cbs_pending <=> shown(op) = "pending"
BY DEF shown, Good

LEMMA ShownUnseen ==
    ASSUME NEW p, NEW q, Unseen(p, q)
    PROVE  shown(q) = shown(p)
BY DEF shown, Unseen

LEMMA ShownStep ==
    ASSUME NEW p, NEW q, Good(p), OpStep(p, q)
    PROVE  /\ Good(q)
           /\ shown(q) = shown(p) \/ (shown(p) = "pending" /\ shown(q) = "failed")
<1>1. CASE q.cbs_pending = p.cbs_pending /\ q.calls = p.calls /\ q.result = p.result
    BY <1>1, ShownUnseen DEF OpStep, Unseen
<1>2. CASE /\ p.cbs_pending /\ p.calls = 0
           /\ ~q.cbs_pending /\ q.calls = 1 /\ q.result = "FAILED"
    BY <1>2 DEF OpStep, shown
<1> QED BY <1>1, <1>2 DEF OpStep

\* What runs unasked lets some operations fail.
LEMMA RunsShown ==
    ASSUME IInv, NEW M, NEW more, Runs(M, more)
    PROVE  /\ lib'.ops = M.ops /\ granted' = granted /\ alive
           /\ \A n \in 1 .. MaxOperations :
                status'[n] = status[n] \/ (status[n] = "pending" /\ status'[n] = "failed")
           /\ (\A n \in 1 .. Len(M.ops) : ~M.ops[n].cbs_pending) =>
                \A n \in 1 .. MaxOperations : status'[n] # "pending"
<1>1. lib'.ops = M.ops /\ granted' = granted /\ alive /\ OpsStep(lib.ops, M.ops)
    <2>1. lib' = WithFail(M, {}) /\ {} \in SUBSET Sides /\ M \in Work
        BY DEF Runs, done, WithFail
    <2> QED BY <2>1, SetFail DEF Runs
<1>2. lib.ops \in Seq(Operation) /\ Len(lib.ops) \in Nat /\ Len(M.ops) = Len(lib.ops)
    BY <1>1, LibraryIsWork, WorkFields DEF OpsStep
<1>3. ASSUME NEW n \in 1 .. MaxOperations
      PROVE  /\ status'[n] = status[n] \/ (status[n] = "pending" /\ status'[n] = "failed")
             /\ (\A k \in 1 .. Len(M.ops) : ~M.ops[k].cbs_pending) => status'[n] # "pending"
    <2>1. CASE n > Len(lib.ops)
        BY <1>1, <1>2, <2>1, StatusAt
    <2>2. CASE n \in 1 .. Len(lib.ops)
        <3>1. Good(lib.ops[n]) /\ OpStep(lib.ops[n], M.ops[n])
            BY <1>1, <2>2 DEF IInv, OpsStep
        <3>2. /\ Good(M.ops[n])
              /\ \/ shown(M.ops[n]) = shown(lib.ops[n])
                 \/ shown(lib.ops[n]) = "pending" /\ shown(M.ops[n]) = "failed"
            BY <3>1, ShownStep
        <3>3. status[n] = shown(lib.ops[n]) /\ status'[n] = shown(M.ops[n])
            BY <1>1, <1>2, <2>2, StatusAt
        <3>4. M.ops[n].cbs_pending <=> shown(M.ops[n]) = "pending"
            BY <3>2, ShownPending
        <3> QED BY <1>2, <2>2, <3>2, <3>3, <3>4
    <2> QED BY <1>2, <2>1, <2>2, Bounds
<1> QED BY <1>1, <1>3

LEMMA StatusFunction ==
    /\ status = [n \in 1 .. MaxOperations |-> status[n]]
    /\ status' = [n \in 1 .. MaxOperations |-> status'[n]]
BY DEF status

LEMMA RunsPromise ==
    ASSUME IInv, Runs0
    PROVE  Promise!Next \/ UNCHANGED Promise!vars
<1>1. CASE alive' = alive /\ \E M, more : Runs(M, more)
    <2> DEFINE S == {n \in 1 .. MaxOperations : status[n] = "pending" /\ status'[n] = "failed"}
    <2>1. /\ granted' = granted /\ alive
          /\ \A n \in 1 .. MaxOperations :
               status'[n] = status[n] \/ (status[n] = "pending" /\ status'[n] = "failed")
        BY <1>1, RunsShown
    <2>2. S \in SUBSET Promise!Pending
        BY DEF Promise!Pending, Promise!Ops
    <2>3. \A n \in 1 .. MaxOperations : status'[n] = IF n \in S THEN "failed" ELSE status[n]
        BY <2>1
    <2> HIDE DEF S
    <2>4. status' = Promise!failing(S)
        BY <2>3, StatusFunction DEF Promise!failing, Promise!Ops
    <2>5. Promise!Fail(S)
        BY <1>1, <2>1, <2>4 DEF Promise!Fail
    <2> QED BY <2>2, <2>5 DEF Promise!Next
<1>2. CASE /\ alive' = FALSE
           /\ \E M : Runs(M, 0) /\ \A n \in 1 .. Len(M.ops) : ~M.ops[n].cbs_pending
    <2>1. /\ granted' = granted /\ alive
          /\ \A n \in 1 .. MaxOperations :
               /\ status'[n] = status[n] \/ (status[n] = "pending" /\ status'[n] = "failed")
               /\ status'[n] # "pending"
        BY <1>2, RunsShown
    <2>2. \A n \in 1 .. MaxOperations :
            status'[n] = IF n \in Promise!Pending THEN "failed" ELSE status[n]
        BY <2>1 DEF Promise!Pending, Promise!Ops
    <2>3. status' = Promise!failing(Promise!Pending)
        BY <2>2, StatusFunction DEF Promise!failing, Promise!Ops
    <2>4. Promise!Destroy
        BY <1>2, <2>1, <2>3 DEF Promise!Destroy
    <2> QED BY <2>4 DEF Promise!Next
<1> QED BY <1>1, <1>2 DEF Runs0

\* The status after a step that changes it for one operation.
LEMMA StatusExcept ==
    ASSUME NEW n \in 1 .. MaxOperations, NEW v,
           status'[n] = v, \A k \in 1 .. MaxOperations : k # n => status'[k] = status[k]
    PROVE  status' = [status EXCEPT ![n] = v]
BY StatusFunction

LEMMA SubmitsPromise ==
    ASSUME IInv, Submits
    PROVE  Promise!Next
<1>1. PICK op \in Operation : op.cbs_pending /\ op.calls = 0 /\ lib'.ops = Append(lib.ops, op)
    BY DEF Submits
<1> DEFINE k == Len(lib.ops) + 1
<1>2. lib.ops \in Seq(Operation) /\ Len(lib.ops) \in Nat /\ Len(lib.ops) < MaxOperations
    BY LibraryIsWork, WorkFields DEF Submits
<1>3. k \in 1 .. MaxOperations /\ k > Len(lib.ops)
    BY <1>2, Bounds
<1>4. Len(lib'.ops) = k /\ lib'.ops[k] = op /\ \A n \in 1 .. Len(lib.ops) : lib'.ops[n] = lib.ops[n]
    BY <1>1, <1>2
<1>5. shown(op) = "pending"
    BY <1>1 DEF shown
<1>6. \A n \in 1 .. MaxOperations : n # k => (n > k <=> n > Len(lib.ops))
    BY <1>2, Bounds
<1>7. \A n \in 1 .. MaxOperations : n <= Len(lib.ops) <=> n \in 1 .. Len(lib.ops)
    BY <1>2, Bounds
<1>8. ~(k > k) /\ Len(lib.ops) \in Nat
    BY <1>2
<1>9. \A n \in 1 .. MaxOperations : n > Len(lib.ops) \/ n \in 1 .. Len(lib.ops)
    BY <1>2, Bounds
<1> HIDE DEF k
<1>10. status[k] = "new" /\ status'[k] = "pending"
    BY <1>3, <1>4, <1>5, <1>8, StatusAt
<1>11. \A n \in 1 .. MaxOperations : n # k => status'[n] = status[n]
    BY <1>4, <1>6, <1>9, StatusAt
<1>12. status' = [status EXCEPT ![k] = "pending"]
    BY <1>3, <1>10, <1>11, StatusExcept
<1>13. Promise!Submit(k)
    BY <1>10, <1>12 DEF Promise!Submit, Submits
<1> QED BY <1>3, <1>13 DEF Promise!Next, Promise!Ops

LEMMA GrantsPromise ==
    ASSUME IInv, Grants
    PROVE  Promise!Next \/ UNCHANGED Promise!vars
<1>1. PICK n \in 1 .. Len(lib.ops) : granted' = granted \/ granted' = granted \cup {n}
    BY DEF Grants
<1>2. lib.ops \in Seq(Operation) /\ Len(lib.ops) \in Nat /\ Len(lib.ops) <= MaxOperations
    BY LibraryIsWork, WorkFields DEF IInv, Numbered
<1>3. n \in 1 .. MaxOperations /\ ~(n > Len(lib.ops))
    BY <1>2, Bounds
<1>4. status' = status
    BY DEF Grants, status
<1>5. status[n] # "new"
    BY <1>3, StatusAt DEF shown
<1>6. CASE granted' = granted
    BY <1>4, <1>6 DEF Grants, Promise!vars
<1>7. CASE granted' = granted \cup {n}
    BY <1>3, <1>4, <1>5, <1>7 DEF Grants, Promise!Grant, Promise!Next, Promise!Ops
<1> QED BY <1>1, <1>6, <1>7

LEMMA ChangesPromise ==
    ASSUME IInv, NEW n, NEW q, Changes(n, q)
    PROVE  Promise!Next \/ UNCHANGED Promise!vars
<1>1. n \in 1 .. Len(lib.ops) /\ q \in Operation /\ alive /\ alive' = alive /\ granted' = granted
    BY DEF Changes
<1>2. lib \in Library /\ lib.ops \in Seq(Operation) /\ Len(lib.ops) <= MaxOperations
    BY DEF IInv, TypeOK, Library, Numbered
<1>3. /\ Len(lib'.ops) = Len(lib.ops) /\ lib'.ops[n] = q
      /\ \A k \in 1 .. Len(lib.ops) : k # n => lib'.ops[k] = lib.ops[k]
    BY <1>1, <1>2, SetOp DEF Changes
<1>4. n \in 1 .. MaxOperations /\ ~(n > Len(lib.ops))
    BY <1>1, <1>2, Bounds
<1>5. \A k \in 1 .. MaxOperations : k > Len(lib.ops) \/ k \in 1 .. Len(lib.ops)
    BY <1>2, Bounds
<1>6. status[n] = shown(lib.ops[n]) /\ status'[n] = shown(q)
    BY <1>3, <1>4, StatusAt
<1>7. \A k \in 1 .. MaxOperations : k # n => status'[k] = status[k]
    BY <1>3, <1>5, StatusAt
<1>8. status' = [status EXCEPT ![n] = shown(q)]
    BY <1>4, <1>6, <1>7, StatusExcept
<1>9. Good(lib.ops[n])
    BY <1>1 DEF IInv
<1>10. CASE Unseen(lib.ops[n], q)
    <2>1. \A k \in 1 .. MaxOperations : status'[k] = status[k]
        BY <1>6, <1>7, <1>10, ShownUnseen
    <2>2. status' = status
        BY <2>1, StatusFunction
    <2> QED BY <1>1, <2>2 DEF Promise!vars
<1>11. ASSUME lib.ops[n].cbs_pending PROVE n \in Promise!Pending
    BY <1>4, <1>6, <1>9, <1>11, ShownPending DEF Promise!Pending, Promise!Ops
<1>12. CASE lib.ops[n].cbs_pending /\ ~q.cbs_pending /\ q.calls = 0
    <2>1. shown(q) = "cancelled"
        BY <1>12 DEF shown
    <2>2. Promise!Cancel(n)
        BY <1>1, <1>8, <1>11, <1>12, <2>1 DEF Promise!Cancel
    <2> QED BY <1>4, <2>2 DEF Promise!Next, Promise!Ops
<1>13. CASE lib.ops[n].cbs_pending /\ ~q.cbs_pending /\ q.calls = 1 /\ q.result = "FAILED"
    <2>1. shown(q) = "failed"
        BY <1>13 DEF shown
    <2>2. {n} \in SUBSET Promise!Pending
        BY <1>11, <1>13
    <2>3. \A k \in 1 .. MaxOperations : status'[k] = IF k \in {n} THEN "failed" ELSE status[k]
        BY <1>6, <1>7, <2>1
    <2>4. status' = Promise!failing({n})
        BY <2>3, StatusFunction DEF Promise!failing, Promise!Ops
    <2>5. Promise!Fail({n})
        BY <1>1, <2>4 DEF Promise!Fail
    <2> QED BY <2>2, <2>5 DEF Promise!Next
<1>14. CASE /\ lib.ops[n].cbs_pending /\ ~q.cbs_pending /\ q.calls = 1 /\ q.result = "OK"
            /\ n \in granted
    <2>1. shown(q) = "ok"
        BY <1>14 DEF shown
    <2>2. Promise!Succeed(n)
        BY <1>1, <1>8, <1>11, <1>14, <2>1 DEF Promise!Succeed
    <2> QED BY <1>4, <2>2 DEF Promise!Next, Promise!Ops
<1> QED BY <1>10, <1>12, <1>13, <1>14 DEF Changes

\* What cbs.c promises of the operations of its user (Operations) is what it
\* does on amqp_management.c, a sender, a receiver and two links.
THEOREM ImplementsPromise == Spec => ImplementsOperations
<1>1. Init => Promise!Init
    <2> SUFFICES ASSUME Init PROVE Promise!Init
        OBVIOUS
    <2>1. lib.ops = <<>> /\ granted = {} /\ alive = TRUE
        BY DEF Init
    <2>2. \A n \in 1 .. MaxOperations : status[n] = "new"
        BY <2>1, StatusAt, Bounds
    <2> QED BY <2>1, <2>2, StatusFunction DEF Promise!Init, Promise!Ops
<1>2. IInv /\ [Next]_vars => [Promise!Next]_(Promise!vars)
    <2>1. ASSUME IInv, Next PROVE [Promise!Next]_(Promise!vars)
        BY <2>1, NextStep, RunsPromise, SubmitsPromise, GrantsPromise, ChangesPromise
    <2>2. ASSUME UNCHANGED vars PROVE UNCHANGED Promise!vars
        BY <2>2 DEF vars, peer, Promise!vars, status
    <2> QED BY <2>1, <2>2
<1> QED BY <1>1, <1>2, Invariance, PTL DEF Spec, ImplementsOperations, Promise!Spec

=============================================================================

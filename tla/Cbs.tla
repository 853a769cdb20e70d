--------------------------------- MODULE Cbs ---------------------------------
(***************************************************************************)
(* src/src/cbs.c on src/src/amqp_management.c: operations on tokens as     *)
(* requests over a message sender and responses over a message receiver    *)
(* (message_sender.c, message_receiver.c), each on a link of one session.  *)
(*                                                                         *)
(* `lib' is the state of these components.  An API call or a frame runs    *)
(* callbacks nested in one another, so that a function of the code is an   *)
(* operator that takes the library to its state afterwards.  What          *)
(* amqp_management.c tells cbs.c is `event' until cbs.c has handled it,    *)
(* which it does before anything else happens; `fail' is the set of links  *)
(* for which sending and beginning the session fail during this action.    *)
(*                                                                         *)
(* Of the sender's queue an operation knows whether its request waits or   *)
(* was transferred (Sender.tla has the queue itself).  The user's          *)
(* callbacks do not call the library again.  Late frames of a link that    *)
(* was closed while it was attaching change nothing here and are left out. *)
(***************************************************************************)
EXTENDS Naturals, Sequences, FiniteSets

CONSTANTS
    MaxOperations,    \* bound: operations accepted
    MaxOpens,         \* bound: calls of cbs_open_async
    MaxFaults         \* bound: actions in which sending fails or a message comes
                      \* that answers no request

ASSUME CbsAssumption ==
    /\ MaxOperations \in Nat /\ MaxOpens \in Nat /\ MaxFaults \in Nat

VARIABLES
    lib,          \* the library
    session,      \* the state of the session
    alive,        \* cbs_destroy has not been called
    requests,     \* requests that the peer has and has not answered
    responses,    \* responses under way
    granted,      \* the operations that the peer has answered with success
    opens,        \* calls of cbs_open_async
    faults        \* what is left of the bound on them

peer == <<requests, responses, granted>>
vars == <<lib, session, alive, peer, opens, faults>>

Sides == {"sender", "receiver"}

Operation ==
    [message_id : Nat,
     pending : BOOLEAN,                  \* in the list of amqp_management.c
     cbs_pending : BOOLEAN,              \* in the list of cbs.c
     message_send_confirmed : BOOLEAN,
     send_async_context : BOOLEAN,       \* not NULL
     send : {"none", "waiting", "transferred"},
     result : {"NONE", "OK", "FAILED"},  \* of the results that are not OK, one
     calls : Nat]                        \* calls of on_cbs_operation_complete

Library ==
    [cbs : {"CLOSED", "OPENING", "OPEN", "ERROR"},
     management : {"IDLE", "OPENING", "CLOSING", "OPEN", "ERROR"},
     connected : SUBSET Sides,           \* sender_connected, receiver_connected
     next_message_id : Nat,
     messaging : [Sides -> {"IDLE", "OPENING", "OPEN", "CLOSING", "ERROR"}],
     link : [Sides -> {"DETACHED", "HALF_ATTACHED", "ATTACHED", "ERROR"}],
     begun : SUBSET Sides,               \* is_underlying_session_begun
     closed : SUBSET Sides,              \* is_closed
     detaching : SUBSET Sides,           \* the endpoint at the session is DETACHING
     ops : Seq(Operation),
     answers : 0 .. MaxOpens,            \* calls of on_cbs_open_complete
     event : {"none"},
     fail : {{}}]

Request == [message_id : Nat, operation : 1 .. MaxOperations]
Response == [message_id : Nat, operation : 1 .. MaxOperations, ok : BOOLEAN]

\* Between two actions the variables hold what the components keep.
TypeOK ==
    /\ lib \in Library
    /\ session \in {"UNMAPPED", "MAPPED", "DISCARDING", "ERROR"}
    /\ alive \in BOOLEAN
    /\ requests \in SUBSET Request /\ responses \in SUBSET Response
    /\ granted \subseteq DOMAIN lib.ops
    /\ opens \in 0 .. MaxOpens /\ faults \in 0 .. MaxFaults

\* cbs_create and amqp_management_create
Init ==
    /\ lib = [cbs |-> "CLOSED", management |-> "IDLE", connected |-> {},
              next_message_id |-> 0,
              messaging |-> [s \in Sides |-> "IDLE"], link |-> [s \in Sides |-> "DETACHED"],
              begun |-> {}, closed |-> {}, detaching |-> {}, ops |-> <<>>, answers |-> 0,
              event |-> "none", fail |-> {}]
    /\ session = "UNMAPPED"
    /\ alive = TRUE
    /\ requests = {} /\ responses = {} /\ granted = {}
    /\ opens = 0 /\ faults = MaxFaults

-----------------------------------------------------------------------------
\* One operation.

\* An operation that is in no list any more is freed.
freed(op) ==
    IF op.pending \/ op.cbs_pending THEN op
    ELSE [op EXCEPT !.message_send_confirmed = FALSE, !.send_async_context = FALSE]

\* on_amqp_management_execute_operation_complete
on_execute_operation_complete(op, result) ==
    freed([op EXCEPT !.result = result, !.calls = @ + 1, !.cbs_pending = FALSE])

\* on_message_send_complete, outside of messagesender_send_async
on_message_send_complete(op, send_result) ==
    CASE send_result = "OK" ->
           [op EXCEPT !.message_send_confirmed = TRUE, !.send_async_context = FALSE]
      [] send_result = "CANCELLED" -> op
      [] send_result = "ERROR" ->
           on_execute_operation_complete([op EXCEPT !.pending = FALSE], "FAILED")

\* The message sender completes the send.
send_over(op, send_result) == on_message_send_complete([op EXCEPT !.send = "none"], send_result)

\* Sends in one of the states fail: indicate_all_messages_as_error for all of
\* them, remove_all_pending_deliveries of the link for the transferred ones.
sends_fail(L, states) ==
    [L EXCEPT !.ops = [n \in DOMAIN @ |->
        IF @[n].send \in states THEN send_over(@[n], "ERROR") ELSE @[n]]]

indicate_all_messages_as_error(L) == sends_fail(L, {"waiting", "transferred"})

remove_all_pending_deliveries(L) == sends_fail(L, {"transferred"})

-----------------------------------------------------------------------------
\* The state of amqp_management.c follows sender and receiver.

other(s) == IF s = "sender" THEN "receiver" ELSE "sender"

\* on_message_sender_state_changed and on_message_receiver_state_changed
state_changed(L, s, new) ==
    CASE L.management = "OPENING" /\ new = "OPEN" ->
           LET M == [L EXCEPT !.connected = @ \cup {s}]
           IN  IF other(s) \in M.connected
               THEN [M EXCEPT !.management = "OPEN", !.event = "open_ok"]
               ELSE M
      [] L.management = "OPENING" /\ new \in {"IDLE", "CLOSING", "ERROR"} ->
           [L EXCEPT !.management = "IDLE", !.event = "open_error"]
      [] L.management = "OPEN" /\ new # "OPEN" ->
           [L EXCEPT !.management = "ERROR", !.event = "error"]
      [] L.management = "CLOSING" /\ s = "sender" /\ new \in {"OPENING", "OPEN", "ERROR"} ->
           [L EXCEPT !.management = "ERROR", !.event = "error"]
      [] OTHER -> L

\* set_message_sender_state and set_message_receiver_state
set_state(L, s, new) ==
    IF L.messaging[s] = new THEN L
    ELSE state_changed([L EXCEPT !.messaging[s] = new], s, new)

\* cbs.c handles the event of amqp_management.c in a state other than OPENING.
told(L) ==
    CASE L.event = "none" \/ L.cbs \in {"CLOSED", "ERROR"} -> [L EXCEPT !.event = "none"]
      [] L.event # "none" /\ L.cbs = "OPEN" -> [L EXCEPT !.cbs = "ERROR", !.event = "none"]

\* on_link_state_changed of message_sender.c and of message_receiver.c; the
\* sender reports its messages before it leaves OPEN or CLOSING, or for ERROR.
on_link_state_changed(L, s, new) ==
    LET reported == IF s = "sender" THEN indicate_all_messages_as_error(L) ELSE L
        state == L.messaging[s]
    IN  CASE new = "ATTACHED" /\ state = "OPENING" -> set_state(L, s, "OPEN")
          [] new = "DETACHED" /\ state \in {"OPEN", "CLOSING"} -> set_state(reported, s, "IDLE")
          [] new = "DETACHED" /\ state \in {"OPENING", "ERROR"} -> set_state(L, s, "ERROR")
          [] new = "ERROR" /\ state # "ERROR" -> set_state(reported, s, "ERROR")
          [] OTHER -> L

set_link_state(L, s, new) == on_link_state_changed([L EXCEPT !.link[s] = new], s, new)

\* link_detach with close: the link waits for the peer if it was attached.
link_detach_fails(L, s) ==
    /\ s \notin L.closed
    /\ \/ L.link[s] = "ERROR"
       \/ L.link[s] \in {"HALF_ATTACHED", "ATTACHED"} /\ s \in L.fail

link_detach(L, s) ==
    IF s \in L.closed \/ L.link[s] = "DETACHED" THEN L
    ELSE set_link_state([L EXCEPT !.closed = @ \cup {s}], s,
                        IF L.link[s] = "ATTACHED" THEN "HALF_ATTACHED" ELSE "DETACHED")

-----------------------------------------------------------------------------
\* Closing.

\* messagesender_close and messagereceiver_close
Closable(L, s) == L.messaging[s] \in {"OPENING", "OPEN"}

close_fails(L, s) == Closable(L, s) /\ link_detach_fails(L, s)

close(L, s) ==
    LET M == told(set_state(L, s, "CLOSING"))
        N == IF ~Closable(L, s) THEN L
             ELSE IF link_detach_fails(M, s) THEN told(set_state(M, s, "ERROR"))
             ELSE told(link_detach(M, s))
    IN  IF s = "sender" THEN indicate_all_messages_as_error(N) ELSE N

all_pending_closed(L) ==
    [L EXCEPT !.ops = [n \in DOMAIN @ |->
        IF @[n].pending
        THEN on_execute_operation_complete([@[n] EXCEPT !.pending = FALSE], "FAILED")
        ELSE @[n]]]

\* amqp_management_close from messagesender_close on, and whether it fails.
closing_fails(L) ==
    close_fails(L, "sender") \/ close_fails(close(L, "sender"), "receiver")

closing(L) ==
    LET M == close(L, "sender")
        N == close(M, "receiver")
    IN  IF close_fails(L, "sender") THEN M
        ELSE IF close_fails(M, "receiver") THEN N
        ELSE [all_pending_closed(N) EXCEPT !.management = "IDLE"]

\* amqp_management_close called by cbs.c when it is CLOSED already, so that it
\* takes no notice of a cancelled open.
close_below(L) ==
    IF L.management = "IDLE" THEN L ELSE closing([L EXCEPT !.management = "CLOSING"])

\* on_underlying_amqp_management_open_complete and
\* on_underlying_amqp_management_error
handled(L) ==
    CASE L.cbs = "OPENING" /\ L.event = "open_ok" ->
           [L EXCEPT !.cbs = "OPEN", !.answers = @ + 1, !.event = "none"]
      [] L.cbs = "OPENING" /\ L.event \in {"open_error", "open_cancelled", "error"} ->
           [close_below([L EXCEPT !.cbs = "CLOSED", !.event = "none"]) EXCEPT !.answers = @ + 1]
      [] L.cbs # "OPENING" \/ L.event = "none" -> told(L)

\* amqp_management_close called otherwise
management_cancelled(L) ==
    handled([L EXCEPT !.management = "CLOSING",
                      !.event = IF L.management = "OPENING" THEN "open_cancelled" ELSE "none"])

amqp_management_close_fails(L) ==
    L.management = "IDLE" \/ closing_fails(management_cancelled(L))

amqp_management_close(L) ==
    IF L.management = "IDLE" THEN L ELSE closing(management_cancelled(L))

\* Mutant: the callback is called for an open that is cancelled already.
cbs_closed_twice(L) ==
    LET M == amqp_management_close(L)
    IN  IF amqp_management_close_fails(L) THEN M
        ELSE [M EXCEPT !.cbs = "CLOSED",
                       !.answers = IF L.cbs = "OPENING" THEN @ + 1 ELSE @]

\* cbs_close
cbs_closed(L) ==
    LET M == amqp_management_close(L)
    IN  IF amqp_management_close_fails(L) THEN M
        ELSE [M EXCEPT !.cbs = "CLOSED",
                       !.answers = IF M.cbs = "OPENING" THEN @ + 1 ELSE @]

\* cbs_destroy: what amqp_management_destroy leaves is completed last.
cbs_destroyed(L) ==
    LET M == IF L.cbs = "CLOSED" THEN L ELSE amqp_management_close(L)
        N == close(close(amqp_management_close(M), "sender"), "receiver")
    IN  [N EXCEPT !.ops = [n \in DOMAIN @ |->
            IF @[n].cbs_pending
            THEN on_execute_operation_complete([@[n] EXCEPT !.pending = FALSE], "FAILED")
            ELSE @[n]]]

-----------------------------------------------------------------------------
\* Opening.

\* on_session_state_changed of link.c
attached_to(L, s) ==
    IF L.link[s] = "DETACHED" /\ s \notin L.closed /\ s \notin L.fail
    THEN [L EXCEPT !.link[s] = "HALF_ATTACHED"] ELSE L

on_session_state_changed(L, s, state) ==
    LET failing == IF s = "sender" THEN remove_all_pending_deliveries(L) ELSE L
    IN  CASE state = "MAPPED" -> attached_to(L, s)
          [] state = "DISCARDING" -> handled(set_link_state(failing, s, "DETACHED"))
          [] state = "ERROR" -> handled(set_link_state(failing, s, "ERROR"))
          [] state = "UNMAPPED" -> L

\* link_attach does nothing more once the session has been begun for the link.
link_attach_fails(L, s) == s \in L.closed \/ (s \notin L.begun /\ s \in L.fail)

link_attach(L, s, state) ==
    IF s \in L.begun THEN L
    ELSE on_session_state_changed([L EXCEPT !.begun = @ \cup {s}], s, state)

\* messagesender_open and messagereceiver_open succeed and do nothing in a
\* state other than IDLE.
open_fails(L, s) == L.messaging[s] = "IDLE" /\ link_attach_fails(L, s)

open(L, s, state) ==
    LET M == set_state(L, s, "OPENING")
    IN  IF L.messaging[s] # "IDLE" THEN L
        ELSE IF link_attach_fails(M, s) THEN handled(set_state(M, s, "ERROR"))
        ELSE link_attach(M, s, state)

\* amqp_management_open_async
amqp_management_open_async(L, state) ==
    LET M == [L EXCEPT !.management = "OPENING"]
        R == open(M, "receiver", state)
        S == open(R, "sender", state)
    IN  IF L.management # "IDLE" THEN L
        ELSE IF open_fails(M, "receiver") THEN [R EXCEPT !.management = "IDLE"]
        ELSE IF open_fails(R, "sender") THEN close([S EXCEPT !.management = "IDLE"], "receiver")
        ELSE S

-----------------------------------------------------------------------------
\* Actions.  Each may find that sending fails on some links.

Fault == faults > 0 /\ faults' = faults - 1

CanFail(F) == \A s \in F : s \notin lib.closed /\ lib.link[s] # "ERROR"

Failing(F) == CanFail(F) /\ IF F = {} THEN UNCHANGED faults ELSE Fault

done(L) == [L EXCEPT !.fail = {}]

with(F) == [lib EXCEPT !.fail = F]

\* cbs_open_async; whether amqp_management_open_async fails makes no difference.
cbs_open_async(F) ==
    /\ alive /\ opens < MaxOpens
    /\ lib.cbs = "CLOSED"
    /\ Failing(F)
    /\ opens' = opens + 1
    /\ lib' = done(amqp_management_open_async([with(F) EXCEPT !.cbs = "OPENING"], session))
    /\ UNCHANGED <<session, alive, peer>>

cbs_close(F) ==
    /\ alive
    /\ lib.cbs # "CLOSED"
    /\ Failing(F)
    /\ lib' = done(cbs_closed(with(F)))
    /\ UNCHANGED <<session, alive, peer, opens>>

cbs_destroy(F) ==
    /\ alive
    /\ Failing(F)
    /\ alive' = FALSE
    /\ lib' = done(cbs_destroyed(with(F)))
    /\ UNCHANGED <<session, peer, opens>>

new_operation(send) ==
    [message_id |-> lib.next_message_id, pending |-> TRUE, cbs_pending |-> TRUE,
     message_send_confirmed |-> FALSE, send_async_context |-> TRUE, send |-> send,
     result |-> "NONE", calls |-> 0]

\* messagesender_send_async keeps the message unless the sender is OPEN and
\* there is credit.
send_outcomes == {"waiting"} \cup IF lib.messaging["sender"] = "OPEN" THEN {"transferred"} ELSE {}

Accepting ==
    /\ alive
    /\ Len(lib.ops) < MaxOperations
    /\ lib.cbs \in {"OPENING", "OPEN"}
    /\ lib.management \notin {"IDLE", "ERROR"}
    /\ lib.messaging["sender"] # "ERROR"

request(id, operation) == [message_id |-> id, operation |-> operation]

\* amqp_management_execute_operation_async as cbs_put_token_async and
\* cbs_delete_token_async call it; a call that fails changes nothing.
amqp_management_execute_operation_async ==
    /\ Accepting
    /\ \E send \in send_outcomes :
         /\ lib' = [lib EXCEPT !.ops = Append(@, new_operation(send)), !.next_message_id = @ + 1]
         /\ requests' = IF send = "transferred"
                        THEN requests \cup {request(lib.next_message_id, Len(lib.ops) + 1)}
                        ELSE requests
    /\ UNCHANGED <<session, alive, responses, granted, opens, faults>>

\* Mutant: the send is left to the message sender.
cancelled_keeps_send(op) == freed([op EXCEPT !.pending = FALSE, !.cbs_pending = FALSE])

\* cbs_put_token_cancel_handler and amqp_management_execute_cancel_handler
cancelled(op) ==
    freed([op EXCEPT !.pending = FALSE, !.cbs_pending = FALSE, !.send = "none"])

cbs_put_token_cancel_handler(n) ==
    /\ alive
    /\ lib.ops[n].cbs_pending
    /\ lib' = [lib EXCEPT !.ops[n] = cancelled(@)]
    /\ UNCHANGED <<session, alive, peer, opens, faults>>

\* A FLOW of the peer starts a pass over the sender's queue, in whatever state the
\* sender is, unless the peer has detached the link.  The pass sends the first
\* message that waits, or fails; it always fails if the link is not ATTACHED.
send_pending(n) ==
    /\ alive /\ session = "MAPPED"
    /\ "sender" \in lib.begun \ lib.detaching
    /\ lib.ops[n].send = "waiting"
    /\ \A k \in 1 .. n - 1 : lib.ops[k].send # "waiting"
    /\ \/ /\ lib.link["sender"] = "ATTACHED"
          /\ lib' = [lib EXCEPT !.ops[n].send = "transferred"]
          /\ requests' = requests \cup {request(lib.ops[n].message_id, n)}
       \/ /\ lib' = [lib EXCEPT !.ops[n] = send_over(@, "ERROR")]
          /\ UNCHANGED requests
    /\ UNCHANGED <<session, alive, responses, granted, opens, faults>>

Receives(s) == alive /\ session = "MAPPED" /\ lib.link[s] \in {"HALF_ATTACHED", "ATTACHED"}

\* The peer settles a transfer.
delivery_settled(n, send_result) ==
    /\ Receives("sender")
    /\ lib.ops[n].send = "transferred"
    /\ lib' = [lib EXCEPT !.ops[n] = send_over(@, send_result)]
    /\ UNCHANGED <<session, alive, peer, opens, faults>>

-----------------------------------------------------------------------------
\* Session and links.

session_mapped(F) ==
    /\ alive /\ lib.begun # {}
    /\ session = "UNMAPPED"
    /\ session' = "MAPPED"
    /\ Failing(F)
    /\ LET S == IF "sender" \in lib.begun THEN attached_to(with(F), "sender") ELSE with(F)
           R == IF "receiver" \in lib.begun THEN attached_to(S, "receiver") ELSE S
       IN  lib' = done(R)
    /\ UNCHANGED <<alive, peer, opens>>

\* The session ends or the connection is lost, and with it the requests and the
\* responses under way; neither session comes back.  A link that the peer has
\* detached is not told.
session_lost(state, F) ==
    /\ alive
    /\ session \in {"UNMAPPED", "MAPPED"}
    /\ session' = state
    /\ Failing(F)
    /\ LET S == IF "sender" \in lib.begun \ lib.detaching
                THEN on_session_state_changed(with(F), "sender", state) ELSE with(F)
           R == IF "receiver" \in lib.begun \ lib.detaching
                THEN on_session_state_changed(S, "receiver", state) ELSE S
       IN  lib' = done(R)
    /\ requests' = {} /\ responses' = {}
    /\ UNCHANGED <<alive, granted, opens>>

\* ATTACH of the peer
attach_received(s, F) ==
    /\ Receives(s)
    /\ lib.link[s] = "HALF_ATTACHED" /\ s \notin lib.closed
    /\ Failing(F)
    /\ lib' = done(handled(set_link_state(with(F), s, "ATTACHED")))
    /\ UNCHANGED <<session, alive, peer, opens>>

\* DETACH of the peer, which answers ours or is answered.
detach_received(s, close_it, error, F) ==
    /\ Receives(s)
    /\ Failing(F)
    /\ LET L == with(F)
           M == [L EXCEPT !.closed = IF close_it /\ s \notin F THEN @ \cup {s} ELSE @,
                          !.detaching = @ \cup {s}]
           N == IF s = "sender" THEN remove_all_pending_deliveries(M) ELSE M
       IN  lib' = done(handled(set_link_state(N, s, IF error THEN "ERROR" ELSE "DETACHED")))
    /\ UNCHANGED <<session, alive, peer, opens>>

-----------------------------------------------------------------------------
\* Responses.

\* The peer answers a request, in any order and before or after it settles it.
peer_answers(r, ok) ==
    /\ alive /\ session = "MAPPED"
    /\ r \in requests
    /\ requests' = requests \ {r}
    /\ responses' = responses \cup
         {[message_id |-> r.message_id, operation |-> r.operation, ok |-> ok]}
    /\ granted' = IF ok THEN granted \cup {r.operation} ELSE granted
    /\ UNCHANGED <<lib, session, alive, opens, faults>>

\* Mutant: the oldest pending operation is taken for the one that is answered.
matches_any(op, r) == op.pending

\* on_message_received: the response is that of the pending operation.
matches(op, r) == op.pending /\ op.message_id = r.message_id

\* A response ahead of the confirmation of the send cancels the send and fails
\* the operation, whatever its status.
answered(op, ok) ==
    on_execute_operation_complete(
        [op EXCEPT !.pending = FALSE, !.send = "none", !.send_async_context = FALSE],
        IF op.message_send_confirmed /\ ok THEN "OK" ELSE "FAILED")

\* A response that cannot be read or matched is an error of the management node.
on_message_received(r, F) ==
    /\ Receives("receiver")
    /\ r \in responses
    /\ responses' = responses \ {r}
    /\ LET found == {n \in DOMAIN lib.ops : matches(lib.ops[n], r)}
           first == CHOOSE n \in found : \A k \in found : n <= k
       IN  IF found # {}
           THEN F = {} /\ lib' = [lib EXCEPT !.ops[first] = answered(@, r.ok)]
           ELSE lib' = done(handled([with(F) EXCEPT !.event = "error"]))
    /\ Failing(F)
    /\ UNCHANGED <<session, alive, requests, granted, opens>>

\* A message without correlation, or one that message_receiver.c cannot decode.
stray_received(decoded, F) ==
    /\ Receives("receiver")
    /\ Fault /\ CanFail(F)
    /\ lib' = done(handled(IF decoded THEN [with(F) EXCEPT !.event = "error"]
                                      ELSE set_state(with(F), "receiver", "ERROR")))
    /\ UNCHANGED <<session, alive, requests, responses, granted, opens>>

Next ==
    \/ \E F \in SUBSET Sides :
         \/ cbs_open_async(F) \/ cbs_close(F) \/ cbs_destroy(F)
         \/ session_mapped(F)
         \/ \E state \in {"DISCARDING", "ERROR"} : session_lost(state, F)
         \/ \E s \in Sides :
              \/ attach_received(s, F)
              \/ \E close_it, error \in BOOLEAN : detach_received(s, close_it, error, F)
         \/ \E r \in responses : on_message_received(r, F)
         \/ \E decoded \in BOOLEAN : stray_received(decoded, F)
    \/ amqp_management_execute_operation_async
    \/ \E n \in DOMAIN lib.ops :
         \/ cbs_put_token_cancel_handler(n)
         \/ send_pending(n)
         \/ \E send_result \in {"OK", "ERROR"} : delivery_settled(n, send_result)
    \/ \E r \in requests, ok \in BOOLEAN : peer_answers(r, ok)

Spec == Init /\ [][Next]_vars

-----------------------------------------------------------------------------

\* The user's view of the operations (Operations): whatever happens to links,
\* session and instance, each one that was accepted completes once, and with
\* success only if the peer granted that very one.
status ==
    [n \in 1 .. MaxOperations |->
        IF n > Len(lib.ops) THEN "new"
        ELSE LET op == lib.ops[n]
             IN  CASE op.cbs_pending /\ op.calls = 0 -> "pending"
                   [] ~op.cbs_pending /\ op.calls = 0 -> "cancelled"
                   [] ~op.cbs_pending /\ op.calls = 1 -> IF op.result = "OK" THEN "ok" ELSE "failed"
                   [] OTHER -> "completed again"]

Promise == INSTANCE Operations

ImplementsOperations == Promise!Spec

\* The pointers between the three lists are good: an operation is pending for
\* cbs.c and amqp_management.c or for neither, its send_async_context is a send
\* that the message sender still has, a send belongs to a pending operation,
\* and one that is not confirmed has a send that can be cancelled.
PointersLive ==
    alive => \A n \in DOMAIN lib.ops :
        LET op == lib.ops[n]
        IN  /\ op.pending <=> op.cbs_pending
            /\ op.pending => (op.send # "none" <=> ~op.message_send_confirmed)
            /\ op.pending => (op.send_async_context <=> op.send # "none")
            /\ op.send # "none" => op.pending

\* Every cbs_open_async that lets cbs.c leave CLOSED calls on_cbs_open_complete
\* once, or the instance is still OPENING, whichever of the link, the session,
\* an error, a close or another callback got there first.
OpenAnsweredOnce ==
    alive => opens = lib.answers + (IF lib.cbs = "OPENING" THEN 1 ELSE 0)

\* devdoc/amqp_management_requirements.md:395: an instance that is OPEN has a
\* sender that is open, and an open is not reported before.
OpenMeansBoth ==
    alive /\ lib.management = "OPEN" => \A s \in Sides : lib.messaging[s] = "OPEN"
=============================================================================

------------------------------- MODULE Sender -------------------------------
(***************************************************************************)
(* A message sender on its link: src/src/message_sender.c with the sender  *)
(* side of src/src/link.c, the cancellation of src/src/async_operation.c   *)
(* and what src/src/session.c passes to the endpoint of the link.          *)
(*                                                                         *)
(* The sends are numbered in the order in which messagesender_send_async   *)
(* accepts them; the array message_sender->messages is in that order, so   *)
(* that it is a set here.  The list link->pending_deliveries is a set too. *)
(* The handlers are atomic, but for send_all_pending_messages, of which    *)
(* an action does one iteration: `loop' says whose pass it is, and nothing *)
(* else runs meanwhile.  The completion callback of the application does   *)
(* not call the sender again.                                              *)
(***************************************************************************)
EXTENDS Integers, FiniteSets

CONSTANTS
    MaxSends,    \* bound: sends accepted in a behaviour
    MaxLimit,    \* bound: delivery-count plus link-credit of a FLOW
    CREDIT_MOD   \* 2^32, the range of current_link_credit

ASSUME SenderAssumption ==
    /\ MaxSends \in Nat
    /\ MaxLimit \in Nat
    /\ CREDIT_MOD \in Nat
    /\ CREDIT_MOD > MaxLimit

VARIABLES
    message_sender_state,
    messages,             \* the sends in the array
    pending,              \* those of them in MESSAGE_SEND_STATE_PENDING
    accepted,             \* how many sends have been accepted
    calls,                \* calls[m]: calls of on_message_send_complete for m
    loop,                 \* "none", or which flow_on runs the pass
    link_state,
    is_closed,            \* a closing DETACH has been sent
    begun,                \* is_underlying_session_begun
    pre_settled,          \* snd_settle_mode is sender_settle_mode_settled
    pending_deliveries,   \* the sends whose delivery is in the list
    overdue,              \* those of them whose timeout has passed
    delivery_id,          \* 0 until transferred
    delivery_count,
    current_link_credit,
    session_state,
    endpoint,             \* link_endpoint_state, or GONE
    window,               \* remote_incoming_window > 0
    up,                   \* the connection is OPENED
    sending,              \* sends whose on_send_complete the io still owes
    peer,                 \* what the peer knows of the link
    limit,                \* delivery-count plus link-credit of its last FLOW
    taken_back,           \* it has ever put that below what was sent before
    failed,               \* a queued send has failed in a pass
    dropped,              \* sends of which a DISPOSITION has dropped the delivery
    destroyed,            \* messagesender_destroy has been called
    crashed               \* on_send_complete has been called for a freed delivery

queue == <<messages, pending, calls, accepted>>
deliveries == <<pending_deliveries, overdue, sending>>
link == <<is_closed, begun, pre_settled>>
numbers == <<delivery_id, delivery_count, current_link_credit>>
session == <<session_state, endpoint, window, up>>
remote == <<peer, limit, taken_back>>
past == <<failed, dropped>>
vars == <<message_sender_state, queue, loop, link_state, link, deliveries, numbers,
          session, remote, past, destroyed, crashed>>

-----------------------------------------------------------------------------

Send == 1 .. MaxSends

\* MESSAGE_SENDER_STATE and LINK_STATE.
SenderStates == {"IDLE", "OPENING", "OPEN", "CLOSING", "ERROR"}

LinkStates == {"DETACHED", "HALF_ATTACHED_ATTACH_SENT",
               "HALF_ATTACHED_ATTACH_RECEIVED", "ATTACHED", "ERROR"}

TypeOK ==
    /\ message_sender_state \in SenderStates
    /\ accepted \in 0 .. MaxSends
    /\ messages \subseteq 1 .. accepted
    /\ pending \subseteq messages
    /\ calls \in [Send -> Nat]
    /\ loop \in {"none", "link", "session"}
    /\ link_state \in LinkStates
    /\ is_closed \in BOOLEAN
    /\ begun \in BOOLEAN
    /\ pre_settled \in BOOLEAN
    /\ pending_deliveries \subseteq Send
    /\ overdue \subseteq pending_deliveries
    /\ delivery_id \in [Send -> Nat]
    /\ delivery_count \in Nat
    /\ current_link_credit \in 0 .. CREDIT_MOD - 1
    /\ session_state \in {"UNMAPPED", "MAPPED", "DISCARDING", "ERROR"}
    /\ endpoint \in {"NOT_ATTACHED", "ATTACHED", "DETACHING", "GONE"}
    /\ window \in BOOLEAN
    /\ up \in BOOLEAN
    /\ sending \subseteq Send
    /\ peer \in {"unaware", "asked", "attached", "detached"}
    /\ limit \in 0 .. MaxLimit
    /\ taken_back \in BOOLEAN
    /\ failed \in BOOLEAN
    /\ dropped \subseteq Send
    /\ destroyed \in BOOLEAN
    /\ crashed \in BOOLEAN

Init ==
    /\ message_sender_state = "IDLE"
    /\ messages = {}
    /\ pending = {}
    /\ accepted = 0
    /\ calls = [m \in Send |-> 0]
    /\ loop = "none"
    /\ link_state = "DETACHED"
    /\ is_closed = FALSE
    /\ begun = FALSE
    /\ pre_settled \in BOOLEAN
    /\ pending_deliveries = {}
    /\ overdue = {}
    /\ delivery_id = [m \in Send |-> 0]
    /\ delivery_count = 0
    /\ current_link_credit = 0
    /\ session_state = "UNMAPPED"
    /\ endpoint = "NOT_ATTACHED"
    /\ window = FALSE
    /\ up = TRUE
    /\ sending = {}
    /\ peer = "unaware"
    /\ limit = 0
    /\ taken_back = FALSE
    /\ failed = FALSE
    /\ dropped = {}
    /\ destroyed = FALSE
    /\ crashed = FALSE

\* No handler is running.
Idle == loop = "none" /\ ~crashed

\* The application may use the sender.
Outside == Idle /\ ~destroyed

\* link->on_link_state_changed and link->on_link_flow_on are set.
bound == begun /\ ~destroyed

-----------------------------------------------------------------------------
(* Completion *)

\* on_message_send_complete is called for the sends in `done', which leave the
\* array: on_delivery_settled, remove_pending_message,
\* indicate_all_messages_as_error.
completes(done) ==
    /\ calls' = [m \in Send |-> IF m \in done THEN calls[m] + 1 ELSE calls[m]]
    /\ messages' = messages \ done
    /\ pending' = pending \ done

\* The deliveries in `gone' leave the list.
forgets(gone) ==
    /\ pending_deliveries' = pending_deliveries \ gone
    /\ overdue' = overdue \ gone

\* Mutant: all sends are indicated, completed by the link or not.
on_link_state_changed_twice(new, settled) ==
    LET told == IF new = "DETACHED"
                THEN message_sender_state \in {"OPEN", "CLOSING"}
                ELSE message_sender_state # "ERROR"
    IN  /\ calls' = [m \in Send |->
              calls[m] + (IF m \in settled THEN 1 ELSE 0)
                       + (IF bound /\ told /\ m \in messages THEN 1 ELSE 0)]
        /\ messages' = IF bound /\ told THEN {} ELSE messages \ settled
        /\ pending' = IF bound /\ told THEN {} ELSE pending \ settled
        /\ message_sender_state' =
              IF ~bound \/ (new = "DETACHED" /\ message_sender_state = "IDLE")
              THEN message_sender_state
              ELSE IF new = "DETACHED" /\ told THEN "IDLE" ELSE "ERROR"

\* on_link_state_changed with DETACHED or ERROR, after the link has settled the
\* sends in `settled'.  indicate_all_messages_as_error completes the others,
\* unless a DETACHED finds the sender OPENING (or in ERROR).
on_link_state_changed(new, settled) ==
    LET told == IF new = "DETACHED"
                THEN message_sender_state \in {"OPEN", "CLOSING"}
                ELSE message_sender_state # "ERROR"
    IN  /\ completes(IF bound /\ told THEN messages \cup settled ELSE settled)
        /\ message_sender_state' =
              IF ~bound \/ (new = "DETACHED" /\ message_sender_state = "IDLE")
              THEN message_sender_state
              ELSE IF new = "DETACHED" /\ told THEN "IDLE" ELSE "ERROR"

\* remove_all_pending_deliveries and set_link_state with DETACHED or ERROR.
link_down(new) ==
    /\ link_state' = new
    /\ forgets(pending_deliveries)
    /\ on_link_state_changed(new, pending_deliveries)

-----------------------------------------------------------------------------
(* A transfer: link_transfer_async, session_send_transfer and
   connection_encode_frame *)

\* LINK_TRANSFER_BUSY: no credit, or no room in the session's window.
transfer_busy ==
    /\ link_state = "ATTACHED"
    /\ \/ current_link_credit = 0
       \/ endpoint # "GONE" /\ session_state = "MAPPED" /\ ~window

\* It can be handed to the io.
transferable ==
    /\ link_state = "ATTACHED"
    /\ current_link_credit > 0
    /\ endpoint # "GONE"
    /\ session_state = "MAPPED"
    /\ window
    /\ up

\* Mutant: the credit is not used up.
transferred_free(m) ==
    /\ delivery_id' = [delivery_id EXCEPT ![m] = delivery_count + 1]
    /\ delivery_count' = delivery_count + 1
    /\ window' \in BOOLEAN
    /\ UNCHANGED current_link_credit

\* The numbers after a transfer of m; the session's window may be used up now.
transferred(m) ==
    /\ delivery_id' = [delivery_id EXCEPT ![m] = delivery_count + 1]
    /\ delivery_count' = delivery_count + 1
    /\ current_link_credit' = (current_link_credit - 1) % CREDIT_MOD
    /\ window' \in BOOLEAN

\* The io has taken m.  The delivery of an unsettled transfer waits for the
\* disposition, that of a pre-settled one for on_send_complete.
transfer_waits(m) ==
    /\ transferable
    /\ transferred(m)
    /\ messages' = messages \cup {m}
    /\ pending' = pending \cup {m}
    /\ pending_deliveries' = pending_deliveries \cup {m}
    /\ sending' = IF pre_settled THEN sending \cup {m} ELSE sending
    /\ UNCHANGED <<calls, overdue, message_sender_state, link_state, session_state, up>>

\* The io calls on_send_complete before xio_send returns.
transfer_settled(m) ==
    /\ transferable
    /\ pre_settled
    /\ transferred(m)
    /\ completes({m})
    /\ UNCHANGED <<deliveries, message_sender_state, link_state, session_state, up>>

\* xio_send refuses the frame: on_bytes_encoded closes the io and ends the
\* connection, the session discards, the link settles all its deliveries, the
\* new one included, and detaches.
transfer_lost(m) ==
    /\ transferable
    /\ session_state' = "DISCARDING"
    /\ up' = FALSE
    /\ link_state' = "DETACHED"
    /\ forgets(pending_deliveries)
    /\ sending' = sending \ pending_deliveries
    /\ on_link_state_changed("DETACHED", pending_deliveries \cup {m})
    /\ UNCHANGED <<numbers, window>>

\* Whatever the transfer of m comes to but an error.
link_transfer_async(m) ==
    \/ transfer_waits(m)
    \/ transfer_settled(m)
    \/ transfer_lost(m)

-----------------------------------------------------------------------------
(* send_all_pending_messages *)

not_sent == messages \ pending

\* Of link_frame_received the pass of the session follows, if its window is open
\* by then; with the other one the FLOW has been handled.
after_pass == IF loop = "link" /\ window THEN "session" ELSE "none"

\* Mutant: the pass goes on behind a message that has to wait.
next_to_send_any(m) == m \in not_sent

\* The first send that waits.
next_to_send(m) ==
    /\ m \in not_sent
    /\ \A k \in not_sent : m <= k

\* SEND_ONE_MESSAGE_OK: the loop looks at the same index again.
send_next(m) ==
    /\ loop # "none"
    /\ next_to_send(m)
    /\ link_transfer_async(m)
    /\ UNCHANGED <<loop, accepted, link, endpoint, remote, past, destroyed, crashed>>

\* SEND_ONE_MESSAGE_ERROR: the send fails, and the pass ends.
send_next_fails(m) ==
    /\ loop # "none"
    /\ next_to_send(m)
    /\ completes({m})
    /\ failed' = TRUE
    /\ loop' = after_pass
    /\ UNCHANGED <<message_sender_state, accepted, link_state, link, deliveries,
                   numbers, session, remote, dropped, destroyed, crashed>>

\* SEND_ONE_MESSAGE_BUSY, or nothing is left to be sent.
pass_ends ==
    /\ loop # "none"
    /\ not_sent = {} \/ transfer_busy
    /\ loop' = after_pass
    /\ UNCHANGED <<message_sender_state, queue, link_state, link, deliveries,
                   numbers, session, remote, past, destroyed, crashed>>

-----------------------------------------------------------------------------
(* The application *)

new_send == accepted + 1

\* messagesender_send_async; in ERROR, and when its first attempt fails in OPEN,
\* it returns NULL and nothing has changed.  Outside OPEN the message waits.
messagesender_send_async ==
    /\ Outside
    /\ new_send \in Send
    /\ message_sender_state # "ERROR"
    /\ accepted' = new_send
    /\ \/ /\ message_sender_state # "OPEN" \/ transfer_busy
          /\ messages' = messages \cup {new_send}
          /\ UNCHANGED <<message_sender_state, pending, calls, link_state, deliveries,
                         numbers, session_state, window, up>>
       \/ /\ message_sender_state = "OPEN"
          /\ link_transfer_async(new_send)
    /\ UNCHANGED <<loop, link, endpoint, remote, past, destroyed, crashed>>

\* Mutant: the delivery stays with the link.
messagesender_send_cancel_handler_keeps(m) ==
    /\ Outside
    /\ m \in messages
    /\ completes({m})
    /\ UNCHANGED <<message_sender_state, accepted, loop, link_state, link, deliveries,
                   numbers, session, remote, past, destroyed, crashed>>

\* async_operation_cancel on a send: messagesender_send_cancel_handler, which
\* cancels the delivery, if there is one, by link_transfer_cancel_handler.
messagesender_send_cancel_handler(m) ==
    /\ Outside
    /\ m \in messages
    /\ completes({m})
    /\ forgets({m})
    /\ UNCHANGED <<message_sender_state, accepted, loop, link_state, link, sending,
                   numbers, session, remote, past, destroyed, crashed>>

\* send_attach; it fails, or the peer will read it.
send_attach ==
    /\ ~is_closed
    /\ up
    /\ endpoint # "GONE"
    /\ link_state' = "HALF_ATTACHED_ATTACH_SENT"
    /\ peer' = "asked"

\* on_session_state_changed of link.c, called with the state `new'.
on_session_state_changed(new) ==
    \/ /\ new = "MAPPED"
       /\ link_state = "DETACHED"
       /\ send_attach
       /\ UNCHANGED <<message_sender_state, messages, pending, calls,
                      pending_deliveries, overdue>>
    \/ /\ new \in {"UNMAPPED", "MAPPED"}
       /\ UNCHANGED <<message_sender_state, messages, pending, calls, link_state,
                      pending_deliveries, overdue, peer>>
    \/ /\ new = "DISCARDING"
       /\ link_down("DETACHED")
       /\ UNCHANGED peer
    \/ /\ new = "ERROR"
       /\ link_down("ERROR")
       /\ UNCHANGED peer

\* link_attach fails: the link has been closed, the session cannot be begun, or
\* the session has freed the endpoint.
link_attach_fails ==
    /\ is_closed \/ ~begun
    /\ message_sender_state' = "ERROR"
    /\ begun' = (begun \/ endpoint = "GONE")
    /\ UNCHANGED <<messages, pending, calls, link_state, peer>>

\* It does nothing for a link that has been attached before.
link_attach_again ==
    /\ ~is_closed
    /\ begun
    /\ message_sender_state' = "OPENING"
    /\ UNCHANGED <<messages, pending, calls, link_state, begun, peer>>

\* It starts the endpoint, which hears of the present state of the session: the
\* sender, OPENING by now, may end up in ERROR inside messagesender_open.
link_attach ==
    /\ ~is_closed
    /\ ~begun
    /\ endpoint # "GONE"
    /\ begun' = TRUE
    /\ \/ /\ session_state = "MAPPED"
          /\ send_attach
          /\ message_sender_state' = "OPENING"
          /\ UNCHANGED <<messages, pending, calls>>
       \/ /\ session_state \in {"UNMAPPED", "MAPPED"}
          /\ message_sender_state' = "OPENING"
          /\ UNCHANGED <<messages, pending, calls, link_state, peer>>
       \/ /\ session_state = "DISCARDING"
          /\ message_sender_state' = "ERROR"
          /\ UNCHANGED <<messages, pending, calls, link_state, peer>>
       \/ /\ session_state = "ERROR"
          /\ message_sender_state' = "ERROR"
          /\ link_state' = "ERROR"
          /\ completes(messages)
          /\ UNCHANGED peer

messagesender_open ==
    /\ Outside
    /\ message_sender_state = "IDLE"
    /\ link_attach_fails \/ link_attach_again \/ link_attach
    /\ UNCHANGED <<accepted, loop, is_closed, pre_settled, deliveries, numbers,
                   session, limit, taken_back, past, destroyed, crashed>>

\* link_detach with close, and what becomes of the sender, which is CLOSING.
link_detach ==
    \/ /\ is_closed \/ link_state = "DETACHED"
       /\ message_sender_state' = "CLOSING"
       /\ UNCHANGED <<link_state, is_closed>>
    \/ /\ ~is_closed
       /\ link_state \in {"HALF_ATTACHED_ATTACH_SENT", "HALF_ATTACHED_ATTACH_RECEIVED"}
       /\ up /\ endpoint # "GONE"
       /\ link_state' = "DETACHED"
       /\ is_closed' = TRUE
       /\ message_sender_state' = "IDLE"
    \/ /\ ~is_closed
       /\ link_state = "ATTACHED"
       /\ up /\ endpoint # "GONE"
       /\ link_state' = "HALF_ATTACHED_ATTACH_SENT"
       /\ is_closed' = TRUE
       /\ message_sender_state' = "CLOSING"
    \/ /\ ~is_closed                       \* the DETACH cannot be sent
       /\ link_state # "DETACHED"
       /\ message_sender_state' = "ERROR"
       /\ UNCHANGED <<link_state, is_closed>>

\* What messagesender_close does: the detach, then
\* indicate_all_messages_as_error, which cancels the deliveries.
close_sender ==
    /\ Outside
    /\ IF message_sender_state \in {"OPENING", "OPEN"}
       THEN link_detach
       ELSE UNCHANGED <<message_sender_state, link_state, is_closed>>
    /\ completes(messages)
    /\ forgets(messages)
    /\ UNCHANGED <<accepted, loop, begun, pre_settled, sending, numbers, session,
                   remote, past, crashed>>

messagesender_close == close_sender /\ UNCHANGED destroyed

\* messagesender_destroy also takes its callbacks from the link.
messagesender_destroy == close_sender /\ destroyed' = TRUE

\* Mutant: a delivery that has timed out is removed, but nobody is told.
link_dowork_silent ==
    /\ Idle
    /\ forgets(overdue)
    /\ UNCHANGED <<message_sender_state, queue, loop, link_state, link, sending,
                   numbers, session, remote, past, destroyed, crashed>>

\* link_dowork ends the deliveries whose timeout has passed.
link_dowork ==
    /\ Idle
    /\ completes(overdue)
    /\ forgets(overdue)
    /\ UNCHANGED <<message_sender_state, accepted, loop, link_state, link, sending,
                   numbers, session, remote, past, destroyed, crashed>>

\* The timeout of m passes, counted from its transfer.  (With a timeout of 0 it
\* never does.)
Expire(m) ==
    /\ ~crashed
    /\ m \in pending_deliveries
    /\ overdue' = overdue \cup {m}
    /\ UNCHANGED <<message_sender_state, queue, loop, link_state, link,
                   pending_deliveries, sending, numbers, session, remote, past,
                   destroyed, crashed>>

-----------------------------------------------------------------------------
(* The session and the connection *)

\* The endpoint of the link is told of the session's state.
hears == begun /\ endpoint \notin {"DETACHING", "GONE"}

\* session_set_state: the new state is passed on to an endpoint that hears.
session_set_state(new) ==
    /\ Idle
    /\ session_state' = new
    /\ IF hears
       THEN on_session_state_changed(new)
       ELSE UNCHANGED <<message_sender_state, messages, pending, calls, link_state,
                        pending_deliveries, overdue, peer>>
    /\ UNCHANGED <<accepted, loop, link, sending, numbers, limit, taken_back,
                   past, destroyed, crashed>>

session_mapped ==
    /\ session_state = "UNMAPPED"
    /\ up
    /\ session_set_state("MAPPED")
    /\ window' \in BOOLEAN
    /\ UNCHANGED <<endpoint, up>>

\* The END of the peer, a session ended with an error, or the connection's END;
\* these may follow one another.
session_discards ==
    /\ session_set_state("DISCARDING")
    /\ up' \in {up, FALSE}
    /\ UNCHANGED <<endpoint, window>>

\* connection_on_io_error.
session_fails ==
    /\ session_set_state("ERROR")
    /\ up' = FALSE
    /\ UNCHANGED <<endpoint, window>>

\* session_end frees the link endpoints, whether or not the END could be sent.
session_end ==
    /\ endpoint' = "GONE"
    /\ \/ /\ session_state = "MAPPED"
          /\ up
          /\ session_set_state("DISCARDING")
       \/ /\ Idle
          /\ UNCHANGED <<message_sender_state, queue, loop, link_state, link,
                         deliveries, numbers, session_state, remote, past,
                         destroyed, crashed>>
    /\ UNCHANGED <<window, up>>

\* close_connection_with_error: no frame can be sent or received any more, and
\* the session is not told.
connection_discards ==
    /\ Idle
    /\ up' = FALSE
    /\ UNCHANGED <<message_sender_state, queue, loop, link_state, link, deliveries,
                   numbers, session_state, endpoint, window, remote, past,
                   destroyed, crashed>>

-----------------------------------------------------------------------------
(* Frames of the peer: on_frame_received of session.c and link_frame_received *)

\* A frame for the link gets through.
arrives == Idle /\ up /\ hears

attach_received ==
    /\ arrives
    /\ peer = "asked"
    /\ peer' = "attached"
    /\ endpoint' = "ATTACHED"
    /\ \/ /\ link_state = "HALF_ATTACHED_ATTACH_SENT"
          /\ link_state' = "ATTACHED"
          /\ message_sender_state' = IF bound /\ message_sender_state = "OPENING"
                                     THEN "OPEN" ELSE message_sender_state
          /\ current_link_credit' = 0
       \/ /\ link_state = "DETACHED"
          /\ link_state' = "HALF_ATTACHED_ATTACH_RECEIVED"
          /\ current_link_credit' = 0
          /\ UNCHANGED message_sender_state
       \/ /\ link_state \notin {"HALF_ATTACHED_ATTACH_SENT", "DETACHED"}
          /\ UNCHANGED <<link_state, current_link_credit, message_sender_state>>
    /\ UNCHANGED <<queue, loop, link, deliveries, delivery_id, delivery_count,
                   session_state, window, up, limit, taken_back, past, destroyed,
                   crashed>>

\* Mutant: the credit is a signed number.
flow_received_signed(new_limit) ==
    /\ arrives
    /\ peer = "attached"
    /\ limit' = new_limit
    /\ taken_back' = (taken_back \/ new_limit < delivery_count)
    /\ current_link_credit' = new_limit - delivery_count
    /\ window' \in BOOLEAN
    /\ loop' = IF ~bound THEN "none"
               ELSE IF current_link_credit' > 0 THEN "link"
               ELSE IF window' THEN "session" ELSE "none"
    /\ UNCHANGED <<message_sender_state, queue, link_state, link, deliveries,
                   delivery_id, delivery_count, session_state, endpoint, up, peer,
                   past, destroyed, crashed>>

\* A FLOW of the link: the credit, in 32 bits, then a pass if there is any, then
\* the session's pass if the window is open.
flow_received(new_limit) ==
    /\ arrives
    /\ peer = "attached"
    /\ limit' = new_limit
    /\ taken_back' = (taken_back \/ new_limit < delivery_count)
    /\ current_link_credit' = (new_limit - delivery_count) % CREDIT_MOD
    /\ window' \in BOOLEAN
    /\ loop' = IF ~bound THEN "none"
               ELSE IF current_link_credit' > 0 THEN "link"
               ELSE IF window' THEN "session" ELSE "none"
    /\ UNCHANGED <<message_sender_state, queue, link_state, link, deliveries,
                   delivery_id, delivery_count, session_state, endpoint, up, peer,
                   past, destroyed, crashed>>

\* Mutant: only the link a FLOW names may send.
session_flow_received_silent ==
    /\ arrives
    /\ session_state = "MAPPED"
    /\ window' \in BOOLEAN
    /\ UNCHANGED <<loop, message_sender_state, queue, link_state, link, deliveries,
                   numbers, session_state, endpoint, up, remote, past, destroyed,
                   crashed>>

\* A FLOW of the session or of another link in it.
session_flow_received ==
    /\ arrives
    /\ session_state = "MAPPED"
    /\ window' \in BOOLEAN
    /\ loop' = IF bound /\ window' THEN "session" ELSE "none"
    /\ UNCHANGED <<message_sender_state, queue, link_state, link, deliveries,
                   numbers, session_state, endpoint, up, remote, past, destroyed,
                   crashed>>

\* A FLOW of the link without link-credit or delivery-count detaches it.
bad_flow_received ==
    /\ arrives
    /\ peer = "attached"
    /\ link_down("DETACHED")
    /\ window' \in BOOLEAN
    /\ loop' = IF bound /\ window' THEN "session" ELSE "none"
    /\ UNCHANGED <<accepted, link, sending, numbers, session_state, endpoint, up,
                   remote, past, destroyed, crashed>>

\* The deliveries a DISPOSITION names.
named(first, last) ==
    {m \in pending_deliveries : first <= delivery_id[m] /\ delivery_id[m] <= last}

\* A settled DISPOSITION with a delivery state.
disposition_received(first, last) ==
    /\ arrives
    /\ peer = "attached"
    /\ completes(named(first, last))
    /\ forgets(named(first, last))
    /\ UNCHANGED <<message_sender_state, accepted, loop, link_state, link, sending,
                   numbers, session, remote, past, destroyed, crashed>>

\* A settled DISPOSITION without one: the deliveries leave the list, and nobody
\* is told.
stateless_disposition_received(first, last) ==
    /\ arrives
    /\ peer = "attached"
    /\ forgets(named(first, last))
    /\ dropped' = dropped \cup named(first, last)
    /\ UNCHANGED <<message_sender_state, queue, loop, link_state, link, sending,
                   numbers, session, remote, failed, destroyed, crashed>>

\* A DETACH, with an error or without: answered, then the link is down; the
\* endpoint takes no more frames and notifications.
detach_received ==
    /\ arrives
    /\ peer = "attached"
    /\ peer' = "detached"
    /\ endpoint' = "DETACHING"
    /\ is_closed' \in {is_closed, TRUE}
    /\ link_down("DETACHED") \/ link_down("ERROR")
    /\ UNCHANGED <<accepted, loop, begun, pre_settled, sending, numbers,
                   session_state, window, up, limit, taken_back, past, destroyed,
                   crashed>>

-----------------------------------------------------------------------------
(* on_send_complete of link.c, called by the io for a pre-settled transfer *)

on_send_complete(m) ==
    /\ Idle
    /\ m \in sending
    /\ sending' = sending \ {m}
    /\ \/ /\ m \in pending_deliveries
          /\ completes({m})
          /\ forgets({m})
          /\ UNCHANGED crashed
       \/ /\ m \notin pending_deliveries      \* the delivery has been freed
          /\ crashed' = TRUE
          /\ UNCHANGED <<messages, pending, calls, pending_deliveries, overdue>>
    /\ UNCHANGED <<message_sender_state, accepted, loop, link_state, link, numbers,
                   session, remote, past, destroyed>>

-----------------------------------------------------------------------------

Pass ==
    \/ \E m \in Send : send_next(m) \/ send_next_fails(m)
    \/ pass_ends

Application ==
    \/ messagesender_open
    \/ messagesender_send_async
    \/ messagesender_close
    \/ messagesender_destroy
    \/ link_dowork
    \/ \E m \in Send : messagesender_send_cancel_handler(m)

Session ==
    \/ session_mapped
    \/ session_discards
    \/ session_fails
    \/ session_end
    \/ connection_discards

Peer ==
    \/ attach_received
    \/ \E new_limit \in 0 .. MaxLimit : flow_received(new_limit)
    \/ session_flow_received
    \/ bad_flow_received
    \/ \E first, last \in 1 .. delivery_count :
          \/ disposition_received(first, last)
          \/ stateless_disposition_received(first, last)
    \/ detach_received

Io == \E m \in Send : on_send_complete(m)

Clock == \E m \in Send : Expire(m)

Next == Pass \/ Application \/ Session \/ Peer \/ Io \/ Clock

Spec == Init /\ [][Next]_vars

\* A pass comes to its end, every transfer has a timeout and it passes, and the
\* application keeps calling link_dowork, however many frames arrive between two
\* calls (each of them is handled to the end first, hence the strong fairness).
Fairness ==
    /\ WF_vars(Pass)
    /\ SF_vars(link_dowork)
    /\ \A m \in Send : WF_vars(Expire(m))

FairSpec == Spec /\ Fairness

-----------------------------------------------------------------------------
(* Properties *)

\* Every accepted send is completed exactly once, when it leaves the queue:
\* whichever of disposition, timeout, cancellation, detach, session end,
\* transport loss, failed retry and close comes first, the others find nothing
\* left to complete.
CompletedOnce ==
    \A m \in 1 .. accepted : calls[m] = IF m \in messages THEN 0 ELSE 1

\* The link's list and the sender's array agree.  The link never holds a delivery
\* whose send the sender has freed, also once the sender itself is gone, so that
\* on_delivery_settled always has a live context; and a transferred send has its
\* delivery until it completes, so that it can be settled, time out or be
\* cancelled, unless a DISPOSITION without a state has dropped it.
DeliveriesOwned == pending_deliveries = pending \ dropped

\* Sends are transferred in the order of acceptance, whatever their first
\* attempt ran into, until one of them fails out of the queue.
InOrder ==
    failed \/ \A m \in not_sent, k \in Send : m < k => delivery_id[k] = 0

\* No send is left waiting while there is credit and room in the window: every
\* event that makes a send possible also starts the pass that sends it.
WorkConserving ==
    /\ message_sender_state = "OPEN"
    /\ loop = "none"
    /\ ~failed
    /\ transferable
    => not_sent = {}

\* The sender stays within the peer's credit as long as the peer does not take
\* credit back that may have been used.
CreditRespected == taken_back \/ delivery_count <= limit

\* A transfer comes to an end, by its timeout if by nothing else, unless a
\* DISPOSITION without a state has dropped its delivery.
TransferEnds ==
    \A m \in Send :
        m \in pending_deliveries
            ~> (calls[m] = 1 \/ m \in dropped \/ crashed)

\* src/devdoc/message_sender_error_propagation.md, Change 4: a settled
\* DISPOSITION completes the send, "user callback never fires" and "message
\* leaks in the pending list" are what it puts an end to.
SettledIsCompleted == pending \subseteq pending_deliveries

\* indicate_all_messages_as_error: "Remove the delivery from the link, so the
\* link cannot settle this send after it is destroyed."
NoLateCompletion == sending \subseteq pending_deliveries

=============================================================================

---------------------------- MODULE SenderProofs ----------------------------
(***************************************************************************)
(* Proofs of the safety properties of module Sender, for every value of    *)
(* its constants.                                                          *)
(***************************************************************************)
EXTENDS Sender, TLAPS

\* A send that has not been accepted has left no trace.
Fresh ==
    \A m \in Send :
        m > accepted => calls[m] = 0 /\ delivery_id[m] = 0 /\ m \notin dropped

\* A delivery that a DISPOSITION dropped was that of a transferred send, which
\* never waits again.
DroppedSent == dropped \cap not_sent = {}

\* Only a link that has been bound to its session is ever anything but DETACHED
\* or holds deliveries; only a bound sender is OPEN; an ATTACH is only sent in a
\* session that has been mapped.
Attached ==
    /\ link_state # "DETACHED" => begun
    /\ begun \/ pending_deliveries = {}
    /\ message_sender_state = "OPEN" => begun /\ ~destroyed
    /\ link_state \in {"HALF_ATTACHED_ATTACH_SENT", "ATTACHED"}
          => session_state # "UNMAPPED"

\* The credit at hand is what the peer's last FLOW has left.
Credit == taken_back \/ delivery_count + current_link_credit <= limit

\* The inductive invariant.  CompletedOnce and DeliveriesOwned need each other
\* (what the link settles is in the array), InOrder needs WorkConserving (a new
\* send is tried at once, ahead of the queue), which needs Attached (a sender
\* becomes OPEN with no credit).
IInv ==
    /\ TypeOK
    /\ Fresh
    /\ CompletedOnce
    /\ DeliveriesOwned
    /\ DroppedSent
    /\ Attached
    /\ Credit
    /\ InOrder
    /\ WorkConserving

\* The parts of TypeOK: the queue and the list, the numbers, the states and the
\* flags.
QueueTypes ==
    /\ accepted \in 0 .. MaxSends
    /\ messages \subseteq 1 .. accepted
    /\ pending \subseteq messages
    /\ calls \in [Send -> Nat]
    /\ pending_deliveries \subseteq Send
    /\ overdue \subseteq pending_deliveries
    /\ dropped \subseteq Send

NumberTypes ==
    /\ delivery_id \in [Send -> Nat]
    /\ delivery_count \in Nat
    /\ current_link_credit \in 0 .. CREDIT_MOD - 1
    /\ limit \in 0 .. MaxLimit
    /\ sending \subseteq Send

StateTypes ==
    /\ message_sender_state \in SenderStates
    /\ loop \in {"none", "link", "session"}
    /\ link_state \in LinkStates
    /\ session_state \in {"UNMAPPED", "MAPPED", "DISCARDING", "ERROR"}
    /\ endpoint \in {"NOT_ATTACHED", "ATTACHED", "DETACHING", "GONE"}
    /\ peer \in {"unaware", "asked", "attached", "detached"}

Booleans ==
    /\ is_closed \in BOOLEAN
    /\ begun \in BOOLEAN
    /\ pre_settled \in BOOLEAN
    /\ window \in BOOLEAN
    /\ up \in BOOLEAN
    /\ taken_back \in BOOLEAN
    /\ failed \in BOOLEAN
    /\ destroyed \in BOOLEAN
    /\ crashed \in BOOLEAN

\* What the invariant says of the queue and the list.
Queue == QueueTypes /\ Fresh /\ CompletedOnce /\ DeliveriesOwned /\ DroppedSent

-----------------------------------------------------------------------------

USE SenderAssumption DEF SenderAssumption

\* The invariant, in the parts the proofs use.
LEMMA Parts ==
    IInv <=> /\ Queue /\ NumberTypes /\ StateTypes /\ Booleans
             /\ Attached /\ Credit /\ InOrder /\ WorkConserving
  BY DEF IInv, TypeOK, Queue, QueueTypes, NumberTypes, StateTypes, Booleans

\* The same after a step.
LEMMA PrimedParts ==
    ASSUME Queue', NumberTypes', StateTypes', Booleans', Attached', Credit', InOrder',
           WorkConserving'
    PROVE  IInv'
  BY DEF IInv, TypeOK, Queue, QueueTypes, NumberTypes, StateTypes, Booleans

\* messagesender_create on a new link establishes the invariant.
LEMMA InitIInv == Init => IInv
<1> SUFFICES ASSUME Init PROVE IInv OBVIOUS
<1>1. Queue
  BY DEF Init, Queue, QueueTypes, Fresh, CompletedOnce, DeliveriesOwned, DroppedSent,
     not_sent, Send
<1>2. NumberTypes /\ StateTypes
  BY DEF Init, NumberTypes, StateTypes, SenderStates, LinkStates, Send
<1>3. Booleans
  BY DEF Init, Booleans
<1>4. Attached /\ Credit
  BY DEF Init, Attached, Credit
<1>5. InOrder
  BY DEF Init, InOrder, not_sent
<1>6. WorkConserving
  BY DEF Init, WorkConserving
<1> QED
  BY <1>1, <1>2, <1>3, <1>4, <1>5, <1>6, Parts

\* Completing some sends of the array and forgetting exactly their deliveries
\* keeps the queue in order: on_delivery_settled, the cancellations and
\* indicate_all_messages_as_error.
LEMMA CompletesQueue ==
    ASSUME Queue, NEW done \in SUBSET messages, NEW gone,
           completes(done), forgets(gone),
           pending_deliveries \cap gone = pending_deliveries \cap done,
           UNCHANGED <<accepted, delivery_id, dropped>>
    PROVE  Queue' /\ not_sent' \subseteq not_sent
<1>1. QueueTypes'
  <2>1. calls' \in [Send -> Nat]
    BY DEF Queue, QueueTypes, completes
  <2>2. /\ messages' \subseteq messages
        /\ pending' \subseteq messages'
        /\ pending_deliveries' \subseteq pending_deliveries
        /\ overdue' \subseteq pending_deliveries'
    BY DEF Queue, QueueTypes, completes, forgets
  <2> QED
    BY <2>1, <2>2 DEF Queue, QueueTypes
<1>2. \A m \in Send : /\ m \in done => calls'[m] = calls[m] + 1
                      /\ m \notin done => calls'[m] = calls[m]
  BY DEF completes, Queue, QueueTypes
<1>3. Fresh' /\ CompletedOnce'
  <2>1. \A m \in done : m \in 1 .. accepted
    BY DEF Queue, QueueTypes
  <2>2. messages' = messages \ done
    BY DEF completes
  <2> QED
  BY <1>2, <2>1, <2>2 DEF Queue, QueueTypes, Fresh, CompletedOnce, Send
<1>4. DeliveriesOwned'
  BY DEF Queue, DeliveriesOwned, completes, forgets
<1>5. DroppedSent' /\ not_sent' \subseteq not_sent
  BY DEF Queue, DroppedSent, not_sent, completes
<1> QED
  BY <1>1, <1>3, <1>4, <1>5 DEF Queue

\* A step that leaves the queue alone.
LEMMA SameQueue ==
    ASSUME Queue, UNCHANGED <<queue, pending_deliveries, overdue, delivery_id, dropped>>
    PROVE  Queue' /\ not_sent' = not_sent
  BY DEF Queue, QueueTypes, Fresh, CompletedOnce, DeliveriesOwned, DroppedSent,
     not_sent, queue, Send

\* A queue that only shrinks stays in order.
LEMMA SameOrder ==
    ASSUME InOrder, not_sent' \subseteq not_sent, UNCHANGED <<failed, delivery_id>>
    PROVE  InOrder'
  BY DEF InOrder

\* A send that has to wait joins the queue at its end.
LEMMA AcceptQueue ==
    ASSUME Queue, InOrder, new_send \in Send,
           accepted' = new_send, messages' = messages \cup {new_send},
           UNCHANGED <<pending, calls, pending_deliveries, overdue, delivery_id, dropped, failed>>
    PROVE  Queue' /\ InOrder'
<1>1. QueueTypes'
  BY DEF Queue, QueueTypes, new_send, Send
<1>2. Fresh' /\ CompletedOnce'
  BY DEF Queue, QueueTypes, new_send, Send, Fresh, CompletedOnce
<1>3. DeliveriesOwned' /\ DroppedSent'
  BY DEF Queue, QueueTypes, new_send, Send, Fresh, DeliveriesOwned, DroppedSent,
     not_sent
<1>4. InOrder'
  BY DEF Queue, QueueTypes, new_send, Send, Fresh, InOrder, not_sent
<1> QED
  BY <1>1, <1>2, <1>3, <1>4 DEF Queue

\* The transfer of m, the first send in the queue or a new one ahead of no other,
\* which the link will settle later.
LEMMA WaitsQueue ==
    ASSUME Queue, NumberTypes, InOrder, NEW m \in Send,
           accepted' \in 0 .. MaxSends,
           \/ next_to_send(m) /\ accepted' = accepted
           \/ not_sent = {} /\ m = new_send /\ accepted' = new_send
           \/ failed /\ m = new_send /\ accepted' = new_send,
           messages' = messages \cup {m},
           pending' = pending \cup {m},
           pending_deliveries' = pending_deliveries \cup {m},
           delivery_id' = [delivery_id EXCEPT ![m] = delivery_count + 1],
           UNCHANGED <<calls, overdue, dropped, failed>>
    PROVE  Queue' /\ InOrder'
<1>1. QueueTypes'
  BY DEF Queue, QueueTypes, new_send, Send, next_to_send, not_sent
<1>2. Fresh' /\ CompletedOnce'
  BY DEF Queue, QueueTypes, NumberTypes, new_send, Send, Fresh, CompletedOnce,
     next_to_send, not_sent
<1>3. DeliveriesOwned' /\ DroppedSent'
  BY DEF Queue, QueueTypes, new_send, Send, Fresh, DeliveriesOwned, DroppedSent,
     not_sent, next_to_send
<1>4. InOrder'
  BY DEF Queue, QueueTypes, NumberTypes, new_send, Send, InOrder, not_sent, next_to_send
<1> QED
  BY <1>1, <1>2, <1>3, <1>4 DEF Queue

\* The transfer of such a send that is completed, with the sends in `done',
\* before link_transfer_async returns.
LEMMA SettlesQueue ==
    ASSUME Queue, NumberTypes, InOrder, NEW m \in Send, NEW done \in SUBSET messages, NEW gone,
           accepted' \in 0 .. MaxSends,
           \/ next_to_send(m) /\ accepted' = accepted
           \/ not_sent = {} /\ m = new_send /\ accepted' = new_send
           \/ failed /\ m = new_send /\ accepted' = new_send,
           completes(done \cup {m}), forgets(gone),
           pending_deliveries \cap gone = pending_deliveries \cap done,
           \/ delivery_id' = delivery_id
           \/ delivery_id' = [delivery_id EXCEPT ![m] = delivery_count + 1],
           UNCHANGED <<dropped, failed>>
    PROVE  Queue' /\ InOrder'
<1>1. QueueTypes'
  <2>1. calls' \in [Send -> Nat]
    BY DEF Queue, QueueTypes, completes
  <2>2. /\ messages' \subseteq messages
        /\ pending' \subseteq messages'
        /\ pending_deliveries' \subseteq pending_deliveries
        /\ overdue' \subseteq pending_deliveries'
    BY DEF Queue, QueueTypes, completes, forgets
  <2>3. accepted' >= accepted
    BY DEF Queue, QueueTypes, new_send
  <2> QED
    BY <2>1, <2>2, <2>3 DEF Queue, QueueTypes
<1>2. \A k \in Send : calls'[k] = IF k \in done \cup {m} THEN calls[k] + 1 ELSE calls[k]
  BY DEF completes
<1>3. messages' = messages \ (done \cup {m})
  BY DEF completes
<1>4. CompletedOnce'
  <2>1. CASE next_to_send(m) /\ accepted' = accepted
    BY <1>2, <1>3, <2>1 DEF Queue, QueueTypes, Send, CompletedOnce, next_to_send,
       not_sent
  <2>2. CASE m = new_send /\ accepted' = new_send
    BY <1>2, <1>3, <2>2 DEF Queue, QueueTypes, Send, CompletedOnce, Fresh, new_send
  <2> QED
    BY <2>1, <2>2
<1>5. \A k \in Send : k # m => delivery_id'[k] = delivery_id[k]
  BY DEF NumberTypes
<1>6. Fresh'
  <2>1. \A k \in Send : k > accepted' => k > accepted /\ k # m /\ k \notin done
    BY DEF Queue, QueueTypes, Send, next_to_send, not_sent, new_send
  <2>2. \A k \in Send : k > accepted' => calls'[k] = calls[k]
    BY <1>2, <2>1
  <2> QED
    BY <1>5, <2>1, <2>2 DEF Queue, Fresh
<1>7. m \notin pending
  BY DEF Queue, QueueTypes, Send, next_to_send, not_sent, new_send
<1>8. DeliveriesOwned' /\ DroppedSent'
  BY <1>7 DEF Queue, DeliveriesOwned, DroppedSent, not_sent, completes, forgets
<1>9. InOrder'
  <2>1. not_sent' = not_sent \ (done \cup {m})
    BY DEF not_sent, completes
  <2> QED
    <3>1. CASE failed
      BY <3>1 DEF InOrder
    <3>2. CASE not_sent = {}
      BY <3>2, <2>1 DEF InOrder
    <3>3. CASE next_to_send(m) /\ ~failed
      <4> SUFFICES ASSUME NEW j \in not_sent', NEW k \in Send, j < k
                   PROVE  delivery_id'[k] = 0
        BY DEF InOrder
      <4>1. j \in not_sent
        BY <2>1
      <4>2. j \in Int /\ m <= j
        BY <4>1, <3>3 DEF next_to_send, Queue, QueueTypes, not_sent
      <4>3. delivery_id[k] = 0
        BY <4>1, <3>3 DEF InOrder
      <4>4. k # m
        BY <4>2 DEF Send
      <4> QED
        BY <4>3, <4>4, <1>5
    <3> QED
      BY <3>1, <3>2, <3>3
<1> QED
  BY <1>1, <1>4, <1>6, <1>8, <1>9 DEF Queue

\* A step that makes no transfer possible lets no send wait in vain.
LEMMA SameWork ==
    ASSUME WorkConserving, not_sent' \subseteq not_sent,
           /\ message_sender_state' = "OPEN"
           /\ loop' = "none"
           /\ ~failed'
           /\ transferable'
           => /\ message_sender_state = "OPEN"
              /\ loop = "none"
              /\ ~failed
              /\ transferable
    PROVE  WorkConserving'
  BY DEF WorkConserving

\* close_connection_with_error, of which the session is not told.
LEMMA ConnectionDiscardsStep ==
    ASSUME IInv, connection_discards PROVE IInv'
<1> USE Parts
<1>1. Queue' /\ not_sent' \subseteq not_sent
  BY SameQueue DEF connection_discards, queue, deliveries, link, numbers, session,
     remote, past
<1>2. NumberTypes' /\ StateTypes'
  BY DEF NumberTypes, StateTypes, SenderStates, LinkStates, connection_discards, queue,
     deliveries, link, numbers, session, remote, past
<1>3. Booleans'
  BY DEF Booleans, connection_discards, queue, deliveries, link, numbers, session,
     remote, past
<1>4. Attached'
  BY <1>2, <1>3 DEF Attached, StateTypes, Booleans, connection_discards, queue,
     deliveries, link, numbers, session, remote, past
<1>5. Credit'
  BY DEF Credit, NumberTypes, connection_discards, queue, deliveries, link, numbers,
     session, remote, past
<1>6. InOrder'
  BY <1>1, SameOrder DEF connection_discards, queue, deliveries, link, numbers, session,
     remote, past
<1>7. WorkConserving'
  BY <1>1, <1>3, SameWork DEF transferable, connection_discards, queue, deliveries,
     link, numbers, session, remote, past
<1> QED
  BY <1>1, <1>2, <1>3, <1>4, <1>5, <1>6, <1>7, PrimedParts

\* A timeout passes.
LEMMA ExpireStep ==
    ASSUME NEW m \in Send, IInv, Expire(m) PROVE IInv'
<1> USE Parts
<1>1. Queue' /\ not_sent' \subseteq not_sent
  <2>1. Queue'
    BY DEF Expire, queue, past, numbers, Queue, QueueTypes, Fresh, CompletedOnce,
       DeliveriesOwned, DroppedSent, not_sent
  <2> QED
    BY <2>1 DEF Expire, queue, not_sent
<1>2. NumberTypes' /\ StateTypes'
  BY DEF NumberTypes, StateTypes, SenderStates, LinkStates, Expire, queue, deliveries,
     link, numbers, session, remote, past
<1>3. Booleans'
  BY DEF Booleans, Expire, queue, deliveries, link, numbers, session, remote, past
<1>4. Attached'
  BY <1>2, <1>3 DEF Attached, StateTypes, Booleans, Expire, queue, deliveries, link,
     numbers, session, remote, past
<1>5. Credit'
  BY DEF Credit, NumberTypes, Expire, queue, deliveries, link, numbers, session, remote,
     past
<1>6. InOrder'
  BY <1>1, SameOrder DEF Expire, queue, deliveries, link, numbers, session, remote, past
<1>7. WorkConserving'
  BY <1>1, <1>3, SameWork DEF transferable, Expire, queue, deliveries, link, numbers,
     session, remote, past
<1> QED
  BY <1>1, <1>2, <1>3, <1>4, <1>5, <1>6, <1>7, PrimedParts

\* link_dowork completes and forgets what is overdue.
LEMMA DoworkStep ==
    ASSUME IInv, link_dowork PROVE IInv'
<1> USE Parts
<1>1. Queue' /\ not_sent' \subseteq not_sent
  <2>1. /\ overdue \in SUBSET messages
        /\ pending_deliveries \cap overdue = pending_deliveries \cap overdue
    BY DEF Queue, QueueTypes, DeliveriesOwned
  <2>2. /\ completes(overdue)
        /\ forgets(overdue)
        /\ UNCHANGED <<accepted, delivery_id, dropped>>
    BY DEF link_dowork, numbers, past
  <2> QED
    BY <2>1, <2>2, CompletesQueue
<1>2. NumberTypes' /\ StateTypes'
  BY DEF NumberTypes, StateTypes, SenderStates, LinkStates, link_dowork, completes,
     forgets, queue, deliveries, link, numbers, session, remote, past
<1>3. Booleans'
  BY DEF Booleans, link_dowork, completes, forgets, queue, deliveries, link, numbers,
     session, remote, past
<1>4. Attached'
  BY <1>2, <1>3 DEF Attached, StateTypes, Booleans, link_dowork, completes, forgets,
     queue, deliveries, link, numbers, session, remote, past
<1>5. Credit'
  BY DEF Credit, NumberTypes, link_dowork, completes, forgets, queue, deliveries, link,
     numbers, session, remote, past
<1>6. InOrder'
  BY <1>1, SameOrder DEF link_dowork, completes, forgets, queue, deliveries, link,
     numbers, session, remote, past
<1>7. WorkConserving'
  BY <1>1, <1>3, SameWork DEF transferable, link_dowork, completes, forgets, queue,
     deliveries, link, numbers, session, remote, past
<1> QED
  BY <1>1, <1>2, <1>3, <1>4, <1>5, <1>6, <1>7, PrimedParts

\* messagesender_send_cancel_handler completes one send and forgets its delivery.
LEMMA CancelStep ==
    ASSUME NEW m \in Send, IInv, messagesender_send_cancel_handler(m) PROVE IInv'
<1> USE Parts
<1>1. Queue' /\ not_sent' \subseteq not_sent
  <2>1. /\ {m} \in SUBSET messages
        /\ pending_deliveries \cap {m} = pending_deliveries \cap {m}
    BY DEF Queue, QueueTypes, DeliveriesOwned, messagesender_send_cancel_handler
  <2>2. /\ completes({m})
        /\ forgets({m})
        /\ UNCHANGED <<accepted, delivery_id, dropped>>
    BY DEF messagesender_send_cancel_handler, numbers, past
  <2> QED
    BY <2>1, <2>2, CompletesQueue
<1>2. NumberTypes' /\ StateTypes'
  BY DEF NumberTypes, StateTypes, SenderStates, LinkStates,
     messagesender_send_cancel_handler, completes, forgets, queue, deliveries, link,
     numbers, session, remote, past
<1>3. Booleans'
  BY DEF Booleans, messagesender_send_cancel_handler, completes, forgets, queue,
     deliveries, link, numbers, session, remote, past
<1>4. Attached'
  BY <1>2, <1>3 DEF Attached, StateTypes, Booleans, messagesender_send_cancel_handler,
     completes, forgets, queue, deliveries, link, numbers, session, remote, past
<1>5. Credit'
  BY DEF Credit, NumberTypes, messagesender_send_cancel_handler, completes, forgets,
     queue, deliveries, link, numbers, session, remote, past
<1>6. InOrder'
  BY <1>1, SameOrder DEF messagesender_send_cancel_handler, completes, forgets, queue,
     deliveries, link, numbers, session, remote, past
<1>7. WorkConserving'
  BY <1>1, <1>3, SameWork DEF transferable, messagesender_send_cancel_handler,
     completes, forgets, queue, deliveries, link, numbers, session, remote, past
<1> QED
  BY <1>1, <1>2, <1>3, <1>4, <1>5, <1>6, <1>7, PrimedParts

\* A DISPOSITION completes and forgets the deliveries it names.
LEMMA DispositionStep ==
    ASSUME NEW first, NEW last, IInv, disposition_received(first, last) PROVE IInv'
<1> USE Parts
<1>1. Queue' /\ not_sent' \subseteq not_sent
  <2>1. /\ named(first, last) \in SUBSET messages
        /\ pending_deliveries \cap named(first, last) = pending_deliveries \cap named(first, last)
    BY DEF Queue, QueueTypes, DeliveriesOwned, named
  <2>2. /\ completes(named(first, last))
        /\ forgets(named(first, last))
        /\ UNCHANGED <<accepted, delivery_id, dropped>>
    BY DEF disposition_received, numbers, past
  <2> QED
    BY <2>1, <2>2, CompletesQueue
<1>2. NumberTypes' /\ StateTypes'
  BY DEF NumberTypes, StateTypes, SenderStates, LinkStates, disposition_received,
     completes, forgets, queue, deliveries, link, numbers, session, remote, past
<1>3. Booleans'
  BY DEF Booleans, disposition_received, completes, forgets, queue, deliveries, link,
     numbers, session, remote, past
<1>4. Attached'
  BY <1>2, <1>3 DEF Attached, StateTypes, Booleans, disposition_received, completes,
     forgets, queue, deliveries, link, numbers, session, remote, past
<1>5. Credit'
  BY DEF Credit, NumberTypes, disposition_received, completes, forgets, queue,
     deliveries, link, numbers, session, remote, past
<1>6. InOrder'
  BY <1>1, SameOrder DEF disposition_received, completes, forgets, queue, deliveries,
     link, numbers, session, remote, past
<1>7. WorkConserving'
  BY <1>1, <1>3, SameWork DEF transferable, disposition_received, completes, forgets,
     queue, deliveries, link, numbers, session, remote, past
<1> QED
  BY <1>1, <1>2, <1>3, <1>4, <1>5, <1>6, <1>7, PrimedParts

\* A DISPOSITION without a state only forgets them.
LEMMA StatelessStep ==
    ASSUME NEW first, NEW last, IInv, stateless_disposition_received(first, last) PROVE IInv'
<1> USE Parts
<1>1. Queue' /\ not_sent' \subseteq not_sent
  <2>1. named(first, last) \subseteq pending_deliveries
    BY DEF named
  <2>2. /\ dropped' = dropped \cup named(first, last)
        /\ pending_deliveries' = pending_deliveries \ named(first, last)
        /\ overdue' = overdue \ named(first, last)
        /\ UNCHANGED <<accepted, messages, pending, calls, delivery_id>>
    BY DEF stateless_disposition_received, forgets, queue, numbers
  <2>3. QueueTypes'
    BY <2>1, <2>2 DEF Queue, QueueTypes
  <2>4. Fresh' /\ CompletedOnce'
    BY <2>1, <2>2 DEF Queue, QueueTypes, Fresh, CompletedOnce, Send, DeliveriesOwned
  <2>5. DeliveriesOwned' /\ DroppedSent' /\ not_sent' = not_sent
    BY <2>1, <2>2 DEF Queue, DeliveriesOwned, DroppedSent, not_sent
  <2> QED
    BY <2>3, <2>4, <2>5 DEF Queue
<1>2. NumberTypes' /\ StateTypes'
  BY DEF NumberTypes, StateTypes, SenderStates, LinkStates,
     stateless_disposition_received, forgets, queue, deliveries, link, numbers, session,
     remote, past
<1>3. Booleans'
  BY DEF Booleans, stateless_disposition_received, forgets, queue, deliveries, link,
     numbers, session, remote, past
<1>4. Attached'
  BY <1>2, <1>3 DEF Attached, StateTypes, Booleans, stateless_disposition_received,
     forgets, queue, deliveries, link, numbers, session, remote, past
<1>5. Credit'
  BY DEF Credit, NumberTypes, stateless_disposition_received, forgets, queue,
     deliveries, link, numbers, session, remote, past
<1>6. InOrder'
  BY <1>1, SameOrder DEF stateless_disposition_received, forgets, queue, deliveries,
     link, numbers, session, remote, past
<1>7. WorkConserving'
  BY <1>1, <1>3, SameWork DEF transferable, stateless_disposition_received, forgets,
     queue, deliveries, link, numbers, session, remote, past
<1> QED
  BY <1>1, <1>2, <1>3, <1>4, <1>5, <1>6, <1>7, PrimedParts

\* A pass ends when nothing waits or the next send is busy.
LEMMA PassEndsStep ==
    ASSUME IInv, pass_ends PROVE IInv'
<1> USE Parts
<1>1. Queue' /\ not_sent' \subseteq not_sent
  BY SameQueue DEF pass_ends, queue, deliveries, link, numbers, session, remote, past
<1>2. NumberTypes' /\ StateTypes'
  BY DEF NumberTypes, StateTypes, SenderStates, LinkStates, pass_ends, queue,
     deliveries, link, numbers, session, remote, past, after_pass
<1>3. Booleans'
  BY DEF Booleans, pass_ends, queue, deliveries, link, numbers, session, remote, past
<1>4. Attached'
  BY <1>2, <1>3 DEF Attached, StateTypes, Booleans, pass_ends, queue, deliveries, link,
     numbers, session, remote, past
<1>5. Credit'
  BY DEF Credit, NumberTypes, pass_ends, queue, deliveries, link, numbers, session,
     remote, past
<1>6. InOrder'
  BY <1>1, SameOrder DEF pass_ends, queue, deliveries, link, numbers, session, remote,
     past
<1>7. WorkConserving'
  BY <1>1, <1>3 DEF WorkConserving, StateTypes, Booleans, transferable, transfer_busy,
     after_pass, pass_ends, not_sent, queue, deliveries, link, numbers, session, remote,
     past
<1> QED
  BY <1>1, <1>2, <1>3, <1>4, <1>5, <1>6, <1>7, PrimedParts

\* A pass ends with a send that failed.
LEMMA FailsStep ==
    ASSUME NEW m \in Send, IInv, send_next_fails(m) PROVE IInv'
<1> USE Parts
<1>1. Queue' /\ not_sent' \subseteq not_sent
  <2>1. /\ {m} \in SUBSET messages
        /\ pending_deliveries \cap {} = pending_deliveries \cap {m}
    BY DEF Queue, QueueTypes, DeliveriesOwned, send_next_fails, next_to_send, not_sent
  <2>2. /\ completes({m})
        /\ forgets({})
        /\ UNCHANGED <<accepted, delivery_id, dropped>>
    BY DEF send_next_fails, forgets, deliveries, numbers
  <2> QED
    BY <2>1, <2>2, CompletesQueue
<1>2. NumberTypes' /\ StateTypes'
  BY DEF NumberTypes, StateTypes, SenderStates, LinkStates, send_next_fails, completes,
     queue, deliveries, link, numbers, session, remote, past, after_pass
<1>3. Booleans'
  BY DEF Booleans, send_next_fails, completes, queue, deliveries, link, numbers,
     session, remote, past
<1>4. Attached'
  BY <1>2, <1>3 DEF Attached, StateTypes, Booleans, send_next_fails, completes, queue,
     deliveries, link, numbers, session, remote, past
<1>5. Credit'
  BY DEF Credit, NumberTypes, send_next_fails, completes, queue, deliveries, link,
     numbers, session, remote, past
<1>6. InOrder'
  BY DEF InOrder, send_next_fails
<1>7. WorkConserving'
  BY DEF WorkConserving, send_next_fails
<1> QED
  BY <1>1, <1>2, <1>3, <1>4, <1>5, <1>6, <1>7, PrimedParts

\* A FLOW of the link sets the credit and starts a pass.
LEMMA FlowStep ==
    ASSUME NEW n \in 0 .. MaxLimit, IInv, flow_received(n) PROVE IInv'
<1> USE Parts
<1>1. /\ (n - delivery_count) % CREDIT_MOD \in 0 .. CREDIT_MOD - 1
      /\ n >= delivery_count => (n - delivery_count) % CREDIT_MOD = n - delivery_count
  BY DEF NumberTypes
<1>2. Queue' /\ not_sent' \subseteq not_sent
  BY SameQueue DEF flow_received, queue, deliveries, link, numbers, session, remote,
     past
<1>3. NumberTypes' /\ StateTypes'
  BY DEF NumberTypes, StateTypes, SenderStates, LinkStates, flow_received, queue,
     deliveries, link, numbers, session, remote, past
<1>4. Booleans'
  BY DEF Booleans, flow_received, queue, deliveries, link, numbers, session, remote,
     past
<1>5. Attached'
  BY <1>3, <1>4 DEF Attached, StateTypes, Booleans, flow_received, queue, deliveries,
     link, numbers, session, remote, past
<1>6. Credit'
  <2>1. CASE n < delivery_count
    BY <2>1 DEF Credit, flow_received
  <2>2. CASE n >= delivery_count
    BY <1>1, <2>2 DEF Credit, flow_received, NumberTypes
  <2> QED
    BY <2>1, <2>2 DEF NumberTypes
<1>7. InOrder'
  BY <1>2, SameOrder DEF flow_received, queue, deliveries, link, numbers, session,
     remote, past
<1>8. WorkConserving'
  BY <1>4 DEF WorkConserving, Attached, StateTypes, Booleans, NumberTypes, transferable,
     flow_received, bound, arrives, hears, not_sent, queue, deliveries, link, numbers,
     session, remote, past
<1> QED
  BY <1>2, <1>3, <1>4, <1>5, <1>6, <1>7, <1>8, PrimedParts

\* A FLOW of the session starts a pass if the window is open.
LEMMA SessionFlowStep ==
    ASSUME IInv, session_flow_received PROVE IInv'
<1> USE Parts
<1>1. Queue' /\ not_sent' \subseteq not_sent
  BY SameQueue DEF session_flow_received, queue, deliveries, link, numbers, session,
     remote, past
<1>2. NumberTypes' /\ StateTypes'
  BY DEF NumberTypes, StateTypes, SenderStates, LinkStates, session_flow_received,
     queue, deliveries, link, numbers, session, remote, past
<1>3. Booleans'
  BY DEF Booleans, session_flow_received, queue, deliveries, link, numbers, session,
     remote, past
<1>4. Attached'
  BY <1>2, <1>3 DEF Attached, StateTypes, Booleans, session_flow_received, queue,
     deliveries, link, numbers, session, remote, past
<1>5. Credit'
  BY DEF Credit, NumberTypes, session_flow_received, queue, deliveries, link, numbers,
     session, remote, past
<1>6. InOrder'
  BY <1>1, SameOrder DEF session_flow_received, queue, deliveries, link, numbers,
     session, remote, past
<1>7. WorkConserving'
  BY <1>3 DEF WorkConserving, Attached, StateTypes, Booleans, transferable,
     session_flow_received, bound, not_sent, queue, deliveries, link, numbers, session,
     remote, past
<1> QED
  BY <1>1, <1>2, <1>3, <1>4, <1>5, <1>6, <1>7, PrimedParts

\* An ATTACH opens the sender, without credit.
LEMMA AttachReceivedStep ==
    ASSUME IInv, attach_received PROVE IInv'
<1> USE Parts
<1>1. Queue' /\ not_sent' \subseteq not_sent
  BY SameQueue DEF attach_received, queue, deliveries, link, numbers, session, remote,
     past
<1>2. NumberTypes' /\ StateTypes'
  BY DEF NumberTypes, StateTypes, SenderStates, LinkStates, attach_received, queue,
     deliveries, link, numbers, session, remote, past
<1>3. Booleans'
  BY DEF Booleans, attach_received, queue, deliveries, link, numbers, session, remote,
     past
<1>4. Attached'
  BY <1>2, <1>3 DEF Attached, StateTypes, Booleans, attach_received, queue, deliveries,
     link, numbers, session, remote, past, bound, arrives, hears
<1>5. Credit'
  BY DEF Credit, NumberTypes, attach_received, queue, deliveries, link, numbers,
     session, remote, past
<1>6. InOrder'
  BY <1>1, SameOrder DEF attach_received, queue, deliveries, link, numbers, session,
     remote, past
<1>7. WorkConserving'
  BY <1>3 DEF WorkConserving, StateTypes, Booleans, transferable, attach_received,
     arrives, hears, bound, not_sent, queue, deliveries, link, numbers, session, remote,
     past
<1> QED
  BY <1>1, <1>2, <1>3, <1>4, <1>5, <1>6, <1>7, PrimedParts

\* remove_all_pending_deliveries and set_link_state: no delivery is left, every
\* send they belonged to is completed, and the sender is not OPEN.
LEMMA LinkDown ==
    ASSUME IInv, NEW new \in {"DETACHED", "ERROR"}, link_down(new),
           UNCHANGED <<accepted, delivery_id, dropped>>
    PROVE  /\ Queue'
           /\ not_sent' \subseteq not_sent
           /\ pending_deliveries' = {}
           /\ link_state' = new
           /\ message_sender_state' \in SenderStates \ {"OPEN"}
<1> USE Parts
<1>1. PICK done \in SUBSET messages : completes(done) /\ pending_deliveries \subseteq done
  BY DEF link_down, on_link_state_changed, Queue, QueueTypes, DeliveriesOwned
<1>2. forgets(pending_deliveries) /\ link_state' = new
  BY DEF link_down
<1>3. Queue' /\ not_sent' \subseteq not_sent
  BY <1>1, <1>2, CompletesQueue
<1>4. pending_deliveries' = {}
  BY <1>2 DEF forgets
<1>5. message_sender_state' \in SenderStates \ {"OPEN"}
  BY DEF link_down, on_link_state_changed, bound, Attached, StateTypes, SenderStates
<1> QED
  BY <1>2, <1>3, <1>4, <1>5

\* A FLOW without credit or delivery-count takes the link down.
LEMMA BadFlowStep ==
    ASSUME IInv, bad_flow_received PROVE IInv'
<1> USE Parts
<1>1. /\ Queue'
      /\ not_sent' \subseteq not_sent
      /\ pending_deliveries' = {}
      /\ link_state' \in {"DETACHED", "ERROR"}
      /\ message_sender_state' \in SenderStates \ {"OPEN"}
  BY LinkDown DEF bad_flow_received, numbers, past
<1>2. Queue' /\ not_sent' \subseteq not_sent
  BY <1>1
<1>3. NumberTypes' /\ StateTypes'
  BY <1>1 DEF NumberTypes, StateTypes, SenderStates, LinkStates, bad_flow_received,
     queue, deliveries, link, numbers, session, remote, past
<1>4. Booleans'
  BY DEF Booleans, bad_flow_received, queue, deliveries, link, numbers, session, remote,
     past
<1>5. Attached'
  BY <1>1, <1>4 DEF Attached, Booleans, arrives, hears, bad_flow_received, link
<1>6. Credit'
  BY DEF Credit, bad_flow_received, queue, deliveries, link, numbers, session, remote,
     past
<1>7. InOrder'
  BY <1>2, SameOrder DEF bad_flow_received, queue, deliveries, link, numbers, session,
     remote, past
<1>8. WorkConserving'
  BY <1>1 DEF WorkConserving, transferable
<1> QED
  BY <1>2, <1>3, <1>4, <1>5, <1>6, <1>7, <1>8, PrimedParts

\* A DETACH takes the link down.
LEMMA DetachReceivedStep ==
    ASSUME IInv, detach_received PROVE IInv'
<1> USE Parts
<1>1. /\ Queue'
      /\ not_sent' \subseteq not_sent
      /\ pending_deliveries' = {}
      /\ link_state' \in {"DETACHED", "ERROR"}
      /\ message_sender_state' \in SenderStates \ {"OPEN"}
  BY LinkDown DEF detach_received, numbers, past
<1>2. Queue' /\ not_sent' \subseteq not_sent
  BY <1>1
<1>3. NumberTypes' /\ StateTypes'
  BY <1>1 DEF NumberTypes, StateTypes, SenderStates, LinkStates, detach_received, queue,
     deliveries, link, numbers, session, remote, past
<1>4. Booleans'
  BY DEF Booleans, detach_received, queue, deliveries, link, numbers, session, remote,
     past
<1>5. Attached'
  BY <1>1, <1>4 DEF Attached, Booleans, arrives, hears, detach_received, link
<1>6. Credit'
  BY DEF Credit, detach_received, queue, deliveries, link, numbers, session, remote,
     past
<1>7. InOrder'
  BY <1>2, SameOrder DEF detach_received, queue, deliveries, link, numbers, session,
     remote, past
<1>8. WorkConserving'
  BY <1>1 DEF WorkConserving, transferable
<1> QED
  BY <1>2, <1>3, <1>4, <1>5, <1>6, <1>7, <1>8, PrimedParts

\* on_send_complete settles a delivery that is still in the list.
LEMMA SendCompleteStep ==
    ASSUME NEW m \in Send, IInv, on_send_complete(m) PROVE IInv'
<1> USE Parts
<1>1. Queue' /\ not_sent' \subseteq not_sent
  <2>1. CASE m \in pending_deliveries
    <3>1. /\ {m} \in SUBSET messages
          /\ completes({m})
          /\ forgets({m})
          /\ UNCHANGED <<accepted, delivery_id, dropped>>
      BY <2>1 DEF on_send_complete, numbers, past, Queue, QueueTypes, DeliveriesOwned
    <3> QED
      BY <3>1, CompletesQueue
  <2>2. CASE m \notin pending_deliveries
    BY <2>2, SameQueue DEF on_send_complete, queue, numbers, past
  <2> QED
    BY <2>1, <2>2
<1>2. NumberTypes' /\ StateTypes'
  BY DEF NumberTypes, StateTypes, SenderStates, LinkStates, on_send_complete, completes,
     forgets, queue, deliveries, link, numbers, session, remote, past
<1>3. Booleans'
  BY DEF Booleans, on_send_complete, completes, forgets, queue, deliveries, link,
     numbers, session, remote, past
<1>4. Attached'
  BY <1>2, <1>3 DEF Attached, StateTypes, Booleans, on_send_complete, completes,
     forgets, queue, deliveries, link, numbers, session, remote, past
<1>5. Credit'
  BY DEF Credit, NumberTypes, on_send_complete, completes, forgets, queue, deliveries,
     link, numbers, session, remote, past
<1>6. InOrder'
  BY <1>1, SameOrder DEF on_send_complete, completes, forgets, queue, deliveries, link,
     numbers, session, remote, past
<1>7. WorkConserving'
  BY <1>1, <1>3, SameWork DEF transferable, on_send_complete, completes, forgets, queue,
     deliveries, link, numbers, session, remote, past
<1> QED
  BY <1>1, <1>2, <1>3, <1>4, <1>5, <1>6, <1>7, PrimedParts

\* session_set_state, whatever of it the link hears.
LEMMA SessionTold ==
    ASSUME IInv, NEW new \in {"MAPPED", "DISCARDING", "ERROR"}, session_set_state(new)
    PROVE  /\ Queue'
           /\ not_sent' \subseteq not_sent
           /\ pending_deliveries' \subseteq pending_deliveries
           /\ link_state' \in LinkStates
           /\ link_state' = link_state \/ begun
           /\ link_state' # "ATTACHED" \/ link_state = "ATTACHED"
           /\ message_sender_state' \in SenderStates
           /\ message_sender_state' # "OPEN" \/ message_sender_state = "OPEN"
           /\ peer' \in {peer, "asked"}
<1> USE Parts
<1>1. UNCHANGED <<accepted, delivery_id, dropped>>
  BY DEF session_set_state, numbers, past
<1>2. CASE ~hears \/ (new = "MAPPED" /\ link_state' = link_state)
  <2>1. UNCHANGED <<message_sender_state, messages, pending, calls, link_state,
                    pending_deliveries, overdue, peer>>
    BY <1>2 DEF session_set_state, on_session_state_changed, send_attach
  <2> QED
    BY <1>1, <2>1, SameQueue DEF queue, StateTypes
<1>3. CASE hears /\ new = "MAPPED" /\ link_state' # link_state
  <2>1. /\ UNCHANGED <<message_sender_state, messages, pending, calls,
                       pending_deliveries, overdue>>
        /\ link_state' = "HALF_ATTACHED_ATTACH_SENT"
        /\ peer' \in {peer, "asked"}
    BY <1>3 DEF session_set_state, on_session_state_changed, send_attach
  <2> QED
    BY <1>1, <1>3, <2>1, SameQueue DEF queue, StateTypes, LinkStates, hears
<1>4. CASE hears /\ new # "MAPPED"
  <2>1. \E down \in {"DETACHED", "ERROR"} : link_down(down) /\ UNCHANGED peer
    BY <1>4 DEF session_set_state, on_session_state_changed
  <2> QED
    BY <1>1, <1>4, <2>1, LinkDown DEF StateTypes, LinkStates, hears, SenderStates
<1> QED
  BY <1>2, <1>3, <1>4

\* The session is mapped.
LEMMA MappedStep ==
    ASSUME IInv, session_mapped PROVE IInv'
<1> USE Parts
<1>1. /\ Queue'
      /\ not_sent' \subseteq not_sent
      /\ pending_deliveries' \subseteq pending_deliveries
      /\ link_state' \in LinkStates
      /\ link_state' = link_state \/ begun
      /\ link_state' # "ATTACHED" \/ link_state = "ATTACHED"
      /\ message_sender_state' \in SenderStates
      /\ message_sender_state' # "OPEN" \/ message_sender_state = "OPEN"
      /\ peer' \in {peer, "asked"}
  BY SessionTold DEF session_mapped
<1>2. Queue' /\ not_sent' \subseteq not_sent
  BY <1>1
<1>3. NumberTypes' /\ StateTypes'
  BY <1>1 DEF NumberTypes, StateTypes, session_mapped, session_set_state, queue,
     deliveries, link, numbers, session, remote, past
<1>4. Booleans'
  BY DEF Booleans, session_mapped, session_set_state, queue, deliveries, link, numbers,
     session, remote, past
<1>5. Attached'
  BY <1>1, <1>4 DEF Attached, Booleans, session_mapped, session_set_state, link
<1>6. Credit'
  BY DEF Credit, session_mapped, session_set_state, queue, deliveries, link, numbers,
     session, remote, past
<1>7. InOrder'
  BY <1>2, SameOrder DEF session_mapped, session_set_state, queue, deliveries, link,
     numbers, session, remote, past
<1>8. WorkConserving'
  BY <1>1, <1>2, <1>4, SameWork DEF transferable, Attached, StateTypes, session_mapped,
     session_set_state, queue, deliveries, link, numbers, session, remote, past
<1> QED
  BY <1>2, <1>3, <1>4, <1>5, <1>6, <1>7, <1>8, PrimedParts

\* The session is ended.
LEMMA DiscardsStep ==
    ASSUME IInv, session_discards PROVE IInv'
<1> USE Parts
<1>1. /\ Queue'
      /\ not_sent' \subseteq not_sent
      /\ pending_deliveries' \subseteq pending_deliveries
      /\ link_state' \in LinkStates
      /\ link_state' = link_state \/ begun
      /\ link_state' # "ATTACHED" \/ link_state = "ATTACHED"
      /\ message_sender_state' \in SenderStates
      /\ message_sender_state' # "OPEN" \/ message_sender_state = "OPEN"
      /\ peer' \in {peer, "asked"}
  BY SessionTold DEF session_discards
<1>2. Queue' /\ not_sent' \subseteq not_sent
  BY <1>1
<1>3. NumberTypes' /\ StateTypes'
  BY <1>1 DEF NumberTypes, StateTypes, session_discards, session_set_state, queue,
     deliveries, link, numbers, session, remote, past
<1>4. Booleans'
  BY DEF Booleans, session_discards, session_set_state, queue, deliveries, link,
     numbers, session, remote, past
<1>5. Attached'
  BY <1>1, <1>4 DEF Attached, Booleans, session_discards, session_set_state, link
<1>6. Credit'
  BY DEF Credit, session_discards, session_set_state, queue, deliveries, link, numbers,
     session, remote, past
<1>7. InOrder'
  BY <1>2, SameOrder DEF session_discards, session_set_state, queue, deliveries, link,
     numbers, session, remote, past
<1>8. WorkConserving'
  BY <1>1, <1>2, <1>4, SameWork DEF transferable, Attached, StateTypes,
     session_discards, session_set_state, queue, deliveries, link, numbers, session,
     remote, past
<1> QED
  BY <1>2, <1>3, <1>4, <1>5, <1>6, <1>7, <1>8, PrimedParts

\* The session fails with its connection.
LEMMA SessionFailsStep ==
    ASSUME IInv, session_fails PROVE IInv'
<1> USE Parts
<1>1. /\ Queue'
      /\ not_sent' \subseteq not_sent
      /\ pending_deliveries' \subseteq pending_deliveries
      /\ link_state' \in LinkStates
      /\ link_state' = link_state \/ begun
      /\ link_state' # "ATTACHED" \/ link_state = "ATTACHED"
      /\ message_sender_state' \in SenderStates
      /\ message_sender_state' # "OPEN" \/ message_sender_state = "OPEN"
      /\ peer' \in {peer, "asked"}
  BY SessionTold DEF session_fails
<1>2. Queue' /\ not_sent' \subseteq not_sent
  BY <1>1
<1>3. NumberTypes' /\ StateTypes'
  BY <1>1 DEF NumberTypes, StateTypes, session_fails, session_set_state, queue,
     deliveries, link, numbers, session, remote, past
<1>4. Booleans'
  BY DEF Booleans, session_fails, session_set_state, queue, deliveries, link, numbers,
     session, remote, past
<1>5. Attached'
  BY <1>1, <1>4 DEF Attached, Booleans, session_fails, session_set_state, link
<1>6. Credit'
  BY DEF Credit, session_fails, session_set_state, queue, deliveries, link, numbers,
     session, remote, past
<1>7. InOrder'
  BY <1>2, SameOrder DEF session_fails, session_set_state, queue, deliveries, link,
     numbers, session, remote, past
<1>8. WorkConserving'
  BY <1>1, <1>2, <1>4, SameWork DEF transferable, Attached, StateTypes, session_fails,
     session_set_state, queue, deliveries, link, numbers, session, remote, past
<1> QED
  BY <1>2, <1>3, <1>4, <1>5, <1>6, <1>7, <1>8, PrimedParts

\* session_end frees the endpoint of the link.
LEMMA SessionEndStep ==
    ASSUME IInv, session_end PROVE IInv'
<1> USE Parts
<1>1. /\ Queue'
      /\ not_sent' \subseteq not_sent
      /\ pending_deliveries' \subseteq pending_deliveries
      /\ link_state' \in LinkStates
      /\ link_state' = link_state \/ begun
      /\ message_sender_state' \in SenderStates
      /\ message_sender_state' # "OPEN" \/ message_sender_state = "OPEN"
      /\ peer' \in {peer, "asked"}
      /\ session_state' = "DISCARDING" \/ UNCHANGED <<session_state, link_state>>
  <2>1. CASE session_set_state("DISCARDING")
    BY <2>1, SessionTold DEF session_set_state
  <2>2. CASE UNCHANGED <<message_sender_state, queue, link_state, deliveries, numbers,
                         session_state, remote, past>>
    BY <2>2, SameQueue DEF queue, deliveries, numbers, remote, past, StateTypes
  <2> QED
    BY <2>1, <2>2 DEF session_end
<1>2. Queue' /\ not_sent' \subseteq not_sent
  BY <1>1
<1>3. NumberTypes' /\ StateTypes'
  BY <1>1 DEF NumberTypes, StateTypes, session_end, session_set_state, queue,
     deliveries, link, numbers, session, remote, past
<1>4. Booleans'
  BY DEF Booleans, session_end, queue, deliveries, link, numbers, session, remote, past,
     session_set_state
<1>5. Attached'
  BY <1>1, <1>4 DEF Attached, Booleans, session_end, session_set_state, link
<1>6. Credit'
  BY DEF Credit, session_end, session_set_state, queue, deliveries, link, numbers,
     session, remote, past
<1>7. InOrder'
  BY <1>2, SameOrder DEF session_end, session_set_state, queue, deliveries, link,
     numbers, session, remote, past
<1>8. WorkConserving'
  BY DEF WorkConserving, transferable, session_end
<1> QED
  BY <1>2, <1>3, <1>4, <1>5, <1>6, <1>7, <1>8, PrimedParts

\* messagesender_close and messagesender_destroy complete and forget everything.
LEMMA CloseStep ==
    ASSUME IInv, close_sender, destroyed' \in BOOLEAN PROVE IInv'
<1> USE Parts
<1>1. /\ message_sender_state' \in SenderStates \ {"OPEN"}
      /\ link_state' \in LinkStates
      /\ link_state' = link_state \/ (begun /\ session_state # "UNMAPPED")
                                \/ link_state' = "DETACHED"
      /\ is_closed' \in BOOLEAN
  BY DEF close_sender, link_detach, StateTypes, Booleans, SenderStates, LinkStates,
     Attached
<1>2. Queue' /\ not_sent' \subseteq not_sent
  <2>1. /\ messages \in SUBSET messages
        /\ pending_deliveries \cap messages = pending_deliveries \cap messages
    BY DEF Queue, QueueTypes, DeliveriesOwned
  <2>2. /\ completes(messages)
        /\ forgets(messages)
        /\ UNCHANGED <<accepted, delivery_id, dropped>>
    BY DEF close_sender, numbers, past
  <2> QED
    BY <2>1, <2>2, CompletesQueue
<1>3. NumberTypes' /\ StateTypes'
  BY <1>1 DEF NumberTypes, StateTypes, close_sender, queue, deliveries, link, numbers,
     session, remote, past
<1>4. Booleans'
  BY <1>1 DEF Booleans, close_sender, queue, deliveries, link, numbers, session, remote,
     past
<1>5. Attached'
  BY <1>1, <1>4 DEF Attached, Booleans, close_sender, forgets, queue, deliveries, link,
     numbers, session, remote, past
<1>6. Credit'
  BY <1>1 DEF Credit, NumberTypes, close_sender, queue, deliveries, link, numbers,
     session, remote, past
<1>7. InOrder'
  BY <1>2, SameOrder DEF close_sender, queue, deliveries, link, numbers, session,
     remote, past
<1>8. WorkConserving'
  BY <1>1 DEF WorkConserving
<1> QED
  BY <1>2, <1>3, <1>4, <1>5, <1>6, <1>7, <1>8, PrimedParts

\* messagesender_open, which may fail inside link_attach.
LEMMA OpenStep ==
    ASSUME IInv, messagesender_open PROVE IInv'
<1> USE Parts
<1>1. /\ Queue'
      /\ not_sent' \subseteq not_sent
      /\ message_sender_state' \in SenderStates \ {"OPEN"}
      /\ link_state' \in LinkStates
      /\ link_state' = link_state \/ (begun' /\ session_state # "UNMAPPED")
      /\ begun' \in BOOLEAN
      /\ begun => begun'
      /\ peer' \in {peer, "asked"}
  <2>1. CASE link_attach /\ session_state = "ERROR"
    <3>1. completes(messages) /\ forgets({}) /\ pending_deliveries = {}
      BY <2>1 DEF link_attach, forgets, messagesender_open, deliveries, Attached,
         Booleans
    <3>2. UNCHANGED <<accepted, delivery_id, dropped>> /\ pending_deliveries' = {}
      BY <3>1 DEF messagesender_open, numbers, past, deliveries
    <3>3. Queue' /\ not_sent' \subseteq not_sent
      BY <3>1, <3>2, CompletesQueue
    <3> QED
      BY <2>1, <3>3 DEF link_attach, SenderStates, LinkStates
  <2>2. CASE link_attach /\ session_state # "ERROR"
    <3>1. UNCHANGED <<messages, pending, calls>>
      BY <2>2 DEF link_attach
    <3>2. Queue' /\ not_sent' \subseteq not_sent
      BY <3>1, SameQueue DEF messagesender_open, queue, deliveries, numbers, past
    <3> QED
      BY <2>2, <3>2 DEF link_attach, send_attach, SenderStates, LinkStates, StateTypes
  <2>3. CASE link_attach_fails \/ link_attach_again
    <3>1. UNCHANGED <<messages, pending, calls, link_state, peer>>
      BY <2>3 DEF link_attach_fails, link_attach_again
    <3>2. Queue' /\ not_sent' \subseteq not_sent
      BY <3>1, SameQueue DEF messagesender_open, queue, deliveries, numbers, past
    <3>3. begun' \in BOOLEAN /\ (begun => begun')
      BY <2>3 DEF link_attach_fails, link_attach_again, Booleans
    <3>4. message_sender_state' \in SenderStates \ {"OPEN"}
      BY <2>3 DEF link_attach_fails, link_attach_again, SenderStates
    <3> QED
      BY <3>1, <3>2, <3>3, <3>4 DEF StateTypes
  <2> QED
    BY <2>1, <2>2, <2>3 DEF messagesender_open
<1>2. Queue' /\ not_sent' \subseteq not_sent
  BY <1>1
<1>3. NumberTypes' /\ StateTypes'
  BY <1>1 DEF NumberTypes, StateTypes, messagesender_open, queue, deliveries, link,
     numbers, session, remote, past
<1>4. Booleans'
  BY <1>1 DEF Booleans, messagesender_open, queue, deliveries, link, numbers, session,
     remote, past
<1>5. Attached'
  BY <1>1, <1>4 DEF Attached, Booleans, messagesender_open, queue, deliveries, link,
     numbers, session, remote, past
<1>6. Credit'
  BY <1>1 DEF Credit, NumberTypes, messagesender_open, queue, deliveries, link, numbers,
     session, remote, past
<1>7. InOrder'
  BY <1>2, SameOrder DEF messagesender_open, queue, deliveries, link, numbers, session,
     remote, past
<1>8. WorkConserving'
  BY <1>1 DEF WorkConserving
<1> QED
  BY <1>2, <1>3, <1>4, <1>5, <1>6, <1>7, <1>8, PrimedParts

\* A transfer of the first waiting send, or of a new one when none waits: taken by
\* the io, settled at once, or lost with the connection.
LEMMA Transfer ==
    ASSUME IInv, NEW m \in Send, link_transfer_async(m),
           \/ next_to_send(m) /\ accepted' = accepted
           \/ not_sent = {} /\ m = new_send /\ accepted' = new_send
           \/ failed /\ m = new_send /\ accepted' = new_send,
           UNCHANGED <<link, endpoint, remote, past>>
    PROVE  /\ Queue' /\ InOrder' /\ not_sent' \subseteq not_sent
           /\ NumberTypes' /\ Credit'
           /\ window' \in BOOLEAN /\ up' \in BOOLEAN
           /\ begun
           /\ message_sender_state' \in SenderStates
           /\ message_sender_state' # "OPEN" \/ message_sender_state = "OPEN"
           /\ link_state' \in {link_state, "DETACHED"}
           /\ session_state' \in {session_state, "DISCARDING"}
<1> USE Parts
<1>1. /\ begun
      /\ accepted' \in 0 .. MaxSends
      /\ UNCHANGED <<failed, dropped, limit, taken_back>>
  BY DEF link_transfer_async, transfer_waits, transfer_settled, transfer_lost,
     transferable,
         Attached, Queue, QueueTypes, Send, remote, past
<1>2. CASE transfer_waits(m)
  <2>1. /\ messages' = messages \cup {m}
        /\ pending' = pending \cup {m}
        /\ pending_deliveries' = pending_deliveries \cup {m}
        /\ delivery_id' = [delivery_id EXCEPT ![m] = delivery_count + 1]
        /\ UNCHANGED <<calls, overdue>>
    BY <1>2 DEF transfer_waits, transferred
  <2>2. Queue' /\ InOrder'
    BY <1>1, <2>1, WaitsQueue
  <2>3. not_sent' \subseteq not_sent
    BY <2>1 DEF not_sent
  <2>4. /\ delivery_count' = delivery_count + 1
        /\ current_link_credit' = (current_link_credit - 1) % CREDIT_MOD
        /\ current_link_credit - 1 \in 0 .. CREDIT_MOD - 1
    BY <1>2 DEF transfer_waits, transferred, transferable, NumberTypes
  <2>5. NumberTypes' /\ Credit'
    BY <1>1, <1>2, <2>1, <2>4 DEF NumberTypes, Credit, transfer_waits
  <2> QED
    BY <1>1, <1>2, <2>2, <2>3, <2>5 DEF transfer_waits, transferred, StateTypes,
       Booleans
<1>3. CASE transfer_settled(m)
  <2>1. /\ completes({} \cup {m}) /\ forgets({})
        /\ delivery_id' = [delivery_id EXCEPT ![m] = delivery_count + 1]
    <3>1. {} \cup {m} = {m}
      OBVIOUS
    <3> QED
      BY <1>3, <3>1 DEF transfer_settled, transferred, forgets, deliveries
  <2>2. Queue' /\ InOrder'
    BY <1>1, <2>1, SettlesQueue
  <2>3. not_sent' \subseteq not_sent
    BY <2>1 DEF not_sent, completes
  <2>4. /\ delivery_count' = delivery_count + 1
        /\ current_link_credit' = (current_link_credit - 1) % CREDIT_MOD
        /\ current_link_credit - 1 \in 0 .. CREDIT_MOD - 1
        /\ UNCHANGED sending
    BY <1>3 DEF transfer_settled, transferred, transferable, NumberTypes, deliveries
  <2>5. NumberTypes' /\ Credit'
    BY <1>1, <2>1, <2>4 DEF NumberTypes, Credit
  <2> QED
    BY <1>1, <1>3, <2>2, <2>3, <2>5 DEF transfer_settled, transferred, StateTypes,
       Booleans
<1>4. CASE transfer_lost(m)
  <2>1. PICK done \in SUBSET messages :
            completes(done \cup {m}) /\ pending_deliveries \subseteq done
    <3>1. \/ completes(pending_deliveries \cup {m})
          \/ completes(messages \cup (pending_deliveries \cup {m}))
      BY <1>4 DEF transfer_lost, on_link_state_changed
    <3>2. pending_deliveries \subseteq messages
      BY DEF Queue, QueueTypes, DeliveriesOwned
    <3>3. messages \cup (pending_deliveries \cup {m}) = messages \cup {m}
      BY <3>2
    <3> QED
      BY <3>1, <3>2, <3>3
  <2>2. forgets(pending_deliveries) /\ delivery_id' = delivery_id
    BY <1>4 DEF transfer_lost, numbers
  <2>3. Queue' /\ InOrder'
    BY <1>1, <2>1, <2>2, SettlesQueue
  <2>4. not_sent' \subseteq not_sent
    BY <2>1 DEF not_sent, completes
  <2>5. NumberTypes' /\ Credit'
    BY <1>1, <1>4 DEF NumberTypes, Credit, transfer_lost, numbers
  <2>6. /\ message_sender_state' \in SenderStates
        /\ message_sender_state' # "OPEN" \/ message_sender_state = "OPEN"
    BY <1>4 DEF transfer_lost, on_link_state_changed, StateTypes, SenderStates
  <2> QED
    BY <1>1, <1>4, <2>3, <2>4, <2>5, <2>6 DEF transfer_lost, Booleans
<1> QED
  BY <1>2, <1>3, <1>4 DEF link_transfer_async

\* send_all_pending_messages transfers the first waiting send.
LEMMA SendNextStep ==
    ASSUME NEW m \in Send, IInv, send_next(m) PROVE IInv'
<1> USE Parts
<1>1. /\ Queue' /\ InOrder' /\ not_sent' \subseteq not_sent
      /\ NumberTypes' /\ Credit'
      /\ window' \in BOOLEAN /\ up' \in BOOLEAN
      /\ begun
      /\ message_sender_state' \in SenderStates
      /\ message_sender_state' # "OPEN" \/ message_sender_state = "OPEN"
      /\ link_state' \in {link_state, "DETACHED"}
      /\ session_state' \in {session_state, "DISCARDING"}
  BY Transfer DEF send_next
<1>2. StateTypes' /\ Attached' /\ WorkConserving'
  BY <1>1 DEF StateTypes, Attached, WorkConserving, LinkStates, send_next, link, remote
<1>3. Booleans'
  BY <1>1 DEF Booleans, send_next, link, remote, past
<1> QED
  BY <1>1, <1>2, <1>3, PrimedParts

\* messagesender_send_async transfers the new send, ahead of no other by
\* WorkConserving, or queues it.
LEMMA SendAsyncStep ==
    ASSUME IInv, messagesender_send_async PROVE IInv'
<1> USE Parts
<1>1. CASE /\ message_sender_state = "OPEN"
           /\ link_transfer_async(new_send)
  <2>1. not_sent = {} \/ failed
    BY <1>1 DEF WorkConserving, messagesender_send_async, Outside, Idle,
       link_transfer_async,
                transfer_waits, transfer_settled, transfer_lost
  <2>2. /\ Queue' /\ InOrder' /\ not_sent' \subseteq not_sent
        /\ NumberTypes' /\ Credit'
        /\ window' \in BOOLEAN /\ up' \in BOOLEAN
        /\ begun
        /\ message_sender_state' \in SenderStates
        /\ message_sender_state' # "OPEN" \/ message_sender_state = "OPEN"
        /\ link_state' \in {link_state, "DETACHED"}
        /\ session_state' \in {session_state, "DISCARDING"}
    BY <1>1, <2>1, Transfer DEF messagesender_send_async
  <2>3. StateTypes' /\ Attached'
    BY <2>2 DEF StateTypes, Attached, LinkStates, messagesender_send_async, link, remote
  <2>4. WorkConserving'
    BY <2>1, <2>2 DEF WorkConserving, messagesender_send_async, past
  <2>5. Booleans'
    BY <2>2 DEF Booleans, messagesender_send_async, link, remote, past
  <2> QED
    BY <2>2, <2>3, <2>4, <2>5, PrimedParts
<1>2. CASE /\ message_sender_state # "OPEN" \/ transfer_busy
           /\ messages' = messages \cup {new_send}
           /\ UNCHANGED <<message_sender_state, pending, calls, link_state, deliveries,
                          numbers, session_state, window, up>>
  <2>1. Queue' /\ InOrder'
    BY <1>2, AcceptQueue DEF messagesender_send_async, deliveries, numbers, past
  <2>2. NumberTypes' /\ StateTypes' /\ Attached' /\ Credit'
    BY <1>2 DEF NumberTypes, StateTypes, Attached, Credit, messagesender_send_async,
                deliveries, numbers, link, remote
  <2>3. Booleans'
    BY <1>2 DEF Booleans, messagesender_send_async, link, remote, past
  <2>4. WorkConserving'
    BY <1>2 DEF WorkConserving, transferable, transfer_busy, messagesender_send_async,
                numbers, past
  <2> QED
    BY <2>1, <2>2, <2>3, <2>4, PrimedParts
<1> QED
  BY <1>1, <1>2 DEF messagesender_send_async

\* Every step keeps the invariant.
LEMMA NextIInv == IInv /\ [Next]_vars => IInv'
<1> SUFFICES ASSUME IInv, [Next]_vars PROVE IInv'
  OBVIOUS
<1>1. CASE Pass
  BY <1>1, SendNextStep, FailsStep, PassEndsStep DEF Pass
<1>2. CASE Application
  <2>1. CASE messagesender_close \/ messagesender_destroy
    <3>1. close_sender /\ destroyed' \in BOOLEAN
      BY <2>1, Parts DEF messagesender_close, messagesender_destroy, Booleans
    <3> QED
      BY <3>1, CloseStep
  <2> QED
    BY <1>2, <2>1, OpenStep, SendAsyncStep, DoworkStep, CancelStep DEF Application
<1>3. CASE Session
  BY <1>3, MappedStep, DiscardsStep, SessionFailsStep, SessionEndStep,
     ConnectionDiscardsStep DEF Session
<1>4. CASE Peer
  BY <1>4, AttachReceivedStep, FlowStep, SessionFlowStep, BadFlowStep, DispositionStep,
     StatelessStep, DetachReceivedStep DEF Peer
<1>5. CASE Io \/ Clock
  BY <1>5, SendCompleteStep, ExpireStep DEF Io, Clock
<1>6. CASE UNCHANGED vars
  BY <1>6 DEF vars, queue, deliveries, link, numbers, session, remote, past, IInv,
     TypeOK,
     Fresh, CompletedOnce, DeliveriesOwned, DroppedSent, Attached, Credit, InOrder,
     WorkConserving, not_sent, transferable
<1> QED
  BY <1>1, <1>2, <1>3, <1>4, <1>5, <1>6 DEF Next

\* The inductive invariant holds throughout.
THEOREM IInvHolds == Spec => []IInv
  BY InitIInv, NextIInv, PTL DEF Spec

\* The sender, its link and their session stay within their types; the credit
\* stays a 32-bit number.
THEOREM TypeCorrect == Spec => []TypeOK
<1>1. IInv => TypeOK
  BY DEF IInv
<1> QED
  BY <1>1, IInvHolds, PTL

\* Every accepted send is completed exactly once, when it leaves the array of
\* message_sender.c, whatever completes it.
THEOREM OneCompletion == Spec => []CompletedOnce
<1>1. IInv => CompletedOnce
  BY DEF IInv
<1> QED
  BY <1>1, IInvHolds, PTL

\* The link's pending_deliveries are those of live, transferred sends, all of them
\* but the ones a DISPOSITION without a state has dropped.
THEOREM ListsAgree == Spec => []DeliveriesOwned
<1>1. IInv => DeliveriesOwned
  BY DEF IInv
<1> QED
  BY <1>1, IInvHolds, PTL

\* Until one fails, sends are transferred in the order of acceptance.
THEOREM SentInOrder == Spec => []InOrder
<1>1. IInv => InOrder
  BY DEF IInv
<1> QED
  BY <1>1, IInvHolds, PTL

\* No send is left in the queue of send_all_pending_messages while it could be
\* transferred.
THEOREM NothingLeftWaiting == Spec => []WorkConserving
<1>1. IInv => WorkConserving
  BY DEF IInv
<1> QED
  BY <1>1, IInvHolds, PTL

\* The deliveries sent stay within delivery-count plus link-credit of the peer's
\* last FLOW, as long as the peer takes nothing back.
THEOREM WithinCredit == Spec => []CreditRespected
<1>1. IInv => CreditRespected
  BY Parts DEF Credit, CreditRespected, NumberTypes
<1> QED
  BY <1>1, IInvHolds, PTL

=============================================================================

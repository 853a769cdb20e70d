------------------------------ MODULE Transfers ------------------------------
(***************************************************************************)
(* Messages from a sender link to a receiver link, both of this library:   *)
(* the windows and ids of src/src/session.c, the split of a message into   *)
(* TRANSFER frames, the credit, reassembly and dispositions of             *)
(* src/src/link.c, and the queue of src/src/message_sender.c.              *)
(*                                                                         *)
(* `tx' is the sending side, `rx' the receiving one, `forth' and `back'    *)
(* the frames under way between them.  The sessions are mapped, the links  *)
(* attached and transfers unsettled.  An action is a handler with all it   *)
(* calls; the frames that it writes are in `out' until it ends, and        *)
(* `broken' names the message of which it fails to build a frame.          *)
(***************************************************************************)
EXTENDS Integers, Sequences, FiniteSets, SequencesExt

CONSTANTS
    Payloads,          \* what may be sent: sequences of chunks of bytes
    AVAILABLE,         \* available_frame_size, for the payload of a TRANSFER
    INCOMING_WINDOW,   \* desired_incoming_window of the receiving session
    MAX_LINK_CREDIT,   \* max_link_credit of the receiver link
    MOD,               \* 2^32, the range of ids, counts, windows and credit
    MaxMessages,       \* bound: messages sent
    MaxFaults,         \* bound: actions in which something fails
    MaxFlows           \* bound: FLOWs of the sending session

ASSUME TransfersAssumption ==
    /\ AVAILABLE \in Nat \ {0}
    /\ INCOMING_WINDOW \in Nat \ {0}
    /\ MAX_LINK_CREDIT \in Nat
    /\ MOD \in Nat
    /\ MOD > MaxMessages + MAX_LINK_CREDIT + INCOMING_WINDOW
    /\ MaxMessages \in Nat /\ MaxFaults \in Nat /\ MaxFlows \in Nat

RECEIVER_MIN_LINK_CREDIT == 1

VARIABLES
    tx, rx, forth, back,
    delivered,         \* messages given to on_message_received, and as what
    written, taken,    \* TRANSFER frames written, and received, so far
    granted,           \* how many the receiving session has ever allowed
    split,             \* a message has been split
    faults, flows      \* what is left of the bounds

transfer_vars == <<tx, rx, forth, back, delivered, written, taken, granted, split, faults, flows>>

\* Something has failed.
disturbed == faults < MaxFaults

Number == 0 .. MOD - 1
Message == 1 .. MaxMessages
Unit == UNION {Range(FlattenSeq(payload)) : payload \in Payloads}
Byte == Message \X Unit
Send == [payload : Payloads, state : {"NOT_SENT", "PENDING", "OK", "ERROR"}]
Delivery == [id : Number, message : Message]

Frame ==
    [type : {"TRANSFER"}, id : Number, more : BOOLEAN, bytes : Seq(Byte), message : Message]
        \cup [type : {"FLOW"}, next_outgoing_id : Number]

Answer ==
    [type : {"FLOW"}, next_incoming_id : Number, incoming_window : Number]
        \cup [type : {"LINK_FLOW"}, next_incoming_id : Number, incoming_window : Number,
              delivery_count : Number, link_credit : Number]
        \cup [type : {"DISPOSITION"}, first : Number, last : Number]

\* Numbers stay in their range and queues hold frames.
TransferTypeOK ==
    /\ tx \in [next_outgoing_id : Number, remote_incoming_window : Number,
               current_link_credit : Number, delivery_count : Number,
               deliveries : SUBSET Delivery, sends : Seq(Send),
               out : {<<>>}, broken : {{}}]
    /\ rx \in [next_incoming_id : Number, incoming_window : Number,
               current_link_credit : Number, delivery_count : Number,
               received_payload : Seq(Byte), held : SUBSET Number, out : {<<>>}]
    /\ forth \in Seq(Frame) /\ back \in Seq(Answer)
    /\ delivered \in Seq([message : Message, payload : Seq(Byte)])
    /\ written \in Nat /\ taken \in Nat /\ granted \in Nat /\ split \in BOOLEAN
    /\ faults \in 0 .. MaxFaults /\ flows \in 0 .. MaxFlows

-----------------------------------------------------------------------------
\* Splitting a payload.

size(payload) == Len(FlattenSeq(payload))

\* The chunk in which the next n bytes end, from position pos of chunk i on.
last_chunk(payload, i, pos, n) ==
    LET walk[j \in Nat, p \in Nat, m \in Nat] ==
          IF m = 0 \/ Len(payload[j]) - p >= m THEN j
          ELSE walk[j + 1, 0, m - (Len(payload[j]) - p)]
    IN  walk[i, pos, n]

\* The pieces of the next n bytes, at most `room' of them, and where they end.
copied(payload, i, pos, n, room) ==
    LET copy[j \in Nat, p \in Nat, m \in Nat, r \in Nat] ==
          LET rest == Len(payload[j]) - p
              tail == copy[j + 1, 0, m - rest, r - 1]
          IN  IF m = 0 \/ r = 0 THEN [bytes |-> <<>>, chunk |-> j, pos |-> p]
              ELSE IF rest > m
              THEN [bytes |-> SubSeq(payload[j], p + 1, p + m), chunk |-> j, pos |-> p + m]
              ELSE [tail EXCEPT !.bytes = SubSeq(payload[j], p + 1, p + rest) \o @]
    IN  copy[i, pos, n, room]

\* The frames of a message: one, or as many as it takes.
transfer_frames(payload) ==
    LET next[i \in Nat, pos \in Nat, left \in Nat] ==
          LET n == IF left > AVAILABLE THEN AVAILABLE ELSE left
              room == last_chunk(payload, i, pos, n) - i + 1
              piece == copied(payload, i, pos, n, room)
          IN  IF left = 0 THEN <<>>
              ELSE <<[bytes |-> piece.bytes, more |-> AVAILABLE < left]>>
                       \o next[piece.chunk, piece.pos, left - n]
    IN  IF AVAILABLE >= size(payload)
        THEN <<[bytes |-> FlattenSeq(payload), more |-> FALSE]>>
        ELSE next[1, 0, size(payload)]

\* Of each payload, once and for all.
split_of == [payload \in Payloads |-> transfer_frames(payload)]

\* What the loops have to compute: the pieces hold the bytes of the message one
\* after the other, all but the last say that there is more, and none is empty
\* that is not the only one.
Splits(pieces, payload) ==
    /\ pieces \in Seq([bytes : Seq(Range(FlattenSeq(payload))), more : BOOLEAN])
    /\ pieces # <<>>
    /\ \A k \in DOMAIN pieces : pieces[k].more <=> k < Len(pieces)
    /\ Len(pieces) > 1 => \A k \in DOMAIN pieces : pieces[k].bytes # <<>>
    /\ FlattenSeq([k \in DOMAIN pieces |-> pieces[k].bytes]) = FlattenSeq(payload)

ASSUME SplitAssumption == \A payload \in Payloads : Splits(split_of[payload], payload)

named(m, bytes) == [k \in DOMAIN bytes |-> <<m, bytes[k]>>]

\* They carry the same delivery id; the message is for the properties only.
frames(L, m, id) ==
    LET pieces == split_of[L.sends[m].payload]
    IN  [k \in DOMAIN pieces |->
            [type |-> "TRANSFER", id |-> id, more |-> pieces[k].more,
             bytes |-> named(m, pieces[k].bytes), message |-> m]]

-----------------------------------------------------------------------------
\* Sending.

\* Mutant: only the credit is looked at.
room_of_link(L) == L.current_link_credit

\* How many messages the credit of the link and the window of the session let go.
room(L) == IF L.current_link_credit < L.remote_incoming_window
           THEN L.current_link_credit ELSE L.remote_incoming_window

before(m, S) == Cardinality({n \in S : n < m})

\* The messages of S in their order.
in_order(S) == [k \in 1 .. Cardinality(S) |-> CHOOSE m \in S : before(m, S) = k - 1]

\* Of the messages of S, those that the link is not busy for, the one of them
\* that fails, if any, and those ahead of it.
tried(L, S) == {m \in S : before(m, S) < room(L)}
failing(L, S) == {b \in L.broken : b.message \in tried(L, S)}
going(L, S) == {m \in tried(L, S) : \A b \in failing(L, S) : m < b.message}

\* link_transfer_async with session_send_transfer for the messages of S in turn,
\* until the link is busy or one fails: the frames of that one which were built
\* are written, and it takes no id, window or credit.
transfers(L, S) ==
    LET sent == in_order(going(L, S))
        n == Len(sent)
        id(k) == (L.next_outgoing_id + k - 1) % MOD
        whole == [k \in 1 .. n |-> frames(L, sent[k], id(k))]
        bad == failing(L, S)
        part == IF bad = {} THEN <<>>
                ELSE LET b == CHOOSE b \in bad : TRUE
                     IN  SubSeq(frames(L, b.message, id(n + 1)), 1, b.cut)
    IN  [L EXCEPT !.out = @ \o FlattenSeq(whole) \o part,
                  !.broken = @ \ bad,
                  !.deliveries = @ \cup {[id |-> id(k), message |-> sent[k]] : k \in 1 .. n},
                  !.next_outgoing_id = (@ + n) % MOD,
                  !.remote_incoming_window = @ - n,
                  !.delivery_count = (@ + n) % MOD,
                  !.current_link_credit = @ - n,
                  !.sends = [m \in DOMAIN @ |->
                     IF m \in Range(sent) THEN [@[m] EXCEPT !.state = "PENDING"]
                     ELSE IF \E b \in bad : b.message = m THEN [@[m] EXCEPT !.state = "ERROR"]
                     ELSE @[m]]]

waiting(L) == {m \in DOMAIN L.sends : L.sends[m].state = "NOT_SENT"}

\* A busy link and an error end the pass.
send_all_pending_messages(L) == transfers(L, waiting(L))

\* The end of an action of the sending side.
tx_writes(end) ==
    \E L \in {end} :
        /\ L.broken = {}
        /\ tx' = [L EXCEPT !.out = <<>>]
        /\ forth' = forth \o L.out
        /\ written' = written + Len(L.out)
        /\ split' = (split \/ \E k \in DOMAIN L.out : L.out[k].more)

\* Building one of the frames of a message fails in this action, or nothing does.
Breaks(B) ==
    /\ B # {} => faults > 0
    /\ faults' = IF B = {} THEN faults ELSE faults - 1

Breakable(m, payload) ==
    {{}} \cup {{[message |-> m, cut |-> c]} : c \in 0 .. Len(split_of[payload]) - 1}

\* messagesender_send_async: a message that finds the link busy waits.
messagesender_send_async(payload, B) ==
    /\ Len(tx.sends) < MaxMessages
    /\ Breaks(B)
    /\ \E L \in {[tx EXCEPT !.sends = Append(@, [payload |-> payload, state |-> "NOT_SENT"]),
                           !.broken = B]} :
         tx_writes(transfers(L, {Len(L.sends)}))
    /\ UNCHANGED <<rx, back, delivered, taken, granted, flows>>

\* The sending session receives transfers of another link and renews the window.
send_flow ==
    /\ flows > 0 /\ flows' = flows - 1
    /\ forth' = Append(forth, [type |-> "FLOW", next_outgoing_id |-> tx.next_outgoing_id])
    /\ UNCHANGED <<tx, rx, back, delivered, written, taken, granted, split, faults>>

\* Mutant: the window is signed.
session_flow_signed(L, flow) ==
    [L EXCEPT !.remote_incoming_window =
        flow.next_incoming_id + flow.incoming_window - L.next_outgoing_id]

\* The window is counted from the ids that the receiver has seen.
session_flow(L, flow) ==
    [L EXCEPT !.remote_incoming_window =
        (flow.next_incoming_id + flow.incoming_window - L.next_outgoing_id) % MOD]

link_flow(L, flow) ==
    LET M == [L EXCEPT !.current_link_credit =
                (flow.delivery_count + flow.link_credit - L.delivery_count) % MOD]
    IN  IF M.current_link_credit > 0 THEN send_all_pending_messages(M) ELSE M

\* A FLOW sets the window, then the credit of its link, and each may start a pass.
flow_received(B) ==
    /\ back # <<>> /\ Head(back).type \in {"FLOW", "LINK_FLOW"}
    /\ back' = Tail(back)
    /\ Breaks(B)
    /\ \E L \in {session_flow([tx EXCEPT !.broken = B], Head(back))} :
       \E M \in {IF Head(back).type = "LINK_FLOW" THEN link_flow(L, Head(back)) ELSE L} :
         tx_writes(IF M.remote_incoming_window > 0 THEN send_all_pending_messages(M) ELSE M)
    /\ UNCHANGED <<rx, delivered, taken, granted, flows>>

settles(d, disposition) == disposition.first <= d.id /\ d.id <= disposition.last

disposition_received ==
    /\ back # <<>> /\ Head(back).type = "DISPOSITION"
    /\ back' = Tail(back)
    /\ LET over == {d \in tx.deliveries : settles(d, Head(back))}
       IN  tx' = [tx EXCEPT !.deliveries = @ \ over,
                            !.sends = [m \in DOMAIN @ |->
                               IF \E d \in over : d.message = m
                               THEN [@[m] EXCEPT !.state = "OK"] ELSE @[m]]]
    /\ UNCHANGED <<rx, forth, delivered, written, taken, granted, split, faults, flows>>

-----------------------------------------------------------------------------
\* Receiving.

session_flow_frame(R) ==
    [type |-> "FLOW", next_incoming_id |-> R.next_incoming_id,
     incoming_window |-> R.incoming_window]

link_flow_frame(R) ==
    [type |-> "LINK_FLOW", next_incoming_id |-> R.next_incoming_id,
     incoming_window |-> R.incoming_window, delivery_count |-> R.delivery_count,
     link_credit |-> R.current_link_credit]

\* Mutant: credit is renewed when it is used up.
credited_late(R, fail) ==
    IF R.current_link_credit >= RECEIVER_MIN_LINK_CREDIT THEN R
    ELSE LET S == [R EXCEPT !.current_link_credit = MAX_LINK_CREDIT]
         IN  [S EXCEPT !.out = Append(@, link_flow_frame(S))]

\* Credit is renewed ahead of the transfer that is at hand.
credited(R, fail) ==
    IF R.current_link_credit > RECEIVER_MIN_LINK_CREDIT THEN R
    ELSE LET S == [R EXCEPT !.current_link_credit = MAX_LINK_CREDIT]
         IN  IF "credit" \in fail THEN S
             ELSE [S EXCEPT !.out = Append(@, link_flow_frame(S))]

\* Mutant: the last frame is not put together with those before it.
collected_while_more(R, frame, fail) ==
    IF frame.more /\ "memory" \notin fail
    THEN [R EXCEPT !.received_payload = @ \o frame.bytes] ELSE R

\* Chunks are put together; one for which there is no memory is left out.
collected(R, frame, fail) ==
    IF (R.received_payload # <<>> \/ frame.more) /\ "memory" \notin fail
    THEN [R EXCEPT !.received_payload = @ \o frame.bytes] ELSE R

indicated(R, frame) ==
    IF R.received_payload # <<>> THEN R.received_payload ELSE frame.bytes

\* The message is complete.  The application answers at once or later.
delivers(R, frame, settle) ==
    LET S == [R EXCEPT !.current_link_credit = (@ - 1) % MOD,
                       !.delivery_count = (@ + 1) % MOD,
                       !.received_payload = <<>>]
    IN  IF settle
        THEN [S EXCEPT !.out = Append(@, [type |-> "DISPOSITION", first |-> frame.id,
                                          last |-> frame.id])]
        ELSE [S EXCEPT !.held = @ \cup {frame.id}]

\* The session renews its window when it is used up.
renewed(R, fail) ==
    IF R.incoming_window > 0 THEN R
    ELSE LET S == [R EXCEPT !.incoming_window = INCOMING_WINDOW]
         IN  IF "window" \in fail THEN S
             ELSE [S EXCEPT !.out = Append(@, session_flow_frame(S))]

\* How many TRANSFER frames a FLOW among the frames written allows in all.
allowed(out) == {taken' + out[k].incoming_window :
                    k \in {j \in DOMAIN out : out[j].type # "DISPOSITION"}}

rx_writes(end) ==
    \E R \in {end} :
        /\ rx' = [R EXCEPT !.out = <<>>]
        /\ back' = back \o R.out
        /\ granted' = Max({granted} \cup allowed(R.out))

rx_transfer_received(settle, fail) ==
    /\ forth # <<>> /\ Head(forth).type = "TRANSFER"
    /\ forth' = Tail(forth)
    /\ taken' = taken + 1
    /\ fail # {} => faults > 0
    /\ faults' = IF fail = {} THEN faults ELSE faults - 1
    /\ LET frame == Head(forth)
           R == [rx EXCEPT !.next_incoming_id = (@ + 1) % MOD, !.incoming_window = @ - 1]
       IN  \E S \in {collected(credited(R, fail), frame, fail)} :
             /\ delivered' = IF frame.more THEN delivered
                             ELSE Append(delivered, [message |-> frame.message,
                                                     payload |-> indicated(S, frame)])
             /\ rx_writes(renewed(IF frame.more THEN S ELSE delivers(S, frame, settle), fail))
    /\ UNCHANGED <<tx, written, split, flows>>

\* messagereceiver_send_message_disposition
messagereceiver_send_message_disposition(id) ==
    /\ id \in rx.held
    /\ rx' = [rx EXCEPT !.held = @ \ {id}]
    /\ back' = Append(back, [type |-> "DISPOSITION", first |-> id, last |-> id])
    /\ UNCHANGED <<tx, forth, delivered, written, taken, granted, split, faults, flows>>

rx_flow_received ==
    /\ forth # <<>> /\ Head(forth).type = "FLOW"
    /\ forth' = Tail(forth)
    /\ rx' = [rx EXCEPT !.next_incoming_id = Head(forth).next_outgoing_id]
    /\ UNCHANGED <<tx, back, delivered, written, taken, granted, split, faults, flows>>

-----------------------------------------------------------------------------

\* Sessions and links that have just been set up, or whose numbers are about
\* to wrap; the FLOW of the attach is under way.
TransferInit ==
    /\ \E first \in {0, MOD - 1} :
         /\ tx = [next_outgoing_id |-> first, remote_incoming_window |-> INCOMING_WINDOW,
                  current_link_credit |-> 0, delivery_count |-> first, deliveries |-> {},
                  sends |-> <<>>, out |-> <<>>, broken |-> {}]
         /\ rx = [next_incoming_id |-> first, incoming_window |-> INCOMING_WINDOW,
                  current_link_credit |-> MAX_LINK_CREDIT, delivery_count |-> first,
                  received_payload |-> <<>>, held |-> {}, out |-> <<>>]
    /\ forth = <<>> /\ back = <<link_flow_frame(rx)>>
    /\ delivered = <<>>
    /\ written = 0 /\ taken = 0 /\ granted = INCOMING_WINDOW
    /\ split = FALSE
    /\ faults = MaxFaults /\ flows = MaxFlows

tx_receives ==
    \/ disposition_received
    \/ flow_received({})
    \/ \E m \in waiting(tx) : \E B \in Breakable(m, tx.sends[m].payload) \ {{}} : flow_received(B)

rx_receives ==
    \/ rx_flow_received
    \/ \E settle \in BOOLEAN, fail \in {{}, {"credit"}, {"memory"}, {"window"}} :
         rx_transfer_received(settle, fail)

TransferNext ==
    \/ \E payload \in Payloads : \E B \in Breakable(Len(tx.sends) + 1, payload) :
         messagesender_send_async(payload, B)
    \/ send_flow
    \/ tx_receives
    \/ rx_receives
    \/ \E id \in rx.held : messagereceiver_send_message_disposition(id)

\* Both sides keep calling connection_dowork.
TransferSpec ==
    /\ TransferInit /\ [][TransferNext]_transfer_vars
    /\ WF_transfer_vars(tx_receives) /\ WF_transfer_vars(rx_receives)

-----------------------------------------------------------------------------

original(m) == named(m, FlattenSeq(tx.sends[m].payload))

Failed(m) == m \in DOMAIN tx.sends /\ tx.sends[m].state = "ERROR"

Arrived(m) == \E k \in DOMAIN delivered : delivered[k].message = m

\* A message is delivered once at most, as it was sent and in the order in
\* which it was sent, as long as nothing fails; and whatever fails, a send that
\* is completed with success has been delivered and one that has failed is not.
DeliveredIntact ==
    /\ \A j, k \in DOMAIN delivered :
         j < k => IF disturbed THEN delivered[j].message # delivered[k].message
                  ELSE delivered[j].message < delivered[k].message
    /\ ~disturbed => \A k \in DOMAIN delivered :
         delivered[k].payload = original(delivered[k].message)
    /\ \A m \in DOMAIN tx.sends :
         /\ tx.sends[m].state = "OK" => Arrived(m)
         /\ tx.sends[m].state = "ERROR" => ~Arrived(m)

\* As long as no message is split, there are never more TRANSFER frames than the
\* receiving session has allowed, whatever numbers wrap and FLOWs get lost.
WindowKept == ~split => written <= granted

\* A message that was sent is delivered or fails: window and credit are renewed
\* in time and every renewal moves the queue, unless something fails.
AllDelivered ==
    \A m \in Message :
        m \in DOMAIN tx.sends ~> (disturbed \/ Arrived(m) \/ Failed(m))

\* devdoc/session_requirements.md:201: remote-incoming-window is decremented
\* after every transfer frame, so that it reflects how many the peer can take.
FrameWindow == written <= granted
=============================================================================

------------------------------ MODULE Sessions ------------------------------
(***************************************************************************)
(* The sessions of one connection: the table of endpoints that             *)
(* src/src/connection.c keeps, the routing of incoming frames by channel   *)
(* number, and the life of the sessions of src/src/session.c on top of it. *)
(* Each session owns one endpoint, so that one handle names both.  The     *)
(* connection is reduced to the states that its endpoints are told of; the *)
(* peer is any AMQP peer that answers BEGIN and END.                       *)
(***************************************************************************)
EXTENDS Integers, Sequences, FiniteSets

CONSTANTS
    Handle,        \* endpoints and sessions, each created once
    None,
    channel_max,   \* the option of connection_set_channel_max
    PeerChannel,   \* channel numbers the peer may use
    MaxInFlight    \* bound: frames under way before the peer sends one more

ASSUME SessionsAssumption ==
    /\ channel_max \in Nat
    /\ None \notin Handle
    /\ None \notin Nat
    /\ PeerChannel \subseteq Nat
    /\ MaxInFlight \in Nat

VARIABLES
    connection_state,
    endpoints,         \* the array, a sequence of handles
    outgoing_channel,  \* fields of the endpoints, zero before they are set
    incoming_channel,
    started,           \* the callbacks of the endpoint are set
    session_state,
    linked,            \* the session has the link endpoint the peer sends to
    outbox,            \* frames on their way to the peer
    inbox,             \* frames on their way from the peer
    peer,              \* peer[ch]: the session the peer has on its channel ch
    peer_ended,        \* sessions whose END the peer has sent
    attached,          \* sessions the peer has known a link of
    used,              \* handles that have been given out
    mirrored           \* every BEGIN so far was ours and was answered on the
                       \* channel of the same number

table == <<endpoints, outgoing_channel, incoming_channel, started>>
network == <<outbox, inbox>>
remote == <<peer, peer_ended, mirrored, attached>>
vars == <<connection_state, table, session_state, linked, network, remote,
          used>>

-----------------------------------------------------------------------------

ConnectionStates == {"START", "OPENED", "DISCARDING", "END", "ERROR", "CRASHED"}

\* The members of SESSION_STATE a handler leaves a session in.
SessionStates == {"UNMAPPED", "BEGIN_SENT", "MAPPED", "DISCARDING", "ERROR"}

Channels == 0 .. channel_max

OutFrames == [kind : {"begin", "end"}, channel : Channels,
              remote_channel : PeerChannel \cup {None}, by : Handle]

\* `for' is the session the peer means.
InFrames == [kind : {"begin", "transfer", "end"}, channel : PeerChannel,
             remote_channel : Channels \cup {None}, for : Handle]

TypeOK ==
    /\ connection_state \in ConnectionStates
    /\ endpoints \in Seq(used)
    /\ outgoing_channel \in [Handle -> Channels]
    /\ incoming_channel \in [Handle -> PeerChannel \cup {0}]
    /\ started \in [Handle -> BOOLEAN]
    /\ session_state \in [Handle -> SessionStates]
    /\ linked \in [Handle -> BOOLEAN]
    /\ outbox \in Seq(OutFrames)
    /\ inbox \in Seq(InFrames)
    /\ peer \in [PeerChannel -> Handle \cup {None}]
    /\ peer_ended \subseteq Handle
    /\ attached \subseteq Handle
    /\ used \subseteq Handle
    /\ mirrored \in BOOLEAN

Init ==
    /\ connection_state = "START"
    /\ endpoints = <<>>
    /\ outgoing_channel = [h \in Handle |-> 0]
    /\ incoming_channel = [h \in Handle |-> 0]
    /\ started = [h \in Handle |-> FALSE]
    /\ session_state = [h \in Handle |-> "UNMAPPED"]
    /\ linked = [h \in Handle |-> FALSE]
    /\ outbox = <<>>
    /\ inbox = <<>>
    /\ peer = [ch \in PeerChannel |-> None]
    /\ peer_ended = {}
    /\ attached = {}
    /\ used = {}
    /\ mirrored = TRUE

-----------------------------------------------------------------------------
(* The endpoint table of connection.c *)

\* The endpoints in the table.
Live == {endpoints[i] : i \in 1 .. Len(endpoints)}

\* Mutant: >= for >.
first_gap_off_by_one(i) ==
    /\ i < Len(endpoints) => outgoing_channel[endpoints[i + 1]] >= i
    /\ \A j \in 1 .. i : outgoing_channel[endpoints[j]] < j - 1

\* i is where the loop of connection_create_endpoint stops: the first index
\* (from 0) whose endpoint has a channel number beyond it, or the end.
first_gap(i) ==
    /\ i < Len(endpoints) => outgoing_channel[endpoints[i + 1]] > i
    /\ \A j \in 1 .. i : outgoing_channel[endpoints[j]] <= j - 1

\* memmove and the store of the new endpoint.
inserted(i, h) ==
    [k \in 1 .. Len(endpoints) + 1 |->
        IF k <= i THEN endpoints[k]
        ELSE IF k = i + 1 THEN h
        ELSE endpoints[k - 1]]

\* memmove over the endpoint that goes; the array shrinks, whether or not the
\* realloc succeeds.
removed(i) ==
    [k \in 1 .. Len(endpoints) - 1 |->
        IF k < i THEN endpoints[k] ELSE endpoints[k + 1]]

\* Mutant: the last match, not the first.
finds_last(channel, ch, e) ==
    \E i \in 1 .. Len(endpoints) :
        /\ endpoints[i] = e
        /\ channel[e] = ch
        /\ \A j \in i + 1 .. Len(endpoints) : channel[endpoints[j]] # ch

\* find_session_endpoint_by_outgoing_channel and ..._by_incoming_channel, where
\* channel is outgoing_channel or incoming_channel: e is the first endpoint of
\* the table with the number ch.
finds(channel, ch, e) ==
    \E i \in 1 .. Len(endpoints) :
        /\ endpoints[i] = e
        /\ channel[e] = ch
        /\ \A j \in 1 .. i - 1 : channel[endpoints[j]] # ch

finds_none(channel, ch) ==
    \A i \in 1 .. Len(endpoints) : channel[endpoints[i]] # ch

\* Mutant: the number after the highest in use.
connection_create_endpoint_appends(h) ==
    /\ Len(endpoints) < channel_max
    /\ endpoints' = Append(endpoints, h)
    /\ outgoing_channel' = [outgoing_channel EXCEPT ![h] =
          IF endpoints = <<>> THEN 0 ELSE outgoing_channel[endpoints[Len(endpoints)]] + 1]

\* connection_create_endpoint; it returns NULL when channel_max endpoints exist.
connection_create_endpoint(h) ==
    /\ Len(endpoints) < channel_max
    /\ \E i \in 0 .. Len(endpoints) :
          /\ first_gap(i)
          /\ endpoints' = inserted(i, h)
          /\ outgoing_channel' = [outgoing_channel EXCEPT ![h] = i]

\* connection_destroy_endpoint.
connection_destroy_endpoint(h) ==
    \E i \in 1 .. Len(endpoints) :
        /\ endpoints[i] = h
        /\ endpoints' = removed(i)

-----------------------------------------------------------------------------
(* Sending, by connection_encode_frame: it fails unless the connection is open *)

Sendable == connection_state = "OPENED"

begin_frame(e, remote_channel) ==
    [kind |-> "begin", channel |-> outgoing_channel[e],
     remote_channel |-> remote_channel, by |-> e]

end_frame(e) ==
    [kind |-> "end", channel |-> outgoing_channel[e],
     remote_channel |-> None, by |-> e]

\* send_end_frame.
send_end_frame(e) ==
    /\ Sendable
    /\ outbox' = Append(outbox, end_frame(e))

\* session_end without its last loop: UNMAPPED and DISCARDING sessions send
\* nothing; a session whose END cannot be sent stays in its state.
end_session(e) ==
    IF session_state[e] \notin {"UNMAPPED", "DISCARDING"} /\ Sendable
    THEN /\ send_end_frame(e)
         /\ session_state' = [session_state EXCEPT ![e] = "DISCARDING"]
    ELSE UNCHANGED <<outbox, session_state>>

-----------------------------------------------------------------------------
(* The application *)

session_create(h) ==
    /\ h \notin used
    /\ connection_create_endpoint(h)
    /\ used' = used \cup {h}
    /\ UNCHANGED <<connection_state, incoming_channel, started, session_state,
                   linked, network, remote>>

\* session_begin starts the endpoint; the BEGIN waits for the notification that
\* the connection has been opened.
session_begin(h) ==
    /\ h \in Live
    /\ started' = [started EXCEPT ![h] = TRUE]
    /\ UNCHANGED <<connection_state, endpoints, outgoing_channel, incoming_channel,
                   session_state, linked, network, remote, used>>

\* The application attaches a link in the session (the links are not modelled
\* here, only whether the handle the peer names is known).
attach(h) ==
    /\ h \in Live
    /\ session_state[h] = "MAPPED"
    /\ linked' = [linked EXCEPT ![h] = TRUE]
    /\ attached' = attached \cup {h}
    /\ UNCHANGED <<connection_state, table, session_state, network, peer,
                   peer_ended, mirrored, used>>

\* session_end: the END, then all link endpoints are freed.
session_end(h) ==
    /\ h \in Live
    /\ end_session(h)
    /\ linked' = [linked EXCEPT ![h] = FALSE]
    /\ UNCHANGED <<connection_state, table, inbox, remote, used>>

\* session_destroy: session_end and connection_destroy_endpoint.
session_destroy(h) ==
    /\ h \in Live
    /\ end_session(h)
    /\ linked' = [linked EXCEPT ![h] = FALSE]
    /\ connection_destroy_endpoint(h)
    /\ UNCHANGED <<connection_state, outgoing_channel, incoming_channel, started,
                   inbox, remote, used>>

-----------------------------------------------------------------------------
(* connection_set_state tells the started endpoints in the order of the table;
   on_connection_state_changed of session.c. *)

\* The started endpoints of the table, in its order.
in_table_order(begins) ==
    /\ \A i, j \in DOMAIN begins :
          i < j => outgoing_channel[begins[i]] < outgoing_channel[begins[j]]
    /\ \A h \in Live : started[h] => \E i \in DOMAIN begins : begins[i] = h

\* OPENED: the sessions that are started, all of them UNMAPPED, send their
\* BEGIN.
connection_opened ==
    /\ connection_state = "START"
    /\ connection_state' = "OPENED"
    /\ \E n \in 0 .. Len(endpoints) :
          \E begins \in [1 .. n -> {h \in Live : started[h]}] :
              /\ in_table_order(begins)
              /\ outbox' = [i \in 1 .. n |-> begin_frame(begins[i], None)]
    /\ session_state' = [h \in Handle |->
          IF h \in Live /\ started[h] THEN "BEGIN_SENT" ELSE session_state[h]]
    /\ UNCHANGED <<table, linked, inbox, remote, used>>

\* What is under way is lost with the connection: its io is closed, or
\* connection_byte_received drops the bytes.
lost == inbox' = <<>> /\ outbox' = <<>>

\* Mutant: the session takes over the connection's state.
connection_down_forwards(state, down) ==
    /\ connection_state \in {"START", "OPENED", "DISCARDING"}
    /\ connection_state' = state
    /\ session_state' = [h \in Handle |->
          IF h \in Live /\ started[h] THEN state ELSE session_state[h]]
    /\ lost
    /\ UNCHANGED <<table, linked, remote, used>>

\* END and ERROR end the started sessions.
connection_down(state, down) ==
    /\ connection_state \in {"START", "OPENED", "DISCARDING"}
    /\ connection_state' = state
    /\ session_state' = [h \in Handle |->
          IF h \in Live /\ started[h] THEN down ELSE session_state[h]]
    /\ lost
    /\ UNCHANGED <<table, linked, remote, used>>

connection_ended == connection_down("END", "DISCARDING")

connection_failed == connection_down("ERROR", "ERROR")

\* DISCARDING: close_connection_with_error; the sessions take no notice.
connection_discards ==
    /\ connection_state = "OPENED"
    /\ connection_state' = "DISCARDING"
    /\ lost
    /\ UNCHANGED <<table, session_state, linked, remote, used>>

-----------------------------------------------------------------------------
(* on_amqp_frame_received of connection.c from BEGIN on, and on_frame_received
   of session.c *)

\* The next frame, handled by e if on_endpoint_frame_received is set.
received(kind) ==
    /\ connection_state = "OPENED"
    /\ inbox # <<>>
    /\ Head(inbox).kind = kind
    /\ inbox' = Tail(inbox)

\* A frame for an endpoint that has not been started is a call through a null
\* pointer.
crash ==
    /\ connection_state' = "CRASHED"
    /\ UNCHANGED <<session_state, outbox>>

\* on_frame_received with a BEGIN that arrived on channel ch.
session_begin_received(e, ch) ==
    /\ session_state' = [session_state EXCEPT ![e] =
          IF @ \in {"BEGIN_SENT", "UNMAPPED"} THEN "MAPPED" ELSE @]
    /\ outbox' = IF session_state[e] = "UNMAPPED"
                 THEN Append(outbox, begin_frame(e, ch)) ELSE outbox
    /\ UNCHANGED connection_state

\* A BEGIN that answers ours: its remote_channel is our outgoing channel.
begin_received ==
    /\ received("begin")
    /\ LET f == Head(inbox)
       IN  /\ f.remote_channel # None
           /\ \/ \E e \in Live :
                    /\ finds(outgoing_channel, f.remote_channel, e)
                    /\ incoming_channel' = [incoming_channel EXCEPT ![e] = f.channel]
                    /\ IF started[e] THEN session_begin_received(e, f.channel) ELSE crash
              \/ /\ finds_none(outgoing_channel, f.remote_channel)
                 /\ UNCHANGED <<connection_state, incoming_channel, session_state, outbox>>
    /\ UNCHANGED <<endpoints, outgoing_channel, started, linked, remote, used>>

\* A BEGIN of the peer's own: on_new_endpoint takes the new endpoint and starts
\* a session on it, or refuses (or no endpoint can be created).
new_endpoint ==
    /\ received("begin")
    /\ LET f == Head(inbox)
           h == f.for
       IN  /\ f.remote_channel = None
           /\ \/ /\ connection_create_endpoint(h)
                 /\ incoming_channel' = [incoming_channel EXCEPT ![h] = f.channel]
                 /\ started' = [started EXCEPT ![h] = TRUE]
                 /\ session_state' = [session_state EXCEPT ![h] = "MAPPED"]
                 /\ outbox' = Append(outbox,
                        [kind |-> "begin", channel |-> outgoing_channel'[h],
                         remote_channel |-> f.channel, by |-> h])
              \/ UNCHANGED <<table, session_state, outbox>>
    /\ UNCHANGED <<connection_state, linked, remote, used>>

\* A TRANSFER (or another frame of a link): a handle the session does not know
\* ends the session with an error, in every state.
transfer_received ==
    /\ received("transfer")
    /\ \/ \E e \in Live :
             /\ finds(incoming_channel, Head(inbox).channel, e)
             /\ \/ /\ ~started[e]
                   /\ crash
                \/ /\ started[e]
                   /\ linked[e]
                   /\ UNCHANGED <<connection_state, session_state, outbox>>
                \/ /\ started[e]
                   /\ ~linked[e]
                   /\ send_end_frame(e)
                   /\ session_state' = [session_state EXCEPT ![e] = "DISCARDING"]
                   /\ UNCHANGED connection_state
       \/ /\ finds_none(incoming_channel, Head(inbox).channel)
          /\ UNCHANGED <<connection_state, session_state, outbox>>
    /\ UNCHANGED <<table, linked, remote, used>>

\* An END: END_RCVD, our END, DISCARDING, unless the session is there already.
end_received ==
    /\ received("end")
    /\ \/ \E e \in Live :
             /\ finds(incoming_channel, Head(inbox).channel, e)
             /\ \/ /\ ~started[e]
                   /\ crash
                \/ /\ started[e]
                   /\ session_state[e] # "DISCARDING"
                   /\ send_end_frame(e)
                   /\ session_state' = [session_state EXCEPT ![e] = "DISCARDING"]
                   /\ UNCHANGED connection_state
                \/ /\ started[e]
                   /\ session_state[e] = "DISCARDING"
                   /\ UNCHANGED <<connection_state, session_state, outbox>>
       \/ /\ finds_none(incoming_channel, Head(inbox).channel)
          /\ UNCHANGED <<connection_state, session_state, outbox>>
    /\ UNCHANGED <<table, linked, remote, used>>

-----------------------------------------------------------------------------
(* The peer.  It takes the frames of each channel in order, those of different
   channels in any order. *)

peer_free(ch) == peer[ch] = None

peer_sends(kind, ch, remote_channel, h) ==
    inbox' = Append(inbox, [kind |-> kind, channel |-> ch,
                            remote_channel |-> remote_channel, for |-> h])

\* The peer takes the frame at i out of the outbox.
peer_takes(i) ==
    /\ connection_state = "OPENED"
    /\ \A j \in 1 .. i - 1 : outbox[j].channel # outbox[i].channel
    /\ outbox' = [k \in 1 .. Len(outbox) - 1 |->
                     IF k < i THEN outbox[k] ELSE outbox[k + 1]]
    /\ UNCHANGED <<connection_state, table, session_state, linked, used>>

\* It answers a BEGIN on a channel of its choice, or reads the answer to its own.
peer_begin(i) ==
    /\ outbox[i].kind = "begin"
    /\ peer_takes(i)
    /\ \/ /\ outbox[i].remote_channel = None
          /\ \E ch \in PeerChannel :
                /\ peer_free(ch)
                /\ peer' = [peer EXCEPT ![ch] = outbox[i].by]
                /\ peer_sends("begin", ch, outbox[i].channel, outbox[i].by)
                /\ mirrored' = (mirrored /\ ch = outbox[i].channel)
          /\ UNCHANGED <<peer_ended, attached>>
       \/ /\ outbox[i].remote_channel # None
          /\ UNCHANGED <<inbox, remote>>

\* It answers an END unless it has sent one, and forgets the session.
peer_end(i) ==
    /\ outbox[i].kind = "end"
    /\ peer_takes(i)
    /\ \/ \E ch \in PeerChannel :
             /\ peer[ch] = outbox[i].by
             /\ peer' = [peer EXCEPT ![ch] = None]
             /\ IF outbox[i].by \in peer_ended
                THEN UNCHANGED inbox
                ELSE peer_sends("end", ch, None, outbox[i].by)
       \/ /\ \A ch \in PeerChannel : peer[ch] # outbox[i].by
          /\ UNCHANGED <<inbox, peer>>
    /\ UNCHANGED <<peer_ended, mirrored, attached>>

peer_may_send ==
    /\ connection_state = "OPENED"
    /\ Len(inbox) + Len(outbox) < MaxInFlight
    /\ UNCHANGED <<connection_state, table, session_state, linked, outbox>>

\* It begins a session of its own, which h will be the handle of.
peer_begins(ch, h) ==
    /\ peer_may_send
    /\ peer_free(ch)
    /\ h \notin used
    /\ used' = used \cup {h}
    /\ peer' = [peer EXCEPT ![ch] = h]
    /\ peer_sends("begin", ch, None, h)
    /\ mirrored' = FALSE
    /\ UNCHANGED <<peer_ended, attached>>

peer_transfers(ch) ==
    /\ peer_may_send
    /\ peer[ch] \in Handle \ peer_ended
    /\ peer[ch] \in attached
    /\ peer_sends("transfer", ch, None, peer[ch])
    /\ UNCHANGED <<remote, used>>

peer_ends(ch) ==
    /\ peer_may_send
    /\ peer[ch] \in Handle \ peer_ended
    /\ peer_sends("end", ch, None, peer[ch])
    /\ peer_ended' = peer_ended \cup {peer[ch]}
    /\ UNCHANGED <<peer, mirrored, attached, used>>

-----------------------------------------------------------------------------

Application ==
    /\ connection_state # "CRASHED"
    /\ \E h \in Handle :
        \/ session_create(h)
        \/ session_begin(h)
        \/ attach(h)
        \/ session_end(h)
        \/ session_destroy(h)

Connection ==
    \/ connection_opened
    \/ connection_ended
    \/ connection_failed
    \/ connection_discards

Receive ==
    \/ begin_received
    \/ new_endpoint
    \/ transfer_received
    \/ end_received

PeerAnswers == \E i \in 1 .. Len(outbox) : peer_begin(i) \/ peer_end(i)

PeerActs ==
    \E ch \in PeerChannel :
        \/ \E h \in Handle : peer_begins(ch, h)
        \/ peer_transfers(ch)
        \/ peer_ends(ch)

Next == Application \/ Connection \/ Receive \/ PeerAnswers \/ PeerActs

Spec == Init /\ [][Next]_vars

-----------------------------------------------------------------------------
(* Properties *)

\* The table stays sorted by outgoing channel, without duplicates and within
\* channel_max, whatever is created and destroyed: connection_create_endpoint
\* looks for its gap, and the lookups stop at the first match, on the strength
\* of that.
ChannelsSorted ==
    /\ Len(endpoints) <= channel_max
    /\ \A i, j \in 1 .. Len(endpoints) :
          i < j => outgoing_channel[endpoints[i]] < outgoing_channel[endpoints[j]]

\* 01_128 of connection_requirements.md: a new endpoint gets the lowest channel
\* number not in use, also in the gap that a destroyed one has left.
LowestChannel ==
    [][\A h \in Handle :
          h \in Live' \ Live =>
              /\ \A e \in Live : outgoing_channel[e] # outgoing_channel'[h]
              /\ \A c \in 0 .. outgoing_channel'[h] - 1 :
                    \E e \in Live : outgoing_channel[e] = c]_vars

\* With a peer that answers each BEGIN on the channel of the same number, the
\* next frame for a mapped session is routed to it, although an endpoint that
\* has no incoming channel yet claims channel 0.
RoutedToMapped ==
    mirrored /\ inbox # <<>> =>
        LET f == Head(inbox)
        IN  f.kind # "begin" /\ f.for \in Live /\ session_state[f.for] = "MAPPED"
                => finds(incoming_channel, f.channel, f.for)

\* src/devdoc/session_requirements.md, UNMAPPED and BEGIN SENT: an endpoint
\* without an entry in the incoming channel map cannot receive frames.
NoFrameBeforeBegin ==
    connection_state = "OPENED" /\ inbox # <<>> =>
        \A e \in Live :
            Head(inbox).kind # "begin" /\ finds(incoming_channel, Head(inbox).channel, e)
                => session_state[e] \notin {"UNMAPPED", "BEGIN_SENT"}

\* The frames of h in the outbox.
sent_by(h) == SelectSeq(outbox, LAMBDA f : f.by = h)

\* The same document, DISCARDING: after the END "any incoming frames on the
\* session MUST be silently discarded"; nothing is sent for it, least of all a
\* second END.
SilentAfterEnd ==
    [][\A h \in Handle :
          session_state[h] = "DISCARDING" => Len(sent_by(h)') <= Len(sent_by(h))]_vars

=============================================================================

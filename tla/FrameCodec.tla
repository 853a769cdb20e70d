----------------------------- MODULE FrameCodec -----------------------------
(***************************************************************************)
(* src/src/frame_codec.c cuts a stream of bytes into frames, and           *)
(* src/src/amqp_frame_codec.c, its subscriber for frames of type AMQP,     *)
(* cuts the body of a frame into a performative and a payload.             *)
(*                                                                         *)
(* Frames are written to `wire' by the codec of the peer                   *)
(* (frame_codec_encode_frame) or by another implementation (PeerFrames,    *)
(* external).  A call of frame_codec_receive_bytes takes any number of     *)
(* bytes from the wire into `buffer' and then runs its loop, one action    *)
(* per iteration; nothing else runs in between.                            *)
(*                                                                         *)
(* A byte is a number.  What the AMQP decoder (amqpvalue.c) makes of a     *)
(* byte of the body is in the byte: More, Whole, Alien or Bad.             *)
(***************************************************************************)
EXTENDS Naturals, Sequences, FiniteSets, SequencesExt

CONSTANTS
    PeerFrames,   \* frames that other implementations write
    Outgoing,     \* arguments of frame_codec_encode_frame at the peer
    MaxSizes,     \* arguments of frame_codec_set_max_frame_size
    MaxFrames,    \* bound: frames written
    MaxWire       \* bound: bytes on the wire

FRAME_TYPE_AMQP == 0
FRAME_TYPE_SASL == 1
FrameTypes == {FRAME_TYPE_AMQP, FRAME_TYPE_SASL}

FRAME_HEADER_SIZE == 8
MAX_TYPE_SPECIFIC_SIZE == 255 * 4 - 6
INITIAL_MAX_FRAME_SIZE == 512

Byte == 0 .. 255
More == 100       \* the decoder needs more bytes,
Whole == 101      \* ends a described value between AMQP_OPEN and AMQP_CLOSE,
Alien == 102      \* ends a value that is no performative,
Bad == 103        \* fails

\* A frame as its header says and as its type specific bytes and body are.
Frame == [size : Nat, doff : Nat, type : FrameTypes,
          rest : Seq(Byte)]

\* A frame on the wire: its size fits in four bytes and is that of the frame,
\* unless it is too small for any frame.
Written(f) ==
    /\ f.size \div (256 * 256 * 256) \in Byte /\ f.doff \in Byte
    /\ f.size >= FRAME_HEADER_SIZE => Len(f.rest) = f.size - 6

\* A call of a callback of amqp_frame_codec for the frame with the number.
Callback ==
    [kind : {"empty", "NULL", "performative", "error"}, frame : Nat, held : Nat,
     channel : Nat, payload : Seq(Byte)]

ASSUME FrameAssumption ==
    /\ PeerFrames \subseteq Frame
    /\ \A f \in PeerFrames : Written(f)
    /\ Outgoing \subseteq [type : FrameTypes, specific : Seq(Byte), payloads : Seq(Seq(Byte))]
    /\ MaxSizes \subseteq Nat
    /\ MaxFrames \in Nat /\ MaxWire \in Nat

VARIABLES
    receive_frame_state, receive_frame_pos, receive_frame_size,
    receive_frame_doff, receive_frame_type,
    receive_frame_subscription,   \* BOOLEAN: not NULL
    receive_frame_bytes,          \* what was written to the buffer, or NoBytes
    receive_frame_malloc_size,
    subscription_list,            \* the frame types that have a subscription
    max_frame_size,
    decode_state, decoder,        \* amqp_frame_codec: bytes its decoder holds
    wire, buffer, heard,          \* heard: number of bytes taken from the wire
    sent, ends,                   \* the frames written, and where in the stream they end
    indicated,                    \* frames given to on_frame_received
    performatives,                \* what amqp_frame_codec made of AMQP frames
    errors,                       \* calls of on_frame_codec_error
    failed                        \* a call of receive_bytes has failed

codec == <<receive_frame_state, receive_frame_pos, receive_frame_size,
           receive_frame_doff, receive_frame_type, receive_frame_subscription,
           receive_frame_bytes, receive_frame_malloc_size>>
amqp == <<decode_state, decoder, performatives>>
vars == <<codec, subscription_list, max_frame_size, amqp, wire, buffer, heard,
          sent, ends, indicated, errors, failed>>

NoBytes == <<256>>   \* NULL

ReceiveFrameStates ==
    {"FRAME_SIZE", "DOFF", "FRAME_TYPE", "TYPE_SPECIFIC", "FRAME_BODY", "ERROR"}

type_specific_size == receive_frame_doff * 4 - 6

\* The variables hold what the two codecs keep in their instances.
TypeOK ==
    /\ receive_frame_state \in ReceiveFrameStates
    /\ receive_frame_pos \in Nat
    /\ receive_frame_size \in Nat
    /\ receive_frame_doff \in Byte
    /\ receive_frame_type \in Byte
    /\ receive_frame_subscription \in BOOLEAN
    /\ receive_frame_bytes = NoBytes \/ receive_frame_bytes \in Seq(Byte)
    /\ receive_frame_malloc_size \in Nat
    /\ subscription_list \subseteq FrameTypes
    /\ max_frame_size \in MaxSizes \cup {INITIAL_MAX_FRAME_SIZE}
    /\ decode_state \in {"DECODE_FRAME", "DECODE_ERROR"}
    /\ decoder \in Nat
    /\ wire \in Seq(Byte) /\ buffer \in Seq(Byte) /\ heard \in Nat
    /\ sent \in Seq(Frame) /\ ends \in Seq(Nat) /\ indicated \in Seq(Frame)
    /\ performatives \in Seq(Callback)
    /\ errors \in {0, 1} /\ failed \in BOOLEAN

\* frame_codec_create; amqp_frame_codec_create subscribes for AMQP frames.
Init ==
    /\ receive_frame_state = "FRAME_SIZE"
    /\ receive_frame_pos = 0 /\ receive_frame_size = 0
    /\ receive_frame_doff = 0 /\ receive_frame_type = 0
    /\ receive_frame_subscription = FALSE
    /\ receive_frame_bytes = NoBytes /\ receive_frame_malloc_size = 0
    /\ subscription_list = {FRAME_TYPE_AMQP}
    /\ max_frame_size = INITIAL_MAX_FRAME_SIZE
    /\ decode_state = "DECODE_FRAME" /\ decoder = 0
    /\ wire = <<>> /\ buffer = <<>> /\ heard = 0
    /\ sent = <<>> /\ ends = <<>> /\ indicated = <<>> /\ performatives = <<>>
    /\ errors = 0 /\ failed = FALSE

-----------------------------------------------------------------------------
\* The peer.

Zeros(n) == [i \in 1 .. n |-> 0]

\* The weights of the four bytes of a frame size.
weights == <<256 * 256 * 256, 256 * 256, 256, 1>>

frame_header(f) ==
    <<f.size \div (256 * 256 * 256), (f.size \div (256 * 256)) % 256, (f.size \div 256) % 256,
      f.size % 256, f.doff, f.type>>

bytes_of(f) == frame_header(f) \o f.rest

puts(f) ==
    /\ Len(sent) < MaxFrames
    /\ Len(wire) + Len(bytes_of(f)) <= MaxWire
    /\ sent' = Append(sent, f)
    /\ wire' = wire \o bytes_of(f)
    /\ ends' = Append(ends, heard + Len(wire) + Len(bytes_of(f)))
    /\ UNCHANGED <<codec, subscription_list, max_frame_size, amqp, buffer, heard,
                   indicated, errors, failed>>

\* Another implementation writes a frame.
peer_puts(f) == buffer = <<>> /\ puts(f)

\* The type specific bytes are padded to a multiple of four.
doff_of(specific) == (Len(specific) + 6 + 3) \div 4

encoded(args) ==
    LET doff == doff_of(args.specific)
        body == FlattenSeq(args.payloads)
    IN  [size |-> doff * 4 + Len(body), doff |-> doff, type |-> args.type,
         rest |-> args.specific \o Zeros(doff * 4 - Len(args.specific) - 6) \o body]

\* frame_codec_encode_frame gives the whole frame to on_bytes_encoded at once;
\* a payload without bytes and a frame larger than max_frame_size are refused.
frame_codec_encode_frame(args) ==
    /\ buffer = <<>>
    /\ Len(args.specific) <= MAX_TYPE_SPECIFIC_SIZE
    /\ \A i \in DOMAIN args.payloads : args.payloads[i] # <<>>
    /\ encoded(args).size <= INITIAL_MAX_FRAME_SIZE
    /\ puts(encoded(args))

channel_bytes(channel) == <<channel \div 256, channel % 256>>

\* amqp_frame_codec_encode_frame and amqp_frame_codec_encode_empty_frame
amqp_frame_codec_encode_frame(channel, performative, payloads) ==
    [type |-> FRAME_TYPE_AMQP, specific |-> channel_bytes(channel),
     payloads |-> <<performative>> \o payloads]

amqp_frame_codec_encode_empty_frame(channel) ==
    [type |-> FRAME_TYPE_AMQP, specific |-> channel_bytes(channel), payloads |-> <<>>]

-----------------------------------------------------------------------------
\* The user of the codec, between calls of frame_codec_receive_bytes.

Idle == buffer = <<>>

\* frame_codec_set_max_frame_size
frame_codec_set_max_frame_size(size) ==
    /\ Idle
    /\ size >= FRAME_HEADER_SIZE
    /\ size >= receive_frame_size \/ receive_frame_state = "FRAME_SIZE"
    /\ receive_frame_state # "ERROR"
    /\ max_frame_size' = size
    /\ UNCHANGED <<codec, subscription_list, amqp, wire, buffer, heard, sent, ends,
                   indicated, errors, failed>>

\* frame_codec_subscribe: another subscription for the type is overwritten.
frame_codec_subscribe(type) ==
    /\ Idle
    /\ type \notin subscription_list
    /\ subscription_list' = subscription_list \cup {type}
    /\ UNCHANGED <<codec, max_frame_size, amqp, wire, buffer, heard, sent, ends,
                   indicated, errors, failed>>

\* frame_codec_unsubscribe.  The environment calls it between frames only: a
\* frame in progress would keep a pointer to the freed subscription.
frame_codec_unsubscribe(type) ==
    /\ Idle
    /\ type \in subscription_list
    /\ receive_frame_state \in {"FRAME_SIZE", "DOFF", "FRAME_TYPE"}
    /\ subscription_list' = subscription_list \ {type}
    /\ UNCHANGED <<codec, max_frame_size, amqp, wire, buffer, heard, sent, ends,
                   indicated, errors, failed>>

-----------------------------------------------------------------------------
\* amqp_frame_codec.c

\* amqpvalue_decode_bytes, byte by byte, until a value or an error ends it.
decoded_until(body) == SelectInSeq(body, LAMBDA b : b \in {Whole, Alien, Bad})

\* Mutant: decoding goes on after an error.
decodes_anyway(body) == TRUE

\* Nothing is decoded after an error.
decodes(body) == decode_state = "DECODE_FRAME"

\* frame_received, the callback of the subscription for AMQP frames.  A body
\* that ends before its performative does is passed on without performative,
\* and the decoder keeps its bytes.
frame_received(specific, body) ==
    LET end == decoded_until(body)
        entry(kind, payload) ==
            [kind |-> kind, frame |-> Len(indicated) + 1, held |-> decoder,
             channel |-> specific[1] * 256 + specific[2], payload |-> payload]
    IN  CASE ~decodes(body) -> UNCHANGED amqp
          [] decodes(body) /\ body = <<>> ->
               /\ performatives' = Append(performatives, entry("empty", <<>>))
               /\ UNCHANGED <<decode_state, decoder>>
          [] decodes(body) /\ body # <<>> /\ end = 0 ->
               /\ performatives' = Append(performatives, entry("NULL", <<>>))
               /\ decoder' = decoder + Len(body)
               /\ UNCHANGED decode_state
          [] decodes(body) /\ body # <<>> /\ end # 0 ->
               IF body[end] = Whole
               THEN /\ performatives' = Append(performatives,
                            entry("performative", SubSeq(body, end + 1, Len(body))))
                    /\ decoder' = 0
                    /\ UNCHANGED decode_state
               ELSE /\ performatives' = Append(performatives, entry("error", <<>>))
                    /\ decode_state' = "DECODE_ERROR"
                    /\ decoder' = 0

\* The subscriber is called with the frame in the buffer.
on_frame_received(bytes) ==
    LET specific == SubSeq(bytes, 1, type_specific_size)
        body == SubSeq(bytes, type_specific_size + 1, Len(bytes))
    IN  /\ indicated' = Append(indicated,
                [size |-> receive_frame_size, doff |-> receive_frame_doff,
                 type |-> receive_frame_type, rest |-> bytes])
        /\ IF receive_frame_type = FRAME_TYPE_AMQP
           THEN frame_received(specific, body)
           ELSE UNCHANGED amqp

-----------------------------------------------------------------------------
\* frame_codec_receive_bytes

frame_codec_receive_bytes(n) ==
    /\ Idle
    /\ n \in 1 .. Len(wire)
    /\ buffer' = SubSeq(wire, 1, n)
    /\ wire' = SubSeq(wire, n + 1, Len(wire))
    /\ heard' = heard + n
    /\ UNCHANGED <<codec, subscription_list, max_frame_size, amqp, sent, ends, indicated,
                   errors, failed>>

decode_error ==
    /\ receive_frame_state' = "ERROR"
    /\ errors' = errors + 1
    /\ failed' = TRUE

\* The call fails and the rest of its bytes is dropped; the state is left.
drop_rest ==
    /\ buffer' = <<>>
    /\ failed' = TRUE
    /\ UNCHANGED <<codec, subscription_list, max_frame_size, amqp, wire, heard, sent, ends,
                   indicated, errors>>

\* After an error every call fails.
loop_error == receive_frame_state = "ERROR" /\ buffer # <<>> /\ drop_rest

\* One byte of the frame size.
loop_frame_size ==
    /\ receive_frame_state = "FRAME_SIZE" /\ buffer # <<>>
    /\ LET size == receive_frame_size + Head(buffer) * weights[receive_frame_pos + 1]
       IN  /\ receive_frame_size' = size
           /\ IF receive_frame_pos + 1 < 4
              THEN UNCHANGED <<receive_frame_state, errors, failed>>
              ELSE IF size < FRAME_HEADER_SIZE \/ size > max_frame_size
              THEN decode_error
              ELSE receive_frame_state' = "DOFF" /\ UNCHANGED <<errors, failed>>
    /\ receive_frame_pos' = receive_frame_pos + 1
    /\ buffer' = Tail(buffer)
    /\ UNCHANGED <<receive_frame_doff, receive_frame_type, receive_frame_subscription,
                   receive_frame_bytes, receive_frame_malloc_size, subscription_list,
                   max_frame_size, amqp, wire, heard, sent, ends, indicated>>

\* The data offset.
loop_doff ==
    /\ receive_frame_state = "DOFF" /\ buffer # <<>>
    /\ receive_frame_doff' = Head(buffer)
    /\ IF Head(buffer) < 2
       THEN decode_error
       ELSE receive_frame_state' = "FRAME_TYPE" /\ UNCHANGED <<errors, failed>>
    /\ buffer' = Tail(buffer)
    /\ UNCHANGED <<receive_frame_pos, receive_frame_size, receive_frame_type,
                   receive_frame_subscription, receive_frame_bytes,
                   receive_frame_malloc_size, subscription_list, max_frame_size, amqp,
                   wire, heard, sent, ends, indicated>>

\* The frame type has a subscription: memory is allocated for the frame.
loop_type_subscribed ==
    /\ receive_frame_state = "FRAME_TYPE" /\ buffer # <<>>
    /\ Head(buffer) \in subscription_list
    /\ receive_frame_type' = Head(buffer)
    /\ receive_frame_subscription' = TRUE
    /\ receive_frame_pos' = 0
    /\ receive_frame_malloc_size' = receive_frame_size - 6
    /\ \/ /\ receive_frame_bytes' = <<>>
          /\ receive_frame_state' = "TYPE_SPECIFIC"
          /\ UNCHANGED <<errors, failed>>
       \/ receive_frame_bytes' = NoBytes /\ decode_error
    /\ buffer' = Tail(buffer)
    /\ UNCHANGED <<receive_frame_size, receive_frame_doff, subscription_list,
                   max_frame_size, amqp, wire, heard, sent, ends, indicated>>

\* It has none; receive_frame_pos is left at 4.
loop_type_unknown ==
    /\ receive_frame_state = "FRAME_TYPE" /\ buffer # <<>>
    /\ Head(buffer) \notin subscription_list
    /\ receive_frame_type' = Head(buffer)
    /\ receive_frame_subscription' = FALSE
    /\ receive_frame_state' = "TYPE_SPECIFIC"
    /\ buffer' = Tail(buffer)
    /\ UNCHANGED <<receive_frame_pos, receive_frame_size, receive_frame_doff,
                   receive_frame_bytes, receive_frame_malloc_size, subscription_list,
                   max_frame_size, amqp, wire, heard, sent, ends, indicated, errors, failed>>

\* to_copy: the unsigned difference is large when the position is past `total'.
to_copy(total) ==
    IF total >= receive_frame_pos /\ total - receive_frame_pos <= Len(buffer)
    THEN total - receive_frame_pos ELSE Len(buffer)

\* Mutant: the end of the buffer is not looked at.
no_room_unchecked(n) == FALSE

\* There is no memory for the frame, or the bytes do not fit in it.
no_room(n) ==
    \/ receive_frame_bytes = NoBytes
    \/ receive_frame_pos + n > receive_frame_malloc_size

loop_specific_refused ==
    /\ receive_frame_state = "TYPE_SPECIFIC" /\ buffer # <<>>
    /\ receive_frame_subscription
    /\ no_room(to_copy(type_specific_size))
    /\ drop_rest

\* Mutant: the frame size is not reset for the next frame.
frame_complete_stale(bytes) ==
    /\ IF receive_frame_subscription
       THEN on_frame_received(bytes) /\ receive_frame_bytes' = NoBytes
       ELSE UNCHANGED <<indicated, amqp, receive_frame_bytes>>
    /\ receive_frame_state' = "FRAME_SIZE"
    /\ receive_frame_pos' = 0
    /\ UNCHANGED receive_frame_size

\* The end of a frame: the subscriber is called and the memory freed.
frame_complete(bytes) ==
    /\ IF receive_frame_subscription
       THEN on_frame_received(bytes) /\ receive_frame_bytes' = NoBytes
       ELSE UNCHANGED <<indicated, amqp, receive_frame_bytes>>
    /\ receive_frame_state' = "FRAME_SIZE"
    /\ receive_frame_pos' = 0
    /\ receive_frame_size' = 0

\* Type specific bytes; after the last one a frame of 8 bytes is complete.
loop_type_specific ==
    /\ receive_frame_state = "TYPE_SPECIFIC" /\ buffer # <<>>
    /\ receive_frame_subscription => ~no_room(to_copy(type_specific_size))
    /\ LET n == to_copy(type_specific_size)
           bytes == IF receive_frame_subscription
                    THEN receive_frame_bytes \o SubSeq(buffer, 1, n)
                    ELSE receive_frame_bytes
       IN  /\ buffer' = SubSeq(buffer, n + 1, Len(buffer))
           /\ IF receive_frame_pos + n # type_specific_size
              THEN /\ receive_frame_bytes' = bytes
                   /\ receive_frame_pos' = receive_frame_pos + n
                   /\ UNCHANGED <<receive_frame_state, receive_frame_size, indicated, amqp>>
              ELSE IF receive_frame_size = FRAME_HEADER_SIZE
              THEN frame_complete(bytes)
              ELSE /\ receive_frame_bytes' = bytes
                   /\ receive_frame_pos' = 0
                   /\ receive_frame_state' = "FRAME_BODY"
                   /\ UNCHANGED <<receive_frame_size, indicated, amqp>>
    /\ UNCHANGED <<receive_frame_doff, receive_frame_type, receive_frame_subscription,
                   receive_frame_malloc_size, subscription_list, max_frame_size,
                   wire, heard, sent, ends, errors, failed>>

\* Mutant: the extended header is counted as body.
frame_body_size_of_header == receive_frame_size - FRAME_HEADER_SIZE

\* The body begins at the data offset.
frame_body_size == receive_frame_size - receive_frame_doff * 4

\* A frame without subscription has no memory for its body.
loop_body_refused ==
    /\ receive_frame_state = "FRAME_BODY" /\ buffer # <<>>
    /\ receive_frame_bytes = NoBytes
    /\ drop_rest

\* Bytes of the body; after the last one the frame is complete.
loop_frame_body ==
    /\ receive_frame_state = "FRAME_BODY" /\ buffer # <<>>
    /\ receive_frame_bytes # NoBytes
    /\ LET n == to_copy(frame_body_size)
           bytes == receive_frame_bytes \o SubSeq(buffer, 1, n)
       IN  /\ buffer' = SubSeq(buffer, n + 1, Len(buffer))
           /\ IF receive_frame_pos + n = frame_body_size
              THEN frame_complete(bytes)
              ELSE /\ receive_frame_bytes' = bytes
                   /\ receive_frame_pos' = receive_frame_pos + n
                   /\ UNCHANGED <<receive_frame_state, receive_frame_size, indicated, amqp>>
    /\ UNCHANGED <<receive_frame_doff, receive_frame_type, receive_frame_subscription,
                   receive_frame_malloc_size, subscription_list, max_frame_size,
                   wire, heard, sent, ends, errors, failed>>

loop ==
    \/ loop_error
    \/ loop_frame_size \/ loop_doff
    \/ loop_type_subscribed \/ loop_type_unknown
    \/ loop_specific_refused \/ loop_type_specific
    \/ loop_body_refused \/ loop_frame_body

Next ==
    \/ \E f \in PeerFrames : peer_puts(f)
    \/ \E args \in Outgoing : frame_codec_encode_frame(args)
    \/ \E size \in MaxSizes : frame_codec_set_max_frame_size(size)
    \/ \E type \in FrameTypes : frame_codec_subscribe(type) \/ frame_codec_unsubscribe(type)
    \/ \E n \in 1 .. MaxWire : frame_codec_receive_bytes(n)
    \/ loop

Spec == Init /\ [][Next]_vars

-----------------------------------------------------------------------------

\* What memcpy writes stays in the memory allocated for the frame, also when the
\* data offset of the header points past the end of the frame: the body is
\* copied without a check, which only the one for the type specific bytes
\* makes safe (frame_codec.c:334, :409).
WritesInBuffer ==
    receive_frame_bytes # NoBytes =>
        Len(receive_frame_bytes) <= receive_frame_malloc_size

\* A frame of a type without subscription is skipped from position 4 on, and one
\* of eight bytes is complete after its type specific bytes, however many its
\* data offset says there are (frame_codec.c:288, :368).  With an offset of three
\* words that is its end; with more, the codec goes on inside the next frame.
ShortFrames == \A f \in PeerFrames : f.size = FRAME_HEADER_SIZE => f.doff <= 3

\* The subscribers see the frames that were written, whole, unchanged and in
\* their order, however the stream was cut into calls; after a frame that was
\* not indicated (malformed, too large, of a type without subscription) the
\* codec never resumes in the middle of another one.  The exception are the
\* frames that ShortFrames leaves out.
FramesAsSent ==
    \E at \in [DOMAIN indicated -> DOMAIN sent] :
        \A i \in DOMAIN indicated :
            /\ indicated[i] = sent[at[i]]
            /\ \A j \in 1 .. i - 1 : at[j] < at[i]

well_formed(f) ==
    /\ f.size >= FRAME_HEADER_SIZE /\ f.doff >= 2
    /\ f.doff * 4 <= f.size /\ Len(f.rest) = f.size - 6

\* An extended header and nothing behind it.
bodiless(f) == f.doff > 2 /\ f.size = f.doff * 4

\* The codec is in a frame of a type without subscription, which it never leaves.
deaf == receive_frame_state \in {"TYPE_SPECIFIC", "FRAME_BODY"} /\ ~receive_frame_subscription

\* The last byte of the frame has come, behind well-formed frames only, but the
\* frame has not been indicated.
outstanding(k) ==
    /\ ends[k] <= heard
    /\ \A j \in 1 .. k : well_formed(sent[j])
    /\ k > Len(indicated)

\* What SRS_FRAME_CODEC_01_031 says: a complete frame is indicated, here before
\* the call that brought its last byte returns, wherever the stream was cut.  The
\* code refutes it: a frame with an extended header and no body goes on to
\* FRAME_BODY, where zero bytes are left to copy and the loop, out of bytes, does
\* not enter; the first byte of the next frame gets it indicated
\* (frame_codec.c:371, :390).  A codec that has failed, or that is stuck in a frame
\* of a type without subscription, indicates nothing more and is left out.
FramesPrompt ==
    Idle /\ ~failed /\ ~deaf => \A k \in DOMAIN sent : ~outstanding(k)

\* What holds instead: the only complete frame that may be outstanding when a call
\* returns is the one that comes next, has an extended header and no body, and
\* ends the bytes received, so that any byte behind it gets it indicated.  Every
\* other well-formed frame is indicated by the call that brings its last byte,
\* wherever the stream was cut.  Codecs that failed or are deaf are left out.
OnlyBodilessLate ==
    Idle /\ ~failed /\ ~deaf =>
        \A k \in DOMAIN sent :
            outstanding(k) =>
                /\ bodiless(sent[k])
                /\ k = Len(indicated) + 1
                /\ heard = ends[k]

amqp_frames == {k \in DOMAIN indicated : indicated[k].type = FRAME_TYPE_AMQP}

\* amqp_frame_codec makes exactly one callback per AMQP frame, in their order
\* and with the channel of the frame, up to the first it cannot decode, and
\* none after it; a performative comes with all that follows it in the body.
OneCallbackPerFrame ==
    /\ \A i \in DOMAIN performatives :
         LET p == performatives[i]
             f == indicated[p.frame]
         IN  /\ p.frame \in amqp_frames
             /\ Cardinality({k \in amqp_frames : k <= p.frame}) = i
             /\ p.channel = f.rest[1] * 256 + f.rest[2]
             /\ p.kind = "error" => i = Len(performatives)
             /\ p.kind = "performative" =>
                  /\ IsSuffix(p.payload, f.rest)
                  /\ f.rest[Len(f.rest) - Len(p.payload)] = Whole
    /\ decode_state = "DECODE_FRAME" => Len(performatives) = Cardinality(amqp_frames)

\* Every frame with a body is passed on with the performative it holds.
PerformativeDecoded == \A i \in DOMAIN performatives : performatives[i].kind # "NULL"
=============================================================================

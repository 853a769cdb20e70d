---------------------------- MODULE MCFrameCodec ----------------------------
(***************************************************************************)
(* Frames with and without body, extended header and subscription, and     *)
(* malformed ones, cut into calls in every way.                            *)
(***************************************************************************)
EXTENDS FrameCodec

frame(size, doff, type, rest) == [size |-> size, doff |-> doff, type |-> type, rest |-> rest]

\* An extended header and no body, an offset past the end of the frame, a size
\* and an offset that are too small, and a body that ends inside a performative.
SomePeerFrames ==
    {frame(12, 3, FRAME_TYPE_AMQP, <<0, 1, 7, 7, 7, 7>>),
     frame(8, 3, FRAME_TYPE_AMQP, <<0, 1>>),
     frame(7, 2, FRAME_TYPE_AMQP, <<0>>),
     frame(8, 1, FRAME_TYPE_AMQP, <<0, 1>>),
     frame(9, 2, FRAME_TYPE_AMQP, <<0, 1, More>>),
     frame(9, 2, FRAME_TYPE_AMQP, <<0, 1, Alien>>),
     frame(13, 3, FRAME_TYPE_SASL, <<0, 0, 0, 0, 0, 0, Whole>>)}

SomeOutgoing ==
    {amqp_frame_codec_encode_empty_frame(2),
     amqp_frame_codec_encode_frame(258, <<More, Whole>>, <<<<Bad>>>>),
     [type |-> FRAME_TYPE_SASL, specific |-> <<>>, payloads |-> <<>>]}
=============================================================================

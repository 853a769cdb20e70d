---------------------------- MODULE MCAmqpValue -----------------------------
(***************************************************************************)
(* Every type, numbers at the limits of their short forms, compound values *)
(* at the limits of 8-bit sizes and at the limits of the decoder, followed *)
(* by a second value.                                                      *)
(***************************************************************************)
EXTENDS AmqpValue

scalar(t, b) == [t |-> t, b |-> b, items |-> <<>>]
compound(t, items) == [t |-> t, b |-> <<>>, items |-> items]

null == scalar("null", <<>>)
ubyte == scalar("ubyte", <<200>>)
uint_1 == scalar("uint", <<0, 0, 0, 1>>)
string_x == scalar("string", <<120>>)
no_string == scalar("string", <<>>)
no_symbol == scalar("symbol", <<>>)
descriptor == scalar("ulong", repeat(7, 0) \o <<36>>)
binary(n) == scalar("binary", repeat(n, 7))

\* -129, -128, 127, 128 and 0, 255, 256 in 4 and in 8 bytes.
Numbers ==
    {scalar(t, repeat(full_width[t] - 2, b[1]) \o b) :
        t \in Signed, b \in {<<255, 127>>, <<255, 128>>, <<0, 127>>, <<0, 128>>}}
    \cup {scalar(t, repeat(full_width[t] - 2, 0) \o b) :
        t \in {"uint", "ulong"}, b \in {<<0, 0>>, <<0, 255>>, <<1, 0>>}}

Scalars ==
    Numbers \cup
    {null, scalar("bool", <<0>>), scalar("bool", <<1>>), ubyte, scalar("byte", <<255>>),
     scalar("ushort", <<1, 2>>), scalar("short", <<255, 254>>),
     scalar("float", <<1, 2, 3, 4>>), scalar("double", <<1, 2, 3, 4, 5, 6, 7, 8>>),
     scalar("timestamp", <<255, 2, 3, 4, 5, 6, 7, 8>>),
     scalar("uuid", [i \in 1 .. 16 |-> i]), scalar("char", <<0, 0, 0, 65>>),
     binary(2), string_x, scalar("symbol", <<97, 98>>)}

Compounds ==
    {compound("list", <<>>), compound("list", <<no_symbol, uint_1>>),
     compound("list", <<compound("list", <<null>>), string_x>>),
     compound("map", <<>>), compound("map", <<string_x, compound("list", <<>>)>>),
     compound("array", <<binary(0), binary(1)>>),
     compound("array", <<scalar("ushort", <<1, 2>>), scalar("ushort", <<3, 4>>)>>),
     compound("array", <<compound("list", <<ubyte>>), compound("list", <<>>)>>),
     compound("array", <<compound("array", <<string_x>>), compound("array", <<no_string>>)>>),
     compound("described", <<descriptor, compound("list", <<null, uint_1>>)>>),
     compound("described", <<scalar("symbol", <<97>>), no_symbol>>)}

\* Bodies of 254, 255 and more bytes, contents of 255 and 256, values above each limit.
Limits ==
    {compound("list", <<binary(252)>>), compound("list", <<binary(253)>>),
     compound("map", <<null, binary(251)>>), compound("map", <<null, binary(252)>>),
     compound("array", <<binary(249)>>), compound("array", <<binary(250)>>),
     binary(255), binary(256), scalar("string", repeat(260, 120)),
     compound("list", <<null, null, null>>), compound("array", <<string_x, string_x, string_x>>),
     compound("map", <<null, null, ubyte, null, string_x, null>>),
     compound("list", <<compound("list", <<compound("list", <<null>>)>>)>>)}

\* Arrays of which amqpvalue_get_encoded_array_size forgets the constructor.
Short == {compound("array", <<null>>), compound("array", <<ubyte, ubyte>>)}

SomeOwn == Scalars \cup Compounds \cup Limits
SomeValues ==
    <<SomeOwn \cup Short,
      {scalar("int", repeat(3, 255) \o <<128>>), binary(1), string_x,
       compound("list", <<uint_1, null>>), compound("described", <<descriptor, null>>)}>>
=============================================================================

----------------------------- MODULE AmqpValue ------------------------------
(***************************************************************************)
(* The codec of src/src/amqpvalue.c.  A stream of values, encoded by       *)
(* amqpvalue_encode or by another implementation, is handed to one decoder *)
(* in calls of amqpvalue_decode_bytes that cut it anywhere.                *)
(*                                                                         *)
(* A value is a record: its type t, the bytes b of a number (big-endian,   *)
(* in the full width of its type), of a binary, a string or a symbol, and  *)
(* the items of a compound value: keys and values in turn for a map,       *)
(* descriptor and value for a described value.  Composite values are       *)
(* described values here.  Allocations succeed; the limits that stand      *)
(* before them are modelled.  A decoder that has failed is given up, as    *)
(* its users do.                                                           *)
(***************************************************************************)
EXTENDS Naturals, Sequences, SequencesExt, TLC

CONSTANTS
    Values,                     \* Values[i]: what may be sent as i-th value
    Own,                        \* those that this library sends
    Cuts,                       \* sizes of calls, besides all that is there
    MAX_DECODER_DEPTH,
    MAX_AMQPVALUE_ITEM_COUNT,
    MAX_AMQPVALUE_MALLOC_SIZE_BYTES

Byte == 0 .. 255

ASSUME ValuesAssumption ==
    /\ \A i \in DOMAIN Values : \A v \in Values[i] : DOMAIN v = {"t", "b", "items"}
    /\ Cuts \subseteq Nat \ {0}
    /\ MAX_DECODER_DEPTH \in Nat /\ MAX_AMQPVALUE_ITEM_COUNT \in Nat
    /\ MAX_AMQPVALUE_MALLOC_SIZE_BYTES \in Nat

Variable == {"binary", "string", "symbol"}
Compound == {"list", "map", "array"}
Shrinking == {"uint", "ulong", "int", "long"}    \* numbers that have a one-byte form
Signed == {"int", "long"}

\* n in `width' bytes, most significant first.
big_endian(n, width) == [i \in 1 .. width |-> (n \div 256 ^ (width - i)) % 256]

repeat(n, x) == [i \in 1 .. n |-> x]

-----------------------------------------------------------------------------
(* The encoder.                                                            *)

full_width == [uint |-> 4, ulong |-> 8, int |-> 4, long |-> 8]

\* The number of a type in Shrinking that a single byte stands for.
widen(t, x) ==
    repeat(full_width[t] - 1, IF t \in Signed /\ x > 127 THEN 255 ELSE 0) \o <<x>>

\* The constructor without and with use_smallest.
constructor ==
    [null |-> \h40, bool |-> \h56, ubyte |-> \h50, byte |-> \h51, ushort |-> \h60,
     short |-> \h61, uint |-> \h70, int |-> \h71, float |-> \h72, ulong |-> \h80,
     long |-> \h81, double |-> \h82, timestamp |-> \h83, uuid |-> \h98,
     binary |-> \hB0, string |-> \hB1, symbol |-> \hB3,
     list |-> \hD0, map |-> \hD1, array |-> \hF0]
small_constructor ==
    [uint |-> \h52, ulong |-> \h53, int |-> \h54, long |-> \h55,
     binary |-> \hA0, string |-> \hA1, symbol |-> \hA3,
     list |-> \hC0, map |-> \hC1, array |-> \hE0]

\* Types without an encoder: of values and, in addition, of the items of an array.
Unsupported == {"char"}
UnsupportedItems == Unsupported \cup {"described"}

RECURSIVE encodable(_)
encodable(v) ==
    /\ v.t \notin Unsupported
    /\ \A i \in DOMAIN v.items :
        encodable(v.items[i]) /\ (v.t = "array" => v.items[i].t \notin UnsupportedItems)

RECURSIVE amqpvalue_encode(_), amqpvalue_encode_array_item(_, _)

\* The encoded items, one after the other.
encoded_items(v) ==
    FlattenSeq([i \in DOMAIN v.items |->
        IF v.t = "array" THEN amqpvalue_encode_array_item(v.items[i], i = 1)
                         ELSE amqpvalue_encode(v.items[i])])

\* The items of an array are measured without constructor, which is added unless
\* the items are as many as their bytes or more.
amqpvalue_get_encoded_array_size(v) ==
    LET size == Len(FlattenSeq([i \in DOMAIN v.items |->
                        amqpvalue_encode_array_item(v.items[i], FALSE)]))
    IN  size + (IF size > Len(v.items) THEN 1 ELSE 0)

\* The size of the items, as it is computed before they are written.
encoded_size(v) ==
    IF v.t = "array" THEN amqpvalue_get_encoded_array_size(v) ELSE Len(encoded_items(v))

\* Mutant: the byte of the count is forgotten at the limit.
small_compound_255(count, size) == count <= 255 /\ size <= 255

small_compound(count, size) == count <= 255 /\ size < 255

use_smallest(v) ==
    CASE v.t \in Shrinking -> widen(v.t, Last(v.b)) = v.b
      [] v.t \in Variable -> Len(v.b) <= 255
      [] v.t \in Compound -> small_compound(Len(v.items), encoded_size(v))
      [] OTHER -> FALSE

\* What follows the constructor: the encode_T_value functions.
encoded_compound(v, smallest) ==
    LET width == IF smallest THEN 1 ELSE 4
    IN  big_endian(encoded_size(v) + width, width)
            \o big_endian(Len(v.items), width) \o encoded_items(v)

encoded_variable(v, smallest) ==
    big_endian(Len(v.b), IF smallest THEN 1 ELSE 4) \o v.b

encoded_data(v, smallest) ==
    CASE v.t \in Compound -> encoded_compound(v, smallest)
      [] v.t \in Variable -> encoded_variable(v, smallest)
      [] OTHER -> IF smallest THEN <<Last(v.b)>> ELSE v.b

is_zero(v) == \A i \in DOMAIN v.b : v.b[i] = 0

amqpvalue_encode(v) ==
    CASE v.t = "described" -> <<0>> \o encoded_items(v)
      [] v.t = "bool" -> <<IF is_zero(v) THEN \h42 ELSE \h41>>
      [] v.t \in {"uint", "ulong"} /\ is_zero(v) -> <<IF v.t = "uint" THEN \h43 ELSE \h44>>
      [] v.t = "list" /\ v.items = <<>> -> <<\h45>>
      [] OTHER ->
            LET smallest == use_smallest(v)
            IN  <<IF smallest THEN small_constructor[v.t] ELSE constructor[v.t]>>
                    \o encoded_data(v, smallest)

\* In an array every item has the form of the constructor without use_smallest.
amqpvalue_encode_array_item(v, first_element) ==
    (IF first_element THEN <<constructor[v.t]>> ELSE <<>>) \o encoded_data(v, FALSE)

-----------------------------------------------------------------------------
(* The decoder.                                                            *)

\* The types of the constructors that the decoder knows.
fixed_type_of ==
    \h40 :> "null" @@ \h41 :> "bool" @@ \h42 :> "bool" @@ \h43 :> "uint"
    @@ \h44 :> "ulong" @@ \h50 :> "ubyte" @@ \h51 :> "byte" @@ \h52 :> "uint"
    @@ \h53 :> "ulong" @@ \h54 :> "int" @@ \h55 :> "long" @@ \h56 :> "bool"
    @@ \h60 :> "ushort" @@ \h61 :> "short" @@ \h70 :> "uint" @@ \h71 :> "int"
    @@ \h72 :> "float" @@ \h80 :> "ulong" @@ \h81 :> "long" @@ \h82 :> "double"
    @@ \h83 :> "timestamp" @@ \h98 :> "uuid"
sized_type_of ==
    \h45 :> "list" @@ \hA0 :> "binary" @@ \hA1 :> "string" @@ \hA3 :> "symbol"
    @@ \hB0 :> "binary" @@ \hB1 :> "string" @@ \hB3 :> "symbol" @@ \hC0 :> "list"
    @@ \hC1 :> "map" @@ \hD0 :> "list" @@ \hD1 :> "map" @@ \hE0 :> "array"
    @@ \hF0 :> "array"
type_of == \h00 :> "described" @@ fixed_type_of @@ sized_type_of

\* What a constructor without data stands for.
ConstructorOnly == \h40 .. \h45
constructor_value ==
    \h40 :> <<>> @@ \h41 :> <<1>> @@ \h42 :> <<0>>
    @@ \h43 :> repeat(4, 0) @@ \h44 :> repeat(8, 0) @@ \h45 :> <<>>

\* The bytes of the number, or of each of the sizes and counts, behind constructor c.
data_width(c) == <<0, 1, 2, 4, 8, 16, 1, 4, 1, 4, 1, 4>>[c \div 16 - 3]

NoValue == [t |-> "unknown", b |-> <<>>, items |-> <<>>]

\* depth 0 is the decoder of the user, the others are inner decoders.
internal_decoder_create(depth) ==
    [decoder_state |-> "CONSTRUCTOR", constructor_byte |-> 0, step |-> "SIZE",
     bytes_decoded |-> 0,
     length |-> 0,              \* of the contents, or the count of items
     decode_to_value |-> NoValue,
     inner_decoder |-> <<>>,    \* or a sequence of one decoder
     item_constructor |-> 0, depth |-> depth]

too_deep(d) == d.depth + 1 > MAX_DECODER_DEPTH

\* What a piece of the decoder returns: the decoder, the bytes not used, the values
\* passed to the user and whether it failed.
continues(d, rest) == [decoder |-> d, rest |-> rest, decoded |-> <<>>, failed |-> FALSE]
fails(d) == [decoder |-> d, rest |-> <<>>, decoded |-> <<>>, failed |-> TRUE]

\* on_value_decoded is the user's callback or inner_decoder_callback.
on_value_decoded(d, next_state, rest) ==
    IF d.depth = 0
    THEN [continues([d EXCEPT !.decoder_state = next_state], rest)
            EXCEPT !.decoded = <<d.decode_to_value>>]
    ELSE continues([d EXCEPT !.decoder_state = "DONE"], rest)
value_decoded(d, rest) == on_value_decoded(d, "CONSTRUCTOR", rest)

decode_constructor(d, c, rest) ==
    LET e == [d EXCEPT !.decoder_state = "TYPE_DATA", !.constructor_byte = c,
                       !.bytes_decoded = 0, !.length = 0, !.step = "SIZE",
                       !.decode_to_value = [NoValue EXCEPT !.t = type_of[c]]]
    IN  CASE c \notin DOMAIN type_of -> fails(d)
          [] c = \h00 ->
                IF too_deep(d) THEN fails(d)
                ELSE continues([e EXCEPT !.step = "DESCRIPTOR",
                        !.inner_decoder = <<internal_decoder_create(d.depth + 1)>>], rest)
          [] c \in ConstructorOnly ->
                value_decoded([e EXCEPT !.decode_to_value.b = constructor_value[c]], rest)
          [] OTHER -> continues(e, rest)

\* Mutant: what an earlier call has copied is not taken off.
to_copy_whole(d, length, buffer) == IF length > Len(buffer) THEN Len(buffer) ELSE length

\* The next bytes of the contents, up to their end.
to_copy(d, length, buffer) ==
    LET missing == length - Len(d.decode_to_value.b)
    IN  IF missing > Len(buffer) THEN Len(buffer) ELSE missing

copied(d, n, buffer) ==
    [d EXCEPT !.bytes_decoded = @ + n,
              !.decode_to_value.b = @ \o SubSeq(buffer, 1, n)]

decode_fixed(d, buffer) ==
    LET width == data_width(d.constructor_byte)
        n == to_copy(d, width, buffer)
        e == copied(d, n, buffer)
        t == d.decode_to_value.t
        rest == SubSeq(buffer, n + 1, Len(buffer))
    IN  CASE t = "bool" /\ Head(buffer) >= 2 -> fails(d)
          [] e.bytes_decoded # width -> continues(e, rest)
          [] t \in Shrinking /\ width = 1 ->
                value_decoded([e EXCEPT !.decode_to_value.b = widen(t, Head(buffer))], rest)
          [] OTHER -> value_decoded(e, rest)

\* One more byte of a length or a count, the highest first, put at its final place.
counted(d, buffer) ==
    LET place == 256 ^ (data_width(d.constructor_byte) - 1 - d.bytes_decoded)
    IN  [d EXCEPT !.length = @ + Head(buffer) * place, !.bytes_decoded = @ + 1]

\* Of an empty value the user is told without leaving TYPE_DATA.
decode_variable(d, buffer) ==
    LET width == data_width(d.constructor_byte)
    IN  IF d.bytes_decoded < width
        THEN LET e == counted(d, buffer)
             IN  CASE e.bytes_decoded < width -> continues(e, Tail(buffer))
                   [] e.length = 0 -> on_value_decoded(e, "TYPE_DATA", Tail(buffer))
                   [] width = 4 /\ e.length + 1 > MAX_AMQPVALUE_MALLOC_SIZE_BYTES -> fails(e)
                   [] OTHER -> continues(e, Tail(buffer))
        ELSE LET n == to_copy(d, d.length, buffer)
                 e == copied(d, n, buffer)
                 rest == SubSeq(buffer, n + 1, Len(buffer))
             IN  IF e.bytes_decoded = d.length + width THEN value_decoded(e, rest)
                                                       ELSE continues(e, rest)

\* DECODE_x_STEP_SIZE: the size is skipped.
decode_size(d, buffer) ==
    LET e == [d EXCEPT !.bytes_decoded = @ + 1]
    IN  continues(IF e.bytes_decoded = data_width(d.constructor_byte)
                  THEN [e EXCEPT !.step = "COUNT", !.bytes_decoded = 0, !.length = 0]
                  ELSE e,
                  Tail(buffer))

\* Mutant: the limit on items is only looked at with 32-bit counts.
too_many_32(d) == d.bytes_decoded = 4 /\ d.length > MAX_AMQPVALUE_ITEM_COUNT

\* DECODE_x_STEP_COUNT.  The number of items is limited except in a map8.
too_many(d) ==
    IF d.decode_to_value.t = "map"
    THEN d.constructor_byte = \hD1 /\ d.bytes_decoded = 4
            /\ d.length \div 2 > MAX_AMQPVALUE_ITEM_COUNT
    ELSE d.length > MAX_AMQPVALUE_ITEM_COUNT

decode_count(d, buffer) ==
    LET e == counted(d, buffer)
    IN  CASE too_many(e) -> fails(e)
          [] e.bytes_decoded < data_width(d.constructor_byte) -> continues(e, Tail(buffer))
          [] e.length = 0 -> value_decoded(e, Tail(buffer))
          [] OTHER -> continues([e EXCEPT !.step = "ITEMS", !.bytes_decoded = 0,
                                          !.inner_decoder = <<>>], Tail(buffer))

RECURSIVE internal_decoder_decode_bytes(_, _)

inner_done(r) == r.decoder.decoder_state = "DONE"

\* d with the value that its inner decoder has decoded.
item_added(d, r) ==
    [d EXCEPT !.decode_to_value.items = Append(@, r.decoder.decode_to_value),
              !.inner_decoder = <<>>]

decode_described(d, buffer) ==
    LET r == internal_decoder_decode_bytes(d.inner_decoder[1], buffer)
        e == item_added(d, r)
    IN  CASE r.failed -> fails(d)
          [] ~inner_done(r) -> continues([d EXCEPT !.inner_decoder = <<r.decoder>>], r.rest)
          [] d.step = "VALUE" -> value_decoded(e, r.rest)
          [] OTHER -> continues([e EXCEPT !.step = "VALUE",
                        !.inner_decoder = <<internal_decoder_create(d.depth + 1)>>], r.rest)

\* The pairs of a map that has an odd number of items are one item short.
all_items(d) ==
    Len(d.decode_to_value.items) =
        IF d.decode_to_value.t = "map" THEN 2 * (d.length \div 2) ELSE d.length

\* DECODE_LIST_STEP_ITEMS and DECODE_MAP_STEP_PAIRS: an item is begun when no byte of
\* it has been decoded.
no_decoder(d) ==
    IF d.bytes_decoded = 0 THEN too_deep(d) \/ all_items(d) ELSE d.inner_decoder = <<>>

decode_items(d, buffer) ==
    IF no_decoder(d) THEN fails(d)
    ELSE LET inner == IF d.bytes_decoded = 0 THEN internal_decoder_create(d.depth + 1)
                                             ELSE d.inner_decoder[1]
             r == internal_decoder_decode_bytes(inner, buffer)
             e == [item_added(d, r) EXCEPT !.bytes_decoded = 0]
         IN  CASE r.failed -> fails(d)
               [] ~inner_done(r) ->
                    continues([d EXCEPT !.inner_decoder = <<r.decoder>>,
                        !.bytes_decoded = @ + Len(buffer) - Len(r.rest)], r.rest)
               [] all_items(e) -> value_decoded(e, r.rest)
               [] OTHER -> continues(e, r.rest)

\* DECODE_ARRAY_STEP_ITEMS.  The first item brings the constructor, which is handed
\* to the decoder of each further item.  Items without data keep the buffer where it
\* is, and the constructor is not used up.
decode_array_items(d, buffer) ==
    LET first == d.bytes_decoded = 0
        item_constructor == IF first THEN Head(buffer) ELSE d.item_constructor
        inner == IF first THEN internal_decoder_create(d.depth + 1) ELSE d.inner_decoder[1]
        r == internal_decoder_decode_bytes(inner, buffer)
        used == [d EXCEPT !.item_constructor = item_constructor,
                          !.bytes_decoded = @ + Len(buffer) - Len(r.rest)]
        e == item_added(used, r)
        next == internal_decoder_decode_bytes(internal_decoder_create(d.depth + 1),
                                              <<item_constructor>>)
    IN  CASE too_deep(d) \/ r.failed -> fails(d)
          [] ~inner_done(r) -> continues([used EXCEPT !.inner_decoder = <<r.decoder>>], r.rest)
          [] all_items(e) -> value_decoded(e, r.rest)
          [] next.failed -> fails(d)
          [] OTHER -> continues([e EXCEPT !.inner_decoder = <<next.decoder>>],
                        IF item_constructor \in ConstructorOnly THEN buffer ELSE r.rest)

decode_type_data(d, buffer) ==
    LET t == d.decode_to_value.t
    IN  CASE t = "described" -> decode_described(d, buffer)
          [] t \in Variable -> decode_variable(d, buffer)
          [] t \in Compound /\ d.step = "SIZE" -> decode_size(d, buffer)
          [] t \in Compound /\ d.step = "COUNT" -> decode_count(d, buffer)
          [] t \in {"list", "map"} /\ d.step = "ITEMS" -> decode_items(d, buffer)
          [] t = "array" /\ d.step = "ITEMS" -> decode_array_items(d, buffer)
          [] OTHER -> decode_fixed(d, buffer)

\* The loop over the bytes.
internal_decoder_decode_bytes(d, buffer) ==
    IF buffer = <<>> \/ d.decoder_state = "DONE" THEN continues(d, buffer)
    ELSE LET r == IF d.decoder_state = "CONSTRUCTOR"
                  THEN decode_constructor(d, Head(buffer), Tail(buffer))
                  ELSE decode_type_data(d, buffer)
             more == internal_decoder_decode_bytes(r.decoder, r.rest)
         IN  IF r.failed THEN r
             ELSE [more EXCEPT !.decoded = r.decoded \o @]

-----------------------------------------------------------------------------
(* The encodings that ISO/IEC 19464 allows for a value (external).         *)

\* Constructors and widths of the primitive types of fixed width.
iso_fixed ==
    [null |-> {<<\h40, 0>>}, ubyte |-> {<<\h50, 1>>}, byte |-> {<<\h51, 1>>},
     ushort |-> {<<\h60, 2>>}, short |-> {<<\h61, 2>>},
     uint |-> {<<\h43, 0>>, <<\h52, 1>>, <<\h70, 4>>},
     ulong |-> {<<\h44, 0>>, <<\h53, 1>>, <<\h80, 8>>},
     int |-> {<<\h54, 1>>, <<\h71, 4>>}, long |-> {<<\h55, 1>>, <<\h81, 8>>},
     float |-> {<<\h72, 4>>}, double |-> {<<\h82, 8>>}, timestamp |-> {<<\h83, 8>>},
     char |-> {<<\h73, 4>>}, uuid |-> {<<\h98, 16>>}]

\* The last w bytes tell all of v.
iso_carries(v, w) ==
    LET cut == Len(v.b) - w
        negative == v.t \in Signed /\ w > 0 /\ v.b[cut + 1] >= 128
    IN  cut >= 0 /\ \A i \in 1 .. cut : v.b[i] = IF negative THEN 255 ELSE 0

\* The form with 8-bit sizes where they fit, and the form with 32-bit sizes.  `count'
\* is the sequence of the number of items, empty for a variable width type.
iso_sized(code8, code32, count, body) ==
    {<<code32>> \o big_endian(Len(body) + 4 * Len(count), 4)
        \o FlattenSeq([i \in DOMAIN count |-> big_endian(count[i], 4)]) \o body}
    \cup (IF Len(body) + Len(count) <= 255 /\ (count = <<>> \/ Last(count) <= 255)
          THEN {<<code8, Len(body) + Len(count)>> \o count \o body} ELSE {})

RECURSIVE iso(_), iso_items(_), iso_array_data(_, _)

\* The encodings of a sequence of values.
iso_items(items) ==
    IF items = <<>> THEN {<<>>}
    ELSE {x \o y : x \in iso(Head(items)), y \in iso_items(Tail(items))}

\* The data of items that share the constructor c.
iso_array_data(c, items) ==
    IF items = <<>> THEN {<<>>}
    ELSE {Tail(x) \o y : x \in {e \in iso(Head(items)) : Head(e) = c},
                         y \in iso_array_data(c, Tail(items))}

iso_array(items) ==
    UNION {{<<c>> \o data : data \in iso_array_data(c, items)} :
                c \in {Head(e) : e \in iso(items[1])}}

iso(v) ==
    CASE v.t = "described" -> {<<0>> \o e : e \in iso_items(v.items)}
      [] v.t = "bool" -> {<<\h56>> \o v.b, IF v.b = <<1>> THEN <<\h41>> ELSE <<\h42>>}
      [] v.t = "binary" -> iso_sized(\hA0, \hB0, <<>>, v.b)
      [] v.t = "string" -> iso_sized(\hA1, \hB1, <<>>, v.b)
      [] v.t = "symbol" -> iso_sized(\hA3, \hB3, <<>>, v.b)
      [] v.t = "list" ->
            UNION {iso_sized(\hC0, \hD0, <<Len(v.items)>>, body) : body \in iso_items(v.items)}
                \cup (IF v.items = <<>> THEN {<<\h45>>} ELSE {})
      [] v.t = "map" ->
            UNION {iso_sized(\hC1, \hD1, <<Len(v.items)>>, body) : body \in iso_items(v.items)}
      [] v.t = "array" ->
            UNION {iso_sized(\hE0, \hF0, <<Len(v.items)>>, body) : body \in iso_array(v.items)}
      [] OTHER ->
            {<<f[1]>> \o SubSeq(v.b, Len(v.b) - f[2] + 1, Len(v.b)) :
                f \in {g \in iso_fixed[v.t] : iso_carries(v, g[2])}}

-----------------------------------------------------------------------------
(* Streams of values.                                                      *)

VARIABLES
    sent,       \* the values that were sent, with their bytes
    wire,       \* bytes that were not handed to the decoder yet
    handed,     \* number of bytes that were
    decoder,
    decoded,    \* the values that were passed to on_value_decoded
    failed      \* amqpvalue_decode_bytes has failed

vars == <<sent, wire, handed, decoder, decoded, failed>>

Init ==
    /\ sent = <<>> /\ wire = <<>> /\ handed = 0
    /\ decoder = internal_decoder_create(0) /\ decoded = <<>> /\ failed = FALSE

send(v, bytes) ==
    /\ sent' = Append(sent, [value |-> v, bytes |-> bytes])
    /\ wire' = wire \o bytes
    /\ UNCHANGED <<handed, decoder, decoded, failed>>

\* The stream is written before it is cut: the decoder does not see when.
sendable == IF handed = 0 /\ Len(sent) < Len(Values) THEN Values[Len(sent) + 1] ELSE {}

\* Another implementation (external).
peer_sends(v, bytes) == send(v, bytes)

library_sends(v) ==
    /\ v \in Own /\ encodable(v)
    /\ send(v, amqpvalue_encode(v))

amqpvalue_decode_bytes(n) ==
    /\ ~failed
    /\ n \in 1 .. Len(wire)
    /\ LET r == internal_decoder_decode_bytes(decoder, SubSeq(wire, 1, n))
       IN  /\ decoder' = r.decoder
           /\ decoded' = decoded \o r.decoded
           /\ failed' = r.failed
    /\ wire' = SubSeq(wire, n + 1, Len(wire))
    /\ handed' = handed + n
    /\ UNCHANGED sent

Next ==
    \/ \E v \in sendable :
        \/ \E bytes \in iso(v) : peer_sends(v, bytes)
        \/ library_sends(v)
    \/ \E n \in Cuts \cup {Len(wire)} : amqpvalue_decode_bytes(n)

Spec == Init /\ [][Next]_vars

-----------------------------------------------------------------------------
(* What the codec promises.                                                *)

\* Where the i-th value ends in the stream.
ends(i) == Len(FlattenSeq([j \in 1 .. i |-> sent[j].bytes]))

\* The values whose last byte was handed to the decoder.
arrived == [i \in 1 .. Len(SelectSeq([j \in DOMAIN sent |-> ends(j)], LAMBDA e : e <= handed)) |->
                sent[i].value]

\* However the stream is cut, whichever of its encodings a value has and whatever came
\* before it: the decoder passes on each value as it was sent, once, and with its last
\* byte (the resumable states of internal_decoder_decode_bytes).
DecodedAsSent ==
    IF failed THEN IsStrictPrefix(decoded, [i \in DOMAIN sent |-> sent[i].value])
              ELSE decoded = arrived

RECURSIVE nesting(_)
nesting(v) ==
    IF v.items = <<>> THEN 0 ELSE 1 + Max({nesting(v.items[i]) : i \in DOMAIN v.items})

RECURSIVE parts(_)
\* v and all values in it.
parts(v) == {v} \cup UNION {parts(v.items[i]) : i \in DOMAIN v.items}

\* Values above the limits that every encoding meets, and above any limit.
refusable(v) ==
    \/ nesting(v) > MAX_DECODER_DEPTH
    \/ \E x \in parts(v) :
        \/ x.t \in {"list", "array"} /\ Len(x.items) > MAX_AMQPVALUE_ITEM_COUNT
        \/ x.t = "char"
maybe_refusable(v) ==
    \/ refusable(v)
    \/ \E x \in parts(v) :
        \/ x.t = "map" /\ Len(x.items) > 2 * MAX_AMQPVALUE_ITEM_COUNT
        \/ x.t \in Variable /\ Len(x.b) >= MAX_AMQPVALUE_MALLOC_SIZE_BYTES

\* The decoder fails only in a value that is above a limit of its own, and no value
\* that is nested too deep or has too many items gets through in any encoding or cut
\* (the limits of internal_decoder_decode_bytes are spread over its branches).
LimitsEnforced ==
    /\ failed => maybe_refusable(sent[Len(decoded) + 1].value)
    /\ \A i \in DOMAIN decoded : ~refusable(decoded[i])

\* What is sent is an encoding of the value: amqpvalue_encode chooses forms by size at
\* the limits of one byte and writes sizes that it computes ahead of the items.
EncodedPerIso ==
    [][sent' # sent => Last(sent').bytes \in iso(Last(sent').value)]_vars
=============================================================================

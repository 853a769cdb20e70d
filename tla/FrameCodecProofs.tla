-------------------------- MODULE FrameCodecProofs --------------------------
(***************************************************************************)
(* Proofs about frame_codec.c and amqp_frame_codec.c, for frames of any    *)
(* size, offset and contents, any number of them and any way to cut the    *)
(* stream into calls.                                                      *)
(*                                                                         *)
(* `Shape' relates the position in a frame to the memory for it, `Calls'   *)
(* the callbacks to the frames, and `Stream' the position of the decoder   *)
(* to the frames that were written.                                        *)
(***************************************************************************)
EXTENDS FrameCodec, FiniteSetTheorems, SequenceTheorems, WellFoundedInduction, TLAPS

-----------------------------------------------------------------------------
(* Sequences of bytes *)

LEMMA ByteNat == Byte \subseteq Nat
BY DEF Byte

LEMMA Cut ==
    ASSUME NEW s \in Seq(Byte), NEW n \in 0 .. Len(s)
    PROVE  /\ SubSeq(s, 1, n) \in Seq(Byte) /\ Len(SubSeq(s, 1, n)) = n
           /\ \A i \in 1 .. n : SubSeq(s, 1, n)[i] = s[i]
           /\ SubSeq(s, n + 1, Len(s)) \in Seq(Byte) /\ Len(SubSeq(s, n + 1, Len(s))) = Len(s) - n
           /\ \A i \in 1 .. Len(s) - n : SubSeq(s, n + 1, Len(s))[i] = s[n + i]
<1>1. Len(s) \in Nat
    OBVIOUS
<1>2. n \in Nat /\ n <= Len(s)
    BY <1>1
<1>3. \A i \in 1 .. n : s[i] \in Byte
    BY <1>1, <1>2
<1>4. \A i \in n + 1 .. Len(s) : s[i] \in Byte
    BY <1>1, <1>2
<1>5. SubSeq(s, 1, n) \in Seq(Byte) /\ Len(SubSeq(s, 1, n)) = n
    BY <1>1, <1>2, <1>3
<1>6. \A i \in 1 .. n : SubSeq(s, 1, n)[i] = s[i]
    BY <1>1, <1>2
<1>7. SubSeq(s, n + 1, Len(s)) \in Seq(Byte) /\ Len(SubSeq(s, n + 1, Len(s))) = Len(s) - n
    BY <1>1, <1>2, <1>4
<1>8. \A i \in 1 .. Len(s) - n : SubSeq(s, n + 1, Len(s))[i] = s[n + i]
    BY <1>1, <1>2
<1> QED BY <1>5, <1>6, <1>7, <1>8

LEMMA Cat ==
    ASSUME NEW s \in Seq(Byte), NEW t \in Seq(Byte)
    PROVE  /\ s \o t \in Seq(Byte) /\ Len(s \o t) = Len(s) + Len(t)
           /\ \A i \in 1 .. Len(s) : (s \o t)[i] = s[i]
           /\ \A i \in 1 .. Len(t) : (s \o t)[Len(s) + i] = t[i]
OBVIOUS

LEMMA HeadTail ==
    ASSUME NEW s \in Seq(Byte), s # <<>>
    PROVE  /\ Head(s) = s[1] /\ s[1] \in Byte /\ Len(s) \in Nat \ {0}
           /\ Tail(s) \in Seq(Byte) /\ Len(Tail(s)) = Len(s) - 1
           /\ \A i \in 1 .. Len(s) - 1 : Tail(s)[i] = s[i + 1]
OBVIOUS

\* A set of natural numbers has a least element.
LEMMA LeastNat ==
    ASSUME NEW S \in SUBSET Nat, S # {}
    PROVE  \E x \in S : \A y \in S : x <= y
<1> DEFINE R == OpToRel(<, Nat)
<1>1. \A x, y \in Nat : <<y, x>> \in R <=> y < x
    BY DEF OpToRel
<1>2. IsWellFoundedOn(R, Nat)
    BY NatLessThanWellFounded
<1> HIDE DEF R
<1>3. PICK x \in S : \A y \in S : ~(<<y, x>> \in R)
    BY <1>2, WFMin
<1>4. ASSUME NEW y \in S PROVE x <= y
    <2>1. x \in Nat /\ y \in Nat
        OBVIOUS
    <2>2. ~(y < x)
        BY <1>1, <1>3, <2>1
    <2> QED BY <2>1, <2>2
<1> QED BY <1>4

\* Induction over the numbers, for a set instead of a predicate.
LEMMA Inductive ==
    ASSUME NEW S, 0 \in S, \A n \in Nat : n \in S => n + 1 \in S
    PROVE  Nat \subseteq S
<1>1. SUFFICES ASSUME Nat \ S # {} PROVE FALSE
    OBVIOUS
<1>2. PICK n \in Nat \ S : \A y \in Nat \ S : n <= y
    <2>1. Nat \ S \in SUBSET Nat
        OBVIOUS
    <2> QED BY <1>1, <2>1, LeastNat
<1>3. n \in Nat /\ n # 0 /\ n \notin S
    BY <1>2
<1>4. n - 1 \in Nat /\ ~(n <= n - 1) /\ (n - 1) + 1 = n
    BY <1>3
<1>5. n - 1 \in S
    BY <1>2, <1>4
<1> QED BY <1>3, <1>4, <1>5

\* The sequences put together so far.
Joins(s, f, n) ==
    \A i \in 1 .. n : f[i] = IF i = 1 THEN s[1] ELSE f[i - 1] \o s[i]

LEMMA JoinsExist ==
    ASSUME NEW X, NEW s \in Seq(Seq(X))
    PROVE  \A n \in Nat : n <= Len(s) => \E f \in Seq(Seq(X)) : Len(f) = n /\ Joins(s, f, n)
<1> DEFINE S == {n \in Nat : n <= Len(s) => \E f \in Seq(Seq(X)) : Len(f) = n /\ Joins(s, f, n)}
<1>1. 0 \in S
    <2>1. <<>> \in Seq(Seq(X)) /\ Len(<<>>) = 0 /\ Joins(s, <<>>, 0)
        BY DEF Joins
    <2> QED BY <2>1
<1>2. ASSUME NEW n \in Nat, n \in S, n + 1 <= Len(s)
      PROVE  \E f \in Seq(Seq(X)) : Len(f) = n + 1 /\ Joins(s, f, n + 1)
    <2>1. Len(s) \in Nat
        OBVIOUS
    <2>2. n <= Len(s) /\ n + 1 \in 1 .. Len(s)
        BY <1>2, <2>1
    <2>3. PICK f \in Seq(Seq(X)) : Len(f) = n /\ Joins(s, f, n)
        BY <1>2, <2>2
    <2> DEFINE e == IF n + 1 = 1 THEN s[1] ELSE f[n] \o s[n + 1]
               g == Append(f, e)
    <2>4. e \in Seq(X)
        <3>1. CASE n = 0
            BY <2>2, <3>1
        <3>2. CASE n # 0
            <4>1. n \in 1 .. Len(f) /\ n + 1 # 1
                BY <2>3, <3>2
            <4>2. f[n] \in Seq(X) /\ s[n + 1] \in Seq(X)
                BY <2>2, <4>1
            <4> QED BY <4>1, <4>2
        <3> QED BY <3>1, <3>2
    <2> HIDE DEF e
    <2>5. g \in Seq(Seq(X)) /\ Len(g) = n + 1 /\ g[n + 1] = e /\ \A i \in 1 .. n : g[i] = f[i]
        BY <2>3, <2>4
    <2> HIDE DEF g
    <2>6. ASSUME NEW i \in 1 .. n + 1 PROVE g[i] = IF i = 1 THEN s[1] ELSE g[i - 1] \o s[i]
        <3>1. CASE i = n + 1
            <4>1. i - 1 = n
                BY <3>1
            <4>2. n # 0 => g[i - 1] = f[n]
                <5>1. n # 0 => n \in 1 .. n
                    OBVIOUS
                <5> QED BY <2>5, <4>1, <5>1
            <4>3. n = 0 <=> i = 1
                BY <3>1
            <4> QED BY <2>5, <3>1, <4>1, <4>2, <4>3 DEF e
        <3>2. CASE i # n + 1
            <4>1. i \in 1 .. n /\ (i # 1 => i - 1 \in 1 .. n)
                BY <3>2
            <4>2. f[i] = IF i = 1 THEN s[1] ELSE f[i - 1] \o s[i]
                BY <2>3, <4>1 DEF Joins
            <4> QED BY <2>5, <4>1, <4>2
        <3> QED BY <3>1, <3>2
    <2>7. Joins(s, g, n + 1)
        BY <2>6 DEF Joins
    <2> QED BY <2>5, <2>7
<1>3. ASSUME NEW n \in Nat, n \in S PROVE n + 1 \in S
    <2>1. n + 1 \in Nat
        OBVIOUS
    <2>2. n + 1 <= Len(s) => \E f \in Seq(Seq(X)) : Len(f) = n + 1 /\ Joins(s, f, n + 1)
        BY <1>2, <1>3
    <2> QED BY <2>1, <2>2
<1> HIDE DEF S
<1>4. Nat \subseteq S
    BY <1>1, <1>3, Inductive
<1> QED BY <1>4 DEF S

\* What FlattenSeq puts together.
Flat(s) == CHOOSE f : f = [i \in 1 .. Len(s) |-> IF i = 1 THEN s[i] ELSE f[i - 1] \o s[i]]

LEMMA FlatIs ==
    ASSUME NEW X, NEW s \in Seq(Seq(X))
    PROVE  /\ Joins(s, Flat(s), Len(s)) /\ DOMAIN Flat(s) = 1 .. Len(s)
<1> DEFINE N == Len(s)
           Is(f) == f = [i \in 1 .. N |-> IF i = 1 THEN s[i] ELSE f[i - 1] \o s[i]]
<1>1. PICK f \in Seq(Seq(X)) : Len(f) = N /\ Joins(s, f, N)
    BY JoinsExist
<1>2. \A i \in 1 .. N : f[i] = IF i = 1 THEN s[i] ELSE f[i - 1] \o s[i]
    BY <1>1 DEF Joins
<1>3. f \in [1 .. N -> Seq(X)]
    BY <1>1
<1>4. Is(f)
    BY <1>2, <1>3
<1>5. Is(CHOOSE g : Is(g))
    <2> HIDE DEF Is
    <2> QED BY <1>4
<1>6. Is(Flat(s))
    BY <1>5 DEF Flat
<1> QED BY <1>6 DEF Joins

\* FlattenSeq yields a sequence of the elements.
LEMMA FlattenType ==
    ASSUME NEW X, NEW s \in Seq(Seq(X))
    PROVE  FlattenSeq(s) \in Seq(X)
<1> DEFINE N == Len(s)
           F == Flat(s)
           S == {n \in Nat : n + 1 <= N => F[n + 1] \in Seq(X)}
<1>1. N \in Nat
    OBVIOUS
<1>2. Joins(s, F, N)
    BY FlatIs
<1> HIDE DEF F
<1>3. CASE N = 0
    <2>1. FlattenSeq(s) = <<>>
        BY <1>3 DEF FlattenSeq
    <2> QED BY <2>1
<1>4. CASE N # 0
    <2>1. 0 \in S
        <3>1. 1 \in 1 .. N
            BY <1>1, <1>4
        <3>2. F[1] = s[1] /\ s[1] \in Seq(X)
            BY <1>2, <3>1 DEF Joins
        <3> QED BY <3>2
    <2>2. ASSUME NEW n \in Nat, n \in S, (n + 1) + 1 <= N PROVE F[(n + 1) + 1] \in Seq(X)
        <3>1. n + 1 <= N /\ (n + 1) + 1 \in 1 .. N /\ (n + 1) + 1 # 1 /\ ((n + 1) + 1) - 1 = n + 1
            BY <1>1, <2>2
        <3>2. F[(n + 1) + 1] = F[n + 1] \o s[(n + 1) + 1]
            BY <1>2, <3>1 DEF Joins
        <3>3. F[n + 1] \in Seq(X) /\ s[(n + 1) + 1] \in Seq(X)
            BY <2>2, <3>1
        <3> QED BY <3>2, <3>3
    <2>3. ASSUME NEW n \in Nat, n \in S PROVE n + 1 \in S
        <3>1. n + 1 \in Nat
            OBVIOUS
        <3>2. (n + 1) + 1 <= N => F[(n + 1) + 1] \in Seq(X)
            BY <2>2, <2>3
        <3> QED BY <3>1, <3>2
    <2> HIDE DEF S
    <2>4. Nat \subseteq S
        BY <2>1, <2>3, Inductive
    <2>5. N - 1 \in Nat /\ (N - 1) + 1 = N /\ N <= N
        BY <1>1, <1>4
    <2>6. F[N] \in Seq(X)
        BY <2>4, <2>5 DEF S
    <2>7. FlattenSeq(s) = F[N]
        BY <1>4 DEF FlattenSeq, Flat, F
    <2> QED BY <2>6, <2>7
<1> QED BY <1>3, <1>4

\* The decoder stops at a byte of the body or not at all.
LEMMA DecodedUntil ==
    ASSUME NEW body \in Seq(Byte)
    PROVE  decoded_until(body) \in 0 .. Len(body)
<1> DEFINE I == {i \in 1 .. Len(body) : body[i] \in {Whole, Alien, Bad}}
<1>1. decoded_until(body) = IF I # {} THEN Min(I) ELSE 0
    BY DEF decoded_until, SelectInSeq
<1>2. I \in SUBSET Nat /\ Len(body) \in Nat
    OBVIOUS
<1>3. ASSUME I # {} PROVE Min(I) \in I
    <2>1. \E x \in I : \A y \in I : x <= y
        BY <1>2, <1>3, LeastNat
    <2> QED BY <2>1 DEF Min
<1>4. I \subseteq 0 .. Len(body)
    BY <1>2
<1> QED BY <1>1, <1>2, <1>3, <1>4

-----------------------------------------------------------------------------
(* The frames that are written *)

LEMMA Assumptions ==
    /\ PeerFrames \subseteq Frame /\ MaxSizes \subseteq Nat /\ MaxFrames \in Nat /\ MaxWire \in Nat
    /\ \A f \in PeerFrames : Written(f)
    /\ Outgoing \subseteq [type : FrameTypes, specific : Seq(Byte), payloads : Seq(Seq(Byte))]
BY FrameAssumption DEF FrameAssumption

\* The bytes of a frame size.
LEMMA SizeBytes ==
    ASSUME NEW n \in Nat
    PROVE  /\ (n \div (256 * 256)) % 256 \in Byte /\ (n \div 256) % 256 \in Byte
           /\ n % 256 \in Byte
           /\ n <= 512 => n \div (256 * 256 * 256) \in Byte
           /\ n = (n \div (256 * 256 * 256)) * (256 * 256 * 256)
                    + ((n \div (256 * 256)) % 256) * (256 * 256)
                    + ((n \div 256) % 256) * 256 + (n % 256)
<1>1. /\ (n \div (256 * 256)) % 256 \in 0 .. 255 /\ (n \div 256) % 256 \in 0 .. 255
      /\ n % 256 \in 0 .. 255
    OBVIOUS
<1>2. n <= 512 => n \div (256 * 256 * 256) \in 0 .. 255
    OBVIOUS
<1>3. n = (n \div (256 * 256 * 256)) * (256 * 256 * 256)
            + ((n \div (256 * 256)) % 256) * (256 * 256)
            + ((n \div 256) % 256) * 256 + (n % 256)
    OBVIOUS
<1> QED BY <1>1, <1>2, <1>3, ZenonT(60) DEF Byte

\* The bytes of a frame: six of its header, and the rest.
LEMMA BytesOf ==
    ASSUME NEW f \in Frame, Written(f)
    PROVE  /\ bytes_of(f) \in Seq(Byte) /\ Len(bytes_of(f)) = Len(f.rest) + 6
           /\ bytes_of(f)[1] = f.size \div (256 * 256 * 256)
           /\ bytes_of(f)[2] = (f.size \div (256 * 256)) % 256
           /\ bytes_of(f)[3] = (f.size \div 256) % 256
           /\ bytes_of(f)[4] = f.size % 256
           /\ bytes_of(f)[5] = f.doff /\ bytes_of(f)[6] = f.type
           /\ \A i \in 1 .. Len(f.rest) : bytes_of(f)[6 + i] = f.rest[i]
<1> DEFINE h == frame_header(f)
<1>1. f.size \in Nat /\ f.rest \in Seq(Byte) /\ f.doff \in Byte /\ f.type \in Byte
    BY DEF Frame, Written, FrameTypes, FRAME_TYPE_AMQP, FRAME_TYPE_SASL, Byte
<1>2. /\ f.size \div (256 * 256 * 256) \in Byte /\ (f.size \div (256 * 256)) % 256 \in Byte
      /\ (f.size \div 256) % 256 \in Byte /\ f.size % 256 \in Byte
    BY <1>1, SizeBytes, SMTT(40) DEF Written
<1>3. h \in Seq(Byte) /\ Len(h) = 6
    BY <1>1, <1>2 DEF frame_header
<1>4. /\ h[1] = f.size \div (256 * 256 * 256) /\ h[2] = (f.size \div (256 * 256)) % 256
      /\ h[3] = (f.size \div 256) % 256 /\ h[4] = f.size % 256
      /\ h[5] = f.doff /\ h[6] = f.type
    BY DEF frame_header
<1> HIDE DEF h
<1> DEFINE t == f.rest
           b == h \o t
<1>5. t \in Seq(Byte) /\ Len(t) \in Nat
    BY <1>1
<1>6. bytes_of(f) = b
    BY DEF bytes_of, h
<1> HIDE DEF t
<1>7. /\ b \in Seq(Byte) /\ Len(b) = Len(h) + Len(t)
      /\ \A i \in 1 .. Len(h) : b[i] = h[i]
      /\ \A i \in 1 .. Len(t) : b[Len(h) + i] = t[i]
    BY <1>3, <1>5, Cat
<1> HIDE DEF b
<1>8. /\ Len(b) = Len(t) + 6 /\ \A i \in 1 .. 6 : b[i] = h[i]
      /\ \A i \in 1 .. Len(t) : b[6 + i] = t[i]
    BY <1>3, <1>5, <1>7
<1>9. b[1] = h[1] /\ b[2] = h[2] /\ b[3] = h[3] /\ b[4] = h[4] /\ b[5] = h[5] /\ b[6] = h[6]
    BY <1>8
<1> QED BY <1>4, <1>6, <1>7, <1>8, <1>9 DEF t

LEMMA DoffOf ==
    ASSUME NEW n \in Nat, n <= 1014
    PROVE  /\ (n + 6 + 3) \div 4 \in 2 .. 255
           /\ ((n + 6 + 3) \div 4) * 4 - n - 6 \in Nat
OBVIOUS

LEMMA ZerosType ==
    ASSUME NEW n \in Nat
    PROVE  Zeros(n) \in Seq(Byte) /\ Len(Zeros(n)) = n
BY DEF Zeros, Byte

\* frame_codec_encode_frame writes frames, and of the size that they say.
LEMMA EncodedWritten ==
    ASSUME NEW args \in Outgoing, frame_codec_encode_frame(args)
    PROVE  /\ encoded(args) \in Frame /\ Written(encoded(args)) /\ encoded(args).doff \in 2 .. 255
           /\ encoded(args).doff * 4 <= encoded(args).size
<1> DEFINE s == args.specific
           doff == doff_of(s)
           body == FlattenSeq(args.payloads)
           z == Zeros(doff * 4 - Len(s) - 6)
           f == encoded(args)
<1>1. s \in Seq(Byte) /\ body \in Seq(Byte) /\ args.type \in FrameTypes
    <2>1. s \in Seq(Byte) /\ args.payloads \in Seq(Seq(Byte)) /\ args.type \in FrameTypes
        BY Assumptions
    <2> QED BY <2>1, FlattenType
<1>2. Len(s) \in Nat /\ Len(s) <= 1014 /\ Len(body) \in Nat
    BY <1>1 DEF frame_codec_encode_frame, MAX_TYPE_SPECIFIC_SIZE
<1>3. doff \in 2 .. 255 /\ doff * 4 - Len(s) - 6 \in Nat
    BY <1>2, DoffOf, ZenonT(60) DEF doff_of
<1>4. f = [size |-> doff * 4 + Len(body), doff |-> doff, type |-> args.type, rest |-> s \o z \o body]
    BY DEF encoded
<1> HIDE DEF doff, body
<1>5. z \in Seq(Byte) /\ Len(z) = doff * 4 - Len(s) - 6
    BY <1>3, ZerosType
<1> HIDE DEF z
<1>6. s \o z \in Seq(Byte) /\ Len(s \o z) = doff * 4 - 6
    <2>1. s \o z \in Seq(Byte) /\ Len(s \o z) = Len(s) + Len(z)
        BY <1>1, <1>5, Cat
    <2>2. Len(s) + (doff * 4 - Len(s) - 6) = doff * 4 - 6
        BY <1>2, <1>3
    <2> QED BY <1>5, <2>1, <2>2
<1>7. s \o z \o body \in Seq(Byte) /\ Len(s \o z \o body) = doff * 4 - 6 + Len(body)
    BY <1>1, <1>6, Cat
<1>8. doff * 4 + Len(body) \in Nat
    BY <1>2, <1>3
<1>9. f \in Frame
    BY <1>1, <1>3, <1>4, <1>7, <1>8 DEF Frame
<1>10. f.size <= 512
    BY DEF frame_codec_encode_frame, INITIAL_MAX_FRAME_SIZE
<1>11. f.size \div (256 * 256 * 256) \in Byte
    BY <1>4, <1>8, <1>10, SizeBytes
<1>12. Len(f.rest) = f.size - 6 /\ f.doff \in Byte /\ f.doff \in 2 .. 255
    BY <1>2, <1>3, <1>4, <1>7 DEF Byte
<1>13. f.doff * 4 <= f.size
    BY <1>2, <1>3, <1>4
<1> QED BY <1>9, <1>11, <1>12, <1>13 DEF Written

-----------------------------------------------------------------------------
(* The position in a frame and the memory for it *)

InFrame == receive_frame_state \in {"TYPE_SPECIFIC", "FRAME_BODY"}

Position ==
    /\ receive_frame_state = "FRAME_SIZE" => receive_frame_pos \in 0 .. 3
    /\ receive_frame_state \in {"DOFF", "FRAME_TYPE"} => receive_frame_pos = 4
    /\ receive_frame_state \in {"DOFF", "FRAME_TYPE"} \/ InFrame => receive_frame_size >= 8
    /\ receive_frame_state = "FRAME_TYPE" \/ InFrame => receive_frame_doff >= 2
    /\ errors = IF receive_frame_state = "ERROR" THEN 1 ELSE 0

\* A frame has memory while it is received and its type has a subscription.
Memory ==
    /\ ~(InFrame /\ receive_frame_subscription) => receive_frame_bytes = NoBytes
    /\ InFrame /\ receive_frame_subscription =>
         /\ receive_frame_bytes \in Seq(Byte)
         /\ receive_frame_malloc_size = receive_frame_size - 6
         /\ receive_frame_type \in FrameTypes
    /\ receive_frame_state = "TYPE_SPECIFIC" /\ receive_frame_subscription =>
         /\ Len(receive_frame_bytes) = receive_frame_pos
         /\ receive_frame_pos <= receive_frame_malloc_size
         /\ receive_frame_pos < type_specific_size
    /\ receive_frame_state = "TYPE_SPECIFIC" /\ ~receive_frame_subscription =>
         receive_frame_pos >= 4
    /\ receive_frame_state = "FRAME_BODY" /\ receive_frame_subscription =>
         /\ Len(receive_frame_bytes) = type_specific_size + receive_frame_pos
         /\ receive_frame_doff * 4 <= receive_frame_size
         /\ receive_frame_pos <= receive_frame_size - receive_frame_doff * 4

Shape == TypeOK /\ Position /\ Memory

LEMMA SameCodec ==
    ASSUME Position, Memory, UNCHANGED <<codec, errors>>
    PROVE  Position' /\ Memory'
BY DEF Position, Memory, InFrame, type_specific_size, codec

\* NULL is no memory.
LEMMA NoBytesIs ==
    ASSUME NEW s \in Seq(Byte)
    PROVE  s # NoBytes
<1>1. s = <<256>> => s[1] \in Byte /\ s[1] = 256
    <2>1. Len(<<256>>) = 1 /\ <<256>>[1] = 256
        OBVIOUS
    <2> QED BY <2>1
<1>2. 256 \notin Byte
    BY DEF Byte
<1> QED BY <1>1, <1>2 DEF NoBytes

LEMMA InitShape ==
    ASSUME Init
    PROVE  Shape
<1>1. TypeOK
    <2>1. receive_frame_subscription \in BOOLEAN /\ failed \in BOOLEAN
        BY DEF Init
    <2>2. <<>> \in Seq(Byte) /\ <<>> \in Seq(Frame) /\ <<>> \in Seq(Callback)
        OBVIOUS
    <2> QED BY <2>1, <2>2 DEF Init, TypeOK, ReceiveFrameStates, Byte, FrameTypes
<1>2. Position
    BY DEF Init, Position, InFrame
<1>3. Memory
    BY DEF Init, Memory, InFrame
<1> QED BY <1>1, <1>2, <1>3 DEF Shape

LEMMA PutsShape ==
    ASSUME Shape, NEW f \in Frame, Written(f), puts(f)
    PROVE  Shape'
<1>1. bytes_of(f) \in Seq(Byte)
    BY BytesOf
<1>2. wire \o bytes_of(f) \in Seq(Byte)
    BY <1>1, Cat DEF Shape, TypeOK
<1>3. Append(sent, f) \in Seq(Frame)
    BY DEF Shape, TypeOK
<1>4. receive_frame_subscription' \in BOOLEAN /\ failed' \in BOOLEAN
    BY DEF Shape, TypeOK, puts, codec
<1>5. TypeOK'
    BY <1>2, <1>3, <1>4 DEF Shape, TypeOK, puts, codec, amqp
<1>6. UNCHANGED <<codec, errors>>
    BY DEF puts
<1> QED BY <1>5, <1>6, SameCodec DEF Shape

LEMMA MaxSizeShape ==
    ASSUME Shape, NEW size \in MaxSizes, frame_codec_set_max_frame_size(size)
    PROVE  Shape'
<1>1. receive_frame_subscription' \in BOOLEAN /\ failed' \in BOOLEAN
    BY DEF Shape, TypeOK, frame_codec_set_max_frame_size, codec
<1>2. TypeOK'
    BY <1>1 DEF Shape, TypeOK, frame_codec_set_max_frame_size, codec, amqp
<1>3. UNCHANGED <<codec, errors>>
    BY DEF frame_codec_set_max_frame_size
<1> QED BY <1>2, <1>3, SameCodec DEF Shape

LEMMA SubscribeShape ==
    ASSUME Shape, NEW type \in FrameTypes,
           frame_codec_subscribe(type) \/ frame_codec_unsubscribe(type)
    PROVE  Shape'
<1>1. /\ UNCHANGED <<codec, max_frame_size, amqp, wire, buffer, heard, sent, ends, indicated, errors, failed>>
      /\ subscription_list' = subscription_list \cup {type}
         \/ subscription_list' = subscription_list \ {type}
    BY DEF frame_codec_subscribe, frame_codec_unsubscribe
<1>2. receive_frame_subscription' \in BOOLEAN /\ failed' \in BOOLEAN
    BY <1>1 DEF Shape, TypeOK, codec
<1>3. TypeOK'
    BY <1>1, <1>2 DEF Shape, TypeOK, codec, amqp
<1> QED BY <1>1, <1>3, SameCodec DEF Shape

LEMMA ReceiveShape ==
    ASSUME Shape, NEW n \in 1 .. MaxWire, frame_codec_receive_bytes(n)
    PROVE  Shape'
<1>1. wire \in Seq(Byte) /\ Len(wire) \in Nat /\ n \in 0 .. Len(wire) /\ heard + n \in Nat
    BY DEF Shape, TypeOK, frame_codec_receive_bytes
<1>2. SubSeq(wire, 1, n) \in Seq(Byte) /\ SubSeq(wire, n + 1, Len(wire)) \in Seq(Byte)
    BY <1>1, Cut
<1>3. receive_frame_subscription' \in BOOLEAN /\ failed' \in BOOLEAN
    BY DEF Shape, TypeOK, frame_codec_receive_bytes, codec
<1>4. TypeOK'
    BY <1>1, <1>2, <1>3 DEF Shape, TypeOK, frame_codec_receive_bytes, codec, amqp
<1>5. UNCHANGED <<codec, errors>>
    BY DEF frame_codec_receive_bytes
<1> QED BY <1>4, <1>5, SameCodec DEF Shape

LEMMA DropShape ==
    ASSUME Shape, drop_rest
    PROVE  Shape'
<1>1. receive_frame_subscription' \in BOOLEAN /\ failed' \in BOOLEAN
    BY DEF Shape, TypeOK, drop_rest, codec
<1>2. TypeOK'
    BY <1>1 DEF Shape, TypeOK, drop_rest, codec, amqp
<1>3. UNCHANGED <<codec, errors>>
    BY DEF drop_rest
<1> QED BY <1>2, <1>3, SameCodec DEF Shape

-----------------------------------------------------------------------------
(* The header *)

LEMMA BufferBytes ==
    ASSUME Shape, buffer # <<>>
    PROVE  /\ buffer \in Seq(Byte) /\ Len(buffer) \in Nat \ {0}
           /\ Head(buffer) \in Byte /\ Head(buffer) \in Nat /\ Tail(buffer) \in Seq(Byte)
<1>1. buffer \in Seq(Byte)
    BY DEF Shape, TypeOK
<1>2. Byte \subseteq Nat
    BY DEF Byte
<1>3. Head(buffer) \in Byte /\ Tail(buffer) \in Seq(Byte) /\ Len(buffer) \in Nat \ {0}
    BY <1>1, HeadTail
<1> QED BY <1>1, <1>2, <1>3

LEMMA SizeShape ==
    ASSUME Shape, loop_frame_size
    PROVE  Shape'
<1> DEFINE size == receive_frame_size + Head(buffer) * weights[receive_frame_pos + 1]
<1>1. /\ Head(buffer) \in Nat /\ Tail(buffer) \in Seq(Byte) /\ receive_frame_pos \in 0 .. 3
      /\ receive_frame_size \in Nat
    BY BufferBytes DEF loop_frame_size, Shape, TypeOK, Position
<1>2. size \in Nat
    <2>1. weights[receive_frame_pos + 1] \in Nat
        BY <1>1 DEF weights
    <2>2. Head(buffer) * weights[receive_frame_pos + 1] \in Nat
        BY <1>1, <2>1
    <2> QED BY <1>1, <2>2
<1>3. /\ receive_frame_size' = size
      /\ IF receive_frame_pos + 1 < 4
         THEN UNCHANGED <<receive_frame_state, errors, failed>>
         ELSE IF size < FRAME_HEADER_SIZE \/ size > max_frame_size
         THEN decode_error
         ELSE receive_frame_state' = "DOFF" /\ UNCHANGED <<errors, failed>>
    BY DEF loop_frame_size
<1> HIDE DEF size
<1>4. /\ receive_frame_pos' = receive_frame_pos + 1 /\ buffer' = Tail(buffer)
      /\ receive_frame_doff' = receive_frame_doff /\ receive_frame_type' = receive_frame_type
      /\ receive_frame_subscription' = receive_frame_subscription
      /\ receive_frame_bytes' = receive_frame_bytes
      /\ receive_frame_malloc_size' = receive_frame_malloc_size
      /\ UNCHANGED <<subscription_list, max_frame_size, amqp, wire, heard, sent, ends, indicated>>
    BY DEF loop_frame_size
<1>5. receive_frame_subscription' \in BOOLEAN /\ failed' \in BOOLEAN
    BY <1>3, <1>4 DEF Shape, TypeOK, decode_error
<1>6. receive_frame_state = "FRAME_SIZE" /\ errors = 0 /\ receive_frame_bytes = NoBytes
    BY DEF loop_frame_size, Shape, Position, Memory, InFrame
<1>7. \/ receive_frame_state' = "FRAME_SIZE" /\ receive_frame_pos' \in 0 .. 3 /\ errors' = 0
      \/ receive_frame_state' = "ERROR" /\ errors' = 1
      \/ receive_frame_state' = "DOFF" /\ receive_frame_pos' = 4 /\ size >= 8 /\ errors' = 0
    BY <1>1, <1>2, <1>3, <1>4, <1>6 DEF decode_error, FRAME_HEADER_SIZE, Shape, TypeOK
<1>8. TypeOK'
    <2>1. receive_frame_pos' \in Nat
        BY <1>1, <1>4
    <2> QED BY <1>1, <1>2, <1>3, <1>4, <1>5, <1>7, <2>1 DEF Shape, TypeOK, amqp, ReceiveFrameStates
<1>9. Position'
    BY <1>3, <1>7 DEF Position, InFrame
<1>10. Memory'
    BY <1>4, <1>6, <1>7 DEF Memory, InFrame
<1> QED BY <1>8, <1>9, <1>10 DEF Shape

LEMMA DoffShape ==
    ASSUME Shape, loop_doff
    PROVE  Shape'
<1>1. /\ Head(buffer) \in Byte /\ Head(buffer) \in Nat /\ Tail(buffer) \in Seq(Byte)
      /\ receive_frame_pos = 4 /\ receive_frame_size >= 8
    BY BufferBytes DEF loop_doff, Shape, Position
<1>2. /\ receive_frame_doff' = Head(buffer) /\ buffer' = Tail(buffer)
      /\ receive_frame_pos' = receive_frame_pos /\ receive_frame_size' = receive_frame_size
      /\ receive_frame_type' = receive_frame_type
      /\ receive_frame_subscription' = receive_frame_subscription
      /\ receive_frame_bytes' = receive_frame_bytes
      /\ receive_frame_malloc_size' = receive_frame_malloc_size
      /\ UNCHANGED <<subscription_list, max_frame_size, amqp, wire, heard, sent, ends, indicated>>
    BY DEF loop_doff
<1>3. receive_frame_subscription' \in BOOLEAN /\ failed' \in BOOLEAN
    BY <1>2 DEF loop_doff, Shape, TypeOK, decode_error
<1>4. errors = 0 /\ receive_frame_bytes = NoBytes
    BY DEF loop_doff, Shape, Position, Memory, InFrame
<1>5. \/ receive_frame_state' = "ERROR" /\ errors' = 1
      \/ receive_frame_state' = "FRAME_TYPE" /\ receive_frame_doff' >= 2 /\ errors' = 0
    BY <1>1, <1>2, <1>4 DEF loop_doff, decode_error
<1>6. TypeOK'
    BY <1>1, <1>2, <1>3, <1>5 DEF Shape, TypeOK, amqp, ReceiveFrameStates
<1>7. Position'
    BY <1>1, <1>2, <1>5 DEF Position, InFrame
<1>8. Memory'
    BY <1>2, <1>4, <1>5 DEF Memory, InFrame
<1> QED BY <1>6, <1>7, <1>8 DEF Shape

LEMMA TypeShape ==
    ASSUME Shape, loop_type_subscribed \/ loop_type_unknown
    PROVE  Shape'
<1>1. /\ Head(buffer) \in Byte /\ Tail(buffer) \in Seq(Byte) /\ receive_frame_pos = 4
      /\ receive_frame_size >= 8 /\ receive_frame_size \in Nat
      /\ receive_frame_doff >= 2 /\ receive_frame_doff \in Nat
      /\ errors = 0 /\ receive_frame_bytes = NoBytes
    BY BufferBytes, SMTT(40) DEF loop_type_subscribed, loop_type_unknown, Shape, Position, Memory, InFrame,
                       TypeOK, Byte
<1>2. /\ receive_frame_type' = Head(buffer) /\ buffer' = Tail(buffer)
      /\ receive_frame_size' = receive_frame_size /\ receive_frame_doff' = receive_frame_doff
      /\ UNCHANGED <<subscription_list, max_frame_size, amqp, wire, heard, sent, ends, indicated>>
    BY DEF loop_type_subscribed, loop_type_unknown
<1>3. CASE loop_type_subscribed
    <2>1. /\ receive_frame_subscription' = TRUE /\ receive_frame_pos' = 0
          /\ receive_frame_malloc_size' = receive_frame_size - 6
          /\ Head(buffer) \in subscription_list
          /\ \/ receive_frame_bytes' = <<>> /\ receive_frame_state' = "TYPE_SPECIFIC" /\ errors' = 0
             \/ receive_frame_bytes' = NoBytes /\ receive_frame_state' = "ERROR" /\ errors' = 1
        BY <1>1, <1>3 DEF loop_type_subscribed, decode_error
    <2>2. receive_frame_subscription' \in BOOLEAN /\ failed' \in BOOLEAN
        BY <1>3 DEF loop_type_subscribed, Shape, TypeOK, decode_error
    <2>3. receive_frame_malloc_size' \in Nat
        BY <1>1, <2>1
    <2>4. TypeOK'
        <3>1. receive_frame_bytes' = NoBytes \/ receive_frame_bytes' \in Seq(Byte)
            <4>1. <<>> \in Seq(Byte)
                OBVIOUS
            <4> QED BY <2>1, <4>1
        <3>2. receive_frame_pos' \in Nat /\ errors' \in {0, 1}
            BY <2>1
        <3>3. receive_frame_state' \in ReceiveFrameStates
            BY <2>1 DEF ReceiveFrameStates
        <3> QED BY <1>1, <1>2, <2>2, <2>3, <3>1, <3>2, <3>3 DEF Shape, TypeOK, amqp
    <2>5. Position'
        BY <1>1, <1>2, <2>1 DEF Position, InFrame
    <2>6. CASE receive_frame_state' = "ERROR"
        BY <2>1, <2>4, <2>5, <2>6 DEF Shape, Memory, InFrame
    <2>7. CASE receive_frame_state' = "TYPE_SPECIFIC"
        <3>1. <<>> \in Seq(Byte) /\ Len(<<>>) = 0
            OBVIOUS
        <3>2. receive_frame_type' \in FrameTypes
            BY <1>2, <2>1 DEF Shape, TypeOK
        <3>3. 0 < receive_frame_doff * 4 - 6
            BY <1>1
        <3>4. Memory'
            BY <1>1, <1>2, <2>1, <2>3, <2>7, <3>1, <3>2, <3>3
               DEF Memory, InFrame, type_specific_size
        <3> QED BY <2>4, <2>5, <3>4 DEF Shape
    <2> QED BY <2>1, <2>6, <2>7
<1>4. CASE loop_type_unknown
    <2>1. /\ receive_frame_subscription' = FALSE /\ receive_frame_state' = "TYPE_SPECIFIC"
          /\ receive_frame_pos' = receive_frame_pos /\ receive_frame_bytes' = receive_frame_bytes
          /\ receive_frame_malloc_size' = receive_frame_malloc_size /\ errors' = errors
        BY <1>4 DEF loop_type_unknown
    <2>2. receive_frame_subscription' \in BOOLEAN /\ failed' \in BOOLEAN
        BY <1>4 DEF loop_type_unknown, Shape, TypeOK
    <2>3. TypeOK'
        BY <1>1, <1>2, <2>1, <2>2 DEF Shape, TypeOK, amqp, ReceiveFrameStates
    <2>4. Position'
        BY <1>1, <1>2, <2>1 DEF Position, InFrame
    <2>5. Memory'
        BY <1>1, <2>1 DEF Memory, InFrame
    <2> QED BY <2>3, <2>4, <2>5 DEF Shape
<1> QED BY <1>3, <1>4

-----------------------------------------------------------------------------
(* The end of a frame *)

\* The callback p is made for a frame with these type specific bytes and body.
Called(p, specific, body) ==
    /\ performatives' = Append(performatives, p)
    /\ p.frame = Len(indicated) + 1
    /\ p.channel = specific[1] * 256 + specific[2]
    /\ decode_state' = IF p.kind = "error" THEN "DECODE_ERROR" ELSE "DECODE_FRAME"
    /\ decoder' \in Nat
    /\ p.kind = "performative" =>
         \E e \in 1 .. Len(body) : body[e] = Whole /\ p.payload = SubSeq(body, e + 1, Len(body))

LEMMA FrameReceived ==
    ASSUME Shape, NEW specific, specific[1] \in Nat, specific[2] \in Nat,
           NEW body \in Seq(Byte), frame_received(specific, body)
    PROVE  \/ decode_state = "DECODE_ERROR" /\ UNCHANGED amqp
           \/ decode_state = "DECODE_FRAME" /\ \E p \in Callback : Called(p, specific, body)
<1> DEFINE end == decoded_until(body)
           entry(kind, payload) ==
            [kind |-> kind, frame |-> Len(indicated) + 1, held |-> decoder,
             channel |-> specific[1] * 256 + specific[2], payload |-> payload]
           kinds == {"empty", "NULL", "performative", "error"}
<1>1. end \in 0 .. Len(body) /\ Len(body) \in Nat
    BY DecodedUntil
<1>2. Len(indicated) + 1 \in Nat /\ decoder \in Nat
    BY DEF Shape, TypeOK
<1>3. specific[1] * 256 + specific[2] \in Nat
    OBVIOUS
<1>4. \A kind \in kinds, payload \in Seq(Byte) :
        /\ entry(kind, payload) \in Callback /\ entry(kind, payload).kind = kind
        /\ entry(kind, payload).frame = Len(indicated) + 1
        /\ entry(kind, payload).channel = specific[1] * 256 + specific[2]
        /\ entry(kind, payload).payload = payload
    BY <1>2, <1>3 DEF Callback
<1>5. decode_state \in {"DECODE_FRAME", "DECODE_ERROR"}
    BY DEF Shape, TypeOK
<1>6. CASE decode_state = "DECODE_ERROR"
    BY <1>6 DEF frame_received, decodes
<1>7. CASE decode_state = "DECODE_FRAME"
    <2>1. \/ /\ performatives' = Append(performatives, entry("empty", <<>>))
             /\ UNCHANGED <<decode_state, decoder>>
          \/ /\ performatives' = Append(performatives, entry("NULL", <<>>))
             /\ decoder' = decoder + Len(body)
             /\ UNCHANGED decode_state
          \/ /\ end # 0 /\ body[end] = Whole
             /\ performatives' = Append(performatives,
                    entry("performative", SubSeq(body, end + 1, Len(body))))
             /\ decoder' = 0 /\ UNCHANGED decode_state
          \/ /\ performatives' = Append(performatives, entry("error", <<>>))
             /\ decode_state' = "DECODE_ERROR"
             /\ decoder' = 0
        BY <1>7 DEF frame_received, decodes
    <2> HIDE DEF entry, end
    <2>2. <<>> \in Seq(Byte)
        OBVIOUS
    <2>3. SubSeq(body, end + 1, Len(body)) \in Seq(Byte)
        BY <1>1, Cut
    <2>4. decoder + Len(body) \in Nat
        BY <1>1, <1>2
    <2>5. CASE performatives' = Append(performatives, entry("empty", <<>>))
               /\ UNCHANGED <<decode_state, decoder>>
        <3>1. Called(entry("empty", <<>>), specific, body)
            BY <1>2, <1>4, <1>7, <2>2, <2>5, ZenonT(60) DEF Called
        <3> QED BY <1>4, <1>7, <2>2, <3>1
    <2>6. CASE /\ performatives' = Append(performatives, entry("NULL", <<>>))
               /\ decoder' = decoder + Len(body)
               /\ UNCHANGED decode_state
        <3>1. Called(entry("NULL", <<>>), specific, body)
            BY <1>4, <1>7, <2>2, <2>4, <2>6, ZenonT(60) DEF Called
        <3> QED BY <1>4, <1>7, <2>2, <3>1
    <2>7. CASE /\ end # 0 /\ body[end] = Whole
               /\ performatives' = Append(performatives,
                    entry("performative", SubSeq(body, end + 1, Len(body))))
               /\ decoder' = 0 /\ UNCHANGED decode_state
        <3>1. end \in 1 .. Len(body)
            BY <1>1, <2>7
        <3>2. \E e \in 1 .. Len(body) : body[e] = Whole
                  /\ SubSeq(body, end + 1, Len(body)) = SubSeq(body, e + 1, Len(body))
            BY <2>7, <3>1
        <3> DEFINE P == SubSeq(body, end + 1, Len(body))
        <3>3. Called(entry("performative", P), specific, body)
            <4> DEFINE q == entry("performative", P)
            <4>1. /\ q.payload = P /\ q.kind = "performative" /\ q.frame = Len(indicated) + 1
                  /\ q.channel = specific[1] * 256 + specific[2]
                BY <1>4, <2>3, ZenonT(60)
            <4>2. performatives' = Append(performatives, q) /\ decoder' = 0 /\ UNCHANGED decode_state
                BY <2>7
            <4> HIDE DEF q, P
            <4>3. \E e \in 1 .. Len(body) : body[e] = Whole /\ q.payload = SubSeq(body, e + 1, Len(body))
                BY <3>2, <4>1 DEF P
            <4>4. decode_state' = IF q.kind = "error" THEN "DECODE_ERROR" ELSE "DECODE_FRAME"
                BY <1>7, <4>1, <4>2
            <4>5. decoder' \in Nat
                BY <4>2
            <4>6. Called(q, specific, body)
                BY <4>1, <4>2, <4>3, <4>4, <4>5, Zenon DEF Called
            <4> QED BY <4>6 DEF q
        <3> QED BY <1>4, <1>7, <2>3, <3>3
    <2>8. CASE /\ performatives' = Append(performatives, entry("error", <<>>))
               /\ decode_state' = "DECODE_ERROR"
               /\ decoder' = 0
        <3>1. Called(entry("error", <<>>), specific, body)
            BY <1>4, <1>7, <2>2, <2>8, ZenonT(60) DEF Called
        <3> QED BY <1>4, <1>7, <2>2, <3>1
    <2> QED BY <2>1, <2>5, <2>6, <2>7, <2>8
<1> QED BY <1>5, <1>6, <1>7

\* The frame that is given to on_frame_received.
Indicated(bytes) ==
    [size |-> receive_frame_size, doff |-> receive_frame_doff,
     type |-> receive_frame_type, rest |-> bytes]

\* What the amqp_frame_codec does with a frame of its type.
AmqpStep(bytes) ==
    \/ /\ receive_frame_type # FRAME_TYPE_AMQP \/ decode_state = "DECODE_ERROR"
       /\ UNCHANGED amqp
    \/ /\ receive_frame_type = FRAME_TYPE_AMQP /\ decode_state = "DECODE_FRAME"
       /\ \E p \in Callback :
            Called(p, SubSeq(bytes, 1, type_specific_size),
                   SubSeq(bytes, type_specific_size + 1, Len(bytes)))

LEMMA Completed ==
    ASSUME Shape, InFrame, receive_frame_subscription,
           NEW bytes \in Seq(Byte), Len(bytes) = receive_frame_size - 6,
           receive_frame_doff * 4 <= receive_frame_size,
           frame_complete(bytes)
    PROVE  /\ indicated' = Append(indicated, Indicated(bytes)) /\ Indicated(bytes) \in Frame
           /\ AmqpStep(bytes)
           /\ type_specific_size \in 2 .. Len(bytes)
           /\ receive_frame_bytes' = NoBytes /\ receive_frame_state' = "FRAME_SIZE"
           /\ receive_frame_pos' = 0 /\ receive_frame_size' = 0
<1> DEFINE specific == SubSeq(bytes, 1, type_specific_size)
           body == SubSeq(bytes, type_specific_size + 1, Len(bytes))
<1>1. /\ receive_frame_doff \in Nat /\ receive_frame_doff >= 2 /\ receive_frame_size \in Nat
      /\ receive_frame_type \in FrameTypes
    BY DEF Shape, TypeOK, Byte, Position, Memory
<1>2. type_specific_size \in 2 .. Len(bytes) /\ Len(bytes) \in Nat
    BY <1>1 DEF type_specific_size
<1>3. type_specific_size \in 0 .. Len(bytes) /\ 1 \in 1 .. type_specific_size /\ 2 \in 1 .. type_specific_size
    BY <1>2
<1>4. body \in Seq(Byte) /\ specific[1] = bytes[1] /\ specific[2] = bytes[2]
    BY <1>3, Cut
<1>5. bytes[1] \in Nat /\ bytes[2] \in Nat
    <2>1. bytes[1] \in Byte /\ bytes[2] \in Byte
        BY <1>2
    <2> QED BY <2>1, ByteNat
<1>6. /\ indicated' = Append(indicated, Indicated(bytes))
      /\ IF receive_frame_type = FRAME_TYPE_AMQP THEN frame_received(specific, body) ELSE UNCHANGED amqp
      /\ receive_frame_bytes' = NoBytes /\ receive_frame_state' = "FRAME_SIZE"
      /\ receive_frame_pos' = 0 /\ receive_frame_size' = 0
    BY DEF frame_complete, on_frame_received, Indicated
<1>7. Indicated(bytes) \in Frame
    BY <1>1 DEF Indicated, Frame
<1> HIDE DEF specific, body
<1>8. CASE receive_frame_type = FRAME_TYPE_AMQP
    <2>1. frame_received(specific, body)
        BY <1>6, <1>8
    <2>2. \/ decode_state = "DECODE_ERROR" /\ UNCHANGED amqp
          \/ decode_state = "DECODE_FRAME" /\ \E p \in Callback : Called(p, specific, body)
        BY <1>4, <1>5, <2>1, FrameReceived
    <2>3. AmqpStep(bytes)
        BY <1>8, <2>2 DEF AmqpStep, specific, body
    <2> QED BY <1>2, <1>6, <1>7, <2>3
<1>9. CASE receive_frame_type # FRAME_TYPE_AMQP
    <2>1. AmqpStep(bytes)
        BY <1>6, <1>9 DEF AmqpStep
    <2> QED BY <1>2, <1>6, <1>7, <2>1
<1> QED BY <1>8, <1>9

\* What the iterations for type specific bytes and body leave alone.
Untouched ==
    UNCHANGED <<receive_frame_doff, receive_frame_type, receive_frame_subscription,
                receive_frame_malloc_size, subscription_list, max_frame_size,
                wire, heard, sent, ends, errors, failed>>

LEMMA AmqpTypes ==
    ASSUME Shape, NEW bytes, AmqpStep(bytes)
    PROVE  /\ performatives' \in Seq(Callback) /\ decoder' \in Nat
           /\ decode_state' \in {"DECODE_FRAME", "DECODE_ERROR"}
<1>1. /\ performatives \in Seq(Callback) /\ decoder \in Nat
      /\ decode_state \in {"DECODE_FRAME", "DECODE_ERROR"}
    BY DEF Shape, TypeOK
<1>2. CASE UNCHANGED amqp
    BY <1>1, <1>2 DEF amqp
<1>3. ASSUME NEW p \in Callback,
             Called(p, SubSeq(bytes, 1, type_specific_size),
                    SubSeq(bytes, type_specific_size + 1, Len(bytes)))
      PROVE  /\ performatives' \in Seq(Callback) /\ decoder' \in Nat
             /\ decode_state' \in {"DECODE_FRAME", "DECODE_ERROR"}
    <2>1. Append(performatives, p) \in Seq(Callback)
        BY <1>1
    <2> QED BY <1>3, <2>1 DEF Called
<1> QED BY <1>2, <1>3 DEF AmqpStep

LEMMA CompleteShape ==
    ASSUME Shape, InFrame, receive_frame_subscription,
           NEW bytes \in Seq(Byte), Len(bytes) = receive_frame_size - 6,
           receive_frame_doff * 4 <= receive_frame_size,
           frame_complete(bytes), buffer' \in Seq(Byte), Untouched
    PROVE  Shape'
<1>1. /\ indicated' = Append(indicated, Indicated(bytes)) /\ Indicated(bytes) \in Frame
      /\ AmqpStep(bytes)
      /\ receive_frame_bytes' = NoBytes /\ receive_frame_state' = "FRAME_SIZE"
      /\ receive_frame_pos' = 0 /\ receive_frame_size' = 0
    BY Completed
<1>2. indicated' \in Seq(Frame)
    BY <1>1 DEF Shape, TypeOK
<1>3. /\ performatives' \in Seq(Callback) /\ decoder' \in Nat
      /\ decode_state' \in {"DECODE_FRAME", "DECODE_ERROR"}
    BY <1>1, AmqpTypes
<1>4. receive_frame_subscription' \in BOOLEAN /\ failed' \in BOOLEAN
    BY DEF Shape, TypeOK, Untouched
<1>5. TypeOK'
    BY <1>1, <1>2, <1>3, <1>4 DEF Shape, TypeOK, Untouched, ReceiveFrameStates
<1>6. errors = 0
    BY DEF Shape, Position, InFrame
<1>7. Position'
    BY <1>1, <1>6 DEF Position, InFrame, Untouched
<1>8. Memory'
    BY <1>1 DEF Memory, InFrame
<1> QED BY <1>5, <1>7, <1>8 DEF Shape

-----------------------------------------------------------------------------
(* Type specific bytes and body: n bytes of the buffer are taken. *)

Takes(n) == buffer' = SubSeq(buffer, n + 1, Len(buffer)) /\ Untouched

\* Of a frame without subscription nothing is kept.
Skips(n) ==
    /\ receive_frame_state = "TYPE_SPECIFIC" /\ ~receive_frame_subscription
    /\ UNCHANGED <<receive_frame_bytes, indicated, amqp>>
    /\ \/ /\ n = Len(buffer)
          /\ type_specific_size < receive_frame_pos \/ receive_frame_pos + n < type_specific_size
          /\ receive_frame_pos' = receive_frame_pos + n
          /\ UNCHANGED <<receive_frame_state, receive_frame_size>>
       \/ /\ receive_frame_pos + n = type_specific_size /\ receive_frame_size = 8
          /\ receive_frame_pos' = 0 /\ receive_frame_state' = "FRAME_SIZE" /\ receive_frame_size' = 0
       \/ /\ receive_frame_pos' = 0 /\ receive_frame_state' = "FRAME_BODY"
          /\ UNCHANGED receive_frame_size

\* The bytes are written to the memory of the frame, and there are more to come.
Collects(n) ==
    /\ receive_frame_subscription
    /\ receive_frame_bytes' = receive_frame_bytes \o SubSeq(buffer, 1, n)
    /\ UNCHANGED <<receive_frame_size, indicated, amqp>>
    /\ \/ /\ receive_frame_state = "TYPE_SPECIFIC" /\ receive_frame_state' = "TYPE_SPECIFIC"
          /\ receive_frame_pos' = receive_frame_pos + n
          /\ receive_frame_pos + n < type_specific_size
          /\ receive_frame_pos + n <= receive_frame_malloc_size
       \/ /\ receive_frame_state = "TYPE_SPECIFIC" /\ receive_frame_state' = "FRAME_BODY"
          /\ receive_frame_pos' = 0
          /\ receive_frame_pos + n = type_specific_size
          /\ receive_frame_doff * 4 <= receive_frame_size
       \/ /\ receive_frame_state = "FRAME_BODY" /\ receive_frame_state' = "FRAME_BODY"
          /\ receive_frame_pos' = receive_frame_pos + n
          /\ receive_frame_pos + n < frame_body_size

\* They are the last ones of the frame.
Completes(n) ==
    /\ receive_frame_subscription /\ InFrame
    /\ receive_frame_doff * 4 <= receive_frame_size
    /\ Len(receive_frame_bytes) + n = receive_frame_size - 6
    /\ frame_complete(receive_frame_bytes \o SubSeq(buffer, 1, n))

LEMMA ToCopy ==
    ASSUME Shape, buffer # <<>>, NEW total \in Int
    PROVE  /\ to_copy(total) \in 0 .. Len(buffer)
           /\ \/ receive_frame_pos + to_copy(total) = total
              \/ /\ to_copy(total) = Len(buffer)
                 /\ total < receive_frame_pos \/ receive_frame_pos + to_copy(total) < total
<1>1. Len(buffer) \in Nat /\ receive_frame_pos \in Nat
    BY BufferBytes DEF Shape, TypeOK
<1>2. CASE total >= receive_frame_pos /\ total - receive_frame_pos <= Len(buffer)
    BY <1>1, <1>2 DEF to_copy
<1>3. CASE ~(total >= receive_frame_pos /\ total - receive_frame_pos <= Len(buffer))
    BY <1>1, <1>3 DEF to_copy
<1> QED BY <1>2, <1>3

LEMMA SpecificSteps ==
    ASSUME Shape, loop_type_specific
    PROVE  \E n \in 0 .. Len(buffer) : Takes(n) /\ (Skips(n) \/ Collects(n) \/ Completes(n))
<1> DEFINE n == to_copy(type_specific_size)
           bytes == receive_frame_bytes \o SubSeq(buffer, 1, n)
<1>1. /\ receive_frame_state = "TYPE_SPECIFIC" /\ buffer # <<>> /\ InFrame
      /\ receive_frame_pos \in Nat /\ receive_frame_size \in Nat /\ receive_frame_size >= 8
      /\ receive_frame_doff \in Nat /\ receive_frame_doff >= 2
    BY ByteNat DEF loop_type_specific, InFrame, Shape, TypeOK, Position
<1>2. type_specific_size = receive_frame_doff * 4 - 6 /\ type_specific_size \in Int
    BY <1>1 DEF type_specific_size
<1>3. /\ n \in 0 .. Len(buffer)
      /\ \/ receive_frame_pos + n = type_specific_size
         \/ /\ n = Len(buffer)
            /\ type_specific_size < receive_frame_pos \/ receive_frame_pos + n < type_specific_size
    BY <1>1, <1>2, ToCopy
<1>4. n \in Nat
    BY <1>1, <1>3, BufferBytes
<1>5. Takes(n)
    BY DEF loop_type_specific, Takes, Untouched
<1>6. CASE ~receive_frame_subscription
    <2>1. IF receive_frame_pos + n # type_specific_size
          THEN /\ receive_frame_bytes' = receive_frame_bytes
               /\ receive_frame_pos' = receive_frame_pos + n
               /\ UNCHANGED <<receive_frame_state, receive_frame_size, indicated, amqp>>
          ELSE IF receive_frame_size = FRAME_HEADER_SIZE
          THEN /\ UNCHANGED <<indicated, amqp, receive_frame_bytes>>
               /\ receive_frame_state' = "FRAME_SIZE" /\ receive_frame_pos' = 0
               /\ receive_frame_size' = 0
          ELSE /\ receive_frame_bytes' = receive_frame_bytes
               /\ receive_frame_pos' = 0
               /\ receive_frame_state' = "FRAME_BODY"
               /\ UNCHANGED <<receive_frame_size, indicated, amqp>>
        BY <1>6 DEF loop_type_specific, frame_complete
    <2> HIDE DEF n
    <2>2. Skips(n)
        BY <1>1, <1>3, <1>6, <2>1 DEF Skips, FRAME_HEADER_SIZE
    <2> QED BY <1>3, <1>5, <2>2
<1>7. CASE receive_frame_subscription
    <2>1. /\ ~no_room(n)
          /\ IF receive_frame_pos + n # type_specific_size
             THEN /\ receive_frame_bytes' = bytes
                  /\ receive_frame_pos' = receive_frame_pos + n
                  /\ UNCHANGED <<receive_frame_state, receive_frame_size, indicated, amqp>>
             ELSE IF receive_frame_size = FRAME_HEADER_SIZE
             THEN frame_complete(bytes)
             ELSE /\ receive_frame_bytes' = bytes
                  /\ receive_frame_pos' = 0
                  /\ receive_frame_state' = "FRAME_BODY"
                  /\ UNCHANGED <<receive_frame_size, indicated, amqp>>
        BY <1>7 DEF loop_type_specific
    <2> HIDE DEF n
    <2>2. /\ receive_frame_malloc_size = receive_frame_size - 6
          /\ Len(receive_frame_bytes) = receive_frame_pos /\ receive_frame_pos < type_specific_size
          /\ receive_frame_pos + n <= receive_frame_malloc_size
        <3>1. /\ receive_frame_malloc_size = receive_frame_size - 6
              /\ Len(receive_frame_bytes) = receive_frame_pos /\ receive_frame_pos < type_specific_size
            BY <1>1, <1>7 DEF Shape, Memory
        <3>2. ~(receive_frame_pos + n > receive_frame_malloc_size)
            BY <2>1 DEF no_room
        <3> QED BY <1>1, <1>4, <3>1, <3>2
    <2>3. CASE receive_frame_pos + n # type_specific_size
        <3>1. receive_frame_pos + n < type_specific_size
            BY <1>1, <1>2, <1>3, <1>4, <2>2, <2>3
        <3>2. Collects(n)
            BY <1>1, <1>7, <2>1, <2>2, <2>3, <3>1 DEF Collects
        <3> QED BY <1>3, <1>5, <3>2
    <2>4. CASE receive_frame_pos + n = type_specific_size
        <3>1. receive_frame_doff * 4 <= receive_frame_size
            BY <1>1, <1>2, <1>4, <2>2, <2>4
        <3>2. CASE receive_frame_size = FRAME_HEADER_SIZE
            <4>1. Len(receive_frame_bytes) + n = receive_frame_size - 6
                BY <1>1, <1>2, <2>2, <2>4, <3>1, <3>2 DEF FRAME_HEADER_SIZE
            <4>2. Completes(n)
                BY <1>1, <1>7, <2>1, <2>4, <3>1, <3>2, <4>1 DEF Completes
            <4> QED BY <1>3, <1>5, <4>2
        <3>3. CASE receive_frame_size # FRAME_HEADER_SIZE
            <4>1. Collects(n)
                BY <1>1, <1>7, <2>1, <2>4, <3>1, <3>3 DEF Collects
            <4> QED BY <1>3, <1>5, <4>1
        <3> QED BY <3>2, <3>3
    <2> QED BY <2>3, <2>4
<1> QED BY <1>6, <1>7

LEMMA BodySteps ==
    ASSUME Shape, loop_frame_body
    PROVE  \E n \in 0 .. Len(buffer) : Takes(n) /\ (Collects(n) \/ Completes(n))
<1> DEFINE n == to_copy(frame_body_size)
           bytes == receive_frame_bytes \o SubSeq(buffer, 1, n)
<1>1. /\ receive_frame_state = "FRAME_BODY" /\ buffer # <<>> /\ InFrame
      /\ receive_frame_pos \in Nat /\ receive_frame_size \in Nat
      /\ receive_frame_doff \in Nat /\ receive_frame_doff >= 2
    BY ByteNat DEF loop_frame_body, InFrame, Shape, TypeOK, Position
<1>2. receive_frame_subscription
    BY DEF loop_frame_body, Shape, Memory
<1>3. /\ Len(receive_frame_bytes) = type_specific_size + receive_frame_pos
      /\ receive_frame_doff * 4 <= receive_frame_size
      /\ receive_frame_pos <= receive_frame_size - receive_frame_doff * 4
    BY <1>1, <1>2 DEF Shape, Memory
<1>4. frame_body_size = receive_frame_size - receive_frame_doff * 4 /\ frame_body_size \in Nat
    BY <1>1, <1>3 DEF frame_body_size
<1>5. /\ n \in 0 .. Len(buffer)
      /\ receive_frame_pos + n = frame_body_size \/ receive_frame_pos + n < frame_body_size
    <2>1. frame_body_size \in Int /\ ~(frame_body_size < receive_frame_pos)
        BY <1>1, <1>3, <1>4
    <2>2. /\ n \in 0 .. Len(buffer)
          /\ \/ receive_frame_pos + n = frame_body_size
             \/ /\ n = Len(buffer)
                /\ frame_body_size < receive_frame_pos \/ receive_frame_pos + n < frame_body_size
        BY <1>1, <2>1, ToCopy
    <2> QED BY <2>1, <2>2
<1>6. n \in Nat
    BY <1>1, <1>5, BufferBytes
<1>7. /\ Takes(n)
      /\ IF receive_frame_pos + n = frame_body_size
         THEN frame_complete(bytes)
         ELSE /\ receive_frame_bytes' = bytes
              /\ receive_frame_pos' = receive_frame_pos + n
              /\ UNCHANGED <<receive_frame_state, receive_frame_size, indicated, amqp>>
    BY DEF loop_frame_body, Takes, Untouched
<1> HIDE DEF n
<1>8. CASE receive_frame_pos + n = frame_body_size
    <2>1. type_specific_size = receive_frame_doff * 4 - 6
        BY DEF type_specific_size
    <2>2. Len(receive_frame_bytes) + n = receive_frame_size - 6
        BY <1>1, <1>3, <1>4, <1>6, <1>8, <2>1
    <2>3. Completes(n)
        BY <1>1, <1>2, <1>3, <1>7, <1>8, <2>2 DEF Completes
    <2> QED BY <1>5, <1>7, <2>3
<1>9. CASE receive_frame_pos + n # frame_body_size
    <2>1. Collects(n)
        BY <1>1, <1>2, <1>5, <1>7, <1>9 DEF Collects
    <2> QED BY <1>5, <1>7, <2>1
<1> QED BY <1>8, <1>9


LEMMA TakesShape ==
    ASSUME Shape, buffer # <<>>, NEW n \in 0 .. Len(buffer), Takes(n),
           Skips(n) \/ Collects(n) \/ Completes(n)
    PROVE  Shape'
<1>1. buffer \in Seq(Byte) /\ Len(buffer) \in Nat /\ n \in Nat
    BY BufferBytes
<1>2. /\ SubSeq(buffer, 1, n) \in Seq(Byte) /\ Len(SubSeq(buffer, 1, n)) = n
      /\ buffer' \in Seq(Byte)
    BY <1>1, Cut DEF Takes
<1>3. receive_frame_subscription' \in BOOLEAN /\ failed' \in BOOLEAN
    BY DEF Shape, TypeOK, Takes, Untouched
<1>4. /\ receive_frame_pos \in Nat /\ receive_frame_size \in Nat
      /\ receive_frame_doff \in Nat
    BY ByteNat DEF Shape, TypeOK
<1>5. CASE Skips(n)
    <2>1. /\ receive_frame_state = "TYPE_SPECIFIC" /\ InFrame /\ receive_frame_subscription' = FALSE
          /\ UNCHANGED <<receive_frame_bytes, indicated, amqp>>
          /\ \/ /\ receive_frame_pos' = receive_frame_pos + n
                /\ receive_frame_state' = "TYPE_SPECIFIC" /\ receive_frame_size' = receive_frame_size
             \/ /\ receive_frame_pos' = 0 /\ receive_frame_state' = "FRAME_SIZE" /\ receive_frame_size' = 0
             \/ /\ receive_frame_pos' = 0 /\ receive_frame_state' = "FRAME_BODY"
                /\ receive_frame_size' = receive_frame_size
        BY <1>3, <1>5 DEF Skips, Takes, Untouched, InFrame, Shape, TypeOK
    <2>2. /\ receive_frame_size >= 8 /\ receive_frame_doff >= 2 /\ receive_frame_pos >= 4
          /\ errors = 0 /\ receive_frame_bytes = NoBytes
        BY <1>5, <2>1 DEF Shape, Position, Memory, InFrame, Skips
    <2>3. /\ receive_frame_pos' \in Nat /\ receive_frame_size' \in Nat
          /\ receive_frame_state' = "TYPE_SPECIFIC" => receive_frame_pos' >= 4
        BY <1>1, <1>4, <2>1, <2>2
    <2>4. receive_frame_state' \in ReceiveFrameStates
        BY <2>1 DEF ReceiveFrameStates
    <2>5. TypeOK'
        BY <1>2, <1>3, <2>1, <2>3, <2>4 DEF Shape, TypeOK, Takes, Untouched, amqp
    <2>6. Position'
        BY <2>1, <2>2 DEF Position, InFrame, Takes, Untouched
    <2>7. Memory'
        BY <2>1, <2>2, <2>3 DEF Memory, InFrame
    <2> QED BY <2>5, <2>6, <2>7 DEF Shape
<1>6. CASE Collects(n)
    <2>1. /\ receive_frame_subscription /\ InFrame
          /\ receive_frame_bytes \in Seq(Byte)
          /\ receive_frame_malloc_size = receive_frame_size - 6
          /\ receive_frame_type \in FrameTypes /\ receive_frame_size >= 8
          /\ receive_frame_doff >= 2 /\ errors = 0
        BY <1>6 DEF Collects, InFrame, Shape, Memory, Position
    <2>2. /\ receive_frame_bytes' \in Seq(Byte)
          /\ Len(receive_frame_bytes') = Len(receive_frame_bytes) + n
        BY <1>2, <1>6, <2>1, Cat DEF Collects
    <2>3. receive_frame_pos' \in Nat
        BY <1>1, <1>4, <1>6 DEF Collects
    <2>4. receive_frame_state' \in ReceiveFrameStates /\ receive_frame_state' \in {"TYPE_SPECIFIC", "FRAME_BODY"}
        BY <1>6 DEF Collects, ReceiveFrameStates
    <2>5. TypeOK'
        BY <1>2, <1>3, <1>6, <2>2, <2>3, <2>4 DEF Shape, TypeOK, Takes, Untouched, amqp, Collects
    <2>6. Position'
        BY <1>6, <2>1, <2>4 DEF Position, InFrame, Takes, Untouched, Collects
    <2>7. /\ receive_frame_size' = receive_frame_size /\ receive_frame_doff' = receive_frame_doff
          /\ receive_frame_type' = receive_frame_type
          /\ receive_frame_malloc_size' = receive_frame_malloc_size
          /\ receive_frame_subscription'
        BY <1>6 DEF Takes, Untouched, Collects
    <2>8. type_specific_size' = type_specific_size /\ type_specific_size = receive_frame_doff * 4 - 6
        BY <2>7 DEF type_specific_size
    <2>9. CASE receive_frame_state' = "TYPE_SPECIFIC"
        <3>1. /\ receive_frame_state = "TYPE_SPECIFIC" /\ receive_frame_pos' = receive_frame_pos + n
              /\ receive_frame_pos + n < type_specific_size
              /\ receive_frame_pos + n <= receive_frame_malloc_size
            BY <1>6, <2>9 DEF Collects
        <3>2. Len(receive_frame_bytes) = receive_frame_pos
            BY <2>1, <3>1 DEF Shape, Memory
        <3>3. Memory'
            BY <2>1, <2>2, <2>7, <2>8, <2>9, <3>1, <3>2 DEF Memory, InFrame
        <3> QED BY <2>5, <2>6, <3>3 DEF Shape
    <2>10. CASE receive_frame_state' = "FRAME_BODY"
        <3>1. /\ Len(receive_frame_bytes') = type_specific_size + receive_frame_pos'
              /\ receive_frame_doff * 4 <= receive_frame_size
              /\ receive_frame_pos' <= receive_frame_size - receive_frame_doff * 4
            <4>1. CASE receive_frame_state = "TYPE_SPECIFIC"
                <5>1. /\ receive_frame_pos' = 0 /\ receive_frame_pos + n = type_specific_size
                      /\ receive_frame_doff * 4 <= receive_frame_size
                    BY <1>6, <2>10, <4>1 DEF Collects
                <5>2. Len(receive_frame_bytes) = receive_frame_pos
                    BY <2>1, <4>1 DEF Shape, Memory
                <5> QED BY <1>4, <2>2, <2>8, <5>1, <5>2
            <4>2. CASE receive_frame_state = "FRAME_BODY"
                <5>1. /\ receive_frame_pos' = receive_frame_pos + n
                      /\ receive_frame_pos + n < frame_body_size
                    BY <1>6, <2>10, <4>2 DEF Collects
                <5>2. /\ Len(receive_frame_bytes) = type_specific_size + receive_frame_pos
                      /\ receive_frame_doff * 4 <= receive_frame_size
                    BY <2>1, <4>2 DEF Shape, Memory
                <5> QED BY <1>1, <1>4, <2>2, <2>8, <5>1, <5>2 DEF frame_body_size
            <4> QED BY <2>1, <4>1, <4>2 DEF InFrame
        <3>2. Memory'
            BY <2>1, <2>2, <2>7, <2>8, <2>10, <3>1 DEF Memory, InFrame
        <3> QED BY <2>5, <2>6, <3>2 DEF Shape
    <2> QED BY <2>4, <2>9, <2>10
<1>7. CASE Completes(n)
    <2>1. /\ receive_frame_subscription /\ InFrame /\ receive_frame_bytes \in Seq(Byte)
          /\ receive_frame_doff * 4 <= receive_frame_size
          /\ Len(receive_frame_bytes) + n = receive_frame_size - 6
        BY <1>7 DEF Completes, Shape, Memory
    <2> DEFINE b == receive_frame_bytes \o SubSeq(buffer, 1, n)
    <2>2. b \in Seq(Byte) /\ Len(b) = receive_frame_size - 6
        BY <1>2, <2>1, Cat
    <2>3. frame_complete(b) /\ Untouched
        BY <1>7 DEF Completes, Takes
    <2> HIDE DEF b
    <2> QED BY <1>2, <2>1, <2>2, <2>3, CompleteShape
<1> QED BY <1>5, <1>6, <1>7

LEMMA NextShape ==
    ASSUME Shape, [Next]_vars
    PROVE  Shape'
<1>1. ASSUME NEW f \in PeerFrames, peer_puts(f) PROVE Shape'
    BY <1>1, PutsShape, Assumptions DEF peer_puts
<1>2. ASSUME NEW args \in Outgoing, frame_codec_encode_frame(args) PROVE Shape'
    <2>1. encoded(args) \in Frame /\ Written(encoded(args))
        BY <1>2, EncodedWritten
    <2>2. puts(encoded(args))
        BY <1>2 DEF frame_codec_encode_frame
    <2> QED BY <2>1, <2>2, PutsShape
<1>3. CASE loop_error \/ loop_specific_refused \/ loop_body_refused
    BY <1>3, DropShape DEF loop_error, loop_specific_refused, loop_body_refused
<1>4. CASE loop_type_specific
    BY <1>4, SpecificSteps, TakesShape DEF loop_type_specific
<1>5. CASE loop_frame_body
    BY <1>5, BodySteps, TakesShape DEF loop_frame_body
<1>6. CASE loop
    BY <1>3, <1>4, <1>5, <1>6, SizeShape, DoffShape, TypeShape DEF loop
<1>7. CASE UNCHANGED vars
    <2>1. UNCHANGED <<codec, subscription_list, max_frame_size, amqp, wire, buffer, heard,
                      sent, ends, indicated, errors, failed>>
        BY <1>7 DEF vars
    <2>2. receive_frame_subscription' \in BOOLEAN /\ failed' \in BOOLEAN
        BY <2>1 DEF Shape, TypeOK, codec
    <2>3. TypeOK'
        BY <2>1, <2>2 DEF Shape, TypeOK, codec, amqp
    <2> QED BY <2>1, <2>3, SameCodec DEF Shape
<1> QED BY <1>1, <1>2, <1>6, <1>7, MaxSizeShape, SubscribeShape, ReceiveShape DEF Next

\* Every reachable state has the shape.
THEOREM Shapes == Spec => []Shape
BY InitShape, NextShape, PTL DEF Spec

\* What the two codecs keep has its type: the variables of frame_codec.c never
\* hold a position, a size or a pointer of the wrong kind.
THEOREM TypeCorrect == Spec => []TypeOK
<1>1. Shape => TypeOK
    BY DEF Shape
<1> QED BY <1>1, Shapes, PTL

\* No frame, whatever its header says, makes the codec write past the memory it
\* allocated for it (frame_codec.c:334, :409).
THEOREM InBuffer == Spec => []WritesInBuffer
<1>1. ASSUME Shape PROVE WritesInBuffer
    <2>1. CASE ~(InFrame /\ receive_frame_subscription)
        BY <1>1, <2>1 DEF WritesInBuffer, Shape, Memory
    <2>2. CASE receive_frame_state = "TYPE_SPECIFIC" /\ receive_frame_subscription
        BY <1>1, <2>2 DEF WritesInBuffer, Shape, Memory
    <2>3. CASE receive_frame_state = "FRAME_BODY" /\ receive_frame_subscription
        <3>1. /\ Len(receive_frame_bytes) = type_specific_size + receive_frame_pos
              /\ receive_frame_pos <= receive_frame_size - receive_frame_doff * 4
              /\ receive_frame_malloc_size = receive_frame_size - 6
            BY <1>1, <2>3 DEF Shape, Memory, InFrame
        <3>2. receive_frame_pos \in Nat /\ receive_frame_size \in Nat /\ receive_frame_doff \in Nat
            BY <1>1, ByteNat DEF Shape, TypeOK
        <3> QED BY <3>1, <3>2 DEF WritesInBuffer, type_specific_size
    <2> QED BY <2>1, <2>2, <2>3 DEF InFrame
<1> QED BY <1>1, Shapes, PTL

-----------------------------------------------------------------------------
(* The callbacks of amqp_frame_codec *)

AmqpOf(frames) == {k \in DOMAIN frames : frames[k].type = FRAME_TYPE_AMQP}

\* The callback p is the i-th one, and answers the frame it names.
Answers(p, i, frames) ==
    /\ p.frame \in AmqpOf(frames)
    /\ Cardinality({k \in AmqpOf(frames) : k <= p.frame}) = i
    /\ p.channel = frames[p.frame].rest[1] * 256 + frames[p.frame].rest[2]
    /\ p.kind = "performative" =>
         /\ IsSuffix(p.payload, frames[p.frame].rest)
         /\ frames[p.frame].rest[Len(frames[p.frame].rest) - Len(p.payload)] = Whole

\* The codec is stopped by the first callback of an error.
Calls ==
    /\ \A i \in DOMAIN performatives :
         /\ Answers(performatives[i], i, indicated)
         /\ performatives[i].kind = "error" =>
              i = Len(performatives) /\ decode_state = "DECODE_ERROR"
    /\ decode_state = "DECODE_FRAME" => Len(performatives) = Cardinality(AmqpOf(indicated))

LEMMA Suffix ==
    ASSUME NEW s \in Seq(Byte), NEW t \in Seq(Byte), Len(s) <= Len(t),
           \A i \in 1 .. Len(s) : s[i] = t[Len(t) - Len(s) + i]
    PROVE  IsSuffix(s, t)
<1> DEFINE a == Reverse(s)
           b == Reverse(t)
<1>1. Len(s) \in Nat /\ Len(t) \in Nat
    OBVIOUS
<1>2. /\ a \in Seq(Byte) /\ Len(a) = Len(s) /\ \A i \in 1 .. Len(s) : a[i] = s[Len(s) - i + 1]
      /\ b \in Seq(Byte) /\ Len(b) = Len(t) /\ \A i \in 1 .. Len(t) : b[i] = t[Len(t) - i + 1]
    BY <1>1 DEF Reverse
<1>3. \A i \in 1 .. Len(s) : a[i] = b[i]
    <2>1. TAKE i \in 1 .. Len(s)
    <2>2. i \in 1 .. Len(t) /\ Len(s) - i + 1 \in 1 .. Len(s)
          /\ Len(t) - Len(s) + (Len(s) - i + 1) = Len(t) - i + 1
        BY <1>1
    <2>3. s[Len(s) - i + 1] = t[Len(t) - Len(s) + (Len(s) - i + 1)]
        BY <2>2
    <2> QED BY <1>2, <2>2, <2>3
<1> HIDE DEF a, b
<1>4. SubSeq(a, 1, Len(a)) = SubSeq(b, 1, Len(a))
    <2>1. Len(s) \in 0 .. Len(a) /\ Len(s) \in 0 .. Len(b)
        BY <1>1, <1>2
    <2>2. /\ SubSeq(a, 1, Len(s)) \in Seq(Byte) /\ Len(SubSeq(a, 1, Len(s))) = Len(s)
          /\ \A i \in 1 .. Len(s) : SubSeq(a, 1, Len(s))[i] = a[i]
        BY <1>2, <2>1, Cut
    <2>3. /\ SubSeq(b, 1, Len(s)) \in Seq(Byte) /\ Len(SubSeq(b, 1, Len(s))) = Len(s)
          /\ \A i \in 1 .. Len(s) : SubSeq(b, 1, Len(s))[i] = b[i]
        BY <1>2, <2>1, Cut
    <2>4. SubSeq(a, 1, Len(s)) = SubSeq(b, 1, Len(s))
        BY <1>1, <1>3, <2>2, <2>3, SeqEqual
    <2> QED BY <1>2, <2>4
<1> QED BY <1>1, <1>2, <1>4 DEF IsSuffix, IsPrefix, a, b

\* One more frame, which is of type AMQP or not.
LEMMA AmqpAdded ==
    ASSUME NEW frames \in Seq(Frame), NEW g \in Frame
    PROVE  LET new == Append(frames, g)
               n == Len(frames) + 1
           IN  /\ IsFiniteSet(AmqpOf(frames)) /\ Cardinality(AmqpOf(frames)) \in Nat
               /\ n \notin AmqpOf(frames) /\ \A k \in AmqpOf(frames) : k \in 1 .. n - 1
               /\ AmqpOf(new) = IF g.type = FRAME_TYPE_AMQP THEN AmqpOf(frames) \cup {n}
                                ELSE AmqpOf(frames)
               /\ new[n] = g /\ \A k \in 1 .. n - 1 : new[k] = frames[k]
<1> DEFINE new == Append(frames, g)
           n == Len(frames) + 1
           A == AmqpOf(frames)
<1>1. Len(frames) \in Nat /\ DOMAIN frames = 1 .. Len(frames) /\ n \in Nat
    OBVIOUS
<1>2. DOMAIN new = 1 .. n /\ new[n] = g /\ \A k \in 1 .. Len(frames) : new[k] = frames[k]
    OBVIOUS
<1>3. 1 .. n = (1 .. Len(frames)) \cup {n} /\ n \notin 1 .. Len(frames) /\ 1 .. n - 1 = 1 .. Len(frames)
    BY <1>1
<1> HIDE DEF new, n
<1>4. A \subseteq 1 .. Len(frames)
    BY <1>1 DEF AmqpOf
<1>5. IsFiniteSet(A) /\ Cardinality(A) \in Nat
    <2>1. IsFiniteSet(1 .. Len(frames))
        BY <1>1, FS_Interval
    <2>2. IsFiniteSet(A)
        BY <1>4, <2>1, FS_Subset
    <2> QED BY <2>2, FS_CardinalityType
<1>6. AmqpOf(new) = IF g.type = FRAME_TYPE_AMQP THEN A \cup {n} ELSE A
    BY <1>1, <1>2, <1>3 DEF AmqpOf
<1> QED BY <1>2, <1>3, <1>4, <1>5, <1>6 DEF new, n

\* A callback still answers its frame when there are more frames.
LEMMA AnswerKept ==
    ASSUME NEW frames \in Seq(Frame), NEW g \in Frame, NEW p, NEW i, Answers(p, i, frames)
    PROVE  Answers(p, i, Append(frames, g))
<1> DEFINE new == Append(frames, g)
           n == Len(frames) + 1
<1>1. /\ n \notin AmqpOf(frames) /\ \A k \in AmqpOf(frames) : k \in 1 .. n - 1
      /\ AmqpOf(new) = AmqpOf(frames) \/ AmqpOf(new) = AmqpOf(frames) \cup {n}
      /\ \A k \in 1 .. n - 1 : new[k] = frames[k]
    BY AmqpAdded
<1>2. Len(frames) \in Nat /\ n \in Nat
    OBVIOUS
<1> HIDE DEF new, n
<1>3. p.frame \in AmqpOf(frames) /\ p.frame \in 1 .. n - 1 /\ new[p.frame] = frames[p.frame]
    BY <1>1 DEF Answers
<1>4. p.frame \in AmqpOf(new) /\ ~(n <= p.frame)
    BY <1>1, <1>2, <1>3
<1>5. {k \in AmqpOf(new) : k <= p.frame} = {k \in AmqpOf(frames) : k <= p.frame}
    BY <1>1, <1>4
<1>6. Answers(p, i, new)
    BY <1>3, <1>4, <1>5 DEF Answers
<1> QED BY <1>6 DEF new

\* The callback for the frame that was completed answers it.
LEMMA AnswerNew ==
    ASSUME NEW frames \in Seq(Frame), NEW g \in Frame, NEW p \in Callback,
           g.type = FRAME_TYPE_AMQP, p.frame = Len(frames) + 1,
           NEW m \in 2 .. Len(g.rest),
           p.channel = SubSeq(g.rest, 1, m)[1] * 256 + SubSeq(g.rest, 1, m)[2],
           LET body == SubSeq(g.rest, m + 1, Len(g.rest))
           IN  p.kind = "performative" =>
                 \E e \in 1 .. Len(body) :
                     body[e] = Whole /\ p.payload = SubSeq(body, e + 1, Len(body))
    PROVE  Answers(p, Cardinality(AmqpOf(frames)) + 1, Append(frames, g))
<1> DEFINE new == Append(frames, g)
           n == Len(frames) + 1
           r == g.rest
           A == AmqpOf(frames)
           body == SubSeq(r, m + 1, Len(r))
<1>1. r \in Seq(Byte) /\ Len(r) \in Nat /\ m \in 0 .. Len(r) /\ m \in Nat /\ m >= 2 /\ m <= Len(r)
    BY DEF Frame
<1>2. /\ IsFiniteSet(A) /\ n \notin A /\ \A k \in A : k \in 1 .. n - 1
      /\ AmqpOf(new) = A \cup {n} /\ new[n] = g
    BY AmqpAdded
<1>3. n \in Nat
    OBVIOUS
<1>4. Cardinality(A \cup {n}) = Cardinality(A) + 1
    BY <1>2, FS_AddElement
<1>5. {k \in AmqpOf(new) : k <= n} = A \cup {n}
    BY <1>2, <1>3
<1>6. SubSeq(r, 1, m)[1] = r[1] /\ SubSeq(r, 1, m)[2] = r[2]
    <2>1. 1 \in 1 .. m /\ 2 \in 1 .. m
        BY <1>1
    <2> QED BY <1>1, <2>1, Cut
<1>7. ASSUME p.kind = "performative"
      PROVE  IsSuffix(p.payload, r) /\ r[Len(r) - Len(p.payload)] = Whole
    <2>1. PICK e \in 1 .. Len(body) : body[e] = Whole /\ p.payload = SubSeq(body, e + 1, Len(body))
        BY <1>7
    <2>2. /\ body \in Seq(Byte) /\ Len(body) = Len(r) - m
          /\ \A i \in 1 .. Len(r) - m : body[i] = r[m + i]
        BY <1>1, Cut, SMTT(40)
    <2> HIDE DEF body
    <2> DEFINE q == SubSeq(body, e + 1, Len(body))
    <2>3. e \in Nat /\ e >= 1 /\ e <= Len(body) /\ e \in 0 .. Len(body)
        BY <1>1, <2>2
    <2>4. /\ q \in Seq(Byte) /\ Len(q) = Len(body) - e
          /\ \A i \in 1 .. Len(body) - e : q[i] = body[e + i]
        BY <2>2, <2>3, Cut, ZenonT(60)
    <2> HIDE DEF q
    <2> HIDE DEF r
    <2>5. Len(q) <= Len(r) /\ Len(r) - Len(q) = m + e /\ Len(q) \in Nat /\ Len(q) = Len(r) - m - e
        <3>1. Len(r) \in Nat /\ m \in Nat /\ e \in Nat /\ Len(body) = Len(r) - m
              /\ e <= Len(body) /\ Len(q) = Len(body) - e
            BY <1>1, <2>2, <2>3, <2>4
        <3> QED BY <3>1
    <2>6. \A i \in 1 .. Len(q) : q[i] = r[Len(r) - Len(q) + i]
        <3>1. TAKE i \in 1 .. Len(q)
        <3>2. i \in Nat /\ i \in 1 .. Len(body) - e /\ e + i \in 1 .. Len(r) - m
            <4>1. /\ Len(r) \in Nat /\ m \in Nat /\ e \in Nat /\ Len(body) = Len(r) - m
                  /\ Len(q) = Len(r) - m - e /\ Len(q) \in Nat /\ i \in 1 .. Len(q)
                BY <1>1, <2>2, <2>3, <2>5
            <4> QED BY <4>1
        <3>3. q[i] = r[m + (e + i)]
            BY <2>2, <2>4, <3>2
        <3>4. Len(r) - Len(q) + i = m + (e + i)
            <4>1. Len(r) \in Nat /\ m \in Nat /\ e \in Nat /\ i \in Nat /\ Len(q) = Len(r) - m - e
                BY <1>1, <2>3, <2>5, <3>2
            <4> QED BY <4>1
        <3> QED BY <3>3, <3>4
    <2>7. IsSuffix(q, r)
        BY <1>1, <2>4, <2>5, <2>6, Suffix
    <2>8. r[m + e] = Whole
        BY <1>1, <2>1, <2>2, <2>3
    <2> QED BY <2>1, <2>5, <2>7, <2>8 DEF q
<1> HIDE DEF new, n, A
<1>8. Answers(p, Cardinality(A) + 1, new)
    <2>1. p.frame = n
        BY DEF n
    <2>2. p.frame \in AmqpOf(new) /\ new[p.frame] = g
        BY <1>2, <2>1
    <2>3. Cardinality({k \in AmqpOf(new) : k <= p.frame}) = Cardinality(A) + 1
        BY <1>4, <1>5, <2>1
    <2> QED BY <1>6, <1>7, <2>2, <2>3 DEF Answers
<1> QED BY <1>8 DEF new, A


\* Frames are indicated, and callbacks made, at the end of a frame only.
LEMMA Quiet ==
    ASSUME Shape, [Next]_vars
    PROVE  \/ UNCHANGED <<indicated, amqp>>
           \/ \E n \in 0 .. Len(buffer) : Takes(n) /\ Completes(n) /\ buffer # <<>>
<1>1. ASSUME NEW f, puts(f) PROVE UNCHANGED <<indicated, amqp>>
    BY <1>1 DEF puts
<1>2. ASSUME NEW size, frame_codec_set_max_frame_size(size) PROVE UNCHANGED <<indicated, amqp>>
    BY <1>2 DEF frame_codec_set_max_frame_size
<1>3. ASSUME NEW type, frame_codec_subscribe(type) \/ frame_codec_unsubscribe(type)
      PROVE  UNCHANGED <<indicated, amqp>>
    BY <1>3 DEF frame_codec_subscribe, frame_codec_unsubscribe
<1>4. ASSUME NEW n, frame_codec_receive_bytes(n) PROVE UNCHANGED <<indicated, amqp>>
    BY <1>4 DEF frame_codec_receive_bytes
<1>5. CASE loop_error \/ loop_specific_refused \/ loop_body_refused
    BY <1>5 DEF loop_error, loop_specific_refused, loop_body_refused, drop_rest
<1>6. CASE loop_frame_size \/ loop_doff \/ loop_type_subscribed \/ loop_type_unknown
    BY <1>6 DEF loop_frame_size, loop_doff, loop_type_subscribed, loop_type_unknown
<1>7. CASE loop_type_specific \/ loop_frame_body
    <2>1. PICK n \in 0 .. Len(buffer) : Takes(n) /\ (Skips(n) \/ Collects(n) \/ Completes(n))
        BY <1>7, SpecificSteps, BodySteps
    <2>2. buffer # <<>>
        BY <1>7 DEF loop_type_specific, loop_frame_body
    <2>3. Skips(n) \/ Collects(n) => UNCHANGED <<indicated, amqp>>
        BY DEF Skips, Collects
    <2> QED BY <2>1, <2>2, <2>3
<1>8. CASE UNCHANGED vars
    BY <1>8 DEF vars
<1>9. CASE Next
    BY <1>1, <1>2, <1>3, <1>4, <1>5, <1>6, <1>7, <1>9
       DEF Next, loop, peer_puts, frame_codec_encode_frame
<1> QED BY <1>8, <1>9

\* A frame is complete: it is what the memory holds.
LEMMA Ends ==
    ASSUME Shape, buffer # <<>>, NEW n \in 0 .. Len(buffer), Takes(n), Completes(n)
    PROVE  \E bytes \in Seq(Byte) :
             /\ bytes = receive_frame_bytes \o SubSeq(buffer, 1, n)
             /\ Len(bytes) = receive_frame_size - 6
             /\ indicated' = Append(indicated, Indicated(bytes)) /\ Indicated(bytes) \in Frame
             /\ AmqpStep(bytes) /\ type_specific_size \in 2 .. Len(bytes)
             /\ receive_frame_state' = "FRAME_SIZE" /\ receive_frame_pos' = 0
             /\ receive_frame_size' = 0
<1> DEFINE b == receive_frame_bytes \o SubSeq(buffer, 1, n)
<1>1. /\ receive_frame_subscription /\ InFrame /\ receive_frame_bytes \in Seq(Byte)
      /\ receive_frame_doff * 4 <= receive_frame_size
      /\ Len(receive_frame_bytes) + n = receive_frame_size - 6 /\ frame_complete(b)
    BY DEF Completes, Shape, Memory
<1>2. SubSeq(buffer, 1, n) \in Seq(Byte) /\ Len(SubSeq(buffer, 1, n)) = n
    BY BufferBytes, Cut
<1>3. b \in Seq(Byte) /\ Len(b) = receive_frame_size - 6
    BY <1>1, <1>2, Cat
<1> HIDE DEF b
<1>4. /\ indicated' = Append(indicated, Indicated(b)) /\ Indicated(b) \in Frame
      /\ AmqpStep(b) /\ type_specific_size \in 2 .. Len(b)
      /\ receive_frame_state' = "FRAME_SIZE" /\ receive_frame_pos' = 0 /\ receive_frame_size' = 0
    BY <1>1, <1>3, Completed
<1> QED BY <1>3, <1>4 DEF b

LEMMA NextCalls ==
    ASSUME Shape, Calls, [Next]_vars
    PROVE  Calls'
<1>1. CASE UNCHANGED <<indicated, amqp>>
    BY <1>1 DEF Calls, amqp
<1>2. ASSUME NEW n \in 0 .. Len(buffer), Takes(n), Completes(n), buffer # <<>>
      PROVE  Calls'
    <2>1. PICK bytes \in Seq(Byte) :
             /\ indicated' = Append(indicated, Indicated(bytes)) /\ Indicated(bytes) \in Frame
             /\ AmqpStep(bytes) /\ type_specific_size \in 2 .. Len(bytes)
        BY <1>2, Ends
    <2> DEFINE g == Indicated(bytes)
               N == Append(indicated, g)
    <2>2. g.rest = bytes /\ g.type = receive_frame_type /\ g \in Frame
        BY <2>1 DEF Indicated
    <2>3. indicated \in Seq(Frame) /\ performatives \in Seq(Callback)
        BY DEF Shape, TypeOK
    <2>4. /\ Cardinality(AmqpOf(indicated)) \in Nat /\ IsFiniteSet(AmqpOf(indicated))
          /\ Len(indicated) + 1 \notin AmqpOf(indicated)
          /\ AmqpOf(N) = IF g.type = FRAME_TYPE_AMQP THEN AmqpOf(indicated) \cup {Len(indicated) + 1}
                         ELSE AmqpOf(indicated)
        BY <2>2, <2>3, AmqpAdded
    <2> HIDE DEF g
    <2>5. \A i \in DOMAIN performatives : Answers(performatives[i], i, N)
        BY <2>2, <2>3, AnswerKept DEF Calls
    <2>6. CASE UNCHANGED amqp
        <3>1. ASSUME decode_state = "DECODE_FRAME" PROVE g.type # FRAME_TYPE_AMQP
            <4>1. CASE receive_frame_type # FRAME_TYPE_AMQP
                BY <2>2, <4>1
            <4>2. ASSUME NEW p \in Callback,
                         Called(p, SubSeq(bytes, 1, type_specific_size),
                                SubSeq(bytes, type_specific_size + 1, Len(bytes)))
                  PROVE  FALSE
                <5>1. performatives' = Append(performatives, p) /\ performatives' = performatives
                    BY <2>6, <4>2 DEF Called, amqp
                <5>2. Len(Append(performatives, p)) = Len(performatives) + 1 /\ Len(performatives) \in Nat
                    BY <2>3
                <5> QED BY <5>1, <5>2
            <4> QED BY <2>1, <3>1, <4>1, <4>2 DEF AmqpStep
        <3>2. decode_state = "DECODE_FRAME" => AmqpOf(N) = AmqpOf(indicated)
            BY <2>4, <3>1
        <3>3. /\ indicated' = N /\ performatives' = performatives /\ decode_state' = decode_state
            BY <2>1, <2>6 DEF amqp, g
        <3> HIDE DEF N
        <3> QED BY <2>5, <3>2, <3>3 DEF Calls
    <2>7. ASSUME receive_frame_type = FRAME_TYPE_AMQP, decode_state = "DECODE_FRAME",
                 NEW p \in Callback,
                 Called(p, SubSeq(bytes, 1, type_specific_size),
                        SubSeq(bytes, type_specific_size + 1, Len(bytes)))
          PROVE  Calls'
        <3> DEFINE L == Len(performatives) + 1
        <3>1. /\ performatives' = Append(performatives, p) /\ p.frame = Len(indicated) + 1
              /\ decode_state' = IF p.kind = "error" THEN "DECODE_ERROR" ELSE "DECODE_FRAME"
            BY <2>7 DEF Called
        <3>2. Len(performatives) = Cardinality(AmqpOf(indicated))
            BY <2>7 DEF Calls
        <3>3. Answers(p, Cardinality(AmqpOf(indicated)) + 1, N)
            <4> DEFINE m == type_specific_size
                       r == g.rest
            <4>1. r = bytes /\ m \in 2 .. Len(r) /\ g \in Frame /\ g.type = FRAME_TYPE_AMQP
                BY <2>1, <2>2, <2>7
            <4>2. /\ p.channel = SubSeq(r, 1, m)[1] * 256 + SubSeq(r, 1, m)[2]
                  /\ p.kind = "performative" =>
                       \E e \in 1 .. Len(SubSeq(r, m + 1, Len(r))) :
                         /\ SubSeq(r, m + 1, Len(r))[e] = Whole
                         /\ p.payload = SubSeq(SubSeq(r, m + 1, Len(r)), e + 1, Len(SubSeq(r, m + 1, Len(r))))
                BY <2>7, <4>1 DEF Called
            <4> HIDE DEF m
            <4> QED BY <2>3, <3>1, <4>1, <4>2, AnswerNew
        <3>4. Cardinality(AmqpOf(N)) = Cardinality(AmqpOf(indicated)) + 1
            BY <2>2, <2>4, <2>7, FS_AddElement
        <3>5. /\ Len(performatives) \in Nat /\ DOMAIN performatives = 1 .. Len(performatives)
              /\ Len(performatives') = L /\ DOMAIN performatives' = 1 .. L
              /\ performatives'[L] = p
              /\ \A i \in 1 .. Len(performatives) : performatives'[i] = performatives[i]
            BY <2>3, <3>1
        <3>6. 1 .. L = (1 .. Len(performatives)) \cup {L}
            BY <3>5
        <3>7. \A i \in 1 .. L : Answers(performatives'[i], i, N)
            BY <2>5, <3>2, <3>3, <3>5, <3>6
        <3>8. \A i \in 1 .. Len(performatives) : performatives[i].kind # "error"
            BY <2>7, <3>5 DEF Calls
        <3>9. \A i \in 1 .. L : performatives'[i].kind = "error" =>
                 i = L /\ decode_state' = "DECODE_ERROR"
            BY <3>1, <3>5, <3>6, <3>8
        <3>10. decode_state' = "DECODE_FRAME" => Len(performatives') = Cardinality(AmqpOf(N))
            BY <3>2, <3>4, <3>5
        <3>11. indicated' = N
            BY <2>1 DEF g
        <3> HIDE DEF L, N
        <3> QED BY <3>5, <3>7, <3>9, <3>10, <3>11 DEF Calls
    <2>8. QED
        BY <2>1, <2>6, <2>7 DEF AmqpStep
<1> QED BY <1>1, <1>2, Quiet

LEMMA InitCalls ==
    ASSUME Init
    PROVE  Calls
<1>1. DOMAIN performatives = {} /\ Len(performatives) = 0
    BY DEF Init
<1>2. AmqpOf(indicated) = {}
    BY DEF Init, AmqpOf
<1> QED BY <1>1, <1>2, FS_EmptySet DEF Calls

\* Whatever the frames hold and however the stream is cut, amqp_frame_codec
\* makes one callback for each AMQP frame it is given, in order, with the channel
\* of the frame and all that follows the performative, and none after the first
\* frame it cannot decode (amqp_frame_codec.c, frame_received).
THEOREM CallbackPerFrame == Spec => []OneCallbackPerFrame
<1>1. Spec => [](Shape /\ Calls)
    BY InitShape, InitCalls, NextShape, NextCalls, PTL DEF Spec
<1>2. ASSUME Calls PROVE OneCallbackPerFrame
    <2>1. amqp_frames = AmqpOf(indicated)
        BY DEF amqp_frames, AmqpOf
    <2> QED BY <1>2, <2>1, ZenonT(60) DEF Calls, Answers, OneCallbackPerFrame
<1> QED BY <1>1, <1>2, PTL


-----------------------------------------------------------------------------
(* The stream and the frames in it *)

\* The number of bytes of the first k frames, when p[k] is the end of the k-th.
Upto(p, k) == IF k = 0 THEN 0 ELSE p[k]

\* S is the bytes of the frames, and p the places where each of them ends.
Laid(S, p, frames) ==
    /\ Len(p) = Len(frames) /\ Upto(p, Len(frames)) = Len(S)
    /\ \A k \in 0 .. Len(frames) : Upto(p, k) \in 0 .. Len(S)
    /\ \A k \in 1 .. Len(frames) :
         /\ Written(frames[k])
         /\ Upto(p, k) = Upto(p, k - 1) + Len(bytes_of(frames[k]))
         /\ \A i \in 1 .. Len(bytes_of(frames[k])) : S[Upto(p, k - 1) + i] = bytes_of(frames[k])[i]

LEMMA UptoNat ==
    ASSUME NEW frames, NEW S \in Seq(Byte), NEW p, NEW k \in 0 .. Len(frames), Laid(S, p, frames)
    PROVE  Upto(p, k) \in Nat /\ Upto(p, k) <= Len(S) /\ Len(S) \in Nat
<1>1. Len(S) \in Nat /\ Upto(p, k) \in 0 .. Len(S)
    BY DEF Laid
<1> QED BY <1>1

\* No frame of eight bytes has a data offset of more than three words.
Short(frames) == \A k \in 1 .. Len(frames) : frames[k].size = 8 => frames[k].doff <= 3

\* What was heard, what the codec has not looked at yet, and what is to come.
Heard(S) ==
    /\ heard + Len(wire) = Len(S) /\ Len(buffer) <= heard
    /\ \A i \in 1 .. Len(wire) : wire[i] = S[heard + i]
    /\ \A i \in 1 .. Len(buffer) : buffer[i] = S[heard - Len(buffer) + i]

Cursor == heard - Len(buffer)

\* The frames that were indicated are among the first k ones, in order.
Ordered(at, k) ==
    /\ at \in [DOMAIN indicated -> 1 .. k]
    /\ \A i \in DOMAIN indicated :
         /\ indicated[i] = sent[at[i]]
         /\ \A j \in 1 .. i - 1 : at[j] < at[i]

\* The codec will not indicate a frame any more: after an error; in a frame
\* whose data offset is past its end; in one without subscription, but for the
\* frame of eight bytes with a data offset of three words.
Lost ==
    \/ receive_frame_state = "ERROR"
    \/ InFrame /\ receive_frame_subscription /\ receive_frame_doff * 4 > receive_frame_size
    \/ /\ InFrame /\ ~receive_frame_subscription
       /\ receive_frame_state = "FRAME_BODY" \/ receive_frame_size # 8 \/ receive_frame_doff = 2

SizeAt(S, o) ==
    S[o + 1] * (256 * 256 * 256) + S[o + 2] * (256 * 256) + S[o + 3] * 256 + S[o + 4]

\* The codec is in the frame that begins after the first o bytes of S.
Synced(S, o) ==
    /\ receive_frame_state = "FRAME_SIZE" =>
         /\ Cursor = o + receive_frame_pos
         /\ receive_frame_pos = 0 => receive_frame_size = 0
         /\ receive_frame_pos = 1 => receive_frame_size = S[o + 1] * (256 * 256 * 256)
         /\ receive_frame_pos = 2 =>
              receive_frame_size = S[o + 1] * (256 * 256 * 256) + S[o + 2] * (256 * 256)
         /\ receive_frame_pos = 3 =>
              receive_frame_size = S[o + 1] * (256 * 256 * 256) + S[o + 2] * (256 * 256) + S[o + 3] * 256
    /\ receive_frame_state # "FRAME_SIZE" => receive_frame_size = SizeAt(S, o)
    /\ receive_frame_state = "DOFF" => Cursor = o + 4
    /\ receive_frame_state = "FRAME_TYPE" => Cursor = o + 5 /\ receive_frame_doff = S[o + 5]
    /\ InFrame => receive_frame_doff = S[o + 5] /\ receive_frame_type = S[o + 6]
    /\ InFrame /\ receive_frame_subscription =>
         /\ Cursor = o + 6 + Len(receive_frame_bytes)
         /\ \A i \in 1 .. Len(receive_frame_bytes) : receive_frame_bytes[i] = S[o + 6 + i]
    /\ InFrame /\ ~receive_frame_subscription =>
         /\ receive_frame_state = "TYPE_SPECIFIC" /\ receive_frame_pos \in 4 .. 5
         /\ receive_frame_size = 8 /\ receive_frame_doff = 3
         /\ Cursor = o + 2 + receive_frame_pos

Tracked(S, p, k, at) ==
    /\ p = ends /\ Laid(S, p, sent) /\ Short(sent) /\ Heard(S) /\ Ordered(at, k)
    /\ Lost \/ Synced(S, Upto(p, k))

Stream ==
    \E S \in Seq(Byte), p \in Seq(Nat), k \in 0 .. Len(sent) :
        \E at : Tracked(S, p, k, at)

\* The four bytes make the size.
LEMMA SizeIs ==
    ASSUME NEW n \in Nat, NEW S, NEW o,
           S[o + 1] = n \div (256 * 256 * 256), S[o + 2] = (n \div (256 * 256)) % 256,
           S[o + 3] = (n \div 256) % 256, S[o + 4] = n % 256
    PROVE  SizeAt(S, o) = n
<1>1. SizeAt(S, o) = (n \div (256 * 256 * 256)) * (256 * 256 * 256)
                       + ((n \div (256 * 256)) % 256) * (256 * 256)
                       + ((n \div 256) % 256) * 256 + (n % 256)
    BY DEF SizeAt
<1> QED BY <1>1, SizeBytes

\* The frame after the first k ones, when there are bytes of it.
LEMMA Here ==
    ASSUME NEW frames \in Seq(Frame), NEW S \in Seq(Byte), NEW p \in Seq(Nat),
           NEW k \in 0 .. Len(frames), Laid(S, p, frames), Upto(p, k) < Len(S)
    PROVE  /\ k + 1 \in 1 .. Len(frames) /\ Upto(p, k + 1) \in 0 .. Len(S)
           /\ frames[k + 1] \in Frame /\ Written(frames[k + 1])
           /\ SizeAt(S, Upto(p, k)) = frames[k + 1].size
           /\ S[Upto(p, k) + 5] = frames[k + 1].doff /\ S[Upto(p, k) + 6] = frames[k + 1].type
           /\ Upto(p, k + 1) = Upto(p, k) + 6 + Len(frames[k + 1].rest)
           /\ \A i \in 1 .. Len(frames[k + 1].rest) : S[Upto(p, k) + 6 + i] = frames[k + 1].rest[i]
<1> DEFINE f == frames[k + 1]
           o == Upto(p, k)
           b == bytes_of(f)
           r == f.rest
<1>1. Len(frames) \in Nat /\ Len(S) \in Nat /\ k \in Nat /\ o \in Nat /\ Upto(p, Len(frames)) = Len(S)
    BY DEF Laid
<1>2. k # Len(frames)
    BY <1>1
<1>3. k + 1 \in 1 .. Len(frames) /\ (k + 1) - 1 = k /\ k + 1 \in 0 .. Len(frames)
    BY <1>1, <1>2
<1>4. /\ f \in Frame /\ Written(f) /\ Upto(p, k + 1) \in 0 .. Len(S)
      /\ Upto(p, k + 1) = Upto(p, (k + 1) - 1) + Len(b)
      /\ \A i \in 1 .. Len(b) : S[Upto(p, (k + 1) - 1) + i] = b[i]
    BY <1>3, SMTT(40) DEF Laid
<1>5. /\ Upto(p, k + 1) = o + Len(b) /\ \A i \in 1 .. Len(b) : S[o + i] = b[i]
    BY <1>3, <1>4
<1> HIDE DEF f, b, o
<1>6. /\ Len(b) = Len(r) + 6
      /\ b[1] = f.size \div (256 * 256 * 256) /\ b[2] = (f.size \div (256 * 256)) % 256
      /\ b[3] = (f.size \div 256) % 256 /\ b[4] = f.size % 256
      /\ b[5] = f.doff /\ b[6] = f.type
      /\ \A i \in 1 .. Len(r) : b[6 + i] = r[i]
    BY <1>4, BytesOf, SMTT(40) DEF b
<1>7. r \in Seq(Byte) /\ Len(r) \in Nat /\ f.size \in Nat
    BY <1>4 DEF Frame
<1> HIDE DEF r
<1>8. /\ 1 \in 1 .. Len(b) /\ 2 \in 1 .. Len(b) /\ 3 \in 1 .. Len(b)
      /\ 4 \in 1 .. Len(b) /\ 5 \in 1 .. Len(b) /\ 6 \in 1 .. Len(b)
    BY <1>6, <1>7
<1>9. /\ S[o + 1] = b[1] /\ S[o + 2] = b[2] /\ S[o + 3] = b[3] /\ S[o + 4] = b[4]
      /\ S[o + 5] = b[5] /\ S[o + 6] = b[6]
    BY <1>5, <1>8
<1>10. SizeAt(S, o) = f.size
    <2>1. /\ S[o + 1] = f.size \div (256 * 256 * 256) /\ S[o + 2] = (f.size \div (256 * 256)) % 256
          /\ S[o + 3] = (f.size \div 256) % 256 /\ S[o + 4] = f.size % 256
        BY <1>6, <1>9
    <2> QED BY <1>7, <2>1, SizeIs, SMTT(40)
<1>11. Upto(p, k + 1) = o + 6 + Len(r)
    BY <1>1, <1>5, <1>6, <1>7
<1>12. ASSUME NEW i \in 1 .. Len(r) PROVE S[o + 6 + i] = r[i]
    <2>1. 6 + i \in 1 .. Len(b) /\ o + (6 + i) = o + 6 + i
        BY <1>1, <1>6, <1>7
    <2> QED BY <1>5, <1>6, <2>1, SMTT(40)
<1> QED BY <1>3, <1>4, <1>6, <1>9, <1>10, <1>11, <1>12 DEF f, o, r

\* Bytes are taken from the front of the buffer.
LEMMA HeardAfter ==
    ASSUME Shape, NEW S \in Seq(Byte), Heard(S), NEW n \in 0 .. Len(buffer),
           buffer' = SubSeq(buffer, n + 1, Len(buffer)), UNCHANGED <<wire, heard>>
    PROVE  /\ Heard(S)' /\ Cursor' = Cursor + n /\ Cursor \in Nat /\ Cursor + n <= Len(S)
           /\ \A i \in 1 .. n : buffer[i] = S[Cursor + i]
<1>1. buffer \in Seq(Byte) /\ Len(buffer) \in Nat /\ n \in Nat /\ n <= Len(buffer) /\ heard \in Nat
      /\ Len(wire) \in Nat /\ Len(S) \in Nat
    BY DEF Shape, TypeOK
<1>2. /\ heard + Len(wire) = Len(S) /\ Len(buffer) <= heard
      /\ \A i \in 1 .. Len(wire) : wire[i] = S[heard + i]
      /\ \A i \in 1 .. Len(buffer) : buffer[i] = S[heard - Len(buffer) + i]
    BY DEF Heard
<1>3. Len(buffer') = Len(buffer) - n /\ \A i \in 1 .. Len(buffer) - n : buffer'[i] = buffer[n + i]
    BY <1>1, Cut
<1> DEFINE L == Len(buffer)
           M == Len(buffer')
<1>4. /\ L \in Nat /\ n \in Nat /\ n <= L /\ heard \in Nat /\ M = L - n /\ L <= heard
      /\ \A i \in 1 .. L - n : buffer'[i] = buffer[n + i]
      /\ \A i \in 1 .. L : buffer[i] = S[heard - L + i]
    BY <1>1, <1>2, <1>3
<1> HIDE DEF L, M
<1>5. /\ \A i \in 1 .. M : buffer'[i] = S[heard - M + i]
      /\ heard - M = heard - L + n /\ M <= heard
    <2>1. ASSUME NEW i \in 1 .. M PROVE buffer'[i] = S[heard - M + i]
        <3>1. i \in 1 .. L - n /\ n + i \in 1 .. L /\ heard - L + (n + i) = heard - M + i
            BY <1>4
        <3> QED BY <1>4, <3>1
    <2>2. L \in Nat /\ n \in Nat /\ n <= L /\ heard \in Nat /\ M = L - n /\ L <= heard
        BY <1>4
    <2>3. heard - M = heard - L + n /\ M <= heard
        BY <2>2
    <2> QED BY <2>1, <2>3
<1> USE DEF L, M
<1>6. Heard(S)'
    BY <1>2, <1>5 DEF Heard
<1>7. Cursor' = Cursor + n
    BY <1>5 DEF Cursor
<1>8. Cursor \in Nat /\ Cursor + n <= Len(S)
    BY <1>1, <1>2 DEF Cursor
<1>9. \A i \in 1 .. n : buffer[i] = S[Cursor + i]
    <2>1. \A i \in 1 .. n : i \in 1 .. Len(buffer)
        BY <1>1
    <2> QED BY <1>2, <2>1 DEF Cursor
<1> QED BY <1>6, <1>7, <1>8, <1>9

\* One byte is looked at.
LEMMA HeardByte ==
    ASSUME Shape, NEW S \in Seq(Byte), Heard(S), buffer # <<>>,
           buffer' = Tail(buffer), UNCHANGED <<wire, heard>>
    PROVE  /\ Heard(S)' /\ Cursor' = Cursor + 1 /\ Cursor \in Nat /\ Cursor + 1 <= Len(S)
           /\ Head(buffer) = S[Cursor + 1] /\ S[Cursor + 1] \in Nat
<1>1. buffer \in Seq(Byte) /\ Len(buffer) \in Nat /\ Len(buffer) # 0 /\ Head(buffer) = buffer[1]
    BY BufferBytes
<1>2. Tail(buffer) = SubSeq(buffer, 1 + 1, Len(buffer))
    BY <1>1
<1>3. 1 \in 0 .. Len(buffer) /\ 1 \in 1 .. 1
    BY <1>1
<1>4. /\ Heard(S)' /\ Cursor' = Cursor + 1 /\ Cursor \in Nat /\ Cursor + 1 <= Len(S)
      /\ \A i \in 1 .. 1 : buffer[i] = S[Cursor + i]
    BY <1>2, <1>3, HeardAfter
<1>5. S[Cursor + 1] \in Byte
    BY <1>4
<1> QED BY <1>1, <1>3, <1>4, <1>5, ByteNat

LEMMA SizeSync ==
    ASSUME Shape, NEW S \in Seq(Byte), NEW o \in Nat, Heard(S), Synced(S, o), loop_frame_size
    PROVE  Heard(S)' /\ (Lost' \/ Synced(S, o)')
<1>1. /\ receive_frame_state = "FRAME_SIZE" /\ buffer # <<>> /\ buffer' = Tail(buffer)
      /\ UNCHANGED <<wire, heard>> /\ receive_frame_pos' = receive_frame_pos + 1
      /\ receive_frame_size' = receive_frame_size + Head(buffer) * weights[receive_frame_pos + 1]
      /\ \/ receive_frame_pos + 1 < 4 /\ receive_frame_state' = receive_frame_state
         \/ receive_frame_pos + 1 >= 4 /\ receive_frame_state' \in {"ERROR", "DOFF"}
    <2>1. receive_frame_pos \in Nat
        BY DEF Shape, TypeOK
    <2> QED BY <2>1 DEF loop_frame_size, decode_error
<1>2. /\ Heard(S)' /\ Cursor' = Cursor + 1 /\ Cursor \in Nat /\ Cursor + 1 <= Len(S)
      /\ Head(buffer) = S[Cursor + 1] /\ S[Cursor + 1] \in Nat
    BY <1>1, HeardByte
<1>3. /\ receive_frame_pos \in 0 .. 3 /\ Cursor = o + receive_frame_pos
      /\ receive_frame_size \in Nat
    BY <1>1 DEF Shape, Position, Synced, TypeOK
<1>4. CASE receive_frame_state' = "ERROR"
    BY <1>2, <1>4 DEF Lost
<1>5. CASE receive_frame_state' = "DOFF"
    <2>1. receive_frame_pos = 3
        BY <1>1, <1>3, <1>5
    <2>2. receive_frame_size = S[o + 1] * (256 * 256 * 256) + S[o + 2] * (256 * 256) + S[o + 3] * 256
        BY <1>1, <2>1 DEF Synced
    <2>3. Cursor + 1 = o + 4 /\ Cursor' = o + 4 /\ weights[receive_frame_pos + 1] = 1
        BY <1>2, <1>3, <2>1 DEF weights
    <2>4. receive_frame_size' = receive_frame_size + S[o + 4]
        BY <1>1, <1>2, <2>3
    <2>5. receive_frame_size' = SizeAt(S, o)
        BY <2>2, <2>4 DEF SizeAt
    <2>6. Synced(S, o)'
        BY <1>5, <2>3, <2>5 DEF Synced, InFrame
    <2> QED BY <1>2, <2>6
<1>6. CASE receive_frame_state' = "FRAME_SIZE"
    <2>1. Cursor' = o + receive_frame_pos' /\ receive_frame_pos' # 0
        BY <1>1, <1>2, <1>3
    <2>2. CASE receive_frame_pos = 0
        <3>1. receive_frame_size = 0 /\ Cursor + 1 = o + 1 /\ weights[receive_frame_pos + 1] = 256 * 256 * 256
            BY <1>1, <1>3, <2>2 DEF Synced, weights
        <3>2. receive_frame_size' = S[o + 1] * (256 * 256 * 256)
            BY <1>1, <1>2, <3>1
        <3>3. Synced(S, o)'
            BY <1>1, <1>6, <2>1, <2>2, <3>2 DEF Synced, InFrame
        <3> QED BY <1>2, <3>3
    <2>3. CASE receive_frame_pos = 1
        <3>1. /\ receive_frame_size = S[o + 1] * (256 * 256 * 256) /\ Cursor + 1 = o + 2
              /\ weights[receive_frame_pos + 1] = 256 * 256
            BY <1>1, <1>3, <2>3 DEF Synced, weights
        <3>2. receive_frame_size' = S[o + 1] * (256 * 256 * 256) + S[o + 2] * (256 * 256)
            BY <1>1, <1>2, <3>1
        <3>3. receive_frame_pos' = 2
            BY <1>1, <2>3
        <3>4. Synced(S, o)'
            BY <1>6, <2>1, <3>2, <3>3 DEF Synced, InFrame
        <3> QED BY <1>2, <3>4
    <2>4. CASE receive_frame_pos = 2
        <3>1. /\ receive_frame_size = S[o + 1] * (256 * 256 * 256) + S[o + 2] * (256 * 256)
              /\ Cursor + 1 = o + 3 /\ weights[receive_frame_pos + 1] = 256
            BY <1>1, <1>3, <2>4 DEF Synced, weights
        <3>2. receive_frame_size' = S[o + 1] * (256 * 256 * 256) + S[o + 2] * (256 * 256) + S[o + 3] * 256
            BY <1>1, <1>2, <3>1, SMTT(40)
        <3>3. receive_frame_pos' = 3
            BY <1>1, <2>4
        <3>4. Synced(S, o)'
            BY <1>6, <2>1, <3>2, <3>3 DEF Synced, InFrame
        <3> QED BY <1>2, <3>4
    <2> QED BY <1>1, <1>3, <1>6, <2>2, <2>3, <2>4
<1> QED BY <1>1, <1>4, <1>5, <1>6


LEMMA DoffSync ==
    ASSUME Shape, NEW S \in Seq(Byte), NEW o \in Nat, Heard(S), Synced(S, o), loop_doff
    PROVE  Heard(S)' /\ (Lost' \/ Synced(S, o)')
<1>1. /\ receive_frame_state = "DOFF" /\ buffer # <<>> /\ buffer' = Tail(buffer)
      /\ UNCHANGED <<wire, heard>> /\ receive_frame_doff' = Head(buffer)
      /\ receive_frame_size' = receive_frame_size
      /\ receive_frame_state' \in {"ERROR", "FRAME_TYPE"}
    BY DEF loop_doff, decode_error
<1>2. /\ Heard(S)' /\ Cursor' = Cursor + 1 /\ Cursor \in Nat /\ Head(buffer) = S[Cursor + 1]
    BY <1>1, HeardByte
<1>3. Cursor = o + 4 /\ receive_frame_size = SizeAt(S, o)
    BY <1>1 DEF Synced
<1>4. Cursor' = o + 5 /\ receive_frame_doff' = S[o + 5]
    <2>1. Cursor + 1 = o + 5
        BY <1>3
    <2> QED BY <1>1, <1>2, <2>1
<1>5. CASE receive_frame_state' = "ERROR"
    BY <1>2, <1>5 DEF Lost
<1>6. CASE receive_frame_state' = "FRAME_TYPE"
    <2>1. Synced(S, o)'
        BY <1>1, <1>3, <1>4, <1>6 DEF Synced, InFrame
    <2> QED BY <1>2, <2>1
<1> QED BY <1>1, <1>5, <1>6

LEMMA TypeSync ==
    ASSUME Shape, NEW S \in Seq(Byte), NEW o \in Nat, Heard(S), Synced(S, o),
           loop_type_subscribed \/ loop_type_unknown,
           SizeAt(S, o) = 8 => S[o + 5] <= 3
    PROVE  Heard(S)' /\ (Lost' \/ Synced(S, o)')
<1>1. /\ receive_frame_state = "FRAME_TYPE" /\ buffer # <<>> /\ buffer' = Tail(buffer)
      /\ UNCHANGED <<wire, heard>> /\ receive_frame_type' = Head(buffer)
      /\ receive_frame_size' = receive_frame_size /\ receive_frame_doff' = receive_frame_doff
    BY DEF loop_type_subscribed, loop_type_unknown
<1>2. /\ Heard(S)' /\ Cursor' = Cursor + 1 /\ Cursor \in Nat /\ Head(buffer) = S[Cursor + 1]
    BY <1>1, HeardByte
<1>3. /\ Cursor = o + 5 /\ receive_frame_size = SizeAt(S, o) /\ receive_frame_doff = S[o + 5]
      /\ receive_frame_pos = 4 /\ receive_frame_doff \in Nat /\ receive_frame_doff >= 2
    BY <1>1, ByteNat DEF Synced, Shape, Position, TypeOK
<1>4. Cursor' = o + 6 /\ receive_frame_type' = S[o + 6]
    <2>1. Cursor + 1 = o + 6
        BY <1>3
    <2> QED BY <1>1, <1>2, <2>1
<1>5. CASE loop_type_subscribed
    <2>1. /\ receive_frame_subscription' = TRUE
          /\ \/ receive_frame_state' = "TYPE_SPECIFIC" /\ receive_frame_bytes' = <<>>
             \/ receive_frame_state' = "ERROR"
        BY <1>5 DEF loop_type_subscribed, decode_error
    <2>2. CASE receive_frame_state' = "ERROR"
        BY <1>2, <2>2 DEF Lost
    <2>3. CASE receive_frame_state' = "TYPE_SPECIFIC" /\ receive_frame_bytes' = <<>>
        <3>1. Len(receive_frame_bytes') = 0 /\ Cursor' = o + 6 + 0
            BY <1>4, <2>3
        <3>2. \A i \in 1 .. Len(receive_frame_bytes') : receive_frame_bytes'[i] = S[o + 6 + i]
            BY <3>1
        <3>3. Cursor' = o + 6 + Len(receive_frame_bytes')
            BY <3>1
        <3>4. Synced(S, o)'
            BY <1>1, <1>3, <1>4, <2>1, <2>3, <3>2, <3>3 DEF Synced, InFrame
        <3> QED BY <1>2, <3>4
    <2> QED BY <2>1, <2>2, <2>3
<1>6. CASE loop_type_unknown
    <2>1. /\ receive_frame_subscription' = FALSE /\ receive_frame_state' = "TYPE_SPECIFIC"
          /\ receive_frame_pos' = 4
        BY <1>3, <1>6 DEF loop_type_unknown
    <2>2. CASE receive_frame_size # 8 \/ receive_frame_doff = 2
        BY <1>1, <1>2, <2>1, <2>2 DEF Lost, InFrame
    <2>3. CASE receive_frame_size = 8 /\ receive_frame_doff # 2
        <3>1. receive_frame_doff' = 3 /\ receive_frame_size' = 8 /\ Cursor' = o + 2 + receive_frame_pos'
            BY <1>1, <1>3, <1>4, <2>1, <2>3
        <3>2. receive_frame_pos' \in 4 .. 5
            BY <2>1
        <3>3. Synced(S, o)'
            BY <1>1, <1>3, <1>4, <2>1, <3>1, <3>2 DEF Synced, InFrame
        <3> QED BY <1>2, <3>3
    <2> QED BY <2>2, <2>3
<1> QED BY <1>5, <1>6

\* A codec that is lost stays lost.
LEMMA LostStays ==
    ASSUME Shape, Lost, NEW n \in 0 .. Len(buffer), buffer # <<>>, Takes(n),
           Skips(n) \/ Collects(n) \/ Completes(n)
    PROVE  Lost' /\ indicated' = indicated
<1>1. /\ receive_frame_size \in Nat /\ receive_frame_doff \in Nat /\ receive_frame_pos \in Nat
      /\ n \in Nat
    BY ByteNat, BufferBytes DEF Shape, TypeOK
<1>2. /\ receive_frame_doff' = receive_frame_doff
      /\ receive_frame_subscription' = receive_frame_subscription
    BY DEF Takes, Untouched
<1>3. CASE Skips(n)
    <2>1. /\ InFrame /\ ~receive_frame_subscription /\ receive_frame_state = "TYPE_SPECIFIC"
          /\ receive_frame_pos >= 4 /\ indicated' = indicated
        BY <1>3 DEF Skips, InFrame, Shape, Memory
    <2>2. receive_frame_size # 8 \/ receive_frame_doff = 2
        BY <2>1 DEF Lost
    <2>3. \/ receive_frame_state' = "TYPE_SPECIFIC" /\ receive_frame_size' = receive_frame_size
          \/ receive_frame_pos + n = type_specific_size /\ receive_frame_size = 8
          \/ receive_frame_state' = "FRAME_BODY"
        BY <1>3, <2>1 DEF Skips
    <2>4. ~(receive_frame_pos + n = type_specific_size /\ receive_frame_size = 8)
        BY <1>1, <2>1, <2>2 DEF type_specific_size
    <2> QED BY <1>2, <2>1, <2>2, <2>3, <2>4 DEF Lost, InFrame
<1>4. CASE Collects(n)
    <2>1. receive_frame_subscription /\ InFrame /\ indicated' = indicated
        BY <1>4 DEF Collects, InFrame
    <2>2. receive_frame_doff * 4 > receive_frame_size
        BY <2>1 DEF Lost, InFrame
    <2>3. receive_frame_size' = receive_frame_size /\ receive_frame_state' \in {"TYPE_SPECIFIC", "FRAME_BODY"}
        BY <1>4 DEF Collects
    <2> QED BY <1>2, <2>1, <2>2, <2>3 DEF Lost, InFrame
<1>5. CASE Completes(n)
    <2>1. receive_frame_subscription /\ InFrame /\ receive_frame_doff * 4 <= receive_frame_size
        BY <1>5 DEF Completes
    <2>2. receive_frame_doff * 4 > receive_frame_size
        BY <2>1 DEF Lost, InFrame
    <2> QED BY <1>1, <2>1, <2>2
<1> QED BY <1>3, <1>4, <1>5

\* Bytes of a frame with subscription, but the last ones.
LEMMA CollectSync ==
    ASSUME Shape, NEW S \in Seq(Byte), NEW o \in Nat, Heard(S), Synced(S, o),
           NEW n \in 0 .. Len(buffer), buffer # <<>>, Takes(n), Collects(n)
    PROVE  Heard(S)' /\ Synced(S, o)'
<1>1. /\ Heard(S)' /\ Cursor' = Cursor + n /\ Cursor \in Nat
      /\ \A i \in 1 .. n : buffer[i] = S[Cursor + i]
    BY HeardAfter DEF Takes, Untouched
<1>2. buffer \in Seq(Byte) /\ n \in Nat
    BY BufferBytes
<1>3. /\ SubSeq(buffer, 1, n) \in Seq(Byte) /\ Len(SubSeq(buffer, 1, n)) = n
      /\ \A i \in 1 .. n : SubSeq(buffer, 1, n)[i] = buffer[i]
    BY <1>2, Cut
<1> DEFINE b == receive_frame_bytes
           t == SubSeq(buffer, 1, n)
           L == Len(b)
<1>4. receive_frame_subscription /\ InFrame /\ b \in Seq(Byte) /\ L \in Nat
    BY DEF Collects, InFrame, Shape, Memory
<1>5. /\ Cursor = o + 6 + L /\ \A i \in 1 .. L : b[i] = S[o + 6 + i]
      /\ receive_frame_doff = S[o + 5] /\ receive_frame_type = S[o + 6]
      /\ receive_frame_size = SizeAt(S, o)
    BY <1>4 DEF Synced, InFrame
<1>6. /\ receive_frame_bytes' = b \o t /\ receive_frame_size' = receive_frame_size
      /\ receive_frame_state' \in {"TYPE_SPECIFIC", "FRAME_BODY"}
      /\ receive_frame_doff' = receive_frame_doff /\ receive_frame_type' = receive_frame_type
      /\ receive_frame_subscription' = receive_frame_subscription
    BY DEF Collects, Takes, Untouched
<1> HIDE DEF t
<1>7. /\ Len(b \o t) = L + Len(t)
      /\ \A i \in 1 .. L : (b \o t)[i] = b[i]
      /\ \A i \in 1 .. Len(t) : (b \o t)[L + i] = t[i]
    BY <1>3, <1>4, Cat DEF t
<1>8. Len(t) = n /\ \A i \in 1 .. n : t[i] = S[Cursor + i]
    BY <1>1, <1>3 DEF t
<1> DEFINE c == b \o t
<1>9. /\ Len(c) = L + n /\ \A i \in 1 .. L : c[i] = S[o + 6 + i]
      /\ \A i \in 1 .. n : c[L + i] = S[o + 6 + L + i]
    BY <1>5, <1>7, <1>8
<1> HIDE DEF c, L
<1>10. ASSUME NEW i \in 1 .. L + n PROVE c[i] = S[o + 6 + i]
    <2>1. CASE i \in 1 .. L
        BY <1>9, <2>1
    <2>2. CASE i \notin 1 .. L
        <3>1. i - L \in 1 .. n /\ L + (i - L) = i /\ o + 6 + L + (i - L) = o + 6 + i
            BY <1>2, <1>4, <2>2
        <3> QED BY <1>9, <3>1
    <2> QED BY <2>1, <2>2
<1>11. Cursor' = o + 6 + Len(c)
    BY <1>1, <1>2, <1>4, <1>5, <1>9 DEF L
<1>12. receive_frame_bytes' = c
    BY <1>6 DEF c
<1>13. \A i \in 1 .. Len(receive_frame_bytes') : receive_frame_bytes'[i] = S[o + 6 + i]
    BY <1>9, <1>10, <1>12
<1>14. Synced(S, o)'
    BY <1>4, <1>5, <1>6, <1>11, <1>12, <1>13 DEF Synced, InFrame
<1> QED BY <1>1, <1>14


\* The codec is between two frames.
LEMMA Between ==
    ASSUME NEW S, NEW o, receive_frame_state' = "FRAME_SIZE", receive_frame_pos' = 0,
           receive_frame_size' = 0, Cursor' = o, o \in Nat
    PROVE  Synced(S, o)'
BY DEF Synced, InFrame

\* Bytes of a frame without subscription.
LEMMA SkipSync ==
    ASSUME Shape, NEW S \in Seq(Byte), NEW p \in Seq(Nat), NEW k \in 0 .. Len(sent),
           Laid(S, p, sent), Heard(S), ~Lost, Synced(S, Upto(p, k)),
           NEW n \in 0 .. Len(buffer), buffer # <<>>, Takes(n), Skips(n)
    PROVE  /\ Heard(S)'
           /\ \/ Lost' \/ Synced(S, Upto(p, k))'
              \/ k + 1 \in 1 .. Len(sent) /\ Synced(S, Upto(p, k + 1))'
<1> DEFINE o == Upto(p, k)
<1>1. /\ Heard(S)' /\ Cursor' = Cursor + n /\ Cursor \in Nat /\ Cursor + n <= Len(S)
    BY HeardAfter DEF Takes, Untouched
<1>2. o \in Nat /\ n \in Nat /\ Len(S) \in Nat
    BY BufferBytes, UptoNat
<1>3. /\ receive_frame_state = "TYPE_SPECIFIC" /\ InFrame /\ ~receive_frame_subscription
    BY DEF Skips, InFrame
<1>4. /\ receive_frame_pos \in 4 .. 5 /\ receive_frame_size = 8 /\ receive_frame_doff = 3
      /\ Cursor = o + 2 + receive_frame_pos
      /\ SizeAt(S, o) = 8 /\ receive_frame_doff = S[o + 5] /\ receive_frame_type = S[o + 6]
    BY <1>3 DEF Synced, InFrame
<1>5. type_specific_size = 6
    BY <1>4 DEF type_specific_size
<1>6. /\ receive_frame_doff' = receive_frame_doff /\ receive_frame_type' = receive_frame_type
      /\ receive_frame_subscription' = receive_frame_subscription
    BY DEF Takes, Untouched
<1>7. \/ /\ type_specific_size < receive_frame_pos \/ receive_frame_pos + n < type_specific_size
         /\ receive_frame_pos' = receive_frame_pos + n
         /\ UNCHANGED <<receive_frame_state, receive_frame_size>>
      \/ /\ receive_frame_pos + n = type_specific_size
         /\ receive_frame_pos' = 0 /\ receive_frame_state' = "FRAME_SIZE" /\ receive_frame_size' = 0
      \/ receive_frame_state' = "FRAME_BODY"
    BY DEF Skips
<1>8. CASE /\ type_specific_size < receive_frame_pos \/ receive_frame_pos + n < type_specific_size
           /\ receive_frame_pos' = receive_frame_pos + n
           /\ UNCHANGED <<receive_frame_state, receive_frame_size>>
    <2>1. receive_frame_pos' \in 4 .. 5 /\ Cursor' = o + 2 + receive_frame_pos'
        BY <1>1, <1>2, <1>4, <1>5, <1>8, SMTT(40)
    <2>2. Synced(S, o)'
        BY <1>3, <1>4, <1>6, <1>8, <2>1 DEF Synced, InFrame
    <2> QED BY <1>1, <2>2
<1>9. CASE /\ receive_frame_pos + n = type_specific_size
           /\ receive_frame_pos' = 0 /\ receive_frame_state' = "FRAME_SIZE" /\ receive_frame_size' = 0
    <2> HIDE DEF o
    <2>1. sent \in Seq(Frame) /\ Upto(p, k) < Len(S)
        <3>1. sent \in Seq(Frame)
            BY DEF Shape, TypeOK
        <3>2. o < Len(S)
            BY <1>1, <1>2, <1>4
        <3> QED BY <3>1, <3>2 DEF o
    <2>2. /\ k + 1 \in 1 .. Len(sent) /\ Upto(p, k + 1) \in 0 .. Len(S) /\ Written(sent[k + 1])
          /\ SizeAt(S, Upto(p, k)) = sent[k + 1].size
          /\ Upto(p, k + 1) = Upto(p, k) + 6 + Len(sent[k + 1].rest)
        BY <2>1, Here
    <2>3. Len(sent[k + 1].rest) = 8 - 6
        <3>1. sent[k + 1].size = 8
            BY <1>4, <2>2 DEF o
        <3>2. sent[k + 1].size >= 8 => Len(sent[k + 1].rest) = sent[k + 1].size - 6
            BY <2>2, Zenon DEF Written, FRAME_HEADER_SIZE
        <3> QED BY <3>1, <3>2
    <2>4. Upto(p, k + 1) = o + 6 + (8 - 6) /\ Upto(p, k + 1) \in Nat
        BY <1>2, <2>2, <2>3 DEF o
    <2>5. Cursor' = Upto(p, k + 1)
        <3>1. /\ Cursor' = Cursor + n /\ Cursor = o + 2 + receive_frame_pos
              /\ receive_frame_pos + n = 6 /\ receive_frame_pos \in Nat
            BY <1>1, <1>4, <1>5, <1>9
        <3>2. o + 2 + receive_frame_pos + n = o + 6 + (8 - 6)
            BY <1>2, <3>1
        <3> QED BY <2>4, <3>1, <3>2
    <2>6. Synced(S, Upto(p, k + 1))'
        BY <1>9, <2>4, <2>5, Between
    <2> QED BY <1>1, <2>2, <2>6
<1>10. CASE receive_frame_state' = "FRAME_BODY"
    BY <1>1, <1>3, <1>6, <1>10 DEF Lost, InFrame
<1> QED BY <1>7, <1>8, <1>9, <1>10

\* The last bytes of a frame with subscription: it is the next one of the stream.
LEMMA EndSync ==
    ASSUME Shape, NEW S \in Seq(Byte), NEW p \in Seq(Nat), NEW k \in 0 .. Len(sent),
           Laid(S, p, sent), Heard(S), Synced(S, Upto(p, k)),
           NEW n \in 0 .. Len(buffer), buffer # <<>>, Takes(n), Completes(n)
    PROVE  /\ Heard(S)' /\ k + 1 \in 1 .. Len(sent) /\ Synced(S, Upto(p, k + 1))'
           /\ indicated' = Append(indicated, sent[k + 1])
<1> DEFINE o == Upto(p, k)
           f == sent[k + 1]
           b == receive_frame_bytes
           t == SubSeq(buffer, 1, n)
           L == Len(b)
<1>1. /\ Heard(S)' /\ Cursor' = Cursor + n /\ Cursor \in Nat /\ Cursor + n <= Len(S)
      /\ \A i \in 1 .. n : buffer[i] = S[Cursor + i]
    BY HeardAfter DEF Takes, Untouched
<1>2. o \in Nat /\ n \in Nat /\ Len(S) \in Nat /\ buffer \in Seq(Byte) /\ sent \in Seq(Frame)
    <2>1. sent \in Seq(Frame) /\ buffer \in Seq(Byte)
        BY DEF Shape, TypeOK
    <2>2. o \in Nat /\ Len(S) \in Nat
        BY UptoNat
    <2> QED BY <2>1, <2>2
<1>3. /\ receive_frame_subscription /\ InFrame /\ b \in Seq(Byte) /\ L \in Nat
      /\ L + n = receive_frame_size - 6 /\ receive_frame_size >= 8 /\ receive_frame_size \in Nat
    BY DEF Completes, InFrame, Shape, Memory, Position, TypeOK
<1>4. /\ Cursor = o + 6 + L /\ \A i \in 1 .. L : b[i] = S[o + 6 + i]
      /\ receive_frame_doff = S[o + 5] /\ receive_frame_type = S[o + 6]
      /\ receive_frame_size = SizeAt(S, o)
    BY <1>3 DEF Synced, InFrame
<1>5. Upto(p, k) < Len(S)
    <2> DEFINE l == Len(S)
    <2>1. /\ Cursor = o + 6 + L /\ Cursor + n <= l /\ o \in Nat /\ n \in Nat /\ L \in Nat /\ l \in Nat
        BY <1>1, <1>2, <1>3, <1>4
    <2> HIDE DEF o, L, l
    <2>2. o < l
        BY <2>1
    <2> QED BY <2>2 DEF o, l
<1>6. /\ k + 1 \in 1 .. Len(sent) /\ Upto(p, k + 1) \in 0 .. Len(S) /\ f \in Frame /\ Written(f)
      /\ SizeAt(S, o) = f.size /\ S[o + 5] = f.doff /\ S[o + 6] = f.type
      /\ Upto(p, k + 1) = o + 6 + Len(f.rest)
      /\ \A i \in 1 .. Len(f.rest) : S[o + 6 + i] = f.rest[i]
    BY <1>2, <1>5, Here
<1>7. Len(f.rest) = receive_frame_size - 6 /\ f.rest \in Seq(Byte)
    BY <1>3, <1>4, <1>6 DEF Written, FRAME_HEADER_SIZE, Frame
<1>8. PICK c \in Seq(Byte) :
         /\ c = b \o t
         /\ Len(c) = receive_frame_size - 6
         /\ indicated' = Append(indicated, Indicated(c))
         /\ receive_frame_state' = "FRAME_SIZE" /\ receive_frame_pos' = 0 /\ receive_frame_size' = 0
    BY Ends
<1>9. t \in Seq(Byte) /\ Len(t) = n /\ \A i \in 1 .. n : t[i] = S[Cursor + i]
    <2>1. /\ t \in Seq(Byte) /\ Len(t) = n /\ \A i \in 1 .. n : t[i] = buffer[i]
        BY <1>2, Cut
    <2> QED BY <1>1, <2>1
<1> HIDE DEF t
<1>10. /\ \A i \in 1 .. L : (b \o t)[i] = b[i]
       /\ \A i \in 1 .. Len(t) : (b \o t)[L + i] = t[i]
    BY <1>3, <1>9, Cat
<1>11. /\ \A i \in 1 .. L : c[i] = S[o + 6 + i]
       /\ \A i \in 1 .. n : c[L + i] = S[o + 6 + L + i]
    BY <1>4, <1>8, <1>9, <1>10
<1> HIDE DEF L, b, o
<1>12. ASSUME NEW i \in 1 .. L + n PROVE c[i] = S[o + 6 + i]
    <2>1. CASE i \in 1 .. L
        BY <1>11, <2>1
    <2>2. CASE i \notin 1 .. L
        <3>1. i - L \in 1 .. n /\ L + (i - L) = i /\ o + 6 + L + (i - L) = o + 6 + i
            BY <1>2, <1>3, <2>2
        <3> QED BY <1>11, <3>1
    <2> QED BY <2>1, <2>2
<1> HIDE DEF f
<1>13. c = f.rest
    <2>1. Len(c) = Len(f.rest) /\ Len(c) = L + n
        BY <1>3, <1>7, <1>8
    <2>2. \A i \in 1 .. Len(c) : c[i] = f.rest[i]
        BY <1>6, <1>12, <2>1
    <2> QED BY <1>7, <2>1, <2>2, SeqEqual
<1>14. Indicated(c) = f
    <2>1. Indicated(c) = [size |-> f.size, doff |-> f.doff, type |-> f.type, rest |-> f.rest]
        BY <1>4, <1>6, <1>13 DEF Indicated
    <2> QED BY <1>6, <2>1 DEF Frame
<1>15. Upto(p, k + 1) \in Nat /\ Cursor' = Upto(p, k + 1)
    <2>1. Cursor' = o + 6 + L + n /\ Upto(p, k + 1) = o + 6 + (L + n)
        BY <1>1, <1>3, <1>4, <1>6, <1>7
    <2>2. o + 6 + L + n = o + 6 + (L + n)
        BY <1>2, <1>3
    <2> QED BY <1>6, <2>1, <2>2
<1>16. Synced(S, Upto(p, k + 1))'
    BY <1>8, <1>15, Between
<1> QED BY <1>1, <1>6, <1>8, <1>14, <1>16 DEF f


-----------------------------------------------------------------------------
(* Every step keeps track of the stream. *)

\* The k-th frame may be indicated now or passed over.
LEMMA OrderedMore ==
    ASSUME indicated \in Seq(Frame), NEW k \in Nat, NEW at, Ordered(at, k), sent' = sent,
           \/ indicated' = indicated
           \/ indicated' = Append(indicated, sent[k + 1])
    PROVE  \E at2 : Ordered(at2, k + 1)'
<1>1. /\ at \in [DOMAIN indicated -> 1 .. k]
      /\ \A i \in DOMAIN indicated :
           /\ indicated[i] = sent[at[i]]
           /\ \A j \in 1 .. i - 1 : at[j] < at[i]
    BY DEF Ordered
<1>2. CASE indicated' = indicated
    <2>1. at \in [DOMAIN indicated' -> 1 .. k + 1]
        <3>1. \A i \in DOMAIN indicated : at[i] \in 1 .. k + 1
            BY <1>1
        <3> QED BY <1>1, <1>2, <3>1
    <2>2. Ordered(at, k + 1)'
        BY <1>1, <1>2, <2>1 DEF Ordered
    <2> QED BY <2>2
<1>3. CASE indicated' = Append(indicated, sent[k + 1])
    <2> DEFINE N == Len(indicated)
               new == indicated'
               at2 == [i \in 1 .. N + 1 |-> IF i = N + 1 THEN k + 1 ELSE at[i]]
    <2>1. /\ N \in Nat /\ DOMAIN indicated = 1 .. N /\ DOMAIN new = 1 .. N + 1
          /\ new[N + 1] = sent[k + 1] /\ \A i \in 1 .. N : new[i] = indicated[i]
        BY <1>3
    <2> HIDE DEF new
    <2>2. /\ 1 .. N + 1 = (1 .. N) \cup {N + 1} /\ N + 1 \notin 1 .. N
          /\ \A i \in 1 .. N : at2[i] = at[i]
          /\ at2[N + 1] = k + 1
        BY <2>1
    <2>3. \A i \in 1 .. N : at[i] \in 1 .. k
        BY <1>1, <2>1
    <2>4. at2 \in [1 .. N + 1 -> 1 .. k + 1]
        <3>1. \A i \in 1 .. N : at[i] \in 1 .. k + 1
            BY <2>3
        <3>2. k + 1 \in 1 .. k + 1
            OBVIOUS
        <3> QED BY <2>2, <3>1, <3>2
    <2> HIDE DEF at2
    <2>5. \A i \in 1 .. N + 1 : new[i] = sent[at2[i]]
        BY <1>1, <2>1, <2>2
    <2>6. ASSUME NEW i \in 1 .. N + 1, NEW j \in 1 .. i - 1 PROVE at2[j] < at2[i]
        <3>1. j \in 1 .. N
            BY <2>1
        <3>2. CASE i \in 1 .. N
            BY <1>1, <2>1, <2>2, <3>1, <3>2
        <3>3. CASE i = N + 1
            <4>1. at2[j] \in 1 .. k /\ at2[i] = k + 1
                BY <2>2, <2>3, <3>1, <3>3
            <4> QED BY <4>1
        <3> QED BY <2>2, <3>2, <3>3
    <2>7. PICK a : a = at2
        OBVIOUS
    <2>8. /\ a \in [DOMAIN indicated' -> 1 .. k + 1]
          /\ \A i \in DOMAIN indicated' : indicated'[i] = sent'[a[i]] /\ \A j \in 1 .. i - 1 : a[j] < a[i]
        BY <2>1, <2>4, <2>5, <2>6, <2>7 DEF new
    <2>9. Ordered(a, k + 1)'
        BY <2>8 DEF Ordered
    <2> QED BY <2>9
<1> QED BY <1>2, <1>3

\* Nothing is indicated.
LEMMA OrderedSame ==
    ASSUME NEW k, NEW at, Ordered(at, k), sent' = sent, indicated' = indicated
    PROVE  Ordered(at, k)'
BY DEF Ordered

LEMMA LoopTracked ==
    ASSUME Shape, NEW S \in Seq(Byte), NEW p \in Seq(Nat),
           NEW k \in 0 .. Len(sent), NEW at, Tracked(S, p, k, at), loop
    PROVE  sent' = sent /\ \E k2 \in 0 .. Len(sent) : \E at2 : Tracked(S, p, k2, at2)'
<1> DEFINE o == Upto(p, k)
<1>1. /\ p = ends /\ Laid(S, p, sent) /\ Short(sent) /\ Heard(S) /\ Ordered(at, k)
      /\ Lost \/ Synced(S, o)
    BY DEF Tracked
<1>2. /\ sent \in Seq(Frame) /\ indicated \in Seq(Frame) /\ Len(sent) \in Nat
      /\ o \in Nat /\ k \in Nat /\ Len(S) \in Nat
    <2>1. sent \in Seq(Frame) /\ indicated \in Seq(Frame)
        BY DEF Shape, TypeOK
    <2>2. o \in Nat /\ Len(S) \in Nat
        BY <1>1, UptoNat
    <2> QED BY <2>1, <2>2
<1>3. ASSUME sent' = sent, ends' = ends, indicated' = indicated, Heard(S)', Lost' \/ Synced(S, o)'
      PROVE  \E k2 \in 0 .. Len(sent) : \E at2 : Tracked(S, p, k2, at2)'
    <2>1. Ordered(at, k)'
        BY <1>1, <1>3, OrderedSame
    <2>2. (p = ends)' /\ Laid(S, p, sent)' /\ Short(sent)'
        BY <1>1, <1>3 DEF Laid, Short
    <2>3. Tracked(S, p, k, at)'
        BY <1>3, <2>1, <2>2 DEF Tracked
    <2> QED BY <2>3
<1>4. ASSUME sent' = sent, ends' = ends, Heard(S)', k + 1 \in 1 .. Len(sent), Synced(S, Upto(p, k + 1))',
             indicated' = indicated \/ indicated' = Append(indicated, sent[k + 1])
      PROVE  \E k2 \in 0 .. Len(sent) : \E at2 : Tracked(S, p, k2, at2)'
    <2>1. PICK at2 : Ordered(at2, k + 1)'
        BY <1>1, <1>2, <1>4, OrderedMore
    <2>2. (p = ends)' /\ Laid(S, p, sent)' /\ Short(sent)'
        BY <1>1, <1>4 DEF Laid, Short
    <2>3. Tracked(S, p, k + 1, at2)'
        BY <1>4, <2>1, <2>2 DEF Tracked
    <2>4. k + 1 \in 0 .. Len(sent)
        BY <1>2, <1>4
    <2> QED BY <2>3, <2>4
<1>5. CASE loop_error \/ loop_specific_refused \/ loop_body_refused
    <2>1. drop_rest /\ buffer # <<>>
        BY <1>5 DEF loop_error, loop_specific_refused, loop_body_refused
    <2>2. /\ UNCHANGED codec /\ UNCHANGED <<wire, heard, sent, ends, indicated>> /\ buffer' = <<>>
        BY <2>1 DEF drop_rest
    <2>3. Heard(S)'
        <3>1. Len(buffer') = 0
            BY <2>2
        <3>2. heard \in Nat
            BY DEF Shape, TypeOK
        <3> QED BY <1>1, <2>2, <3>1, <3>2 DEF Heard
    <2>4. Lost
        <3>1. CASE loop_error
            BY <3>1 DEF loop_error, Lost
        <3>2. CASE loop_body_refused
            <4>1. receive_frame_state = "FRAME_BODY" /\ receive_frame_bytes = NoBytes /\ InFrame
                BY <3>2 DEF loop_body_refused, InFrame
            <4>2. ~receive_frame_subscription
                BY <4>1, NoBytesIs DEF Shape, Memory
            <4> QED BY <4>1, <4>2 DEF Lost
        <3>3. CASE loop_specific_refused
            <4> DEFINE n == to_copy(type_specific_size)
            <4>1. /\ receive_frame_state = "TYPE_SPECIFIC" /\ InFrame /\ receive_frame_subscription
                  /\ no_room(n)
                BY <3>3 DEF loop_specific_refused, InFrame
            <4>2. /\ receive_frame_bytes \in Seq(Byte)
                  /\ receive_frame_malloc_size = receive_frame_size - 6
                  /\ receive_frame_pos < type_specific_size
                BY <4>1 DEF Shape, Memory
            <4>3. receive_frame_pos \in Nat /\ receive_frame_size \in Nat /\ receive_frame_doff \in Nat
                BY ByteNat DEF Shape, TypeOK
            <4>4. type_specific_size = receive_frame_doff * 4 - 6 /\ type_specific_size \in Int
                BY <4>3 DEF type_specific_size
            <4>5. receive_frame_pos + n > receive_frame_malloc_size
                BY <4>1, <4>2, NoBytesIs DEF no_room
            <4>6. /\ n \in 0 .. Len(buffer)
                  /\ \/ receive_frame_pos + n = type_specific_size
                     \/ /\ n = Len(buffer)
                        /\ type_specific_size < receive_frame_pos \/ receive_frame_pos + n < type_specific_size
                BY <2>1, <4>4, ToCopy
            <4>7. n \in Nat
                BY <2>1, <4>6, BufferBytes
            <4> HIDE DEF n
            <4>8. receive_frame_pos + n <= type_specific_size
                BY <4>2, <4>3, <4>4, <4>6, <4>7
            <4>9. receive_frame_doff * 4 > receive_frame_size
                BY <4>2, <4>3, <4>4, <4>5, <4>7, <4>8
            <4> QED BY <4>1, <4>9 DEF Lost
        <3> QED BY <1>5, <3>1, <3>2, <3>3
    <2>5. Lost'
        BY <2>2, <2>4 DEF Lost, InFrame, codec
    <2> QED BY <1>3, <2>2, <2>3, <2>5
<1>6. CASE loop_frame_size \/ loop_doff \/ loop_type_subscribed \/ loop_type_unknown
    <2>1. UNCHANGED <<sent, ends, indicated>>
        BY <1>6 DEF loop_frame_size, loop_doff, loop_type_subscribed, loop_type_unknown
    <2>2. ~Lost
        BY <1>6 DEF Lost, InFrame, loop_frame_size, loop_doff, loop_type_subscribed, loop_type_unknown
    <2>3. Synced(S, o)
        BY <1>1, <2>2
    <2>4. ASSUME loop_type_subscribed \/ loop_type_unknown PROVE SizeAt(S, o) = 8 => S[o + 5] <= 3
        <3>1. receive_frame_state = "FRAME_TYPE"
            BY <2>4 DEF loop_type_subscribed, loop_type_unknown
        <3>2. Cursor = o + 5
            BY <2>3, <3>1 DEF Synced
        <3>3. heard \in Nat /\ Len(buffer) \in Nat /\ Len(wire) \in Nat
            BY DEF Shape, TypeOK
        <3>4. heard + Len(wire) = Len(S) /\ Len(buffer) <= heard
            BY <1>1 DEF Heard
        <3>5. Upto(p, k) < Len(S)
            <4> HIDE DEF o
            <4>1. o < Len(S)
                BY <1>2, <3>2, <3>3, <3>4 DEF Cursor
            <4> QED BY <4>1 DEF o
        <3>6. /\ k + 1 \in 1 .. Len(sent)
              /\ SizeAt(S, o) = sent[k + 1].size /\ S[o + 5] = sent[k + 1].doff
            BY <1>1, <1>2, <3>5, Here
        <3>7. sent[k + 1].size = 8 => sent[k + 1].doff <= 3
            BY <1>1, <3>6 DEF Short
        <3> QED BY <3>6, <3>7
    <2> HIDE DEF o
    <2>5. Heard(S)' /\ (Lost' \/ Synced(S, o)')
        BY <1>1, <1>2, <1>6, <2>3, <2>4, SizeSync, DoffSync, TypeSync
    <2> QED BY <1>3, <2>1, <2>5
<1>7. CASE loop_type_specific \/ loop_frame_body
    <2>1. PICK n \in 0 .. Len(buffer) : Takes(n) /\ (Skips(n) \/ Collects(n) \/ Completes(n))
        BY <1>7, SpecificSteps, BodySteps
    <2>2. buffer # <<>> /\ sent' = sent /\ ends' = ends
        BY <1>7, <2>1 DEF loop_type_specific, loop_frame_body
    <2>3. CASE Lost
        <3>1. Lost' /\ indicated' = indicated
            BY <2>1, <2>2, <2>3, LostStays
        <3>2. Heard(S)'
            BY <1>1, <2>1, HeardAfter DEF Takes, Untouched
        <3> QED BY <1>3, <2>2, <3>1, <3>2
    <2>4. CASE ~Lost /\ Skips(n)
        <3>1. indicated' = indicated
            BY <2>4 DEF Skips
        <3>2. /\ Heard(S)'
              /\ \/ Lost' \/ Synced(S, Upto(p, k))'
                 \/ k + 1 \in 1 .. Len(sent) /\ Synced(S, Upto(p, k + 1))'
            BY <1>1, <2>1, <2>2, <2>4, SkipSync
        <3> QED BY <1>3, <1>4, <2>2, <3>1, <3>2
    <2>5. CASE ~Lost /\ Collects(n)
        <3>1. indicated' = indicated
            BY <2>5 DEF Collects
        <3>2. Heard(S)' /\ Synced(S, o)'
            BY <1>1, <1>2, <2>1, <2>2, <2>5, CollectSync
        <3> QED BY <1>3, <2>2, <3>1, <3>2
    <2>6. CASE ~Lost /\ Completes(n)
        <3>1. /\ Heard(S)' /\ k + 1 \in 1 .. Len(sent) /\ Synced(S, Upto(p, k + 1))'
              /\ indicated' = Append(indicated, sent[k + 1])
            BY <1>1, <2>1, <2>2, <2>6, EndSync
        <3> QED BY <1>4, <2>2, <3>1
    <2> QED BY <2>1, <2>2, <2>3, <2>4, <2>5, <2>6
<1> QED BY <1>5, <1>6, <1>7 DEF loop, loop_error, loop_specific_refused, loop_body_refused, drop_rest,
                loop_frame_size, loop_doff, loop_type_subscribed, loop_type_unknown, loop_type_specific,
                loop_frame_body


\* The codec does not move.
LEMMA SameSync ==
    ASSUME NEW S, NEW o, UNCHANGED codec, Cursor' = Cursor
    PROVE  (Lost => Lost') /\ (Synced(S, o) => Synced(S, o)')
BY DEF Lost, Synced, InFrame, codec

\* Bytes are taken from the wire.
LEMMA ReceiveHeard ==
    ASSUME Shape, NEW S \in Seq(Byte), Heard(S), NEW n, frame_codec_receive_bytes(n)
    PROVE  Heard(S)' /\ Cursor' = Cursor
<1>1. /\ buffer = <<>> /\ n \in 1 .. Len(wire) /\ heard' = heard + n
      /\ buffer' = SubSeq(wire, 1, n) /\ wire' = SubSeq(wire, n + 1, Len(wire))
      /\ UNCHANGED codec /\ sent' = sent /\ indicated' = indicated
    BY DEF frame_codec_receive_bytes, Idle
<1> DEFINE W == Len(wire)
           w == wire'
           b == buffer'
           h == heard'
<1>2. wire \in Seq(Byte) /\ W \in Nat /\ heard \in Nat /\ n \in Nat /\ n <= W /\ n \in 0 .. W
    BY <1>1 DEF Shape, TypeOK
<1>3. /\ Len(b) = n /\ Len(w) = W - n /\ h = heard + n
      /\ \A i \in 1 .. n : b[i] = wire[i]
      /\ \A i \in 1 .. W - n : w[i] = wire[n + i]
    BY <1>1, <1>2, Cut
<1>4. /\ heard + W = Len(S) /\ \A i \in 1 .. W : wire[i] = S[heard + i]
    BY DEF Heard
<1> HIDE DEF w, b, h, W
<1>5. h + Len(w) = Len(S) /\ Len(b) <= h /\ h - Len(b) = heard
    <2>1. /\ Len(b) = n /\ Len(w) = W - n /\ h = heard + n /\ heard + W = Len(S)
          /\ W \in Nat /\ n \in Nat /\ heard \in Nat
        BY <1>2, <1>3, <1>4
    <2> QED BY <2>1, SMTT(40)
<1>6. ASSUME NEW i \in 1 .. Len(w) PROVE w[i] = S[h + i]
    <2>1. i \in 1 .. W - n /\ n + i \in 1 .. W /\ heard + (n + i) = h + i
        BY <1>2, <1>3
    <2> QED BY <1>3, <1>4, <2>1
<1>7. ASSUME NEW i \in 1 .. Len(b) PROVE b[i] = S[h - Len(b) + i]
    <2>1. i \in 1 .. n /\ i \in 1 .. W
        BY <1>2, <1>3
    <2> QED BY <1>3, <1>4, <1>5, <2>1
<1>8. Heard(S)'
    BY <1>5, <1>6, <1>7 DEF Heard, w, b, h
<1>9. Cursor' = Cursor
    <2>1. Len(buffer) = 0
        BY <1>1
    <2>2. Cursor = heard
        BY <1>2, <2>1 DEF Cursor
    <2> QED BY <1>5, <2>2 DEF Cursor, b, h
<1> QED BY <1>8, <1>9

LEMMA ReceiveTracked ==
    ASSUME Shape, NEW S \in Seq(Byte), NEW p \in Seq(Nat),
           NEW k \in 0 .. Len(sent), NEW at, Tracked(S, p, k, at),
           NEW n, frame_codec_receive_bytes(n)
    PROVE  sent' = sent /\ Tracked(S, p, k, at)'
<1>1. /\ p = ends /\ Laid(S, p, sent) /\ Short(sent) /\ Heard(S) /\ Ordered(at, k)
      /\ Lost \/ Synced(S, Upto(p, k))
    BY DEF Tracked
<1>2. UNCHANGED codec /\ sent' = sent /\ ends' = ends /\ indicated' = indicated
    BY DEF frame_codec_receive_bytes
<1>3. Heard(S)' /\ Cursor' = Cursor
    BY <1>1, ReceiveHeard
<1>4. Lost' \/ Synced(S, Upto(p, k))'
    BY <1>1, <1>2, <1>3, SameSync
<1>5. (p = ends)' /\ Laid(S, p, sent)' /\ Short(sent)' /\ Ordered(at, k)'
    BY <1>1, <1>2, OrderedSame DEF Laid, Short
<1> QED BY <1>2, <1>3, <1>4, <1>5 DEF Tracked

\* The stream with the bytes of another frame at its end.
LEMMA LaidMore ==
    ASSUME NEW frames \in Seq(Frame), NEW S \in Seq(Byte), NEW p \in Seq(Nat),
           Laid(S, p, frames), NEW f \in Frame, Written(f)
    PROVE  LET q == Append(p, Len(S) + Len(bytes_of(f)))
           IN  /\ Laid(S \o bytes_of(f), q, Append(frames, f))
               /\ \A k \in 0 .. Len(frames) : Upto(q, k) = Upto(p, k)
<1> DEFINE N == Len(frames)
           b == bytes_of(f)
           T == S \o b
           new == Append(frames, f)
           q == Append(p, Len(S) + Len(b))
<1>1. b \in Seq(Byte) /\ Len(b) \in Nat /\ Len(S) \in Nat /\ N \in Nat
    BY BytesOf
<1>2. /\ Len(p) = N /\ Upto(p, N) = Len(S) /\ \A k \in 0 .. N : Upto(p, k) \in 0 .. Len(S)
      /\ \A k \in 1 .. N :
         /\ Written(frames[k])
         /\ Upto(p, k) = Upto(p, k - 1) + Len(bytes_of(frames[k]))
         /\ \A i \in 1 .. Len(bytes_of(frames[k])) : S[Upto(p, k - 1) + i] = bytes_of(frames[k])[i]
    BY DEF Laid
<1>3. Len(new) = N + 1 /\ new[N + 1] = f /\ \A k \in 1 .. N : new[k] = frames[k] /\ frames[k] \in Frame
    OBVIOUS
<1> HIDE DEF b
<1>4. /\ Len(T) = Len(S) + Len(b) /\ \A i \in 1 .. Len(S) : T[i] = S[i]
      /\ \A i \in 1 .. Len(b) : T[Len(S) + i] = b[i]
    BY <1>1, Cat
<1> HIDE DEF T, new
<1>5. /\ Upto(q, N + 1) = Len(S) + Len(b) /\ Len(q) = N + 1
      /\ \A k \in 0 .. N : Upto(q, k) = Upto(p, k)
    <2>1. Len(S) + Len(b) \in Nat /\ N + 1 # 0
        BY <1>1
    <2>2. /\ Len(q) = N + 1 /\ q[N + 1] = Len(S) + Len(b) /\ \A k \in 1 .. N : q[k] = p[k]
        BY <1>1, <1>2, <2>1
    <2> HIDE DEF q
    <2>3. \A k \in 0 .. N : k = 0 \/ k \in 1 .. N
        BY <1>1
    <2> QED BY <2>1, <2>2, <2>3 DEF Upto
<1>6. 1 .. N + 1 = (1 .. N) \cup {N + 1} /\ 0 .. N + 1 = (0 .. N) \cup {N + 1}
    BY <1>1
<1> HIDE DEF q
<1>7. \A k \in 0 .. N + 1 : Upto(q, k) \in 0 .. Len(T)
    <2>1. \A k \in 0 .. N : Upto(q, k) \in 0 .. Len(T)
        BY <1>1, <1>2, <1>4, <1>5
    <2>2. Upto(q, N + 1) \in 0 .. Len(T)
        BY <1>1, <1>4, <1>5
    <2> QED BY <1>6, <2>1, <2>2
<1>8. Len(q) = Len(new) /\ Upto(q, Len(new)) = Len(T)
    BY <1>3, <1>4, <1>5
<1>9. ASSUME NEW k \in 1 .. N
      PROVE  /\ Written(new[k])
             /\ Upto(q, k) = Upto(q, k - 1) + Len(bytes_of(new[k]))
             /\ \A i \in 1 .. Len(bytes_of(new[k])) : T[Upto(q, k - 1) + i] = bytes_of(new[k])[i]
    <2> DEFINE c == bytes_of(frames[k])
    <2>1. new[k] = frames[k] /\ k \in 0 .. N /\ k - 1 \in 0 .. N /\ Upto(q, k) = Upto(p, k) /\ Upto(q, k - 1) = Upto(p, k - 1)
        BY <1>1, <1>3, <1>5
    <2>2. /\ Written(frames[k])
          /\ Upto(p, k) = Upto(p, k - 1) + Len(c) /\ \A i \in 1 .. Len(c) : S[Upto(p, k - 1) + i] = c[i]
        BY <1>2
    <2>3. Len(c) \in Nat /\ Upto(p, k) \in 0 .. Len(S) /\ Upto(p, k - 1) \in 0 .. Len(S)
        <3>1. c \in Seq(Byte)
            BY <1>3, <2>2, BytesOf
        <3> QED BY <1>2, <2>1, <3>1
    <2> HIDE DEF c
    <2>4. ASSUME NEW i \in 1 .. Len(c) PROVE T[Upto(p, k - 1) + i] = c[i]
        <3>1. Upto(p, k - 1) + i \in 1 .. Len(S)
            BY <1>1, <2>2, <2>3
        <3> QED BY <1>4, <2>2, <3>1
    <2> QED BY <2>1, <2>2, <2>4 DEF c
<1>10. /\ Written(new[N + 1])
       /\ Upto(q, N + 1) = Upto(q, (N + 1) - 1) + Len(bytes_of(new[N + 1]))
       /\ \A i \in 1 .. Len(bytes_of(new[N + 1])) : T[Upto(q, (N + 1) - 1) + i] = bytes_of(new[N + 1])[i]
    <2>1. (N + 1) - 1 = N /\ N \in 0 .. N
        BY <1>1
    <2>2. Upto(q, N) = Len(S)
        BY <1>2, <1>5, <2>1
    <2>3. bytes_of(new[N + 1]) = b /\ new[N + 1] = f
        BY <1>3 DEF b
    <2>4. Upto(q, N + 1) = Upto(q, (N + 1) - 1) + Len(b)
        <3>1. Upto(q, (N + 1) - 1) = Len(S) /\ Upto(q, N + 1) = Len(S) + Len(b)
            BY <1>5, <2>1, <2>2, Zenon
        <3> QED BY <3>1, Zenon
    <2>5. \A i \in 1 .. Len(b) : T[Upto(q, (N + 1) - 1) + i] = b[i]
        BY <1>4, <2>1, <2>2
    <2> QED BY <2>3, <2>4, <2>5
<1>11. Laid(T, q, new)
    <2>1. \A k \in 1 .. Len(new) :
            /\ Written(new[k])
            /\ Upto(q, k) = Upto(q, k - 1) + Len(bytes_of(new[k]))
            /\ \A i \in 1 .. Len(bytes_of(new[k])) : T[Upto(q, k - 1) + i] = bytes_of(new[k])[i]
        BY <1>3, <1>6, <1>9, <1>10
    <2>2. \A k \in 0 .. Len(new) : Upto(q, k) \in 0 .. Len(T)
        BY <1>3, <1>7
    <2> QED BY <1>8, <2>1, <2>2 DEF Laid
<1> QED BY <1>5, <1>11 DEF T, new, b, q


LEMMA Regroup ==
    ASSUME NEW a \in Nat, NEW b \in Nat, NEW c \in Nat
    PROVE  a + (b + c) = (a + b) + c /\ (a + b) + (c - b) = a + c
OBVIOUS

\* The codec is in the same frame when the stream becomes longer.
LEMMA SyncMore ==
    ASSUME Shape, NEW S \in Seq(Byte), NEW T, \A i \in 1 .. Len(S) : T[i] = S[i],
           NEW o \in Nat, Cursor \in Nat, Cursor <= Len(S),
           Synced(S, o), ~Lost, UNCHANGED codec, Cursor' = Cursor
    PROVE  Synced(T, o)'
<1>1. Synced(S, o)'
    BY SameSync
<1>2. /\ receive_frame_state' = receive_frame_state /\ receive_frame_pos' = receive_frame_pos
      /\ receive_frame_bytes' = receive_frame_bytes
      /\ receive_frame_subscription' = receive_frame_subscription /\ InFrame' = InFrame
    BY DEF codec, InFrame
<1>3. \A j \in Nat : j >= 1 /\ o + j <= Cursor => T[o + j] = S[o + j]
    <2>1. TAKE j \in Nat
    <2>2. HAVE j >= 1 /\ o + j <= Cursor
    <2>3. o + j \in 1 .. Len(S)
        BY <2>2
    <2> QED BY <2>3
<1>4. CASE receive_frame_state = "FRAME_SIZE"
    <2>1. receive_frame_pos \in 0 .. 3 /\ Cursor = o + receive_frame_pos
        BY <1>4 DEF Shape, Position, Synced
    <2>2. /\ receive_frame_pos >= 1 => T[o + 1] = S[o + 1]
          /\ receive_frame_pos >= 2 => T[o + 2] = S[o + 2]
          /\ receive_frame_pos >= 3 => T[o + 3] = S[o + 3]
        BY <1>3, <2>1
    <2> QED BY <1>1, <1>2, <1>4, <2>1, <2>2 DEF Synced, InFrame
<1>5. CASE receive_frame_state # "FRAME_SIZE"
    <2>1. receive_frame_state \in {"DOFF", "FRAME_TYPE"} \/ InFrame
        BY <1>5 DEF Lost, InFrame, Shape, TypeOK, ReceiveFrameStates
    <2>2. InFrame /\ receive_frame_subscription => Len(receive_frame_bytes) \in Nat
        BY DEF Shape, Memory
    <2>3. Cursor >= o + 4 /\ (receive_frame_state # "DOFF" => Cursor >= o + 5)
          /\ (InFrame => Cursor >= o + 6)
        BY <2>1, <2>2 DEF Synced, InFrame
    <2>4. T[o + 1] = S[o + 1] /\ T[o + 2] = S[o + 2] /\ T[o + 3] = S[o + 3] /\ T[o + 4] = S[o + 4]
        BY <1>3, <2>3
    <2>5. receive_frame_state # "DOFF" => T[o + 5] = S[o + 5]
        BY <1>3, <2>3
    <2>6. InFrame => T[o + 6] = S[o + 6]
        BY <1>3, <2>3
    <2>7. SizeAt(T, o) = SizeAt(S, o)
        BY <2>4, ZenonT(60) DEF SizeAt
    <2>8. ASSUME InFrame, receive_frame_subscription, NEW i \in 1 .. Len(receive_frame_bytes)
          PROVE  T[o + 6 + i] = S[o + 6 + i]
        <3>1. Cursor = o + 6 + Len(receive_frame_bytes)
            BY <2>8 DEF Synced
        <3>2. 6 + i \in Nat /\ 6 + i >= 1 /\ o + (6 + i) <= Cursor /\ o + (6 + i) = o + 6 + i
            <4> DEFINE L == Len(receive_frame_bytes)
            <4>1. L \in Nat /\ i \in 1 .. L /\ Cursor = o + 6 + L
                BY <2>2, <2>8, <3>1
            <4> HIDE DEF L
            <4>2. i \in Nat /\ i <= L
                BY <4>1
            <4> QED BY <4>1, <4>2, SMTT(40)
        <3> QED BY <1>3, <3>2
    <2>9. \A i \in 1 .. Len(receive_frame_bytes) :
            InFrame /\ receive_frame_subscription => receive_frame_bytes[i] = T[o + 6 + i]
        BY <2>8 DEF Synced
    <2>10. /\ receive_frame_size' = SizeAt(T, o)
           /\ receive_frame_state = "DOFF" => Cursor' = o + 4
           /\ receive_frame_state = "FRAME_TYPE" => Cursor' = o + 5 /\ receive_frame_doff' = T[o + 5]
           /\ InFrame => receive_frame_doff' = T[o + 5] /\ receive_frame_type' = T[o + 6]
        BY <1>1, <1>2, <1>5, <2>5, <2>6, <2>7 DEF Synced, InFrame
    <2>11. /\ InFrame /\ receive_frame_subscription => Cursor' = o + 6 + Len(receive_frame_bytes')
           /\ InFrame /\ ~receive_frame_subscription =>
                /\ receive_frame_state' = "TYPE_SPECIFIC" /\ receive_frame_pos' \in 4 .. 5
                /\ receive_frame_size' = 8 /\ receive_frame_doff' = 3
                /\ Cursor' = o + 2 + receive_frame_pos'
        BY <1>1, <1>2 DEF Synced
    <2> QED BY <1>2, <1>5, <2>9, <2>10, <2>11 DEF Synced
<1> QED BY <1>4, <1>5

\* S and p become T and q when a frame is written.
Extends(S, p, T, q) ==
    /\ (q = ends)' /\ Laid(T, q, sent)' /\ Heard(T)'
    /\ \A j \in 0 .. Len(sent) : Upto(q, j) = Upto(p, j)
    /\ \A i \in 1 .. Len(S) : T[i] = S[i]
    /\ Cursor' = Cursor /\ Cursor \in Nat /\ Cursor <= Len(S)

LEMMA PutsHeard ==
    ASSUME Shape, NEW S \in Seq(Byte), NEW p \in Seq(Nat),
           p = ends, Laid(S, p, sent), Heard(S), NEW f \in Frame, Written(f), puts(f)
    PROVE  \E T \in Seq(Byte), q \in Seq(Nat) : Extends(S, p, T, q)
<1> DEFINE b == bytes_of(f)
           T == S \o b
           q == Append(p, Len(S) + Len(b))
<1>1. /\ sent' = Append(sent, f) /\ wire' = wire \o b /\ UNCHANGED codec
      /\ UNCHANGED <<buffer, heard, indicated>> /\ ends' = Append(ends, heard + Len(wire) + Len(b))
    BY DEF puts
<1>2. /\ sent \in Seq(Frame) /\ Len(sent) \in Nat /\ wire \in Seq(Byte) /\ Len(wire) \in Nat
      /\ heard \in Nat /\ Len(buffer) \in Nat /\ indicated \in Seq(Frame)
    <2>1. sent \in Seq(Frame) /\ wire \in Seq(Byte) /\ buffer \in Seq(Byte) /\ heard \in Nat
          /\ indicated \in Seq(Frame)
        BY DEF Shape, TypeOK
    <2> QED BY <2>1
<1>3. b \in Seq(Byte) /\ Len(b) \in Nat /\ Len(S) \in Nat
    <2>1. b \in Seq(Byte)
        BY BytesOf
    <2> QED BY <2>1
<1>4. Laid(T, q, Append(sent, f)) /\ \A j \in 0 .. Len(sent) : Upto(q, j) = Upto(p, j)
    BY <1>2, LaidMore
<1> HIDE DEF b
<1>5. /\ T \in Seq(Byte) /\ Len(T) = Len(S) + Len(b) /\ \A i \in 1 .. Len(S) : T[i] = S[i]
      /\ \A i \in 1 .. Len(b) : T[Len(S) + i] = b[i]
    BY <1>3, Cat
<1>6. /\ Len(wire \o b) = Len(wire) + Len(b) /\ \A i \in 1 .. Len(wire) : (wire \o b)[i] = wire[i]
      /\ \A i \in 1 .. Len(b) : (wire \o b)[Len(wire) + i] = b[i]
    BY <1>2, <1>3, Cat
<1>7. Len(sent') = Len(sent) + 1 /\ \A j \in 1 .. Len(sent) : sent'[j] = sent[j]
    BY <1>1, <1>2
<1> HIDE DEF T
<1> DEFINE w == wire \o b
           W == Len(wire)
           B == Len(buffer)
<1>8. Heard(T)'
    <2>1. /\ heard + W = Len(S) /\ B <= heard
          /\ \A i \in 1 .. W : wire[i] = S[heard + i]
          /\ \A i \in 1 .. B : buffer[i] = S[heard - B + i]
        BY DEF Heard
    <2>2. W \in Nat /\ B \in Nat
        BY <1>2
    <2>3. Len(w) = W + Len(b)
        BY <1>6
    <2>4. \A i \in 1 .. W : w[i] = wire[i]
        BY <1>6
    <2>5. \A i \in 1 .. Len(b) : w[W + i] = b[i]
        BY <1>6
    <2> HIDE DEF w, W, B
    <2>6. heard + Len(w) = Len(T)
        <3>1. /\ heard + W = Len(S) /\ Len(w) = W + Len(b) /\ Len(T) = Len(S) + Len(b)
              /\ heard \in Nat /\ W \in Nat /\ Len(b) \in Nat
            BY <1>2, <1>3, <1>5, <2>1, <2>2, <2>3
        <3>2. heard + (W + Len(b)) = (heard + W) + Len(b)
            BY <3>1, Regroup
        <3> QED BY <3>1, <3>2, Zenon
    <2>7. ASSUME NEW i \in 1 .. B PROVE buffer[i] = T[heard - B + i]
        <3>1. heard - B + i \in 1 .. Len(S)
            BY <1>2, <1>3, <2>1, <2>2, SMTT(40)
        <3> QED BY <1>5, <2>1, <3>1
    <2>8. ASSUME NEW i \in 1 .. W + Len(b) PROVE w[i] = T[heard + i]
        <3>1. CASE i \in 1 .. W
            <4>1. heard + i \in 1 .. Len(S)
                BY <1>2, <1>3, <2>1, <2>2, <3>1, SMTT(40)
            <4> QED BY <1>5, <2>1, <2>4, <3>1, <4>1
        <3>2. CASE i \notin 1 .. W
            <4>1. i - W \in 1 .. Len(b) /\ W + (i - W) = i
                BY <1>3, <2>2, <3>2
            <4>2. Len(S) + (i - W) = heard + i
                <5>1. heard + W = Len(S) /\ i \in Nat /\ heard \in Nat /\ W \in Nat
                    BY <1>2, <1>3, <2>1, <2>2
                <5>2. (heard + W) + (i - W) = heard + i
                    BY <5>1, Regroup
                <5> QED BY <5>1, <5>2, Zenon
            <4>3. w[W + (i - W)] = T[Len(S) + (i - W)]
                BY <1>5, <2>5, <4>1
            <4> QED BY <4>1, <4>2, <4>3
        <3> QED BY <3>1, <3>2
    <2> QED BY <1>1, <2>1, <2>3, <2>6, <2>7, <2>8 DEF Heard, w, B
<1>9. Cursor' = Cursor /\ Cursor \in Nat /\ Cursor <= Len(S)
    <2>1. heard + Len(wire) = Len(S) /\ Len(buffer) <= heard
        BY DEF Heard
    <2> QED BY <1>1, <1>2, <2>1 DEF Cursor
<1>10. q \in Seq(Nat) /\ q = ends'
    <2>1. heard + Len(wire) = Len(S)
        BY DEF Heard
    <2>2. Len(S) + Len(b) \in Nat
        BY <1>3
    <2>3. q = ends'
        BY <1>1, <2>1
    <2>4. q \in Seq(Nat)
        BY <2>2
    <2> QED BY <2>3, <2>4
<1> HIDE DEF q
<1>11. Laid(T, q, sent)'
    BY <1>1, <1>4 DEF Laid
<1>12. Extends(S, p, T, q)
    BY <1>4, <1>5, <1>8, <1>9, <1>11, <1>10 DEF Extends
<1> QED BY <1>5, <1>10, <1>12

LEMMA PutsTracked ==
    ASSUME Shape, NEW S \in Seq(Byte), NEW p \in Seq(Nat),
           NEW k \in 0 .. Len(sent), NEW at, Tracked(S, p, k, at),
           NEW f \in Frame, Written(f), f.size = 8 => f.doff <= 3, puts(f)
    PROVE  Stream'
<1>1. /\ p = ends /\ Laid(S, p, sent) /\ Short(sent) /\ Heard(S) /\ Ordered(at, k)
      /\ Lost \/ Synced(S, Upto(p, k))
    BY DEF Tracked
<1>2. sent' = Append(sent, f) /\ UNCHANGED codec /\ indicated' = indicated
    BY DEF puts
<1>3. sent \in Seq(Frame) /\ Len(sent) \in Nat /\ indicated \in Seq(Frame)
    <2>1. sent \in Seq(Frame) /\ indicated \in Seq(Frame)
        BY DEF Shape, TypeOK
    <2> QED BY <2>1
<1>4. Len(sent') = Len(sent) + 1 /\ \A j \in 1 .. Len(sent) : sent'[j] = sent[j]
    BY <1>2, <1>3
<1>5. PICK T \in Seq(Byte), q \in Seq(Nat) : Extends(S, p, T, q)
    BY <1>1, PutsHeard
<1>6. /\ (q = ends)' /\ Laid(T, q, sent)' /\ Heard(T)'
      /\ Upto(q, k) = Upto(p, k) /\ Upto(p, k) \in Nat
      /\ \A i \in 1 .. Len(S) : T[i] = S[i]
      /\ Cursor' = Cursor /\ Cursor \in Nat /\ Cursor <= Len(S)
    BY <1>1, <1>5, UptoNat DEF Extends
<1>7. Lost' \/ Synced(T, Upto(q, k))'
    <2>1. Lost => Lost'
        BY <1>2, <1>6, SameSync
    <2>2. ASSUME ~Lost PROVE Synced(T, Upto(p, k))'
        BY <1>1, <1>2, <1>6, <2>2, SyncMore
    <2> QED BY <1>6, <2>1, <2>2
<1>8. Ordered(at, k)'
    <2>1. /\ at \in [DOMAIN indicated -> 1 .. k]
          /\ \A i \in DOMAIN indicated :
               indicated[i] = sent[at[i]] /\ \A j \in 1 .. i - 1 : at[j] < at[i]
        BY <1>1 DEF Ordered
    <2>2. \A i \in DOMAIN indicated : at[i] \in 1 .. Len(sent)
        BY <1>3, <2>1
    <2>3. \A i \in DOMAIN indicated : indicated[i] = sent'[at[i]]
        BY <1>4, <2>1, <2>2
    <2> QED BY <1>2, <2>1, <2>3 DEF Ordered
<1>9. Short(sent)'
    <2>1. 1 .. Len(sent') = (1 .. Len(sent)) \cup {Len(sent) + 1} /\ sent'[Len(sent) + 1] = f
        BY <1>2, <1>3
    <2> QED BY <1>1, <1>4, <2>1 DEF Short
<1>10. Tracked(T, q, k, at)'
    BY <1>6, <1>7, <1>8, <1>9 DEF Tracked
<1>11. k \in 0 .. Len(sent')
    BY <1>3, <1>4
<1>12. \E at2 : Tracked(T, q, k, at2)'
    BY <1>10
<1> QED BY <1>11, <1>12 DEF Stream


LEMMA InitLaid ==
    ASSUME sent = <<>>
    PROVE  Laid(<<>>, <<>>, sent)
<1>1. Len(sent) = 0 /\ Len(<<>>) = 0 /\ 1 .. 0 = {} /\ 0 .. 0 = {0}
    OBVIOUS
<1>2. Upto(<<>>, 0) = 0
    BY DEF Upto
<1> QED BY <1>1, <1>2 DEF Laid

LEMMA InitStream ==
    ASSUME Init
    PROVE  Stream
<1> DEFINE p == <<>>
           at == [i \in {} |-> 0]
<1>1. sent = <<>> /\ ends = <<>> /\ indicated = <<>> /\ wire = <<>> /\ buffer = <<>> /\ heard = 0
    BY DEF Init
<1>2. Len(sent) = 0 /\ Len(wire) = 0 /\ Len(buffer) = 0 /\ DOMAIN indicated = {} /\ Len(<<>>) = 0
    BY <1>1
<1>3. <<>> \in Seq(Byte) /\ p \in Seq(Nat) /\ Upto(p, 0) = 0
    BY DEF Upto
<1>4. Laid(<<>>, p, sent)
    BY <1>1, InitLaid
<1>5. Heard(<<>>)
    BY <1>1, <1>2 DEF Heard
<1>6. at \in [{} -> 1 .. 0]
    OBVIOUS
<1> HIDE DEF p, at
<1>7. Ordered(at, 0)
    BY <1>2, <1>6 DEF Ordered
<1>8. Synced(<<>>, Upto(p, 0))
    <2>1. heard - Len(buffer) = 0 /\ 0 = 0 + 0
        <3>1. heard = 0 /\ Len(buffer) = 0 /\ 0 - 0 = 0
            BY <1>1, <1>2
        <3> QED BY <3>1
    <2> QED BY <1>3, <2>1 DEF Synced, Init, InFrame, Cursor
<1>9. Tracked(<<>>, p, 0, at)
    <2>1. Short(sent)
        BY <1>2 DEF Short
    <2>2. p = ends
        BY <1>1 DEF p
    <2> QED BY <1>4, <1>5, <1>7, <1>8, <2>1, <2>2 DEF Tracked
<1>10. p \in Seq(Nat) /\ 0 \in 0 .. Len(sent)
    BY <1>2, <1>3
<1> QED BY <1>3, <1>9, <1>10 DEF Stream

LEMMA NextStream ==
    ASSUME ShortFrames, Shape, Stream, [Next]_vars
    PROVE  Stream'
<1>1. PICK S \in Seq(Byte), p \in Seq(Nat), k \in 0 .. Len(sent) :
        \E at : Tracked(S, p, k, at)
    BY DEF Stream
<1>2. PICK at : Tracked(S, p, k, at)
    BY <1>1
<1>3. ASSUME NEW k2 \in 0 .. Len(sent), NEW at2, Tracked(S, p, k2, at2)', sent' = sent
      PROVE  Stream'
    <2>1. k2 \in 0 .. Len(sent')
        BY <1>3
    <2>2. \E a : Tracked(S, p, k2, a)'
        BY <1>3
    <2> QED BY <2>1, <2>2 DEF Stream
<1>4. ASSUME NEW f \in PeerFrames, peer_puts(f) PROVE Stream'
    <2>1. f \in Frame /\ Written(f) /\ (f.size = 8 => f.doff <= 3) /\ puts(f)
        BY <1>4, Assumptions DEF peer_puts, ShortFrames, FRAME_HEADER_SIZE
    <2> QED BY <1>2, <2>1, PutsTracked
<1>5. ASSUME NEW args \in Outgoing, frame_codec_encode_frame(args) PROVE Stream'
    <2> DEFINE f == encoded(args)
    <2>1. f \in Frame /\ Written(f) /\ f.doff \in 2 .. 255 /\ f.doff * 4 <= f.size
        BY <1>5, EncodedWritten
    <2>2. puts(f)
        BY <1>5 DEF frame_codec_encode_frame
    <2> HIDE DEF f
    <2>3. f.size = 8 => f.doff <= 3
        <3> DEFINE d == f.doff
                   z == f.size
        <3>1. d \in 2 .. 255 /\ d * 4 <= z
            BY <2>1
        <3> HIDE DEF d, z
        <3>2. z = 8 => d <= 3
            BY <3>1
        <3> QED BY <3>2 DEF d, z
    <2> QED BY <1>2, <2>1, <2>2, <2>3, PutsTracked
<1>6. ASSUME UNCHANGED codec, UNCHANGED <<wire, buffer, heard, sent, ends, indicated>> PROVE Stream'
    <2>1. /\ p = ends /\ Laid(S, p, sent) /\ Short(sent) /\ Heard(S) /\ Ordered(at, k)
          /\ Lost \/ Synced(S, Upto(p, k))
        BY <1>2 DEF Tracked
    <2>2. Cursor' = Cursor
        BY <1>6 DEF Cursor
    <2>3. Lost' \/ Synced(S, Upto(p, k))'
        BY <1>6, <2>1, <2>2, SameSync
    <2>4. (p = ends)' /\ Laid(S, p, sent)' /\ Short(sent)' /\ Heard(S)' /\ Ordered(at, k)'
        BY <1>6, <2>1 DEF Laid, Short, Heard, Ordered
    <2>5. Tracked(S, p, k, at)'
        BY <2>3, <2>4 DEF Tracked
    <2> QED BY <1>3, <1>6, <2>5
<1>7. ASSUME NEW size, frame_codec_set_max_frame_size(size) PROVE Stream'
    BY <1>6, <1>7 DEF frame_codec_set_max_frame_size
<1>8. ASSUME NEW type, frame_codec_subscribe(type) \/ frame_codec_unsubscribe(type) PROVE Stream'
    BY <1>6, <1>8 DEF frame_codec_subscribe, frame_codec_unsubscribe
<1>9. ASSUME NEW n, frame_codec_receive_bytes(n) PROVE Stream'
    BY <1>2, <1>3, <1>9, ReceiveTracked
<1>10. CASE loop
    BY <1>2, <1>3, <1>10, LoopTracked
<1>11. CASE UNCHANGED vars
    BY <1>6, <1>11 DEF vars
<1>12. CASE Next
    BY <1>4, <1>5, <1>7, <1>8, <1>9, <1>10, <1>12 DEF Next
<1> QED BY <1>11, <1>12

\* However the stream is cut into calls, and whatever is wrong with the frames in
\* it, what frame_codec_receive_bytes gives to the subscribers is frames that
\* were written, whole and in their order: the codec is at its place in the frame
\* it is in, or will never indicate a frame again.  The frames that other
\* implementations write are such that one of eight bytes has a data offset of
\* at most three words: with more the codec loses its place in the stream.
THEOREM AsSent ==
    ASSUME ShortFrames
    PROVE  Spec => []FramesAsSent
<1>1. Spec => [](Shape /\ Stream)
    <2>1. Init => Shape /\ Stream
        BY InitShape, InitStream
    <2>2. Shape /\ Stream /\ [Next]_vars => (Shape /\ Stream)'
        BY NextShape, NextStream
    <2> QED BY <2>1, <2>2, PTL DEF Spec
<1>2. Shape /\ Stream => FramesAsSent
    <2>1. SUFFICES ASSUME Shape, Stream PROVE FramesAsSent
        OBVIOUS
    <2>2. PICK S \in Seq(Byte), p \in Seq(Nat), k \in 0 .. Len(sent) :
            \E at : Tracked(S, p, k, at)
        BY <2>1 DEF Stream
    <2>3. PICK at : Tracked(S, p, k, at)
        BY <2>2
    <2>4. /\ at \in [DOMAIN indicated -> 1 .. k]
          /\ \A i \in DOMAIN indicated :
               indicated[i] = sent[at[i]] /\ \A j \in 1 .. i - 1 : at[j] < at[i]
        BY <2>3 DEF Tracked, Ordered
    <2>5. sent \in Seq(Frame)
        BY <2>1 DEF Shape, TypeOK
    <2>6. Len(sent) \in Nat /\ DOMAIN sent = 1 .. Len(sent)
        BY <2>5
    <2>7. 1 .. k \subseteq DOMAIN sent
        BY <2>6
    <2>8. at \in [DOMAIN indicated -> DOMAIN sent]
        BY <2>4, <2>7
    <2> QED BY <2>4, <2>8 DEF FramesAsSent
<1> QED BY <1>1, <1>2, PTL


-----------------------------------------------------------------------------
(* No frame is kept back. *)

\* A malformed frame is among those that were indicated or comes next.
Blocked == \E m \in DOMAIN sent : m <= Len(indicated) + 1 /\ ~well_formed(sent[m])

\* The codec skips a frame without subscription, for ever.
Deafened ==
    /\ InFrame /\ ~receive_frame_subscription
    /\ receive_frame_state = "FRAME_BODY" \/ receive_frame_size # 8 \/ receive_frame_doff = 2

Gone == failed \/ Blocked \/ Deafened

\* The codec is in the frame after those that were indicated, which are the
\* first k ones of the stream.
Follows(S, p, k) ==
    /\ p = ends /\ Laid(S, p, sent) /\ Heard(S)
    /\ Synced(S, Upto(p, k)) /\ Len(indicated) = k
    /\ receive_frame_state # "ERROR"

Following ==
    \/ Gone
    \/ \E S \in Seq(Byte), p \in Seq(Nat), k \in 0 .. Len(sent) : Follows(S, p, k)

LEMMA InitFollowing ==
    ASSUME Init
    PROVE  Following
<1> DEFINE p == <<>>
<1>1. /\ sent = <<>> /\ ends = <<>> /\ indicated = <<>> /\ wire = <<>> /\ buffer = <<>>
      /\ heard = 0
    BY DEF Init
<1>2. /\ Len(sent) = 0 /\ Len(ends) = 0 /\ Len(wire) = 0 /\ Len(buffer) = 0 /\ Len(indicated) = 0
      /\ Len(<<>>) = 0 /\ 1 .. 0 = {}
    BY <1>1
<1>3. <<>> \in Seq(Byte) /\ p \in Seq(Nat) /\ Upto(p, 0) = 0 /\ p = ends
    BY <1>1 DEF Upto
<1>4. Laid(<<>>, p, sent)
    BY <1>1, InitLaid
<1> HIDE DEF p
<1>5. Heard(<<>>)
    BY <1>1, <1>2 DEF Heard
<1>6. Synced(<<>>, Upto(p, 0))
    <2>1. heard - Len(buffer) = 0 /\ 0 = 0 + 0
        <3>1. heard = 0 /\ Len(buffer) = 0 /\ 0 - 0 = 0
            BY <1>1, <1>2
        <3> QED BY <3>1
    <2> QED BY <1>3, <2>1 DEF Synced, Init, InFrame, Cursor
<1>7. Follows(<<>>, p, 0)
    BY <1>2, <1>3, <1>4, <1>5, <1>6 DEF Follows, Init
<1>8. p \in Seq(Nat) /\ 0 \in 0 .. Len(sent)
    BY <1>2, <1>3
<1> QED BY <1>3, <1>7, <1>8 DEF Following

\* What a step does to the frames and to the record of failures.
LEMMA Grows ==
    ASSUME Shape, [Next]_vars
    PROVE  /\ sent' = sent \/ \E f \in Frame : sent' = Append(sent, f)
           /\ indicated' = indicated \/ \E f \in Frame : indicated' = Append(indicated, f)
           /\ failed => failed'
<1>1. indicated' = indicated \/ \E f \in Frame : indicated' = Append(indicated, f)
    <2>1. ASSUME NEW n \in 0 .. Len(buffer), Takes(n), Completes(n), buffer # <<>>
          PROVE  \E f \in Frame : indicated' = Append(indicated, f)
        BY <2>1, Ends
    <2> QED BY <2>1, Quiet
<1>2. ASSUME NEW f \in Frame, puts(f) PROVE (\E g \in Frame : sent' = Append(sent, g)) /\ failed' = failed
    BY <1>2 DEF puts
<1>3. ASSUME NEW f \in PeerFrames, peer_puts(f)
      PROVE  (\E g \in Frame : sent' = Append(sent, g)) /\ failed' = failed
    BY <1>2, <1>3, Assumptions DEF peer_puts
<1>4. ASSUME NEW args \in Outgoing, frame_codec_encode_frame(args)
      PROVE  (\E g \in Frame : sent' = Append(sent, g)) /\ failed' = failed
    BY <1>2, <1>4, EncodedWritten DEF frame_codec_encode_frame
<1>5. ASSUME NEW size, frame_codec_set_max_frame_size(size) PROVE UNCHANGED <<sent, failed>>
    BY <1>5 DEF frame_codec_set_max_frame_size
<1>6. ASSUME NEW type, frame_codec_subscribe(type) \/ frame_codec_unsubscribe(type)
      PROVE  UNCHANGED <<sent, failed>>
    BY <1>6 DEF frame_codec_subscribe, frame_codec_unsubscribe
<1>7. ASSUME NEW n, frame_codec_receive_bytes(n) PROVE UNCHANGED <<sent, failed>>
    BY <1>7 DEF frame_codec_receive_bytes
<1>8. ASSUME loop PROVE sent' = sent /\ (failed => failed')
    <2>1. CASE loop_error \/ loop_specific_refused \/ loop_body_refused
        BY <2>1 DEF loop_error, loop_specific_refused, loop_body_refused, drop_rest
    <2>2. CASE loop_frame_size \/ loop_doff \/ loop_type_subscribed \/ loop_type_unknown
        <3>1. ASSUME loop_frame_size PROVE sent' = sent /\ (failed' = failed \/ failed' = TRUE)
            BY <3>1 DEF loop_frame_size, decode_error
        <3>2. ASSUME loop_doff PROVE sent' = sent /\ (failed' = failed \/ failed' = TRUE)
            BY <3>2 DEF loop_doff, decode_error
        <3>3. ASSUME loop_type_subscribed PROVE sent' = sent /\ (failed' = failed \/ failed' = TRUE)
            BY <3>3 DEF loop_type_subscribed, decode_error
        <3>4. ASSUME loop_type_unknown PROVE sent' = sent /\ failed' = failed
            BY <3>4 DEF loop_type_unknown
        <3>5. sent' = sent /\ (failed' = failed \/ failed' = TRUE)
            BY <2>2, <3>1, <3>2, <3>3, <3>4
        <3> QED BY <3>5
    <2>3. CASE loop_type_specific \/ loop_frame_body
        BY <2>3 DEF loop_type_specific, loop_frame_body
    <2> QED BY <1>8, <2>1, <2>2, <2>3 DEF loop
<1>9. CASE UNCHANGED vars
    BY <1>1, <1>9 DEF vars
<1>10. CASE Next
    BY <1>1, <1>3, <1>4, <1>5, <1>6, <1>7, <1>8, <1>10 DEF Next
<1> QED BY <1>9, <1>10

\* A malformed frame stays one.
LEMMA BlockedStays ==
    ASSUME Shape, [Next]_vars, Blocked
    PROVE  Blocked'
<1>1. PICK m \in DOMAIN sent : m <= Len(indicated) + 1 /\ ~well_formed(sent[m])
    BY DEF Blocked
<1>2. /\ sent' = sent \/ \E f \in Frame : sent' = Append(sent, f)
      /\ indicated' = indicated \/ \E f \in Frame : indicated' = Append(indicated, f)
    BY Grows
<1>3. sent \in Seq(Frame) /\ indicated \in Seq(Frame)
    BY DEF Shape, TypeOK
<1>4. m \in DOMAIN sent' /\ sent'[m] = sent[m]
    <2>1. CASE sent' = sent
        BY <2>1
    <2>2. ASSUME NEW f \in Frame, sent' = Append(sent, f) PROVE m \in DOMAIN sent' /\ sent'[m] = sent[m]
        <3>1. m \in 1 .. Len(sent) /\ Len(sent) \in Nat
            BY <1>3
        <3> QED BY <1>3, <2>2, <3>1
    <2> QED BY <1>2, <2>1, <2>2
<1>5. m \in Nat /\ Len(indicated) \in Nat
    BY <1>3
<1>6. Len(indicated') \in Nat /\ Len(indicated') >= Len(indicated)
    BY <1>2, <1>3
<1>7. m <= Len(indicated') + 1
    BY <1>1, <1>5, <1>6
<1>8. ~well_formed(sent'[m])
    BY <1>1, <1>4
<1> QED BY <1>4, <1>7, <1>8 DEF Blocked

\* The codec goes on skipping, unless a call fails.
LEMMA DeafenedStays ==
    ASSUME Shape, [Next]_vars, Deafened
    PROVE  failed' \/ Deafened'
<1>1. ASSUME UNCHANGED codec PROVE Deafened'
    BY <1>1 DEF Deafened, InFrame, codec
<1>2. ASSUME NEW f, puts(f) PROVE Deafened'
    BY <1>1, <1>2 DEF puts
<1>3. ASSUME NEW size, frame_codec_set_max_frame_size(size) PROVE Deafened'
    BY <1>1, <1>3 DEF frame_codec_set_max_frame_size
<1>4. ASSUME NEW type, frame_codec_subscribe(type) \/ frame_codec_unsubscribe(type) PROVE Deafened'
    BY <1>1, <1>4 DEF frame_codec_subscribe, frame_codec_unsubscribe
<1>5. ASSUME NEW n, frame_codec_receive_bytes(n) PROVE Deafened'
    BY <1>1, <1>5 DEF frame_codec_receive_bytes
<1>6. CASE loop_error \/ loop_specific_refused \/ loop_body_refused
    BY <1>6 DEF loop_error, loop_specific_refused, loop_body_refused, drop_rest
<1>7. ~(loop_frame_size \/ loop_doff \/ loop_type_subscribed \/ loop_type_unknown)
    BY DEF Deafened, InFrame, loop_frame_size, loop_doff, loop_type_subscribed, loop_type_unknown
<1>8. CASE loop_type_specific \/ loop_frame_body
    <2>1. PICK n \in 0 .. Len(buffer) : Takes(n) /\ (Skips(n) \/ Collects(n) \/ Completes(n))
        BY <1>8, SpecificSteps, BodySteps
    <2>2. buffer # <<>>
        BY <1>8 DEF loop_type_specific, loop_frame_body
    <2>3. Lost /\ ~receive_frame_subscription
        BY DEF Deafened, Lost
    <2>4. Lost'
        BY <2>1, <2>2, <2>3, LostStays
    <2>5. Skips(n) /\ receive_frame_subscription' = receive_frame_subscription
        BY <2>1, <2>3 DEF Collects, Completes, Takes, Untouched
    <2>6. receive_frame_state' # "ERROR"
        BY <2>5 DEF Skips
    <2> QED BY <2>3, <2>4, <2>5, <2>6 DEF Lost, Deafened
<1>9. CASE UNCHANGED vars
    BY <1>1, <1>9 DEF vars
<1>10. CASE Next
    BY <1>2, <1>3, <1>4, <1>5, <1>6, <1>7, <1>8, <1>10
       DEF Next, loop, peer_puts, frame_codec_encode_frame
<1> QED BY <1>9, <1>10

LEMMA GoneStays ==
    ASSUME Shape, [Next]_vars, Gone
    PROVE  Gone'
BY Grows, BlockedStays, DeafenedStays DEF Gone


\* The frame that comes next is well-formed.
LEMMA NextWhole ==
    ASSUME Shape, NEW S \in Seq(Byte), NEW p \in Seq(Nat), NEW k \in 0 .. Len(sent),
           Laid(S, p, sent), Len(indicated) = k, ~Blocked, Upto(p, k) < Len(S)
    PROVE  /\ k + 1 \in 1 .. Len(sent) /\ sent[k + 1].size \in Nat /\ sent[k + 1].doff \in Nat
           /\ SizeAt(S, Upto(p, k)) = sent[k + 1].size /\ S[Upto(p, k) + 5] = sent[k + 1].doff
           /\ sent[k + 1].size >= 8 /\ sent[k + 1].doff >= 2
           /\ sent[k + 1].doff * 4 <= sent[k + 1].size
           /\ Upto(p, k + 1) = Upto(p, k) + sent[k + 1].size /\ Upto(p, k + 1) \in 0 .. Len(S)
<1>1. sent \in Seq(Frame)
    BY DEF Shape, TypeOK
<1>2. /\ k + 1 \in 1 .. Len(sent) /\ sent[k + 1] \in Frame /\ Upto(p, k + 1) \in 0 .. Len(S)
      /\ SizeAt(S, Upto(p, k)) = sent[k + 1].size /\ S[Upto(p, k) + 5] = sent[k + 1].doff
      /\ Upto(p, k + 1) = Upto(p, k) + 6 + Len(sent[k + 1].rest)
    BY <1>1, Here
<1>3. well_formed(sent[k + 1])
    <2>1. k + 1 \in DOMAIN sent /\ k + 1 <= Len(indicated) + 1
        BY <1>1, <1>2
    <2> QED BY <2>1 DEF Blocked
<1> DEFINE z == sent[k + 1].size
           d == sent[k + 1].doff
           L == Len(sent[k + 1].rest)
           a == Upto(p, k)
<1>4. z \in Nat /\ d \in Nat /\ z >= 8 /\ d >= 2 /\ d * 4 <= z /\ L = z - 6
    BY <1>2, <1>3 DEF well_formed, FRAME_HEADER_SIZE, Frame
<1>5. a \in Nat /\ Upto(p, k + 1) = a + 6 + L
    BY <1>2, UptoNat
<1> HIDE DEF z, d, L, a
<1>6. Upto(p, k + 1) = a + z
    BY <1>4, <1>5
<1> QED BY <1>2, <1>4, <1>6 DEF z, d, a

LEMMA LoopFollows ==
    ASSUME Shape, NEW S \in Seq(Byte), NEW p \in Seq(Nat),
           NEW k \in 0 .. Len(sent), Follows(S, p, k), ~Gone, ~Gone', loop
    PROVE  sent' = sent /\ \E k2 \in 0 .. Len(sent) : Follows(S, p, k2)'
<1> DEFINE o == Upto(p, k)
<1>1. /\ p = ends /\ Laid(S, p, sent) /\ Heard(S) /\ Synced(S, o) /\ Len(indicated) = k
    BY DEF Follows
<1>2. /\ sent \in Seq(Frame) /\ indicated \in Seq(Frame) /\ Len(sent) \in Nat
      /\ o \in Nat /\ k \in Nat /\ Len(S) \in Nat
    <2>1. sent \in Seq(Frame) /\ indicated \in Seq(Frame)
        BY DEF Shape, TypeOK
    <2>2. o \in Nat /\ Len(S) \in Nat
        BY <1>1, UptoNat
    <2> QED BY <2>1, <2>2
<1>3. ~failed' /\ ~Blocked /\ ~Deafened /\ ~Deafened'
    BY DEF Gone
<1>4. ASSUME NEW k2 \in 0 .. Len(sent), UNCHANGED <<sent, ends>>, Heard(S)', Synced(S, Upto(p, k2))',
             Len(indicated') = k2, receive_frame_state' # "ERROR"
      PROVE  \E k3 \in 0 .. Len(sent) : Follows(S, p, k3)'
    <2>1. Laid(S, p, sent)'
        BY <1>1, <1>4 DEF Laid
    <2>2. Follows(S, p, k2)'
        BY <1>1, <1>4, <2>1 DEF Follows
    <2> QED BY <2>2
<1>5. heard \in Nat /\ Len(buffer) \in Nat /\ Len(wire) \in Nat /\ heard + Len(wire) = Len(S)
      /\ Len(buffer) <= heard
    BY <1>1 DEF Shape, TypeOK, Heard
<1>6. Cursor \in Nat /\ Cursor <= Len(S)
    BY <1>5 DEF Cursor
<1>7. ASSUME o < Cursor
      PROVE  /\ SizeAt(S, o) \in Nat /\ S[o + 5] \in Nat
             /\ SizeAt(S, o) >= 8 /\ S[o + 5] >= 2 /\ S[o + 5] * 4 <= SizeAt(S, o)
    <2>1. Upto(p, k) < Len(S)
        <3> HIDE DEF o
        <3>1. o < Len(S)
            BY <1>2, <1>6, <1>7
        <3> QED BY <3>1 DEF o
    <2> QED BY <1>1, <1>3, <2>1, NextWhole
<1>8. CASE loop_error \/ loop_specific_refused \/ loop_body_refused
    <2>1. failed' = TRUE
        BY <1>8 DEF loop_error, loop_specific_refused, loop_body_refused, drop_rest
    <2> QED BY <1>3, <2>1
<1>9. CASE loop_frame_size \/ loop_doff \/ loop_type_subscribed \/ loop_type_unknown
    <2>1. UNCHANGED <<sent, ends, indicated>>
        BY <1>9 DEF loop_frame_size, loop_doff, loop_type_subscribed, loop_type_unknown
    <2>2. receive_frame_state' # "ERROR"
        <3>1. receive_frame_state # "ERROR"
            BY <1>9 DEF loop_frame_size, loop_doff, loop_type_subscribed, loop_type_unknown
        <3>2. receive_frame_state' = "ERROR" => failed' = TRUE
            BY <1>9, <3>1 DEF loop_frame_size, loop_doff, loop_type_subscribed, loop_type_unknown,
               decode_error
        <3> QED BY <1>3, <3>2
    <2>3. CASE loop_frame_size \/ loop_doff
        <3>1. ~InFrame'
            BY <2>3 DEF loop_frame_size, loop_doff, decode_error, InFrame
        <3>2. ~Lost'
            BY <2>2, <3>1 DEF Lost
        <3> HIDE DEF o
        <3>3. Heard(S)' /\ Synced(S, o)'
            BY <1>1, <1>2, <2>3, <3>2, SizeSync, DoffSync
        <3> QED BY <1>1, <1>4, <2>1, <2>2, <3>3 DEF o
    <2>4. CASE loop_type_subscribed \/ loop_type_unknown
        <3>1. /\ receive_frame_state = "FRAME_TYPE" /\ receive_frame_doff' = receive_frame_doff
              /\ receive_frame_size' = receive_frame_size
            BY <2>4 DEF loop_type_subscribed, loop_type_unknown
        <3>2. Cursor = o + 5 /\ receive_frame_size = SizeAt(S, o) /\ receive_frame_doff = S[o + 5]
            BY <1>1, <3>1 DEF Synced
        <3> HIDE DEF o
        <3>3. o < Cursor
            BY <1>2, <3>2
        <3>4. /\ SizeAt(S, o) = 8 => S[o + 5] <= 3
              /\ ~(receive_frame_doff' * 4 > receive_frame_size')
            BY <1>7, <3>1, <3>2, <3>3
        <3>5. ~Lost'
            BY <1>3, <2>2, <3>4 DEF Lost, Deafened
        <3>6. Heard(S)' /\ Synced(S, o)'
            BY <1>1, <1>2, <2>4, <3>4, <3>5, TypeSync
        <3> QED BY <1>1, <1>4, <2>1, <2>2, <3>6 DEF o
    <2> QED BY <1>9, <2>3, <2>4
<1>10. CASE loop_type_specific \/ loop_frame_body
    <2>1. PICK n \in 0 .. Len(buffer) : Takes(n) /\ (Skips(n) \/ Collects(n) \/ Completes(n))
        BY <1>10, SpecificSteps, BodySteps
    <2>2. buffer # <<>> /\ UNCHANGED <<sent, ends>>
        BY <1>10, <2>1 DEF loop_type_specific, loop_frame_body
    <2>3. CASE Skips(n)
        <3>1. InFrame /\ ~receive_frame_subscription
            BY <2>3 DEF Skips, InFrame
        <3>2. /\ receive_frame_pos \in 4 .. 5 /\ Cursor = o + 2 + receive_frame_pos
              /\ SizeAt(S, o) = 8 /\ S[o + 5] = 3
            BY <1>1, <3>1 DEF Synced, InFrame
        <3> HIDE DEF o
        <3>3. o < Cursor
            BY <1>2, <3>2
        <3> QED BY <1>7, <3>2, <3>3
    <2>4. CASE Collects(n)
        <3>1. indicated' = indicated /\ receive_frame_state' # "ERROR"
            BY <2>4 DEF Collects
        <3>2. Heard(S)' /\ Synced(S, o)'
            BY <1>1, <1>2, <2>1, <2>2, <2>4, CollectSync
        <3> QED BY <1>1, <1>4, <2>2, <3>1, <3>2
    <2>5. CASE Completes(n)
        <3>1. /\ Heard(S)' /\ k + 1 \in 1 .. Len(sent) /\ Synced(S, Upto(p, k + 1))'
              /\ indicated' = Append(indicated, sent[k + 1])
            BY <1>1, <2>1, <2>2, <2>5, EndSync
        <3>2. Len(indicated') = k + 1 /\ k + 1 \in 0 .. Len(sent)
            BY <1>1, <1>2, <3>1
        <3>3. receive_frame_state' # "ERROR"
            BY <2>1, <2>2, <2>5, Ends
        <3> QED BY <1>4, <2>2, <3>1, <3>2, <3>3
    <2> QED BY <2>1, <2>2, <2>3, <2>4, <2>5
<1>11. sent' = sent
    BY <1>8, <1>9, <1>10 DEF loop_error, loop_specific_refused, loop_body_refused, drop_rest,
       loop_frame_size, loop_doff, loop_type_subscribed, loop_type_unknown, loop_type_specific,
       loop_frame_body, loop
<1> QED BY <1>8, <1>9, <1>10, <1>11 DEF loop

\* A codec that follows the stream is not lost.
LEMMA NotLost ==
    ASSUME Shape, NEW S \in Seq(Byte), NEW p \in Seq(Nat),
           NEW k \in 0 .. Len(sent), Follows(S, p, k), ~Gone
    PROVE  ~Lost
<1>1. /\ Laid(S, p, sent) /\ Heard(S) /\ Synced(S, Upto(p, k)) /\ Len(indicated) = k
      /\ receive_frame_state # "ERROR" /\ ~Blocked /\ ~Deafened
    BY DEF Follows, Gone
<1>2. ASSUME InFrame, receive_frame_subscription, receive_frame_doff * 4 > receive_frame_size
      PROVE  FALSE
    <2> DEFINE o == Upto(p, k)
               L == Len(receive_frame_bytes)
    <2>1. /\ receive_frame_size = SizeAt(S, o) /\ receive_frame_doff = S[o + 5] /\ Cursor = o + 6 + L
        BY <1>1, <1>2 DEF Synced, InFrame
    <2>2. L \in Nat
        BY <1>2 DEF Shape, Memory
    <2>3. heard \in Nat /\ Len(buffer) \in Nat /\ Len(wire) \in Nat /\ heard + Len(wire) = Len(S)
          /\ Len(buffer) <= heard
        BY <1>1 DEF Shape, TypeOK, Heard
    <2>4. Cursor \in Nat /\ Cursor <= Len(S) /\ o \in Nat /\ Len(S) \in Nat
        BY <1>1, <2>3, UptoNat DEF Cursor
    <2> HIDE DEF o, L
    <2>5. o < Len(S)
        BY <2>1, <2>2, <2>4
    <2>6. S[o + 5] * 4 <= SizeAt(S, o) /\ SizeAt(S, o) \in Nat /\ S[o + 5] \in Nat
        BY <1>1, <2>5, NextWhole DEF o
    <2> QED BY <1>2, <2>1, <2>6
<1> QED BY <1>1, <1>2 DEF Lost, Deafened

LEMMA PutsFollows ==
    ASSUME Shape, NEW S \in Seq(Byte), NEW p \in Seq(Nat),
           NEW k \in 0 .. Len(sent), Follows(S, p, k), NEW f \in Frame, Written(f), puts(f), ~Gone
    PROVE  Following'
<1>1. /\ p = ends /\ Laid(S, p, sent) /\ Heard(S) /\ Synced(S, Upto(p, k)) /\ Len(indicated) = k
      /\ receive_frame_state # "ERROR"
    BY DEF Follows
<1>2. sent' = Append(sent, f) /\ UNCHANGED codec /\ indicated' = indicated
    BY DEF puts
<1>3. sent \in Seq(Frame) /\ Len(sent) \in Nat
    <2>1. sent \in Seq(Frame)
        BY DEF Shape, TypeOK
    <2> QED BY <2>1
<1>4. PICK T \in Seq(Byte), q \in Seq(Nat) : Extends(S, p, T, q)
    BY <1>1, PutsHeard
<1>5. /\ (q = ends)' /\ Laid(T, q, sent)' /\ Heard(T)'
      /\ Upto(q, k) = Upto(p, k) /\ Upto(p, k) \in Nat
      /\ \A i \in 1 .. Len(S) : T[i] = S[i]
      /\ Cursor' = Cursor /\ Cursor \in Nat /\ Cursor <= Len(S)
    BY <1>1, <1>4, UptoNat DEF Extends
<1>6. Synced(T, Upto(q, k))'
    <2>1. ~Lost
        BY NotLost
    <2>2. Synced(T, Upto(p, k))'
        BY <1>1, <1>2, <1>5, <2>1, SyncMore
    <2> QED BY <1>5, <2>2
<1>7. Follows(T, q, k)'
    <2>1. receive_frame_state' # "ERROR"
        BY <1>1, <1>2 DEF codec
    <2> QED BY <1>1, <1>2, <1>5, <1>6, <2>1 DEF Follows
<1>8. k \in 0 .. Len(sent')
    <2>1. Len(sent') = Len(sent) + 1
        BY <1>2, <1>3
    <2> QED BY <1>3, <2>1
<1> QED BY <1>7, <1>8 DEF Following

LEMMA NextFollowing ==
    ASSUME Shape, Following, [Next]_vars
    PROVE  Following'
<1>1. CASE Gone
    BY <1>1, GoneStays DEF Following
<1>2. CASE Gone'
    BY <1>2 DEF Following
<1>3. CASE ~Gone /\ ~Gone'
    <2>1. PICK S \in Seq(Byte), p \in Seq(Nat), k \in 0 .. Len(sent) : Follows(S, p, k)
        BY <1>3 DEF Following
    <2>2. ASSUME NEW k2 \in 0 .. Len(sent), Follows(S, p, k2)', sent' = sent PROVE Following'
        <3>1. k2 \in 0 .. Len(sent')
            BY <2>2
        <3> QED BY <2>2, <3>1 DEF Following
    <2>3. ASSUME NEW f \in PeerFrames, peer_puts(f) PROVE Following'
        BY <1>3, <2>1, <2>3, PutsFollows, Assumptions DEF peer_puts
    <2>4. ASSUME NEW args \in Outgoing, frame_codec_encode_frame(args) PROVE Following'
        BY <1>3, <2>1, <2>4, PutsFollows, EncodedWritten DEF frame_codec_encode_frame
    <2>5. ASSUME UNCHANGED codec, Cursor' = Cursor, Heard(S)', UNCHANGED <<sent, ends, indicated>>
          PROVE  Following'
        <3>1. /\ p = ends /\ Laid(S, p, sent) /\ Synced(S, Upto(p, k)) /\ Len(indicated) = k
              /\ receive_frame_state # "ERROR"
            BY <2>1 DEF Follows
        <3>2. Synced(S, Upto(p, k))'
            BY <2>5, <3>1, SameSync
        <3>3. Laid(S, p, sent)'
            BY <2>5, <3>1 DEF Laid
        <3>4. receive_frame_state' # "ERROR"
            BY <2>5, <3>1 DEF codec
        <3>5. Follows(S, p, k)'
            BY <2>5, <3>1, <3>2, <3>3, <3>4 DEF Follows
        <3> QED BY <2>2, <2>5, <3>5
    <2>6. ASSUME UNCHANGED codec, UNCHANGED <<wire, buffer, heard, sent, ends, indicated>>
          PROVE  Following'
        <3>1. Heard(S)' /\ Cursor' = Cursor
            BY <2>1, <2>6 DEF Follows, Heard, Cursor
        <3> QED BY <2>5, <2>6, <3>1
    <2>7. ASSUME NEW size, frame_codec_set_max_frame_size(size) PROVE Following'
        BY <2>6, <2>7 DEF frame_codec_set_max_frame_size
    <2>8. ASSUME NEW type, frame_codec_subscribe(type) \/ frame_codec_unsubscribe(type)
          PROVE  Following'
        BY <2>6, <2>8 DEF frame_codec_subscribe, frame_codec_unsubscribe
    <2>9. ASSUME NEW n, frame_codec_receive_bytes(n) PROVE Following'
        <3>1. Heard(S)' /\ Cursor' = Cursor
            BY <2>1, <2>9, ReceiveHeard DEF Follows
        <3>2. UNCHANGED codec /\ UNCHANGED <<sent, ends, indicated>>
            BY <2>9 DEF frame_codec_receive_bytes
        <3> QED BY <2>5, <3>1, <3>2
    <2>10. CASE loop
        BY <1>3, <2>1, <2>2, <2>10, LoopFollows
    <2>11. CASE UNCHANGED vars
        BY <2>6, <2>11 DEF vars
    <2>12. CASE Next
        BY <2>3, <2>4, <2>7, <2>8, <2>9, <2>10, <2>12 DEF Next
    <2> QED BY <2>11, <2>12
<1> QED BY <1>1, <1>2, <1>3


\* A frame whose body has begun has bytes to come, or no body at all.
Unfinished ==
    receive_frame_state = "FRAME_BODY" /\ receive_frame_subscription =>
        /\ receive_frame_size # 8
        /\ receive_frame_pos = 0 \/ receive_frame_pos < frame_body_size

LEMMA NextUnfinished ==
    ASSUME Shape, Unfinished, [Next]_vars
    PROVE  Unfinished'
<1>1. ASSUME UNCHANGED codec PROVE Unfinished'
    BY <1>1 DEF Unfinished, frame_body_size, codec
<1>2. ASSUME NEW f, puts(f) PROVE Unfinished'
    BY <1>1, <1>2 DEF puts
<1>3. ASSUME NEW size, frame_codec_set_max_frame_size(size) PROVE Unfinished'
    BY <1>1, <1>3 DEF frame_codec_set_max_frame_size
<1>4. ASSUME NEW type, frame_codec_subscribe(type) \/ frame_codec_unsubscribe(type) PROVE Unfinished'
    BY <1>1, <1>4 DEF frame_codec_subscribe, frame_codec_unsubscribe
<1>5. ASSUME NEW n, frame_codec_receive_bytes(n) PROVE Unfinished'
    BY <1>1, <1>5 DEF frame_codec_receive_bytes
<1>6. CASE loop_error \/ loop_specific_refused \/ loop_body_refused
    BY <1>1, <1>6 DEF loop_error, loop_specific_refused, loop_body_refused, drop_rest
<1>7. CASE loop_frame_size \/ loop_doff \/ loop_type_subscribed \/ loop_type_unknown
    <2>1. receive_frame_state' # "FRAME_BODY"
        BY <1>7 DEF loop_frame_size, loop_doff, loop_type_subscribed, loop_type_unknown, decode_error
    <2> QED BY <2>1 DEF Unfinished
<1>8. CASE loop_type_specific
    <2>1. receive_frame_state' = "FRAME_BODY" => receive_frame_pos' = 0 /\ receive_frame_size' # 8
        BY <1>8 DEF loop_type_specific, frame_complete, FRAME_HEADER_SIZE
    <2> QED BY <2>1 DEF Unfinished
<1>9. CASE loop_frame_body
    <2>1. PICK n \in 0 .. Len(buffer) : Takes(n) /\ (Collects(n) \/ Completes(n))
        BY <1>9, BodySteps
    <2>2. receive_frame_state = "FRAME_BODY" /\ buffer # <<>>
        BY <1>9 DEF loop_frame_body
    <2>3. CASE Collects(n)
        <3>1. /\ receive_frame_subscription /\ receive_frame_size' = receive_frame_size
              /\ receive_frame_pos' = receive_frame_pos + n /\ receive_frame_pos + n < frame_body_size
              /\ receive_frame_doff' = receive_frame_doff
            BY <2>1, <2>2, <2>3 DEF Collects, Takes, Untouched
        <3>2. frame_body_size' = frame_body_size
            BY <3>1 DEF frame_body_size
        <3> QED BY <2>2, <3>1, <3>2 DEF Unfinished
    <2>4. CASE Completes(n)
        <3>1. receive_frame_state' = "FRAME_SIZE"
            BY <2>1, <2>2, <2>4, Ends
        <3> QED BY <3>1 DEF Unfinished
    <2> QED BY <2>1, <2>3, <2>4
<1>10. CASE UNCHANGED vars
    BY <1>1, <1>10 DEF vars
<1>11. CASE Next
    BY <1>2, <1>3, <1>4, <1>5, <1>6, <1>7, <1>8, <1>9, <1>11
       DEF Next, loop, peer_puts, frame_codec_encode_frame
<1> QED BY <1>10, <1>11

\* A frame ends after the ones before it.
LEMMA Rising ==
    ASSUME NEW frames \in Seq(Frame), NEW S \in Seq(Byte), NEW p, Laid(S, p, frames),
           NEW i \in 0 .. Len(frames), NEW j \in 0 .. Len(frames), i < j
    PROVE  Upto(p, i) < Upto(p, j)
<1> DEFINE N == Len(frames)
           a == Upto(p, i)
           Low == {m \in 0 .. N : i < m /\ ~(a < Upto(p, m))}
<1>1. N \in Nat /\ i \in Nat /\ a \in Nat /\ i <= N
    BY UptoNat
<1>2. ASSUME NEW m \in 1 .. N
      PROVE  /\ m - 1 \in 0 .. N /\ Upto(p, m) \in Nat /\ Upto(p, m - 1) \in Nat
             /\ Upto(p, m - 1) < Upto(p, m)
    <2> DEFINE b == bytes_of(frames[m])
    <2>1. m - 1 \in 0 .. N /\ m \in 0 .. N
        BY <1>1
    <2>2. Upto(p, m) \in Nat /\ Upto(p, m - 1) \in Nat
        BY <2>1, UptoNat
    <2>3. Written(frames[m]) /\ Upto(p, m) = Upto(p, m - 1) + Len(b)
        BY DEF Laid
    <2>4. frames[m] \in Frame
        OBVIOUS
    <2>5. Len(b) = Len(frames[m].rest) + 6 /\ Len(frames[m].rest) \in Nat
        <3>1. frames[m].rest \in Seq(Byte)
            BY <2>4 DEF Frame
        <3>2. Len(b) = Len(frames[m].rest) + 6
            BY <2>3, <2>4, BytesOf
        <3> QED BY <3>1, <3>2
    <2> HIDE DEF b
    <2>6. Len(b) \in Nat /\ Len(b) > 0
        BY <2>5
    <2> QED BY <2>1, <2>2, <2>3, <2>6
<1>3. SUFFICES ASSUME j \in Low PROVE FALSE
    OBVIOUS
<1>4. PICK m \in Low : \A y \in Low : m <= y
    <2>1. Low \in SUBSET Nat
        BY <1>1
    <2> HIDE DEF Low
    <2> QED BY <1>3, <2>1, LeastNat
<1>5. m \in 1 .. N /\ i < m /\ ~(a < Upto(p, m)) /\ m \in Nat
    BY <1>1
<1>6. /\ m - 1 \in 0 .. N /\ Upto(p, m) \in Nat /\ Upto(p, m - 1) \in Nat
      /\ Upto(p, m - 1) < Upto(p, m)
    BY <1>2, <1>5
<1>7. CASE m - 1 = i
    BY <1>5, <1>6, <1>7
<1>8. CASE m - 1 # i
    <2>1. i < m - 1 /\ ~(m <= m - 1)
        BY <1>1, <1>5, <1>8
    <2>2. m - 1 \notin Low
        BY <1>4, <2>1
    <2>3. a < Upto(p, m - 1)
        BY <1>6, <2>1, <2>2
    <2> HIDE DEF a
    <2> QED BY <1>1, <1>5, <1>6, <2>3
<1> QED BY <1>7, <1>8


\* The place of the codec in a frame of z bytes after the first o of the stream.
LEMMA Place ==
    ASSUME NEW o \in Nat, NEW z \in Nat, NEW d \in Nat, NEW n \in Nat, NEW L, NEW c, NEW t,
           c = o + 6 + L, t = d * 4 - 6, d * 4 <= z
    PROVE  /\ L = n /\ n < t => c < o + z
           /\ L = t + n => c = o + d * 4 + n
OBVIOUS

LEMMA LastPlace ==
    ASSUME NEW o \in Nat, NEW z \in Nat, NEW d \in Nat, NEW n \in Nat, NEW c,
           c = o + d * 4 + n, n <= z - d * 4, z # 8, d >= 2, n = 0 \/ n < z - d * 4
    PROVE  c <= o + z /\ (c = o + z => z = d * 4 /\ d > 2)
OBVIOUS

\* The size and the data offset of the frame after the first o bytes of S.
Sized(S, o, z, d) == z = SizeAt(S, o) /\ d = S[o + 5]

\* The codec has not got all the bytes that the frame it is in needs.
LEMMA NotComplete ==
    ASSUME Shape, Unfinished, NEW S \in Seq(Byte), NEW o \in Nat, Synced(S, o),
           receive_frame_state # "ERROR", ~deaf, Cursor \in Nat,
           NEW z \in Nat, NEW d \in Nat, Sized(S, o, z, d), z >= 8, d >= 2, d * 4 <= z
    PROVE  Cursor <= o + z /\ (Cursor = o + z => z = d * 4 /\ d > 2)
<1>1. receive_frame_state \in {"FRAME_SIZE", "DOFF", "FRAME_TYPE", "TYPE_SPECIFIC", "FRAME_BODY"}
      /\ receive_frame_pos \in Nat
    BY DEF Shape, TypeOK, ReceiveFrameStates
<1>2. CASE receive_frame_state \in {"FRAME_SIZE", "DOFF", "FRAME_TYPE"}
    <2>1. receive_frame_state = "FRAME_SIZE" => receive_frame_pos \in 0 .. 3
        BY DEF Shape, Position
    <2>2. (receive_frame_pos \in 0 .. 3 /\ Cursor = o + receive_frame_pos) \/ Cursor = o + 4 \/ Cursor = o + 5
        BY <1>2, <2>1 DEF Synced
    <2>3. Cursor < o + 8
        BY <2>2
    <2> QED BY <2>3
<1>3. CASE receive_frame_state \in {"TYPE_SPECIFIC", "FRAME_BODY"}
    <2> DEFINE L == Len(receive_frame_bytes)
    <2>1. InFrame /\ receive_frame_subscription
        BY <1>3 DEF deaf, InFrame
    <2>2. /\ receive_frame_size = z /\ receive_frame_doff = d /\ Cursor = o + 6 + L
        BY <1>3, <2>1 DEF Synced, Sized
    <2>3. type_specific_size = d * 4 - 6 /\ frame_body_size = z - d * 4
        BY <2>2 DEF type_specific_size, frame_body_size
    <2>4. CASE receive_frame_state = "TYPE_SPECIFIC"
        <3>1. L = receive_frame_pos /\ receive_frame_pos < type_specific_size
            BY <2>1, <2>4 DEF Shape, Memory
        <3> HIDE DEF L
        <3>2. Cursor < o + z
            BY <1>1, <2>2, <2>3, <3>1, Place
        <3> QED BY <3>2
    <2>5. CASE receive_frame_state = "FRAME_BODY"
        <3>1. L = type_specific_size + receive_frame_pos /\ receive_frame_pos <= z - d * 4
            BY <2>1, <2>2, <2>5 DEF Shape, Memory
        <3>2. z # 8 /\ (receive_frame_pos = 0 \/ receive_frame_pos < z - d * 4)
            BY <2>1, <2>2, <2>3, <2>5 DEF Unfinished
        <3> HIDE DEF L
        <3>3. Cursor = o + d * 4 + receive_frame_pos
            BY <1>1, <2>2, <2>3, <3>1, Place
        <3> QED BY <1>1, <3>1, <3>2, <3>3, LastPlace
    <2> QED BY <1>3, <2>4, <2>5
<1> QED BY <1>1, <1>2, <1>3

LEMMA FollowsLate ==
    ASSUME Shape, Unfinished, NEW S \in Seq(Byte), NEW p \in Seq(Nat), NEW k \in 0 .. Len(sent),
           Follows(S, p, k), ~Gone, Idle, ~deaf, NEW m \in DOMAIN sent, ends[m] <= heard,
           m > Len(indicated)
    PROVE  bodiless(sent[m]) /\ m = Len(indicated) + 1 /\ heard = ends[m]
<1>1. /\ p = ends /\ Laid(S, p, sent) /\ Heard(S) /\ Synced(S, Upto(p, k)) /\ Len(indicated) = k
      /\ receive_frame_state # "ERROR" /\ ~Blocked
    BY DEF Follows, Gone
<1>2. sent \in Seq(Frame) /\ Len(sent) \in Nat /\ m \in 1 .. Len(sent) /\ k \in Nat /\ heard \in Nat
    <2>1. sent \in Seq(Frame) /\ heard \in Nat
        BY DEF Shape, TypeOK
    <2> QED BY <2>1
<1>3. Cursor = heard
    <2>1. Len(buffer) = 0
        BY DEF Idle
    <2> QED BY <1>2, <2>1 DEF Cursor
<1>4. k < m
    BY <1>1, <1>2
<1> DEFINE o == Upto(p, k)
           e == Upto(p, k + 1)
           f == sent[k + 1]
           z == f.size
           d == f.doff
<1>5. m \in 0 .. Len(sent) /\ k + 1 \in 0 .. Len(sent) /\ k < k + 1 /\ (k + 1 = m \/ k + 1 < m)
    BY <1>2, <1>4
<1>6. o \in Nat /\ e \in Nat /\ Upto(p, m) \in Nat /\ o < e /\ e <= Len(S) /\ Len(S) \in Nat
    BY <1>1, <1>2, <1>5, UptoNat, Rising
<1>7. e < Upto(p, m) \/ m = k + 1
    BY <1>1, <1>2, <1>5, Rising
<1>8. Upto(p, k) < Len(S)
    BY <1>6
<1>9. /\ z \in Nat /\ d \in Nat /\ SizeAt(S, o) = z /\ S[o + 5] = d /\ z >= 8 /\ d >= 2
      /\ d * 4 <= z /\ e = o + z
    BY <1>1, <1>8, NextWhole
<1>10. Upto(p, m) = ends[m]
    BY <1>1, <1>2 DEF Upto
<1>11. Upto(p, m) <= heard
    BY <1>10
<1> HIDE DEF o, e, f, z, d
<1>12. Cursor <= o + z /\ (Cursor = o + z => z = d * 4 /\ d > 2)
    <2>1. Synced(S, o)
        BY <1>1 DEF o
    <2>2. Sized(S, o, z, d)
        BY <1>9 DEF Sized
    <2> QED BY <1>1, <1>2, <1>3, <1>6, <1>9, <2>1, <2>2, NotComplete
<1>13. CASE m = k + 1
    <2>1. Upto(p, m) = e
        BY <1>13 DEF e
    <2>2. heard = o + z /\ z = d * 4 /\ d > 2
        BY <1>2, <1>3, <1>6, <1>9, <1>11, <1>12, <2>1
    <2>3. bodiless(sent[m])
        BY <1>13, <2>2 DEF bodiless, f, z, d
    <2>4. heard = ends[m]
        BY <1>9, <1>10, <2>1, <2>2
    <2> QED BY <1>1, <1>13, <2>3, <2>4
<1>14. CASE e < Upto(p, m)
    <2>1. FALSE
        BY <1>2, <1>3, <1>6, <1>9, <1>11, <1>12, <1>14
    <2> QED BY <2>1
<1> QED BY <1>7, <1>13, <1>14

\* When a call of frame_codec_receive_bytes returns, every well-formed frame
\* whose last byte has been received has been given to its subscriber, wherever
\* the calls cut the stream, with one exception, that the code is late with: a
\* frame that has an extended header and no body, comes next and ends the bytes
\* received.  This is for a codec that has not failed and is not in a frame of a
\* type without subscription, and for whatever frames the other end writes.
THEOREM LateOnlyBodiless == Spec => []OnlyBodilessLate
<1>1. Spec => [](Shape /\ Following /\ Unfinished)
    <2>1. Init => Shape /\ Following /\ Unfinished
        BY InitShape, InitFollowing DEF Init, Unfinished
    <2>2. Shape /\ Following /\ Unfinished /\ [Next]_vars => (Shape /\ Following /\ Unfinished)'
        BY NextShape, NextFollowing, NextUnfinished
    <2> QED BY <2>1, <2>2, PTL DEF Spec
<1>2. Shape /\ Following /\ Unfinished => OnlyBodilessLate
    <2> SUFFICES ASSUME Shape, Following, Unfinished, Idle, ~failed, ~deaf, NEW m \in DOMAIN sent,
                        outstanding(m)
                 PROVE  bodiless(sent[m]) /\ m = Len(indicated) + 1 /\ heard = ends[m]
        BY DEF OnlyBodilessLate
    <2>1. sent \in Seq(Frame) /\ indicated \in Seq(Frame)
        BY DEF Shape, TypeOK
    <2>2. /\ m \in Nat /\ Len(indicated) \in Nat /\ ends[m] <= heard /\ m > Len(indicated)
          /\ \A j \in 1 .. m : well_formed(sent[j])
        BY <2>1 DEF outstanding
    <2>3. CASE Blocked
        <3>1. PICK j \in DOMAIN sent : j <= Len(indicated) + 1 /\ ~well_formed(sent[j])
            BY <2>3 DEF Blocked
        <3>2. j \in 1 .. Len(sent) /\ j \notin 1 .. m
            BY <2>1, <2>2, <3>1
        <3> QED BY <2>2, <3>1, <3>2
    <2>4. CASE ~Gone
        BY <2>2, <2>4, FollowsLate DEF Following
    <2>5. ~Deafened
        BY DEF Deafened, deaf, InFrame
    <2> QED BY <2>3, <2>4, <2>5 DEF Gone
<1> QED BY <1>1, <1>2, PTL

=============================================================================

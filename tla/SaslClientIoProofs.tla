------------------------- MODULE SaslClientIoProofs -------------------------
(***************************************************************************)
(* Proofs about the io that authenticates with SASL, for every mechanism,  *)
(* every list a server may offer and every stream of bytes.                *)
(***************************************************************************)
EXTENDS SaslClientIo, FiniteSetTheorems, TLAPS

Handshaking == {"OPENING_UNDERLYING_IO", "SASL_HANDSHAKE"}

\* No byte is given to the user or dropped twice.
Lengths == Len(given) + leaked + Len(buffer) <= Len(heard)

\* Until the io is open no success has been reported and no byte given.
Fresh == io_state \in Handshaking => oks = 0 /\ given = <<>>

\* The first of the invariants: types, and what they need.
Types == TypeOK /\ Lengths /\ Fresh

\* What has been written, as far as the two negotiations have come.
Written ==
    /\ \A i \in DOMAIN wire : /\ wire[i] = "header" <=> i = 1
                              /\ wire[i] = "init" => i = 2
    /\ sasl_header_exchange_state = "IDLE" => Len(wire) = 0
    /\ sasl_header_exchange_state = "HEADER_SENT" => Len(wire) = 1
    /\ sasl_header_exchange_state = "HEADER_EXCH" => Len(wire) >= 1
    /\ sasl_client_negotiation_state \in {"NOT_STARTED", "MECH_RCVD"} => Len(wire) <= 1

\* The bytes of this open that have left the call, and those of the header
\* among the first n.
taken == Len(heard) - Len(buffer)

headers(n) == {i \in 1 .. n : heard[i].k = "header"}

\* What is left of the call is the end of what was heard.
Suffix == \A i \in 1 .. Len(buffer) : buffer[i] = heard[taken + i]

HeaderHeard ==
    /\ header_bytes_received <= Cardinality(headers(taken))
    /\ sasl_header_exchange_state \in {"IDLE", "HEADER_SENT"} => header_bytes_received < header_size
    /\ sasl_header_exchange_state = "HEADER_EXCH" => header_bytes_received = header_size

\* The m-th byte ended a list with our mechanism, behind a header.
MechanismsAt(m) ==
    /\ m \in 1 .. taken
    /\ Cardinality(headers(m)) >= header_size
    /\ heard[m].k = "mechanisms" /\ mechanism_found(heard[m].list)

\* The o-th byte ended the outcome, and those behind it are the user's.
OutcomeAt(o) ==
    /\ o \in 1 .. taken
    /\ heard[o] = [k |-> "outcome", code |-> "ok"]
    /\ taken = o + Len(given)
    /\ \A i \in 1 .. Len(given) : heard[o + i] = given[i]

Dialogue ==
    /\ sasl_client_negotiation_state = "INIT_SENT" => \E m \in Nat : MechanismsAt(m)
    /\ io_state = "OPEN" =>
         /\ sasl_header_exchange_state = "HEADER_EXCH"
         /\ sasl_client_negotiation_state = "OUTCOME_RCVD"
         /\ \E m, o \in Nat : m < o /\ MechanismsAt(m) /\ OutcomeAt(o)

\* The second of the invariants: what was heard led to the states.
Heard == Suffix /\ HeaderHeard /\ Dialogue

-----------------------------------------------------------------------------
(* Constants, sequences and what a failure does *)

LEMMA Bounds ==
    /\ MaxBytes \in Nat /\ MaxChunk \in Nat /\ MaxOpens \in Nat
    /\ Mechanism \in {"PLAIN", "ANONYMOUS", "MSSBCBS"}
    /\ Credentials \subseteq Nat \X Nat \X Nat
BY SaslAssumption DEF SaslAssumption

LEMMA PlainLength ==
    ASSUME NEW a \in Nat, NEW b \in Nat, NEW c \in Nat
    PROVE  saslplain_create(a, b, c) \in 0 .. 3 * 255 + 2
<1>1. CASE a <= 255 /\ b \in 1 .. 255 /\ c \in 1 .. 255
    <2>1. saslplain_create(a, b, c) = a + b + c + 2
        BY <1>1 DEF saslplain_create
    <2> QED BY <1>1, <2>1
<1>2. CASE ~(a <= 255 /\ b \in 1 .. 255 /\ c \in 1 .. 255)
    <2>1. saslplain_create(a, b, c) = 0
        BY <1>2 DEF saslplain_create
    <2> QED BY <2>1
<1> QED BY <1>1, <1>2

\* No initial response is longer than saslplain_create lets it be.
LEMMA InitialType ==
    ASSUME NEW n \in saslmechanism.init
    PROVE  n \in 0 .. 3 * 255 + 2
<1>1. \A m \in {saslplain, saslanonymous, saslmssbcbs} : m.init \subseteq 0 .. 3 * 255 + 2
    <2>1. saslplain.init \subseteq 0 .. 3 * 255 + 2
        <3> SUFFICES ASSUME NEW c \in Nat \X Nat \X Nat
                     PROVE  saslplain_create(c[1], c[2], c[3]) \in 0 .. 3 * 255 + 2
            BY Bounds DEF saslplain
        <3>1. c[1] \in Nat /\ c[2] \in Nat /\ c[3] \in Nat
            OBVIOUS
        <3> QED BY <3>1, PlainLength
    <2>2. saslanonymous.init = {0} /\ saslmssbcbs.init = {0}
        BY DEF saslanonymous, saslmssbcbs
    <2> QED BY <2>1, <2>2
<1>2. \E m \in {saslplain, saslanonymous, saslmssbcbs} : m.name = Mechanism
    BY Bounds DEF saslplain, saslanonymous, saslmssbcbs
<1>3. saslmechanism \in {saslplain, saslanonymous, saslmssbcbs}
    BY <1>2 DEF saslmechanism
<1> QED BY <1>1, <1>3

LEMMA ChunkIsSeq ==
    ASSUME NEW bytes \in Chunks
    PROVE  bytes \in Seq(Bytes) /\ Len(bytes) \in Nat /\ Len(bytes) <= MaxChunk /\ Len(bytes) > 0
BY Bounds DEF Chunks

LEMMA CatLen ==
    ASSUME NEW s \in Seq(Bytes), NEW t \in Seq(Bytes)
    PROVE  /\ s \o t \in Seq(Bytes) /\ Len(s \o t) = Len(s) + Len(t)
           /\ Len(s) \in Nat /\ Len(t) \in Nat
           /\ \A i \in 1 .. Len(s) : (s \o t)[i] = s[i]
           /\ \A i \in 1 .. Len(t) : (s \o t)[Len(s) + i] = t[i]
OBVIOUS

LEMMA HeadTail ==
    ASSUME NEW t \in Seq(Bytes), t # <<>>
    PROVE  /\ Head(t) \in Bytes /\ Head(t) = t[1]
           /\ Tail(t) \in Seq(Bytes)
           /\ Len(t) \in Nat /\ Len(t) > 0 /\ Len(Tail(t)) = Len(t) - 1
           /\ \A i \in 1 .. Len(t) - 1 : Tail(t)[i] = t[i + 1]
OBVIOUS

LEMMA AppendLen ==
    ASSUME NEW s \in Seq(Bytes), NEW b \in Bytes
    PROVE  /\ Append(s, b) \in Seq(Bytes) /\ Len(Append(s, b)) = Len(s) + 1 /\ Len(s) \in Nat
           /\ \A i \in 1 .. Len(s) : Append(s, b)[i] = s[i]
           /\ Append(s, b)[Len(s) + 1] = b
OBVIOUS

LEMMA WireAppend ==
    ASSUME NEW s \in Seq({"header", "init", "response"}), NEW f \in {"header", "init", "response"}
    PROVE  /\ Append(s, f) \in Seq({"header", "init", "response"})
           /\ Len(Append(s, f)) = Len(s) + 1 /\ Len(s) \in Nat
           /\ \A i \in 1 .. Len(s) : Append(s, f)[i] = s[i]
           /\ Append(s, f)[Len(s) + 1] = f
OBVIOUS

LowerStates == {"closed", "opening", "open", "closing"}

\* handle_error leaves an opening io as it is or closes it, puts an open one in
\* error, and leaves the others alone.
Failed(state, new) ==
    \/ new = state
    \/ state \in Handshaking /\ new = "NOT_OPEN"
    \/ state = "OPEN" /\ new = "ERROR"

LEMMA ErrorHandled ==
    ASSUME NEW state \in IoStates, NEW low \in LowerStates, NEW s \in handle_error(state, low)
    PROVE  s[1] \in IoStates /\ s[2] \in LowerStates /\ Failed(state, s[1])
BY DEF handle_error, close_below, Handshaking, LowerStates, IoStates, Failed

LEMMA FailureMoves ==
    ASSUME TypeOK, fails \/ fails_twice
    PROVE  io_state' \in IoStates /\ lower' \in LowerStates /\ Failed(io_state, io_state')
<1>1. io_state \in IoStates /\ lower \in LowerStates
    BY DEF TypeOK, LowerStates
<1>2. CASE fails
    BY <1>1, <1>2, ErrorHandled DEF fails, goes_to
<1>3. CASE fails_twice
    <2>1. PICK s \in handle_error(io_state, lower) :
              \E t \in handle_error(s[1], s[2]) : io_state' = t[1] /\ lower' = t[2]
        BY <1>3 DEF fails_twice, goes_to, handle_error_twice
    <2>2. s[1] \in IoStates /\ s[2] \in LowerStates /\ Failed(io_state, s[1])
        BY <1>1, ErrorHandled
    <2>3. io_state' \in IoStates /\ lower' \in LowerStates /\ Failed(s[1], io_state')
        BY <2>1, <2>2, ErrorHandled
    <2> QED BY <2>2, <2>3 DEF Failed, Handshaking
<1> QED BY <1>2, <1>3

-----------------------------------------------------------------------------
(* Types *)

LEMMA InitTypes == Init => Types
<1> SUFFICES ASSUME Init PROVE Types
    OBVIOUS
<1>1. calling \in BOOLEAN
    BY DEF Init
<1>2. initial \in 0 .. 3 * 255 + 2
    BY InitialType DEF Init
<1>3. TypeOK
    BY <1>1, <1>2, Bounds DEF Init, TypeOK, IoStates, HeaderExchangeStates, NegotiationStates,
                              header_size
<1> QED BY <1>3 DEF Init, Types, Lengths, Fresh, Handshaking

\* Calls of the user and callbacks without bytes.
calls ==
    \/ saslclientio_close_async
    \/ on_underlying_io_close_complete
    \/ open_complete_ok
    \/ open_complete_error
    \/ on_underlying_io_error

\* They leave the call and what was heard alone, and open nothing.
LEMMA CallsMove ==
    ASSUME TypeOK, calls
    PROVE  /\ UNCHANGED <<sasl_client_negotiation_state, header_bytes_received, codec,
                          buffer, calling, opens, oks, heard, given, leaked, initial>>
           /\ io_state' \in IoStates /\ lower' \in LowerStates
           /\ io_state' \in Handshaking => io_state \in Handshaking
           /\ io_state' = "OPEN" => io_state = "OPEN"
           /\ \/ UNCHANGED <<sasl_header_exchange_state, wire>>
              \/ /\ sasl_header_exchange_state = "IDLE"
                 /\ sasl_header_exchange_state' = "HEADER_SENT"
                 /\ io_state = "OPENING_UNDERLYING_IO"
                 /\ wire' = Append(wire, "header")
<1>1. io_state \in IoStates /\ lower \in LowerStates
    BY DEF TypeOK, LowerStates
<1> USE DEF handshake, stream, Handshaking
<1>2. CASE saslclientio_close_async
    BY <1>1, <1>2 DEF saslclientio_close_async, IoStates, LowerStates
<1>3. CASE on_underlying_io_close_complete
    BY <1>1, <1>3 DEF on_underlying_io_close_complete, IoStates, LowerStates
<1>4. CASE open_complete_ok
    <2>1. CASE io_state = "OPENING_UNDERLYING_IO" /\ goes_to(handle_error("SASL_HANDSHAKE", "open"))
        <3>1. "SASL_HANDSHAKE" \in IoStates /\ "open" \in LowerStates
            BY DEF IoStates, LowerStates
        <3>2. io_state' \in IoStates /\ lower' \in LowerStates /\ Failed("SASL_HANDSHAKE", io_state')
            BY <2>1, <3>1, ErrorHandled DEF goes_to
        <3> QED BY <1>4, <2>1, <3>2 DEF open_complete_ok, Failed
    <2>2. CASE ~(io_state = "OPENING_UNDERLYING_IO" /\ goes_to(handle_error("SASL_HANDSHAKE", "open")))
        BY <1>1, <1>4, <2>2 DEF open_complete_ok, IoStates, LowerStates
    <2> QED BY <2>1, <2>2
<1>5. CASE open_complete_error
    <2>1. "closed" \in LowerStates
        BY DEF LowerStates
    <2>2. io_state' \in IoStates /\ lower' \in LowerStates /\ Failed(io_state, io_state')
        BY <1>1, <1>5, <2>1, ErrorHandled DEF open_complete_error, goes_to
    <2> QED BY <1>5, <2>2 DEF open_complete_error, Failed
<1>6. CASE on_underlying_io_error
    BY <1>6, FailureMoves DEF on_underlying_io_error, Failed
<1> QED BY <1>2, <1>3, <1>4, <1>5, <1>6 DEF calls

LEMMA CallsTypes ==
    ASSUME Types, calls
    PROVE  Types'
<1>1. TypeOK'
    <2>1. sasl_header_exchange_state' \in HeaderExchangeStates
        BY CallsMove DEF Types, TypeOK, HeaderExchangeStates
    <2>2. wire' \in Seq({"header", "init", "response"})
        BY CallsMove, WireAppend DEF Types, TypeOK
    <2>3. calling' \in BOOLEAN
        BY CallsMove DEF Types, TypeOK
    <2> QED BY <2>1, <2>2, <2>3, CallsMove DEF Types, TypeOK, LowerStates
<1>2. Lengths'
    BY CallsMove DEF Types, Lengths
<1>3. Fresh'
    BY CallsMove DEF Types, Fresh
<1> QED BY <1>1, <1>2, <1>3 DEF Types

LEMMA OpenTypes ==
    ASSUME Types, saslclientio_open_async
    PROVE  Types'
<1> USE DEF saslclientio_open_async
<1>1. TypeOK'
    <2>1. calling' \in BOOLEAN
        BY DEF Types, TypeOK
    <2>2. buffer' = <<>>
        BY DEF IoRuns
    <2>3. Len(heard') = 0 /\ Len(given') = 0 /\ Len(buffer') = 0
        BY <2>2
    <2> QED BY <2>1, <2>2, <2>3, Bounds DEF Types, TypeOK, IoStates, HeaderExchangeStates,
                                            NegotiationStates, header_size
<1>2. Lengths'
    <2>1. Len(heard') = 0 /\ Len(given') = 0 /\ Len(buffer') = 0 /\ leaked' = 0
        BY DEF IoRuns
    <2> QED BY <2>1 DEF Lengths
<1>3. Fresh'
    BY DEF Fresh
<1> QED BY <1>1, <1>2, <1>3 DEF Types

LEMMA BytesTypes ==
    ASSUME Types, NEW bytes \in Chunks, on_underlying_io_bytes_received(bytes)
    PROVE  Types'
<1>1. /\ UNCHANGED <<io_state, sasl_header_exchange_state, sasl_client_negotiation_state,
                     header_bytes_received, codec, lower, calling, opens, oks, wire, leaked, initial>>
      /\ heard' = heard \o bytes /\ Len(heard) + Len(bytes) <= MaxBytes /\ buffer = <<>>
    BY DEF on_underlying_io_bytes_received, handshake, IoRuns
<1>2. bytes \in Seq(Bytes) /\ Len(bytes) \in Nat /\ Len(bytes) <= MaxChunk
    BY ChunkIsSeq
<1>3. heard \in Seq(Bytes) /\ given \in Seq(Bytes) /\ leaked \in Nat
    BY DEF Types, TypeOK
<1>4. /\ heard' \in Seq(Bytes) /\ Len(heard') = Len(heard) + Len(bytes) /\ Len(heard) \in Nat
      /\ Len(heard') <= MaxBytes
    BY <1>1, <1>2, <1>3, CatLen
<1>5. /\ given' \in Seq(Bytes) /\ buffer' \in Seq(Bytes)
      /\ Len(given) \in Nat /\ Len(given') \in Nat /\ Len(buffer') \in Nat /\ Len(buffer') <= MaxChunk
      /\ Len(given') + Len(buffer') <= Len(given) + Len(bytes)
      /\ given' = given \/ io_state = "OPEN"
    <2>1. CASE io_state = "OPEN" /\ given' = given \o bytes /\ UNCHANGED buffer
        BY <1>1, <1>2, <1>3, <2>1, CatLen, Bounds
    <2>2. CASE buffer' = bytes /\ UNCHANGED given
        BY <1>1, <1>2, <1>3, <2>2
    <2> QED BY <2>1, <2>2 DEF on_underlying_io_bytes_received
<1>6. Lengths'
    <2>1. Len(given) + leaked <= Len(heard)
        <3>1. Len(buffer) = 0
            BY <1>1
        <3> QED BY <1>3, <3>1 DEF Types, Lengths
    <2> QED BY <1>1, <1>2, <1>3, <1>4, <1>5, <2>1 DEF Lengths
<1>7. TypeOK'
    <2>1. calling' \in BOOLEAN
        BY <1>1 DEF Types, TypeOK
    <2>2. Len(given') <= Len(heard') /\ leaked' <= Len(heard')
        BY <1>1, <1>3, <1>4, <1>5, <1>6 DEF Lengths
    <2> QED BY <1>1, <1>4, <1>5, <2>1, <2>2 DEF Types, TypeOK
<1>8. Fresh'
    BY <1>1, <1>5 DEF Types, Fresh, Handshaking
<1> QED BY <1>6, <1>7, <1>8 DEF Types

\* An iteration of the loop: what the actions have in common.
iteration ==
    \/ header_byte \/ header_mismatch \/ byte_of_user
    \/ frame_malformed \/ frame_not_sasl \/ frame_ignored
    \/ mechanisms_refused \/ mechanisms_received \/ challenge_received
    \/ outcome_refused \/ outcome_received

opened == outcome_received /\ byte.code = "ok" /\ io_state' = "OPEN"

LEMMA LoopMoves ==
    ASSUME TypeOK, iteration
    PROVE  /\ Looping /\ UNCHANGED <<opens, heard, initial>>
           /\ buffer' = <<>> \/ buffer' = Tail(buffer)
           /\ io_state' \in IoStates /\ lower' \in LowerStates
           /\ io_state' \in Handshaking => io_state \in Handshaking
           /\ io_state' = "OPEN" => io_state = "OPEN" \/ opened
           /\ Failed(io_state, io_state') \/ opened
           /\ oks' = oks \/ (opened /\ oks' = oks + 1 /\ io_state = "SASL_HANDSHAKE")
           /\ calling' = calling \/ calling' = TRUE
           /\ UNCHANGED <<given, leaked>> \/ byte_of_user
<1>1. io_state \in IoStates /\ lower \in LowerStates
    BY DEF TypeOK, LowerStates
<1> USE DEF handshake, stream, byte_taken, byte_refused
<1>2. CASE header_byte
    <2>1. fails \/ UNCHANGED <<io_state, lower>>
        BY <1>2 DEF header_byte
    <2>2. io_state' \in IoStates /\ lower' \in LowerStates /\ Failed(io_state, io_state')
        BY <1>1, <2>1, FailureMoves DEF Failed
    <2> QED BY <1>2, <2>2 DEF header_byte, Failed, Handshaking
<1>3. CASE header_mismatch \/ frame_malformed \/ frame_not_sasl \/ mechanisms_refused \/ outcome_refused
    <2> USE DEF header_mismatch, frame_malformed, frame_not_sasl, mechanisms_refused, outcome_refused
    <2>1. fails \/ fails_twice
        BY <1>3
    <2>2. io_state' \in IoStates /\ lower' \in LowerStates /\ Failed(io_state, io_state')
        BY <2>1, FailureMoves
    <2> QED BY <1>3, <2>2 DEF Failed, Handshaking, InFrames, Handled
<1>4. CASE byte_of_user
    BY <1>1, <1>4 DEF byte_of_user, Failed
<1>5. CASE frame_ignored
    BY <1>1, <1>5 DEF frame_ignored, InFrames, Failed
<1>6. CASE mechanisms_received \/ challenge_received
    <2>1. fails \/ UNCHANGED <<io_state, lower>>
        BY <1>6 DEF mechanisms_received, challenge_received, send_sasl_init, send_sasl_response,
                    on_bytes_encoded
    <2>2. io_state' \in IoStates /\ lower' \in LowerStates /\ Failed(io_state, io_state')
        BY <1>1, <2>1, FailureMoves DEF Failed
    <2> QED BY <1>6, <2>2 DEF mechanisms_received, challenge_received, Failed, Handshaking,
                              InFrames, Handled
<1>7. CASE outcome_received
    <2>1. CASE byte.code = "ok" /\ io_state' = "OPEN"
        BY <1>1, <1>7, <2>1 DEF outcome_received, opened, IoStates, Handshaking, InFrames, Handled
    <2>2. CASE ~(byte.code = "ok" /\ io_state' = "OPEN")
        <3>1. io_state' \in IoStates /\ lower' \in LowerStates /\ Failed(io_state, io_state')
            BY <1>7, <2>2, FailureMoves DEF outcome_received
        <3> QED BY <1>7, <2>2, <3>1 DEF outcome_received, Failed, Handshaking, InFrames, Handled
    <2> QED BY <2>1, <2>2
<1> QED BY <1>2, <1>3, <1>4, <1>5, <1>6, <1>7 DEF iteration

\* The states of the handshake, and what is written, in an iteration.
LEMMA LoopWrites ==
    ASSUME TypeOK, iteration
    PROVE  \/ UNCHANGED <<sasl_header_exchange_state, sasl_client_negotiation_state,
                          header_bytes_received, wire>>
           \/ header_byte
           \/ mechanisms_received
           \/ challenge_received
           \/ outcome_received /\ UNCHANGED <<sasl_header_exchange_state, header_bytes_received, wire>>
BY DEF iteration, header_mismatch, byte_of_user, frame_malformed, frame_not_sasl, frame_ignored,
       mechanisms_refused, outcome_refused, outcome_received, handshake

LEMMA LoopTypes ==
    ASSUME Types, iteration
    PROVE  Types'
<1>1. /\ TypeOK /\ buffer \in Seq(Bytes) /\ heard \in Seq(Bytes) /\ given \in Seq(Bytes)
      /\ leaked \in Nat /\ buffer # <<>>
    BY LoopMoves DEF Types, TypeOK, Looping
<1>2. /\ buffer' \in Seq(Bytes) /\ Len(buffer') \in Nat /\ Len(buffer') <= Len(buffer) - 1
      /\ Len(buffer) \in Nat
    <2>1. Len(buffer) \in Nat /\ Len(buffer) > 0
        BY <1>1
    <2>2. CASE buffer' = <<>>
        BY <2>1, <2>2
    <2>3. CASE buffer' = Tail(buffer)
        BY <1>1, <2>1, <2>3, HeadTail
    <2> QED BY <1>1, <2>2, <2>3, LoopMoves
<1>3. /\ given' \in Seq(Bytes) /\ leaked' \in Nat
      /\ Len(given') + leaked' <= Len(given) + leaked + 1
      /\ Len(given) \in Nat /\ Len(given') \in Nat
    <2>1. CASE UNCHANGED <<given, leaked>>
        BY <1>1, <2>1
    <2>2. CASE byte_of_user
        <3>1. CASE io_state = "OPEN"
            <4>1. given' = Append(given, byte) /\ leaked' = leaked
                BY <2>2, <3>1 DEF byte_of_user
            <4>2. byte \in Bytes
                BY <1>1, HeadTail DEF byte
            <4> QED BY <1>1, <4>1, <4>2, AppendLen
        <3>2. CASE io_state # "OPEN"
            <4>1. leaked' = leaked + 1 /\ given' = given
                BY <2>2, <3>2 DEF byte_of_user
            <4> QED BY <1>1, <4>1
        <3> QED BY <3>1, <3>2
    <2> QED BY <1>1, <2>1, <2>2, LoopMoves
<1>4. Lengths' /\ heard' = heard /\ Len(heard) \in Nat
    BY <1>1, <1>2, <1>3, LoopMoves DEF Types, Lengths
<1>5. Fresh'
    <2>1. CASE io_state' \in Handshaking
        <3>1. io_state \in Handshaking /\ ~opened /\ oks' = oks /\ oks = 0 /\ given = <<>>
            BY <1>1, <2>1, LoopMoves DEF opened, Handshaking, Types, Fresh
        <3>2. CASE UNCHANGED <<given, leaked>>
            BY <3>1, <3>2 DEF Fresh
        <3>3. CASE byte_of_user
            <4>1. given' = given
                BY <3>1, <3>3 DEF byte_of_user, Handshaking
            <4> QED BY <3>1, <4>1 DEF Fresh
        <3> QED BY <1>1, <3>2, <3>3, LoopMoves
    <2> QED BY <2>1 DEF Fresh
<1>6. oks' \in {0, 1}
    <2>1. CASE oks' = oks
        BY <1>1, <2>1 DEF TypeOK
    <2>2. CASE oks' = oks + 1 /\ io_state = "SASL_HANDSHAKE"
        BY <2>2 DEF Types, Fresh, Handshaking
    <2> QED BY <1>1, <2>1, <2>2, LoopMoves
<1>7. calling' \in BOOLEAN
    BY <1>1, LoopMoves DEF TypeOK
<1>8. codec' \in {"ok", "frame", "sasl"}
    BY <1>1 DEF iteration, header_byte, header_mismatch, byte_of_user, frame_malformed,
                frame_not_sasl, frame_ignored, mechanisms_refused, mechanisms_received,
                challenge_received, outcome_refused, outcome_received, handshake, TypeOK
<1>9. /\ sasl_header_exchange_state' \in HeaderExchangeStates
      /\ sasl_client_negotiation_state' \in NegotiationStates
      /\ header_bytes_received' \in 0 .. header_size
    <2>1. CASE header_byte
        BY <1>1, <2>1 DEF header_byte, TypeOK, HeaderExchangeStates, header_size
    <2>2. CASE mechanisms_received
        BY <1>1, <2>2 DEF mechanisms_received, TypeOK, NegotiationStates
    <2>3. CASE challenge_received
        BY <1>1, <2>3 DEF challenge_received, handshake, TypeOK
    <2>4. CASE outcome_received
        BY <1>1, <2>4 DEF outcome_received, TypeOK, NegotiationStates
    <2> QED BY <1>1, <2>1, <2>2, <2>3, <2>4, LoopWrites DEF TypeOK
<1>10. wire' \in Seq({"header", "init", "response"})
    <2>1. wire' = wire \/ \E f \in {"header", "init", "response"} : wire' = Append(wire, f)
        BY <1>1, LoopWrites DEF header_byte, mechanisms_received, challenge_received,
                send_sasl_init, send_sasl_response, on_bytes_encoded
    <2> QED BY <1>1, <2>1, WireAppend DEF TypeOK
<1>11. TypeOK'
    <2>1. Len(given') <= Len(heard') /\ leaked' <= Len(heard')
        BY <1>2, <1>3, <1>4 DEF Lengths
    <2>2. Len(buffer') <= MaxChunk
        BY <1>1, <1>2, Bounds DEF TypeOK
    <2>3. /\ io_state' \in IoStates /\ lower' \in {"closed", "opening", "open", "closing"}
          /\ opens' = opens /\ initial' = initial
        BY <1>1, LoopMoves DEF LowerStates
    <2> QED BY <1>1, <1>2, <1>3, <1>4, <1>6, <1>7, <1>8, <1>9, <1>10, <2>1, <2>2, <2>3 DEF TypeOK
<1> QED BY <1>4, <1>5, <1>11 DEF Types

LEMMA ReturnMoves ==
    ASSUME callback_returns
    PROVE  /\ UNCHANGED <<io_state, lower, sasl_header_exchange_state, codec, buffer, opens,
                          sasl_client_negotiation_state, header_bytes_received, oks, wire,
                          heard, given, leaked, initial>>
           /\ calling' \in BOOLEAN
BY DEF callback_returns, handshake, stream

\* The steps of the loop and the others, for the proofs below.
LEMMA NextCases ==
    ASSUME [Next]_vars
    PROVE  \/ saslclientio_open_async
           \/ calls
           \/ \E bytes \in Chunks : on_underlying_io_bytes_received(bytes)
           \/ iteration
           \/ callback_returns
           \/ UNCHANGED vars
BY DEF Next, calls, iteration, saslclientio_receive_byte

LEMMA NextTypes == Types /\ [Next]_vars => Types'
<1> SUFFICES ASSUME Types, [Next]_vars PROVE Types'
    OBVIOUS
<1>1. CASE callback_returns
    <2>1. TypeOK'
        BY <1>1, ReturnMoves DEF Types, TypeOK
    <2> QED BY <1>1, <2>1, ReturnMoves DEF Types, Lengths, Fresh
<1>2. CASE UNCHANGED vars
    BY <1>2 DEF vars, handshake, stream, Types, TypeOK, Lengths, Fresh
<1> QED BY <1>1, <1>2, NextCases, OpenTypes, CallsTypes, BytesTypes, LoopTypes

LEMMA TypesInvariant == Spec => []Types
BY InitTypes, NextTypes, PTL DEF Spec

\* The instance of saslclientio.c keeps values of the right kind.
THEOREM TypeCorrect == Spec => []TypeOK
BY TypesInvariant, PTL DEF Types

-----------------------------------------------------------------------------
(* What is written *)

\* A frame is appended to what was written: the header first, SASL-INIT second.
LEMMA AppendWritten ==
    ASSUME TypeOK, Written, NEW f \in {"header", "init", "response"}, wire' = Append(wire, f),
           f = "header" <=> Len(wire) = 0,
           f = "init" => Len(wire) = 1
    PROVE  /\ \A i \in DOMAIN wire' : /\ wire'[i] = "header" <=> i = 1
                                      /\ wire'[i] = "init" => i = 2
           /\ Len(wire') = Len(wire) + 1 /\ Len(wire) \in Nat
<1>1. wire \in Seq({"header", "init", "response"})
    BY DEF TypeOK
<1>2. /\ wire' \in Seq({"header", "init", "response"}) /\ Len(wire') = Len(wire) + 1 /\ Len(wire) \in Nat
      /\ \A i \in 1 .. Len(wire) : wire'[i] = wire[i]
      /\ wire'[Len(wire) + 1] = f
    BY <1>1, WireAppend
<1>3. DOMAIN wire' = 1 .. Len(wire) + 1 /\ DOMAIN wire = 1 .. Len(wire)
    BY <1>1, <1>2
<1>4. ASSUME NEW i \in 1 .. Len(wire) + 1
      PROVE  (wire'[i] = "header" <=> i = 1) /\ (wire'[i] = "init" => i = 2)
    <2>1. CASE i \in 1 .. Len(wire)
        BY <1>2, <1>3, <2>1 DEF Written
    <2>2. CASE i = Len(wire) + 1
        BY <1>2, <2>2
    <2> QED BY <1>2, <2>1, <2>2
<1> QED BY <1>2, <1>3, <1>4

LEMMA NextWritten ==
    ASSUME Types, Written, [Next]_vars
    PROVE  Written'
<1>1. TypeOK /\ Len(wire) \in Nat
    BY DEF Types, TypeOK
<1>2. CASE saslclientio_open_async
    <2>1. wire' = <<>> /\ sasl_header_exchange_state' = "IDLE"
        BY <1>2 DEF saslclientio_open_async
    <2>2. DOMAIN wire' = {} /\ Len(wire') = 0
        BY <2>1
    <2> QED BY <2>1, <2>2 DEF Written
<1>3. CASE calls
    <2>1. CASE UNCHANGED <<sasl_header_exchange_state, wire>>
        BY <1>1, <1>3, <2>1, CallsMove DEF Written
    <2>2. CASE /\ sasl_header_exchange_state = "IDLE" /\ sasl_header_exchange_state' = "HEADER_SENT"
               /\ wire' = Append(wire, "header")
        <3>1. Len(wire) = 0
            BY <2>2 DEF Written
        <3> QED BY <1>1, <2>2, <3>1, AppendWritten DEF Written
    <2> QED BY <1>1, <1>3, <2>1, <2>2, CallsMove
<1>4. CASE \E bytes \in Chunks : on_underlying_io_bytes_received(bytes)
    BY <1>4 DEF on_underlying_io_bytes_received, handshake, Written
<1>5. CASE iteration
    <2>1. CASE header_byte
        <3>1. CASE UNCHANGED wire
            BY <1>1, <2>1, <3>1 DEF header_byte, Written
        <3>2. CASE wire' = Append(wire, "header")
            <4>1. /\ sasl_header_exchange_state = "IDLE" /\ sasl_header_exchange_state' = "HEADER_RCVD"
                  /\ Len(wire) = 0
                <5>1. wire' # wire
                    BY <1>1, <3>2 DEF TypeOK
                <5> QED BY <2>1, <5>1 DEF header_byte, Written
            <4> QED BY <1>1, <3>2, <4>1, AppendWritten DEF Written
        <3> QED BY <2>1, <3>1, <3>2 DEF header_byte
    <2>2. CASE mechanisms_received
        <3>1. Len(wire) = 1 /\ sasl_header_exchange_state' = "HEADER_EXCH"
            <4>1. /\ sasl_header_exchange_state = "HEADER_EXCH"
                  /\ sasl_header_exchange_state' = sasl_header_exchange_state
                  /\ sasl_client_negotiation_state = "NOT_STARTED"
                BY <2>2 DEF mechanisms_received, Handled, InFrames
            <4>2. Len(wire) >= 1 /\ Len(wire) <= 1
                BY <4>1 DEF Written
            <4> QED BY <1>1, <4>1, <4>2
        <3>2. CASE UNCHANGED wire
            BY <3>1, <3>2 DEF Written
        <3>3. CASE wire' = Append(wire, "init") /\ sasl_client_negotiation_state' = "INIT_SENT"
            BY <1>1, <3>1, <3>3, AppendWritten DEF Written
        <3> QED BY <2>2, <3>2, <3>3 DEF mechanisms_received, send_sasl_init, on_bytes_encoded
    <2>3. CASE challenge_received
        <3>1. CASE UNCHANGED wire
            BY <2>3, <3>1 DEF challenge_received, handshake, Written
        <3>2. CASE wire' = Append(wire, "response") /\ sasl_client_negotiation_state = "INIT_SENT"
            <4>1. Len(wire) >= 1 /\ sasl_header_exchange_state = "HEADER_EXCH"
                BY <2>3 DEF challenge_received, Handled, InFrames, Written
            <4> QED BY <1>1, <2>3, <3>2, <4>1, AppendWritten DEF challenge_received, handshake, Written
        <3> QED BY <2>3, <3>1, <3>2 DEF challenge_received, send_sasl_response, on_bytes_encoded
    <2>4. CASE outcome_received /\ UNCHANGED <<sasl_header_exchange_state, wire>>
        BY <2>4 DEF outcome_received, Written
    <2> QED BY <1>1, <1>5, <2>1, <2>2, <2>3, <2>4, LoopWrites DEF Written
<1>6. CASE callback_returns
    BY <1>6, ReturnMoves DEF Written
<1>7. CASE UNCHANGED vars
    BY <1>7 DEF vars, handshake, Written
<1> QED BY <1>2, <1>3, <1>4, <1>5, <1>6, <1>7, NextCases

\* WrittenOnce: however the header, the lists and the challenges of the server
\* cross, fail or come twice, on_underlying_io_open_complete, the header and
\* SASL-INIT reach the io below at most once in an open and in that order.
THEOREM WroteOnce == Spec => []WrittenOnce
<1>1. Init => Written
    <2> SUFFICES ASSUME Init PROVE Written
        OBVIOUS
    <2>1. DOMAIN wire = {} /\ Len(wire) = 0
        BY DEF Init
    <2> QED BY <2>1 DEF Init, Written
<1>2. Types /\ Written => WrittenOnce
    <2> SUFFICES ASSUME Types, Written, NEW i \in DOMAIN wire, NEW j \in DOMAIN wire
                 PROVE  /\ wire[1] = "header"
                        /\ wire[i] = wire[j] /\ wire[i] # "response" => i = j
        BY DEF WrittenOnce
    <2>1. wire \in Seq({"header", "init", "response"})
        BY DEF Types, TypeOK
    <2>2. 1 \in DOMAIN wire /\ wire[i] \in {"header", "init", "response"}
        BY <2>1
    <2> QED BY <2>2 DEF Written
<1> QED BY <1>1, <1>2, NextWritten, TypesInvariant, PTL DEF Spec

-----------------------------------------------------------------------------
(* What was heard *)

LEMMA HeadersFinite ==
    ASSUME NEW n \in Nat
    PROVE  IsFiniteSet(headers(n)) /\ Cardinality(headers(n)) \in Nat
<1>1. IsFiniteSet(1 .. n)
    BY FS_Interval
<1>2. headers(n) \subseteq 1 .. n
    BY DEF headers
<1> QED BY <1>1, <1>2, FS_Subset, FS_CardinalityType

LEMMA HeadersMonotone ==
    ASSUME NEW n \in Nat, NEW k \in Nat, n <= k
    PROVE  Cardinality(headers(n)) <= Cardinality(headers(k))
<1>1. headers(n) \subseteq headers(k)
    BY DEF headers
<1> QED BY <1>1, HeadersFinite, FS_Subset

\* One more byte of the header.
LEMMA HeadersCount ==
    ASSUME NEW n \in Nat, heard[n + 1].k = "header"
    PROVE  Cardinality(headers(n + 1)) = Cardinality(headers(n)) + 1
<1>1. headers(n + 1) = headers(n) \cup {n + 1} /\ n + 1 \notin headers(n)
    BY DEF headers
<1> QED BY <1>1, HeadersFinite, FS_AddElement

\* In an open what was heard only grows, and so does what has left the call.
Grows ==
    /\ Len(heard) <= Len(heard') /\ taken <= taken'
    /\ \A i \in 1 .. Len(heard) : heard'[i] = heard[i]

Counted ==
    /\ taken \in Nat /\ taken <= Len(heard) /\ taken + Len(buffer) = Len(heard)
    /\ Len(heard) \in Nat /\ Len(buffer) \in Nat /\ Len(given) \in Nat

LEMMA TakenType == Types => Counted
<1>1. Types => Len(heard) \in Nat /\ Len(buffer) \in Nat /\ Len(given) \in Nat /\ leaked \in Nat
    BY DEF Types, TypeOK
<1> QED BY <1>1 DEF Types, Lengths, taken, Counted

LEMMA TakenTypeNext == Types' => Counted'
BY TakenType, PTL

LEMMA HeadersKept ==
    ASSUME Types, Grows, NEW n \in 0 .. taken
    PROVE  headers(n)' = headers(n)
BY TakenType DEF Counted, Grows, headers

LEMMA MechanismsKept ==
    ASSUME Types, Types', Grows, NEW m \in Nat, MechanismsAt(m)
    PROVE  MechanismsAt(m)'
<1>1. taken \in Nat /\ taken' \in Nat /\ taken <= Len(heard) /\ Len(heard) \in Nat
    BY TakenType, TakenTypeNext DEF Counted
<1> QED BY <1>1, HeadersKept DEF Grows, MechanismsAt

\* A step that leaves the stream alone.
LEMMA StreamKept ==
    ASSUME Heard, UNCHANGED <<heard, buffer, given>>,
           UNCHANGED <<sasl_client_negotiation_state, header_bytes_received>>,
           \/ UNCHANGED sasl_header_exchange_state
           \/ /\ sasl_header_exchange_state = "IDLE" /\ sasl_header_exchange_state' = "HEADER_SENT"
              /\ io_state # "OPEN",
           io_state' = "OPEN" => io_state = "OPEN"
    PROVE  Heard'
<1>1. taken' = taken /\ \A n : headers(n)' = headers(n)
    BY DEF taken, headers
<1>2. Suffix'
    BY <1>1 DEF Heard, Suffix
<1>3. HeaderHeard'
    BY <1>1 DEF Heard, HeaderHeard
<1>4. \A m : MechanismsAt(m) => MechanismsAt(m)'
    BY <1>1 DEF MechanismsAt
<1>5. \A o : OutcomeAt(o) => OutcomeAt(o)'
    BY <1>1 DEF OutcomeAt
<1>6. Dialogue'
    BY <1>4, <1>5 DEF Heard, Dialogue
<1> QED BY <1>2, <1>3, <1>6 DEF Heard

LEMMA OpenHeard ==
    ASSUME saslclientio_open_async
    PROVE  Heard'
<1>1. heard' = <<>> /\ buffer' = <<>> /\ Len(heard') = 0 /\ Len(buffer') = 0
    BY DEF saslclientio_open_async, IoRuns
<1>2. taken' = 0 /\ headers(0)' = {}
    BY <1>1 DEF taken, headers
<1>3. Cardinality({}) = 0
    BY FS_EmptySet
<1>4. Suffix'
    BY <1>1 DEF Suffix
<1>5. HeaderHeard'
    BY <1>2, <1>3 DEF saslclientio_open_async, HeaderHeard, header_size
<1>6. Dialogue'
    BY DEF saslclientio_open_async, Dialogue
<1> QED BY <1>4, <1>5, <1>6 DEF Heard

LEMMA BytesHeard ==
    ASSUME Types, Types', Heard, NEW bytes \in Chunks, on_underlying_io_bytes_received(bytes)
    PROVE  Heard'
<1>1. /\ UNCHANGED <<io_state, sasl_header_exchange_state, sasl_client_negotiation_state,
                     header_bytes_received>>
      /\ heard' = heard \o bytes /\ buffer = <<>>
    BY DEF on_underlying_io_bytes_received, handshake, IoRuns
<1>2. bytes \in Seq(Bytes) /\ heard \in Seq(Bytes) /\ given \in Seq(Bytes)
    BY ChunkIsSeq DEF Types, TypeOK
<1>3. /\ Len(heard') = Len(heard) + Len(bytes) /\ Len(bytes) \in Nat
      /\ \A i \in 1 .. Len(heard) : heard'[i] = heard[i]
      /\ \A i \in 1 .. Len(bytes) : heard'[Len(heard) + i] = bytes[i]
    BY <1>1, <1>2, CatLen
<1>4. Len(buffer) = 0 /\ taken = Len(heard) /\ Len(heard) \in Nat /\ Len(given) \in Nat
    <2>1. Len(buffer) = 0
        BY <1>1
    <2> QED BY <2>1, TakenType DEF Counted
<1>5. CASE io_state = "OPEN" /\ given' = given \o bytes /\ UNCHANGED buffer
    <2>1. /\ Len(given') = Len(given) + Len(bytes)
          /\ \A i \in 1 .. Len(given) : given'[i] = given[i]
          /\ \A i \in 1 .. Len(bytes) : given'[Len(given) + i] = bytes[i]
        BY <1>2, <1>5, CatLen
    <2>2. taken' = Len(heard') /\ Len(buffer') = 0
        BY <1>3, <1>4, <1>5 DEF taken
    <2>3. Grows
        BY <1>3, <1>4, <2>2 DEF Grows
    <2>4. Suffix'
        BY <2>2 DEF Suffix
    <2>5. HeaderHeard'
        <3>1. Cardinality(headers(taken)) <= Cardinality(headers(taken))'
            <4>1. headers(taken) \subseteq headers(taken)'
                BY <1>3, <1>4, <2>2 DEF headers
            <4>2. IsFiniteSet(headers(taken)')
                <5>1. headers(taken)' \subseteq 1 .. taken'
                    BY DEF headers
                <5>2. IsFiniteSet(1 .. taken')
                    BY <1>3, <1>4, <2>2, FS_Interval
                <5> QED BY <5>1, <5>2, FS_Subset
            <4> QED BY <4>1, <4>2, FS_Subset
        <3>2. header_bytes_received \in Nat /\ Cardinality(headers(taken)) \in Nat
            BY <1>4, HeadersFinite DEF Types, TypeOK, header_size
        <3>3. Cardinality(headers(taken))' \in Nat
            <4>1. headers(taken)' \subseteq 1 .. taken'
                BY DEF headers
            <4>2. IsFiniteSet(1 .. taken')
                BY <1>3, <1>4, <2>2, FS_Interval
            <4> QED BY <4>1, <4>2, FS_Subset, FS_CardinalityType
        <3> QED BY <1>1, <3>1, <3>2, <3>3 DEF Heard, HeaderHeard
    <2>6. Dialogue'
        <3>1. PICK m \in Nat, o \in Nat : m < o /\ MechanismsAt(m) /\ OutcomeAt(o)
            BY <1>5 DEF Heard, Dialogue
        <3>2. MechanismsAt(m)'
            BY <2>3, <3>1, MechanismsKept
        <3>3. OutcomeAt(o)'
            <4>1. o \in 1 .. taken' /\ heard'[o] = [k |-> "outcome", code |-> "ok"]
                BY <1>3, <1>4, <2>2, <3>1 DEF OutcomeAt
            <4>2. taken' = o + Len(given')
                BY <1>3, <1>4, <2>1, <2>2, <3>1 DEF OutcomeAt
            <4>3. ASSUME NEW i \in 1 .. Len(given')
                  PROVE  heard'[o + i] = given'[i]
                <5>1. Len(heard) = o + Len(given) /\ \A j \in 1 .. Len(given) : heard[o + j] = given[j]
                    BY <1>4, <3>1 DEF OutcomeAt
                <5>2. CASE i \in 1 .. Len(given)
                    <6>1. o + i \in 1 .. Len(heard)
                        BY <1>4, <5>1, <5>2
                    <6> QED BY <1>3, <2>1, <5>1, <5>2, <6>1
                <5>3. CASE i > Len(given)
                    <6>1. PICK j \in 1 .. Len(bytes) : i = Len(given) + j
                        <7>1. i - Len(given) \in 1 .. Len(bytes) /\ i = Len(given) + (i - Len(given))
                            BY <1>3, <1>4, <2>1, <5>3
                        <7> QED BY <7>1
                    <6>2. o + i = Len(heard) + j
                        BY <1>4, <5>1, <6>1
                    <6> QED BY <1>3, <2>1, <6>1, <6>2
                <5> QED BY <1>4, <2>1, <5>2, <5>3
            <4> QED BY <4>1, <4>2, <4>3 DEF OutcomeAt
        <3> QED BY <1>1, <1>5, <3>1, <3>2, <3>3 DEF Heard, Dialogue
    <2> QED BY <2>4, <2>5, <2>6 DEF Heard
<1>6. CASE io_state = "SASL_HANDSHAKE" /\ buffer' = bytes /\ UNCHANGED given
    <2>1. taken' = taken
        BY <1>3, <1>4, <1>6 DEF taken
    <2>2. Grows
        BY <1>3, <1>4, <2>1 DEF Grows
    <2>3. Suffix'
        BY <1>3, <1>4, <1>6, <2>1 DEF Suffix
    <2>4. HeaderHeard'
        <3>1. headers(taken)' = headers(taken)
            BY <1>3, <1>4, <2>1 DEF headers
        <3> QED BY <1>1, <3>1 DEF Heard, HeaderHeard
    <2>5. Dialogue'
        BY <1>1, <1>6, <2>2, MechanismsKept DEF Heard, Dialogue
    <2> QED BY <2>3, <2>4, <2>5 DEF Heard
<1> QED BY <1>5, <1>6 DEF on_underlying_io_bytes_received

\* An iteration takes at least the first byte left, which is the next one heard.
LEMMA LoopTakes ==
    ASSUME Types, Types', Heard, iteration
    PROVE  /\ taken \in Nat /\ taken' \in Nat /\ taken' > taken /\ taken' <= Len(heard)
           /\ Len(heard) \in Nat
           /\ buffer' = Tail(buffer) => taken' = taken + 1
           /\ byte \in Bytes /\ byte = heard[taken + 1] /\ taken + 1 \in 1 .. Len(heard)
           /\ heard' = heard /\ \A n : headers(n)' = headers(n)
           /\ Grows /\ Suffix'
<1>1. buffer # <<>> /\ heard' = heard /\ (buffer' = <<>> \/ buffer' = Tail(buffer))
    BY LoopMoves DEF Types, Looping
<1>2. buffer \in Seq(Bytes)
    BY DEF Types, TypeOK
<1>3. /\ byte \in Bytes /\ byte = buffer[1] /\ Len(buffer) > 0 /\ Len(buffer) \in Nat
      /\ Len(Tail(buffer)) = Len(buffer) - 1
      /\ \A i \in 1 .. Len(buffer) - 1 : Tail(buffer)[i] = buffer[i + 1]
    BY <1>1, <1>2, HeadTail DEF byte
<1>4. taken \in Nat /\ Len(heard) \in Nat /\ taken + Len(buffer) = Len(heard)
    BY TakenType DEF Counted
<1>5. byte = heard[taken + 1]
    BY <1>3 DEF Heard, Suffix
<1>6. CASE buffer' = <<>>
    <2>1. Len(buffer') = 0
        BY <1>6
    <2>2. taken' = Len(heard)
        BY <1>1, <1>4, <2>1 DEF taken
    <2>3. Suffix'
        BY <2>1 DEF Suffix
    <2>4. buffer' = Tail(buffer) => taken' = taken + 1
        <3> SUFFICES ASSUME buffer' = Tail(buffer) PROVE taken' = taken + 1
            OBVIOUS
        <3>1. Len(buffer') = Len(buffer) - 1
            BY <1>3
        <3>2. Len(buffer) = 1
            BY <1>3, <2>1, <3>1
        <3> QED BY <1>4, <2>2, <3>2
    <2> QED BY <1>1, <1>3, <1>4, <1>5, <2>2, <2>3, <2>4 DEF Grows, headers
<1>7. CASE buffer' = Tail(buffer)
    <2>1. taken' = taken + 1 /\ Len(buffer') = Len(buffer) - 1
        BY <1>1, <1>3, <1>4, <1>7 DEF taken
    <2>2. Suffix'
        <3> SUFFICES ASSUME NEW i \in 1 .. Len(buffer')
                     PROVE  buffer'[i] = heard'[taken' + i]
            BY DEF Suffix
        <3>1. buffer'[i] = buffer[i + 1] /\ i + 1 \in 1 .. Len(buffer)
            BY <1>3, <1>7, <2>1
        <3>2. buffer[i + 1] = heard[taken + (i + 1)]
            BY <3>1 DEF Heard, Suffix
        <3>3. taken + (i + 1) = taken' + i
            BY <1>4, <2>1
        <3> QED BY <1>1, <3>1, <3>2, <3>3
    <2> QED BY <1>1, <1>3, <1>4, <1>5, <2>1, <2>2 DEF Grows, headers
<1> QED BY <1>1, <1>6, <1>7

LEMMA LoopHeader ==
    ASSUME Types, Types', Heard, iteration
    PROVE  HeaderHeard'
<1>1. /\ taken \in Nat /\ taken' \in Nat /\ taken + 1 <= taken' /\ byte = heard[taken + 1]
      /\ headers(taken)' = headers(taken')
    BY LoopTakes DEF headers
<1>2. /\ header_bytes_received \in Nat
      /\ Cardinality(headers(taken)) \in Nat /\ Cardinality(headers(taken')) \in Nat
    <2>1. header_bytes_received \in Nat
        BY DEF Types, TypeOK, header_size
    <2>2. Cardinality(headers(taken)) \in Nat
        BY <1>1, HeadersFinite
    <2>3. Cardinality(headers(taken')) \in Nat
        BY <1>1, HeadersFinite
    <2> QED BY <2>1, <2>2, <2>3
<1>3. CASE UNCHANGED <<sasl_header_exchange_state, header_bytes_received>>
    <2>1. Cardinality(headers(taken)) <= Cardinality(headers(taken'))
        BY <1>1, HeadersMonotone
    <2> QED BY <1>1, <1>2, <1>3, <2>1 DEF Heard, HeaderHeard
<1>4. CASE header_byte
    <2>1. Cardinality(headers(taken + 1)) = Cardinality(headers(taken)) + 1
        BY <1>1, <1>4, HeadersCount DEF header_byte
    <2>2. Cardinality(headers(taken + 1)) <= Cardinality(headers(taken'))
        BY <1>1, HeadersMonotone
    <2>3. header_bytes_received' = header_bytes_received + 1
        BY <1>4 DEF header_byte
    <2>4. header_bytes_received' <= Cardinality(headers(taken))'
        BY <1>1, <1>2, <2>1, <2>2, <2>3 DEF Heard, HeaderHeard
    <2> QED BY <1>2, <1>4, <2>4 DEF header_byte, HeaderHeard, header_size
<1> QED BY <1>3, <1>4, LoopWrites DEF Types, mechanisms_received, challenge_received, handshake

\* The list that SASL-INIT answers.
LEMMA LoopMechanisms ==
    ASSUME Types, Types', Heard, iteration, sasl_client_negotiation_state' = "INIT_SENT"
    PROVE  \E m \in Nat : MechanismsAt(m)'
<1>1. /\ taken \in Nat /\ taken + 1 <= taken' /\ taken' \in Nat /\ byte = heard[taken + 1]
      /\ heard' = heard /\ (\A n : headers(n)' = headers(n)) /\ Grows
    BY LoopTakes
<1>2. CASE sasl_client_negotiation_state = "INIT_SENT"
    BY <1>1, <1>2, MechanismsKept DEF Heard, Dialogue
<1>3. CASE mechanisms_received
    <2>1. /\ sasl_header_exchange_state = "HEADER_EXCH"
          /\ byte.k = "mechanisms" /\ mechanism_found(byte.list)
        BY <1>3 DEF mechanisms_received, Handled, InFrames
    <2>2. Cardinality(headers(taken)) >= header_size
        BY <2>1 DEF Heard, HeaderHeard
    <2>3. Cardinality(headers(taken)) <= Cardinality(headers(taken + 1))
        BY <1>1, HeadersMonotone
    <2>4. Cardinality(headers(taken)) \in Nat /\ Cardinality(headers(taken + 1)) \in Nat
        BY <1>1, HeadersFinite
    <2>5. PICK m \in Nat : m = taken + 1
        BY <1>1
    <2>6. m \in 1 .. taken' /\ Cardinality(headers(m)) >= header_size
        BY <1>1, <2>2, <2>3, <2>4, <2>5 DEF header_size
    <2>7. MechanismsAt(m)'
        BY <1>1, <2>1, <2>5, <2>6 DEF MechanismsAt
    <2> QED BY <2>7
<1> QED BY <1>2, <1>3, LoopWrites DEF Types, header_byte, challenge_received, outcome_received, handshake

LEMMA LoopDialogue ==
    ASSUME Types, Types', Heard, iteration
    PROVE  Dialogue'
<1>1. /\ taken \in Nat /\ taken' \in Nat /\ taken' > taken
      /\ buffer' = Tail(buffer) => taken' = taken + 1
      /\ byte \in Bytes /\ byte = heard[taken + 1]
      /\ heard' = heard /\ Grows
    BY LoopTakes
<1>2. ASSUME io_state' = "OPEN"
      PROVE  /\ sasl_header_exchange_state' = "HEADER_EXCH"
             /\ sasl_client_negotiation_state' = "OUTCOME_RCVD"
             /\ \E m, o \in Nat : m < o /\ MechanismsAt(m)' /\ OutcomeAt(o)'
    <2>1. CASE io_state = "OPEN"
        <3>1. /\ sasl_header_exchange_state = "HEADER_EXCH"
              /\ sasl_client_negotiation_state = "OUTCOME_RCVD"
            BY <2>1 DEF Heard, Dialogue
        <3>2. byte_of_user
            BY <2>1, <3>1 DEF iteration, header_byte, header_mismatch, frame_malformed, frame_not_sasl,
                    frame_ignored, mechanisms_refused, mechanisms_received, challenge_received,
                    outcome_refused, outcome_received, Handled, InFrames
        <3>3. /\ given' = Append(given, byte) /\ buffer' = Tail(buffer)
              /\ UNCHANGED <<sasl_header_exchange_state, sasl_client_negotiation_state>>
            BY <2>1, <3>2 DEF byte_of_user, byte_taken, handshake
        <3>4. PICK m \in Nat, o \in Nat : m < o /\ MechanismsAt(m) /\ OutcomeAt(o)
            BY <2>1 DEF Heard, Dialogue
        <3>5. MechanismsAt(m)'
            BY <1>1, <3>4, MechanismsKept
        <3>6. OutcomeAt(o)'
            <4>1. given \in Seq(Bytes)
                BY DEF Types, TypeOK
            <4>2. /\ Len(given') = Len(given) + 1 /\ Len(given) \in Nat
                  /\ \A i \in 1 .. Len(given) : given'[i] = given[i]
                  /\ given'[Len(given) + 1] = byte
                BY <1>1, <3>3, <4>1, AppendLen
            <4>3. /\ o \in 1 .. taken /\ heard[o] = [k |-> "outcome", code |-> "ok"]
                  /\ taken = o + Len(given)
                  /\ \A i \in 1 .. Len(given) : heard[o + i] = given[i]
                BY <3>4 DEF OutcomeAt
            <4>4. taken' = o + Len(given') /\ o \in 1 .. taken'
                BY <1>1, <3>3, <4>2, <4>3
            <4>5. ASSUME NEW i \in 1 .. Len(given') PROVE heard'[o + i] = given'[i]
                <5>1. CASE i \in 1 .. Len(given)
                    BY <1>1, <4>2, <4>3, <5>1
                <5>2. CASE i = Len(given) + 1
                    <6>1. o + i = taken + 1
                        BY <1>1, <4>2, <4>3, <5>2
                    <6> QED BY <1>1, <4>2, <5>2, <6>1
                <5> QED BY <4>2, <5>1, <5>2
            <4> QED BY <1>1, <4>3, <4>4, <4>5 DEF OutcomeAt
        <3> QED BY <3>1, <3>3, <3>4, <3>5, <3>6
    <2>2. CASE opened
        <3>1. /\ sasl_header_exchange_state' = "HEADER_EXCH"
              /\ sasl_client_negotiation_state' = "OUTCOME_RCVD"
              /\ sasl_client_negotiation_state = "INIT_SENT"
              /\ io_state = "SASL_HANDSHAKE"
              /\ byte.k = "outcome" /\ byte.code = "ok"
              /\ buffer' = Tail(buffer) /\ given' = given
            BY <2>2 DEF opened, outcome_received, Handled, InFrames, byte_taken, stream
        <3>2. PICK m \in Nat : MechanismsAt(m)
            BY <3>1 DEF Heard, Dialogue
        <3>3. MechanismsAt(m)' /\ m <= taken
            BY <1>1, <3>2, MechanismsKept DEF MechanismsAt
        <3>4. byte = [k |-> "outcome", code |-> "ok"]
            BY <1>1, <3>1 DEF Bytes
        <3>5. PICK o \in Nat : o = taken + 1
            BY <1>1
        <3>6. given' = <<>> /\ Len(given') = 0
            BY <3>1 DEF Types, Fresh, Handshaking
        <3>7. OutcomeAt(o)'
            <4>1. taken' = o + Len(given') /\ o \in 1 .. taken'
                BY <1>1, <3>1, <3>5, <3>6
            <4>2. heard'[o] = [k |-> "outcome", code |-> "ok"]
                BY <1>1, <3>4, <3>5
            <4>3. 1 .. Len(given') = {}
                BY <3>6
            <4> QED BY <4>1, <4>2, <4>3 DEF OutcomeAt
        <3> QED BY <1>1, <3>1, <3>3, <3>5, <3>7
    <2> QED BY <1>2, <2>1, <2>2, LoopMoves DEF Types
<1> QED BY <1>2, LoopMechanisms DEF Dialogue

LEMMA NextHeard ==
    ASSUME Types, Types', Heard, [Next]_vars
    PROVE  Heard'
<1>1. CASE calls
    BY <1>1, CallsMove, StreamKept DEF Types
<1>2. CASE iteration
    BY <1>2, LoopTakes, LoopHeader, LoopDialogue DEF Heard
<1>3. CASE callback_returns
    BY <1>3, ReturnMoves, StreamKept
<1>4. CASE UNCHANGED vars
    BY <1>4, StreamKept DEF vars, handshake, stream
<1> QED BY <1>1, <1>2, <1>3, <1>4, NextCases, OpenHeard, BytesHeard

\* OpenedByDialogue: the io is OPEN only behind the header of the server, a list
\* in which the mechanism was found and an outcome ok, all of them received in
\* this open and in that order, whatever else came between them; and the user
\* has every byte behind the outcome, in order, but those still in the call.
THEOREM OpensByDialogue == Spec => []OpenedByDialogue
<1>1. Init => Heard
    <2> SUFFICES ASSUME Init PROVE Heard
        OBVIOUS
    <2>1. Len(heard) = 0 /\ Len(buffer) = 0
        BY DEF Init
    <2>2. taken = 0 /\ headers(0) = {} /\ Cardinality({}) = 0
        BY <2>1, FS_EmptySet DEF taken, headers
    <2> QED BY <2>1, <2>2 DEF Init, Heard, Suffix, HeaderHeard, Dialogue, header_size
<1>2. Types /\ Heard => OpenedByDialogue
    <2> SUFFICES ASSUME Types, Heard, io_state = "OPEN"
                 PROVE  \E m, o \in DOMAIN heard :
                            /\ m < o
                            /\ Cardinality({i \in 1 .. m : heard[i].k = "header"}) >= header_size
                            /\ heard[m].k = "mechanisms" /\ mechanism_found(heard[m].list)
                            /\ heard[o] = [k |-> "outcome", code |-> "ok"]
                            /\ SubSeq(heard, o + 1, Len(heard)) = given \o buffer
        BY DEF OpenedByDialogue
    <2>1. PICK m \in Nat, o \in Nat : m < o /\ MechanismsAt(m) /\ OutcomeAt(o)
        BY DEF Heard, Dialogue
    <2>2. /\ taken \in Nat /\ taken <= Len(heard) /\ taken + Len(buffer) = Len(heard)
          /\ Len(heard) \in Nat /\ Len(buffer) \in Nat /\ Len(given) \in Nat
        BY TakenType DEF Counted
    <2>3. heard \in Seq(Bytes) /\ given \in Seq(Bytes) /\ buffer \in Seq(Bytes)
        BY DEF Types, TypeOK
    <2>4. m \in DOMAIN heard /\ o \in DOMAIN heard
        BY <2>1, <2>2, <2>3 DEF MechanismsAt, OutcomeAt
    <2>5. Cardinality({i \in 1 .. m : heard[i].k = "header"}) >= header_size
        BY <2>1 DEF MechanismsAt, headers
    <2>6. SubSeq(heard, o + 1, Len(heard)) = given \o buffer
        <3> DEFINE s == SubSeq(heard, o + 1, Len(heard))
                   t == given \o buffer
        <3>1. taken = o + Len(given) /\ \A i \in 1 .. Len(given) : heard[o + i] = given[i]
            BY <2>1 DEF OutcomeAt
        <3>2. s \in Seq(Bytes) /\ Len(s) = Len(heard) - o /\ \A i \in 1 .. Len(s) : s[i] = heard[o + i]
            BY <2>2, <2>3, <3>1
        <3>3. /\ t \in Seq(Bytes) /\ Len(t) = Len(given) + Len(buffer)
              /\ \A i \in 1 .. Len(given) : t[i] = given[i]
              /\ \A i \in 1 .. Len(buffer) : t[Len(given) + i] = buffer[i]
            BY <2>3, CatLen
        <3>4. Len(s) = Len(t)
            BY <2>2, <3>1, <3>2, <3>3
        <3>5. ASSUME NEW i \in 1 .. Len(t) PROVE s[i] = t[i]
            <4>1. s[i] = heard[o + i]
                BY <3>2, <3>4
            <4>2. CASE i \in 1 .. Len(given)
                BY <3>1, <3>3, <4>1, <4>2
            <4>3. CASE i > Len(given)
                <5>1. PICK j \in 1 .. Len(buffer) : i = Len(given) + j
                    <6>1. i - Len(given) \in 1 .. Len(buffer) /\ i = Len(given) + (i - Len(given))
                        BY <2>2, <3>3, <4>3
                    <6> QED BY <6>1
                <5>2. o + i = taken + j
                    BY <2>2, <3>1, <5>1
                <5>3. buffer[j] = heard[taken + j]
                    BY <5>1 DEF Heard, Suffix
                <5> QED BY <3>3, <4>1, <5>1, <5>2, <5>3
            <4>4. i \in 1 .. Len(given) \/ i > Len(given)
                BY <2>2, <3>3
            <4> QED BY <4>2, <4>3, <4>4
        <3> HIDE DEF s, t
        <3>6. s = t
            BY <3>2, <3>3, <3>4, <3>5
        <3> QED BY <3>6 DEF s, t
    <2> QED BY <2>1, <2>4, <2>5, <2>6 DEF MechanismsAt, OutcomeAt
<1> QED BY <1>1, <1>2, NextHeard, TypesInvariant, PTL DEF Spec

-----------------------------------------------------------------------------
(* Refinement of Xio *)

\* A failure is told by an open io, ends the open of another, or is not seen.
LEMMA FailureMaps ==
    ASSUME TypeOK, Failed(io_state, io_state'), UNCHANGED <<oks, given>>
    PROVE  [Interface!Next]_(Interface!vars)
BY DEF Failed, Handshaking, phase, Interface!Next, Interface!vars, Interface!NotOpened, Interface!Fails

LEMMA CallsMap ==
    ASSUME TypeOK, calls
    PROVE  [Interface!Next]_(Interface!vars)
<1>1. io_state \in IoStates /\ UNCHANGED <<oks, given>>
    BY CallsMove DEF TypeOK
<1>2. CASE saslclientio_close_async
    BY <1>1, <1>2 DEF saslclientio_close_async, IoStates, phase, Interface!Next, Interface!vars,
                      Interface!Close
<1>3. CASE on_underlying_io_close_complete
    BY <1>1, <1>3 DEF on_underlying_io_close_complete, phase, Interface!Next, Interface!vars,
                      Interface!Close, Interface!Closed
<1>4. CASE open_complete_ok
    <2>1. CASE io_state = "OPENING_UNDERLYING_IO"
        <3>1. io_state' \in {"SASL_HANDSHAKE", "NOT_OPEN"}
            <4>1. "SASL_HANDSHAKE" \in IoStates /\ "open" \in LowerStates
                BY DEF IoStates, LowerStates
            <4>2. CASE goes_to(handle_error("SASL_HANDSHAKE", "open"))
                BY <4>1, <4>2, ErrorHandled DEF goes_to, Failed
            <4>3. CASE io_state' = "SASL_HANDSHAKE"
                BY <4>3
            <4> QED BY <1>4, <2>1, <4>2, <4>3 DEF open_complete_ok
        <3> QED BY <1>1, <2>1, <3>1 DEF phase, Interface!Next, Interface!vars, Interface!NotOpened
    <2>2. CASE io_state # "OPENING_UNDERLYING_IO"
        BY <1>1, <1>4, <2>2 DEF open_complete_ok, phase, Interface!vars
    <2> QED BY <2>1, <2>2
<1>5. CASE open_complete_error
    <2>1. "closed" \in LowerStates
        BY DEF LowerStates
    <2>2. Failed(io_state, io_state')
        BY <1>1, <1>5, <2>1, ErrorHandled DEF open_complete_error, goes_to
    <2> QED BY <1>1, <2>2, FailureMaps
<1>6. CASE on_underlying_io_error
    BY <1>1, <1>6, FailureMoves, FailureMaps DEF on_underlying_io_error
<1> QED BY <1>2, <1>3, <1>4, <1>5, <1>6 DEF calls

\* Bytes given to the user are given while the io is open.
LEMMA DataMaps ==
    ASSUME io_state = "OPEN", UNCHANGED <<io_state, oks>>, Len(given') > Len(given)
    PROVE  [Interface!Next]_(Interface!vars)
BY DEF phase, Interface!Next, Interface!Data

LEMMA BytesMap ==
    ASSUME Types, NEW bytes \in Chunks, on_underlying_io_bytes_received(bytes)
    PROVE  [Interface!Next]_(Interface!vars)
<1>1. CASE io_state = "OPEN" /\ given' = given \o bytes
    <2>1. given \in Seq(Bytes) /\ bytes \in Seq(Bytes) /\ Len(bytes) > 0
        BY ChunkIsSeq DEF Types, TypeOK
    <2>2. Len(given') > Len(given)
        BY <1>1, <2>1, CatLen
    <2> QED BY <1>1, <2>2, DataMaps DEF on_underlying_io_bytes_received
<1>2. CASE UNCHANGED given
    BY <1>2 DEF on_underlying_io_bytes_received, phase, Interface!vars
<1> QED BY <1>1, <1>2 DEF on_underlying_io_bytes_received

LEMMA LoopMaps ==
    ASSUME Types, iteration
    PROVE  [Interface!Next]_(Interface!vars)
<1>1. TypeOK
    BY DEF Types
<1>2. CASE opened
    <2>1. io_state = "SASL_HANDSHAKE" /\ io_state' = "OPEN" /\ oks' = oks + 1 /\ given' = given
        BY <1>2 DEF opened, outcome_received, Handled, stream
    <2>2. oks = 0
        BY <2>1 DEF Types, Fresh, Handshaking
    <2> QED BY <2>1, <2>2 DEF phase, Interface!Next, Interface!Opened
<1>3. CASE byte_of_user /\ io_state = "OPEN"
    <2>1. given \in Seq(Bytes) /\ buffer \in Seq(Bytes) /\ buffer # <<>>
        BY <1>3 DEF byte_of_user, Looping, Types, TypeOK
    <2>2. given' = Append(given, byte) /\ UNCHANGED <<io_state, oks>>
        BY <1>3 DEF byte_of_user
    <2>3. Len(given') > Len(given)
        BY <2>1, <2>2, HeadTail, AppendLen DEF byte
    <2> QED BY <1>3, <2>2, <2>3, DataMaps
<1>4. CASE ~opened /\ ~(byte_of_user /\ io_state = "OPEN")
    <2>1. Failed(io_state, io_state') /\ oks' = oks
        BY <1>1, <1>4, LoopMoves
    <2>2. given' = given
        BY <1>1, <1>4, LoopMoves DEF byte_of_user
    <2> QED BY <1>1, <2>1, <2>2, FailureMaps
<1> QED BY <1>2, <1>3, <1>4

LEMMA NextMaps == Types /\ [Next]_vars => [Interface!Next]_(Interface!vars)
<1> SUFFICES ASSUME Types, [Next]_vars PROVE [Interface!Next]_(Interface!vars)
    OBVIOUS
<1>1. CASE saslclientio_open_async
    <2>1. phase = "closed" /\ phase' = "opening" /\ oks' = 0 /\ given' = <<>>
        BY <1>1 DEF saslclientio_open_async, phase
    <2>2. Len(given') = 0
        BY <2>1
    <2> QED BY <2>1, <2>2 DEF Interface!Next, Interface!Open
<1>2. CASE calls
    BY <1>2, CallsMap DEF Types
<1>3. CASE callback_returns
    BY <1>3, ReturnMoves DEF phase, Interface!vars
<1>4. CASE UNCHANGED vars
    BY <1>4 DEF vars, stream, phase, Interface!vars
<1> QED BY <1>1, <1>2, <1>3, <1>4, NextCases, BytesMap, LoopMaps

\* The io implements the interface Xio: an open reports success at most once,
\* bytes are given only while the io is open, and a closed io stays closed until
\* it is opened again, wherever in the handshake it fails or is closed.
THEOREM ImplementsInterface == Spec => ImplementsXio
<1>1. Init => Interface!Init
    <2>1. Init => phase = "closed" /\ oks = 0 /\ Len(given) = 0
        BY DEF Init, phase
    <2> QED BY <2>1 DEF Interface!Init
<1> QED BY <1>1, NextMaps, TypesInvariant, PTL DEF Spec, ImplementsXio, Interface!Spec

=============================================================================

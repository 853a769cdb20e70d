------------------------ MODULE HeaderDetectIoProofs ------------------------
(***************************************************************************)
(* Proofs about the io that detects the protocol of its client, for every  *)
(* table of headers and every stream of bytes.                             *)
(***************************************************************************)
EXTENDS HeaderDetectIo, TLAPS

\* While the io opens nothing has been given and no success reported; until it
\* fails or is closed, what was heard is what was consumed, given and is left
\* of the call.
Accounted ==
    /\ io_state \in Opening => oks = 0 /\ given = <<>>
    /\ io_state \in Opening \cup {"OPEN"} => heard = consumed \o given \o buffer

\* No byte is counted twice, and the position in a header counts bytes consumed.
Lengths ==
    /\ Len(consumed) + Len(given) + Len(buffer) <= Len(heard)
    /\ header_pos <= Len(consumed)

\* The inductive invariant.
IInv == TypeOK /\ Lengths /\ Accounted

-----------------------------------------------------------------------------
(* Constants and sequences *)

LEMMA Bounds == MaxBytes \in Nat /\ MaxChunk \in Nat /\ MaxOpens \in Nat
BY EntriesAssumption DEF EntriesAssumption

LEMMA ChunkIsSeq ==
    ASSUME NEW bytes \in Chunks
    PROVE  bytes \in Seq(Bytes) /\ Len(bytes) <= MaxChunk /\ Len(bytes) > 0
BY Bounds DEF Chunks

LEMMA CatRight ==
    ASSUME NEW s \in Seq(Bytes), NEW t \in Seq(Bytes)
    PROVE  /\ s \o t \in Seq(Bytes) /\ Len(s \o t) = Len(s) + Len(t)
           /\ s \o <<>> = s /\ <<>> \o s = s
OBVIOUS

LEMMA CatEmpty == <<>> \o <<>> \o <<>> = <<>>
OBVIOUS

LEMMA CatAssoc ==
    ASSUME NEW s \in Seq(Bytes), NEW t \in Seq(Bytes), NEW u \in Seq(Bytes)
    PROVE  (s \o t) \o u = s \o (t \o u)
OBVIOUS

LEMMA AppendType ==
    ASSUME NEW S, NEW s \in Seq(S), NEW x \in S
    PROVE  Append(s, x) \in Seq(S)
OBVIOUS

LEMMA MoveHead ==
    ASSUME NEW s \in Seq(Bytes), NEW t \in Seq(Bytes), t # <<>>
    PROVE  /\ s \o t = Append(s, Head(t)) \o Tail(t)
           /\ Append(s, Head(t)) \in Seq(Bytes) /\ Len(Append(s, Head(t))) = Len(s) + 1
           /\ Tail(t) \in Seq(Bytes) /\ Len(Tail(t)) = Len(t) - 1
OBVIOUS

-----------------------------------------------------------------------------
(* The invariant is inductive *)

LEMMA InitIInv == Init => IInv
<1> SUFFICES ASSUME Init PROVE IInv
    OBVIOUS
<1>1. TypeOK
    <2>1. calling \in BOOLEAN
        BY DEF Init
    <2> QED BY <2>1, Bounds DEF Init, TypeOK, IoStates
<1>2. Lengths
    BY DEF Init, Lengths
<1>3. Accounted
    BY CatEmpty DEF Init, Accounted
<1> QED BY <1>1, <1>2, <1>3 DEF IInv

\* What the calls of the user and the callbacks without bytes leave alone.
LEMMA CallsIInv ==
    ASSUME IInv,
           \/ header_detect_io_open_async
           \/ header_detect_io_close_async
           \/ header_detect_io_destroy
           \/ on_underlying_io_close_complete
           \/ open_complete_ok
           \/ open_complete_error
           \/ on_underlying_io_error
    PROVE  IInv'
<1> USE Bounds DEF IInv, TypeOK, Lengths, Accounted, IoStates, Opening, call, stream,
            internal_close, UserRuns, IoRuns
<1>1. CASE header_detect_io_open_async
    <2> USE <1>1 DEF header_detect_io_open_async
    <2>1. TypeOK'
        OBVIOUS
    <2>2. Lengths'
        OBVIOUS
    <2>3. Accounted'
        BY CatEmpty
    <2> QED BY <2>1, <2>2, <2>3
<1>2. CASE header_detect_io_close_async
    <2>1. CASE close_cancels
        BY <2>1 DEF close_cancels
    <2>2. CASE close_begins
        BY <2>2 DEF close_begins
    <2> QED BY <1>2, <2>1, <2>2 DEF header_detect_io_close_async
<1>3. CASE header_detect_io_destroy
    <2>1. UNCHANGED <<io_state, chained, lower>> \/ internal_close
        BY <1>3 DEF header_detect_io_destroy
    <2>2. CASE UNCHANGED <<io_state, chained, lower>>
        BY <1>3, <2>2 DEF header_detect_io_destroy
    <2>3. CASE internal_close
        BY <1>3, <2>3 DEF header_detect_io_destroy
    <2> QED BY <2>1, <2>2, <2>3
<1>4. CASE on_underlying_io_close_complete
    BY <1>4 DEF on_underlying_io_close_complete
<1>5. CASE open_complete_ok
    BY <1>5 DEF open_complete_ok
<1>6. CASE open_complete_error
    BY <1>6 DEF open_complete_error
<1>7. CASE on_underlying_io_error
    BY <1>7 DEF on_underlying_io_error
<1> QED BY <1>1, <1>2, <1>3, <1>4, <1>5, <1>6, <1>7

LEMMA BytesIInv ==
    ASSUME IInv, NEW bytes \in Chunks, on_underlying_io_bytes_received(bytes)
    PROVE  IInv'
<1> USE DEF on_underlying_io_bytes_received, IoRuns
<1>1. TypeOK'
    BY ChunkIsSeq, CatRight DEF IInv, TypeOK
<1>2. Lengths'
    BY ChunkIsSeq, CatRight DEF IInv, TypeOK, Lengths
<1>3. Accounted'
    <2>1. CASE heard = consumed \o given \o buffer
        <3>1. consumed \o given \in Seq(Bytes)
            BY CatRight DEF IInv, TypeOK
        <3>2. heard = consumed \o given
            BY <2>1, <3>1, CatRight
        <3> QED BY <3>2 DEF IInv, Accounted
    <2> QED BY <2>1 DEF IInv, Accounted
<1> QED BY <1>1, <1>2, <1>3 DEF IInv

\* A byte that is moved from the call to those consumed.
LEMMA TakenAccounted ==
    ASSUME TypeOK, Looping, byte_taken, heard = consumed \o <<>> \o buffer
    PROVE  heard = consumed' \o <<>> \o buffer'
<1>1. buffer # <<>>
    BY DEF Looping
<1>2. heard = consumed \o buffer
    BY CatRight DEF TypeOK
<1>3. heard = consumed' \o buffer' /\ consumed' \in Seq(Bytes)
    BY <1>1, <1>2, MoveHead DEF byte_taken, TypeOK
<1> QED BY <1>3, CatRight

LEMMA LoopIInv ==
    ASSUME IInv, loop
    PROVE  IInv'
<1> USE DEF IInv
<1>1. CASE loop_early \/ loop_detected
    <2>1. given = <<>> /\ heard = consumed \o <<>> \o buffer
        BY <1>1 DEF loop_early, loop_detected, Accounted, Opening
    <2>2. heard = consumed \o buffer /\ consumed' \in Seq(Bytes)
        BY <1>1, <2>1, CatRight DEF loop_early, loop_detected, TypeOK
    <2>3. heard' = consumed' \o given' \o buffer'
        BY <1>1, <2>1, <2>2, CatRight DEF loop_early, loop_detected
    <2>4. TypeOK' /\ Lengths'
        <3>1. /\ Len(buffer') = 0 /\ buffer' \in Seq(Bytes)
              /\ Len(consumed') = Len(consumed) + Len(buffer)
            <4>1. buffer' = <<>> /\ consumed' = consumed \o buffer
                BY <1>1 DEF loop_early, loop_detected
            <4>2. buffer \in Seq(Bytes) /\ consumed \in Seq(Bytes)
                BY DEF TypeOK
            <4> QED BY <4>1, <4>2, CatRight
        <3>2. /\ heard' = heard /\ given' = given /\ answered' = answered
              /\ io_state' = io_state /\ header_pos' = header_pos /\ chained' = chained
              /\ lower' = lower /\ calling' = calling /\ run' = run
              /\ opens' = opens /\ oks' = oks
            BY <1>1 DEF loop_early, loop_detected
        <3>3. TypeOK'
            BY <2>2, <3>1, <3>2, Bounds DEF TypeOK
        <3>4. Lengths'
            <4>1. /\ Len(consumed) \in Nat /\ Len(buffer) \in Nat /\ Len(given) \in Nat
                  /\ header_pos \in Nat
                BY DEF TypeOK
            <4> QED BY <3>1, <3>2, <4>1 DEF Lengths
        <3> QED BY <3>3, <3>4
    <2> QED BY <1>1, <2>3, <2>4 DEF loop_early, loop_detected, Accounted
<1>2. CASE loop_open
    <2>1. heard = (consumed \o given) \o buffer
        BY <1>2 DEF loop_open, Accounted
    <2>2. /\ given' \in Seq(Bytes) /\ Len(given') = Len(given) + Len(buffer)
          /\ buffer' = <<>> /\ Len(buffer') = 0
          /\ consumed \o given' \in Seq(Bytes)
        BY <1>2, CatRight DEF loop_open, TypeOK
    <2>3. heard' = consumed' \o given' \o buffer'
        <3>1. heard = consumed \o given'
            BY <1>2, <2>1, CatAssoc DEF loop_open, TypeOK
        <3>2. consumed' = consumed /\ heard' = heard
            BY <1>2 DEF loop_open
        <3>3. (consumed \o given') \o <<>> = consumed \o given'
            BY <2>2, CatRight
        <3> QED BY <2>2, <3>1, <3>2, <3>3
    <2>4. TypeOK' /\ Lengths'
        BY <1>2, <2>2, Bounds DEF loop_open, TypeOK, Lengths
    <2> QED BY <1>2, <2>3, <2>4 DEF loop_open, Accounted, Opening
<1>3. CASE loop_spins \/ loop_no_match \/ callback_returns
    <2> USE DEF stream, TypeOK, Lengths, Accounted
    <2>1. CASE loop_spins
        BY <2>1 DEF loop_spins
    <2>2. CASE loop_no_match
        BY <2>2, Bounds DEF loop_no_match, internal_close, Opening, IoStates
    <2>3. CASE callback_returns
        <3>1. calling' \in BOOLEAN
            BY <2>3 DEF callback_returns
        <3> QED BY <2>3, <3>1 DEF callback_returns
    <2> QED BY <1>3, <2>1, <2>2, <2>3
<1>4. CASE loop_matches \/ loop_recognised_fails \/ loop_opens \/ loop_detects
       \/ loop_detects_at_once
    <2> USE DEF loop_matches, loop_recognised_fails, loop_opens, loop_detects, loop_detects_at_once
    <2>1. /\ Looping /\ byte_taken /\ io_state = "WAIT_FOR_HEADER"
          /\ heard' = heard /\ given' = given
        BY <1>4
    <2>2. given = <<>> /\ oks = 0 /\ heard = consumed \o <<>> \o buffer
        BY <2>1 DEF Accounted, Opening
    <2>3. heard' = consumed' \o given' \o buffer'
        BY <2>1, <2>2, TakenAccounted
    <2>4. /\ buffer' \in Seq(Bytes) /\ Len(buffer') = Len(buffer) - 1
          /\ consumed' \in Seq(Bytes) /\ Len(consumed') = Len(consumed) + 1
        BY <2>1, MoveHead DEF byte_taken, Looping, TypeOK
    <2>5. Lengths'
        BY <1>4, <2>1, <2>4 DEF Lengths, TypeOK
    <2>6. TypeOK'
        <3>1. answered' \in Seq(DOMAIN Entries)
            <4>1. recognised \subseteq DOMAIN Entries
                BY DEF recognised, matching
            <4>2. answered' = answered \/ \E i \in recognised : answered' = Append(answered, i)
                BY <1>4
            <4>3. answered \in Seq(DOMAIN Entries)
                BY DEF TypeOK
            <4> QED BY <4>1, <4>2, <4>3, AppendType, Zenon
        <3>2. header_pos' \in 0 .. MaxBytes
            <4>1. header_pos' \in Nat
                BY <1>4 DEF TypeOK
            <4>2. Len(given) = 0 /\ Len(heard) <= MaxBytes /\ Len(heard) \in Nat
                BY <2>2 DEF TypeOK
            <4>3. header_pos' <= Len(consumed') /\ Len(consumed') <= Len(heard)
                BY <2>1, <2>4, <2>5, <4>2 DEF Lengths
            <4>4. Len(consumed') \in Nat
                BY <2>4
            <4> QED BY <4>1, <4>2, <4>3, <4>4, Bounds
        <3>3. calling' \in BOOLEAN
            BY <1>4 DEF TypeOK
        <3>4. /\ io_state' \in IoStates /\ chained' \in Nat
              /\ lower' \in {"closed", "opening", "open", "closing"} /\ oks' \in {0, 1}
              /\ run' = run /\ opens' = opens
            BY <1>4, <2>2 DEF TypeOK, IoStates, internal_close
        <3>5. Len(buffer') <= MaxChunk
            <4>1. Len(buffer) \in Nat /\ Len(buffer) <= MaxChunk
                BY DEF TypeOK
            <4> QED BY <2>4, <4>1, Bounds
        <3>6. heard' = heard /\ given' = given
            BY <2>1
        <3> QED BY <2>4, <3>1, <3>2, <3>3, <3>4, <3>5, <3>6 DEF TypeOK
    <2>7. Accounted'
        BY <1>4, <2>1, <2>2, <2>3 DEF Accounted, Opening, internal_close
    <2> QED BY <2>5, <2>6, <2>7
<1> QED BY <1>1, <1>2, <1>3, <1>4 DEF loop

LEMMA NextIInv == IInv /\ [Next]_vars => IInv'
<1> SUFFICES ASSUME IInv, [Next]_vars PROVE IInv'
    OBVIOUS
<1>1. CASE UNCHANGED vars
    BY <1>1 DEF vars, call, stream, IInv, TypeOK, Lengths, Accounted
<1> QED BY <1>1, CallsIInv, BytesIInv, LoopIInv DEF Next

LEMMA Invariance == Spec => []IInv
BY InitIInv, NextIInv, PTL DEF Spec

\* The instance of header_detect_io.c keeps values of the right kind, however
\* many ios are put on top of one another.
THEOREM TypeCorrect == Spec => []TypeOK
BY Invariance, PTL DEF IInv

\* PayloadIntact: no byte behind the headers and handshakes is lost, repeated
\* or reordered by on_underlying_io_bytes_received.
THEOREM PayloadKept == Spec => []PayloadIntact
<1>1. IInv => PayloadIntact
    BY DEF IInv, Accounted, PayloadIntact
<1> QED BY <1>1, Invariance, PTL

-----------------------------------------------------------------------------
(* Refinement of Xio *)

\* A call or callback without bytes is a step of the interface, or none.
LEMMA CallsMap ==
    ASSUME IInv,
           \/ header_detect_io_open_async
           \/ header_detect_io_close_async
           \/ header_detect_io_destroy
           \/ on_underlying_io_close_complete
           \/ open_complete_ok
           \/ open_complete_error
           \/ on_underlying_io_error
    PROVE  [Interface!Next]_(Interface!vars)
<1> USE DEF phase, Interface!Next, Interface!vars
<1>1. CASE header_detect_io_open_async
    <2>1. phase = "closed" /\ phase' = "opening" /\ oks' = 0 /\ given' = <<>>
        BY <1>1 DEF header_detect_io_open_async, Opening
    <2>2. Len(given') = 0
        BY <2>1
    <2> QED BY <2>1, <2>2 DEF Interface!Open
<1>2. CASE header_detect_io_close_async
    BY <1>2 DEF header_detect_io_close_async, close_cancels, close_begins, internal_close,
                Opening, stream, Interface!Close
<1>3. CASE header_detect_io_destroy
    <2>1. UNCHANGED <<io_state, chained, lower>> \/ io_state' = "NOT_OPEN"
        BY <1>3 DEF header_detect_io_destroy, internal_close
    <2>2. oks' = oks /\ given' = given
        BY <1>3 DEF header_detect_io_destroy, stream
    <2> QED BY <2>1, <2>2 DEF IInv, TypeOK, IoStates, Opening, Interface!Close, Interface!Closed
<1>4. CASE on_underlying_io_close_complete
    BY <1>4 DEF on_underlying_io_close_complete, Opening, stream, Interface!Close, Interface!Closed
<1>5. CASE open_complete_ok
    BY <1>5 DEF open_complete_ok, Opening, stream
<1>6. CASE open_complete_error
    BY <1>6 DEF open_complete_error, internal_close, Opening, stream, Interface!NotOpened
<1>7. CASE on_underlying_io_error
    BY <1>7 DEF on_underlying_io_error, internal_close, Opening, stream,
                Interface!NotOpened, Interface!Fails
<1> QED BY <1>1, <1>2, <1>3, <1>4, <1>5, <1>6, <1>7

\* An iteration of the loop is a step of the interface, or none: the success is
\* reported once since none was while the header was awaited.
LEMMA LoopMaps ==
    ASSUME IInv, loop
    PROVE  [Interface!Next]_(Interface!vars)
<1> USE DEF phase, Interface!Next, Interface!vars
<1>1. CASE loop_early \/ loop_detected \/ loop_spins \/ loop_matches \/ callback_returns
    BY <1>1 DEF loop_early, loop_detected, loop_spins, loop_matches, callback_returns, stream
<1>2. CASE loop_open
    <2>1. Len(given') > Len(given)
        <3>1. buffer # <<>> /\ given' = given \o buffer
            BY <1>2 DEF loop_open, Looping
        <3>2. buffer \in Seq(Bytes) /\ given \in Seq(Bytes)
            BY DEF IInv, TypeOK
        <3>3. Len(buffer) > 0 /\ Len(buffer) \in Nat /\ Len(given) \in Nat
            BY <3>1, <3>2
        <3> QED BY <3>1, <3>2, <3>3, CatRight
    <2>2. phase = "open" /\ io_state' = io_state /\ oks' = oks
        BY <1>2 DEF loop_open, Opening
    <2> QED BY <2>1, <2>2 DEF Interface!Data
<1>3. CASE loop_no_match
    BY <1>3 DEF loop_no_match, internal_close, Opening, stream, Interface!NotOpened
<1>4. CASE loop_recognised_fails
    BY <1>4 DEF loop_recognised_fails, internal_close, Opening, Interface!NotOpened
<1>5. CASE loop_opens
    <2>1. oks = 0
        BY <1>5 DEF loop_opens, IInv, Accounted, Opening
    <2> QED BY <1>5, <2>1 DEF loop_opens, Opening, Interface!Opened
<1>6. CASE loop_detects \/ loop_detects_at_once
    BY <1>6 DEF loop_detects, loop_detects_at_once, Opening
<1> QED BY <1>1, <1>2, <1>3, <1>4, <1>5, <1>6 DEF loop

LEMMA NextMaps == IInv /\ [Next]_vars => [Interface!Next]_(Interface!vars)
<1> SUFFICES ASSUME IInv, [Next]_vars PROVE [Interface!Next]_(Interface!vars)
    OBVIOUS
<1>1. CASE UNCHANGED vars
    BY <1>1 DEF vars, stream, phase, Interface!vars
<1>2. CASE \E bytes \in Chunks : on_underlying_io_bytes_received(bytes)
    BY <1>2 DEF on_underlying_io_bytes_received, phase, Interface!vars
<1> QED BY <1>1, <1>2, CallsMap, LoopMaps DEF Next

\* The io implements the interface Xio: whatever headers come and however calls,
\* callbacks and iterations of the loop follow one another, an open reports
\* success at most once, bytes are given only while the io is open, and a closed
\* io stays closed until it is opened again.
THEOREM ImplementsInterface == Spec => ImplementsXio
<1>1. Init => Interface!Init
    <2>1. Init => phase = "closed" /\ oks = 0 /\ Len(given) = 0
        BY DEF Init, phase, Opening
    <2> QED BY <2>1 DEF Interface!Init
<1> QED BY <1>1, NextMaps, Invariance, PTL DEF Spec, ImplementsXio, Interface!Spec

=============================================================================

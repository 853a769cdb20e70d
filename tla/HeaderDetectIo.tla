--------------------------- MODULE HeaderDetectIo ---------------------------
(***************************************************************************)
(* src/src/header_detect_io.c: the io of a server that reads the protocol  *)
(* header of its client and puts the io of that protocol on top of the     *)
(* stack.  `lower' is what the stack below does (external): the io the     *)
(* user created this one with and the detected ones on top of it, of which *)
(* `chained' is the number and the last one is last_io.                    *)
(*                                                                         *)
(* An action is one call of the user or one callback of an io; only the    *)
(* loop of on_underlying_io_bytes_received is one action per iteration:    *)
(* `buffer' is what is left of the bytes of the call.  The user may close  *)
(* the io in the callback that the loop makes (`calling').  After a call   *)
(* that spins for ever, and after header_detect_io_destroy, nothing runs   *)
(* (`run').  Calls that change no state are left out: send_async, dowork,  *)
(* set_option, an error of sending the header, a call without bytes.       *)
(***************************************************************************)
EXTENDS Naturals, Sequences

CONSTANTS
    Entries,     \* header_detect_entries: [bytes, io] with io = TRUE if detected
    Bytes,       \* the bytes a peer may send
    MaxBytes,    \* bound: bytes received in one open
    MaxChunk,    \* bound: bytes of one call
    MaxOpens     \* bound: calls of header_detect_io_open_async

\* header_detect_io_create refuses an empty table and one without default.
ASSUME EntriesAssumption ==
    /\ Entries \in Seq([bytes : Seq(Bytes), io : BOOLEAN])
    /\ \E i \in DOMAIN Entries : ~Entries[i].io
    /\ MaxBytes \in Nat /\ MaxChunk \in Nat /\ MaxOpens \in Nat

VARIABLES
    io_state, header_pos, chained,
    lower,       \* the stack below: "closed", "opening", "open" or "closing"
    buffer, calling, run,
    opens,       \* calls of open that were let in
    oks,         \* calls of on_io_open_complete with IO_OPEN_OK in this open
    heard,       \* bytes received in this open,
    consumed,    \* those of them refused, taken as headers or by a detected io,
    given,       \* those given to the user,
    answered     \* and the entries whose header was recognised

call == <<buffer, calling, run>>
stream == <<heard, consumed, given, answered>>
vars == <<io_state, header_pos, chained, lower, call, opens, oks, stream>>

-----------------------------------------------------------------------------

IoStates == {"NOT_OPEN", "OPENING_UNDERLYING_IO", "WAIT_FOR_HEADER",
             "OPENING_DETECTED_IO", "OPEN", "CLOSING", "ERROR"}

Opening == {"OPENING_UNDERLYING_IO", "WAIT_FOR_HEADER", "OPENING_DETECTED_IO"}

\* The variables hold what header_detect_io.c keeps in its instance.
TypeOK ==
    /\ io_state \in IoStates
    /\ header_pos \in 0 .. MaxBytes
    /\ chained \in Nat
    /\ lower \in {"closed", "opening", "open", "closing"}
    /\ buffer \in Seq(Bytes) /\ Len(buffer) <= MaxChunk
    /\ calling \in BOOLEAN /\ run \in {"runs", "spins", "freed"}
    /\ opens \in 0 .. MaxOpens
    /\ oks \in {0, 1}
    /\ heard \in Seq(Bytes) /\ consumed \in Seq(Bytes) /\ given \in Seq(Bytes)
    /\ Len(heard) <= MaxBytes
    /\ answered \in Seq(DOMAIN Entries)

\* header_detect_io_create
Init ==
    /\ io_state = "NOT_OPEN" /\ header_pos = 0 /\ chained = 0
    /\ lower = "closed"
    /\ buffer = <<>> /\ calling = FALSE /\ run = "runs"
    /\ opens = 0 /\ oks = 0
    /\ heard = <<>> /\ consumed = <<>> /\ given = <<>> /\ answered = <<>>

\* No call is in progress but a callback to the user.
UserRuns == run = "runs" /\ (buffer = <<>> \/ calling)

IoRuns == run = "runs" /\ buffer = <<>> /\ ~calling

\* xio_close of the last io, which may fail, and destroy_io_chain.
internal_close ==
    /\ io_state' = "NOT_OPEN"
    /\ chained' = 0
    /\ lower' \in {"closed", lower}

\* Mutant: the state is not looked at.
header_detect_io_open_async_again ==
    /\ UserRuns /\ ~calling
    /\ opens < MaxOpens
    /\ opens' = opens + 1
    /\ oks' = 0
    /\ io_state' = "OPENING_UNDERLYING_IO"
    /\ header_pos' = 0
    /\ lower' \in IF lower = "closed" THEN {"opening", "closed"} ELSE {lower}
    /\ heard' = <<>> /\ consumed' = <<>> /\ given' = <<>> /\ answered' = <<>>
    /\ UNCHANGED <<chained, call>>

\* header_detect_io_open_async; a failing xio_open leaves the state.
header_detect_io_open_async ==
    /\ UserRuns /\ ~calling
    /\ io_state = "NOT_OPEN"
    /\ opens < MaxOpens
    /\ opens' = opens + 1
    /\ oks' = 0
    /\ io_state' = "OPENING_UNDERLYING_IO"
    /\ header_pos' = 0
    /\ lower' \in IF lower = "closed" THEN {"opening", "closed"} ELSE {lower}
    /\ heard' = <<>> /\ consumed' = <<>> /\ given' = <<>> /\ answered' = <<>>
    /\ UNCHANGED <<chained, call>>

\* header_detect_io_close_async while opening: on_io_open_complete(CANCELLED).
close_cancels ==
    /\ UserRuns
    /\ io_state \in Opening
    /\ internal_close
    /\ UNCHANGED <<header_pos, call, opens, oks, stream>>

\* header_detect_io_close_async of an open io or of one in error; a failing
\* xio_close leaves it CLOSING.
close_begins ==
    /\ UserRuns
    /\ io_state \in {"OPEN", "ERROR"}
    /\ io_state' = "CLOSING"
    /\ lower' \in {"closing", lower}
    /\ UNCHANGED <<header_pos, chained, call, opens, oks, stream>>

\* header_detect_io_destroy closes first unless the io is NOT_OPEN.
header_detect_io_destroy ==
    /\ UserRuns /\ ~calling
    /\ IF io_state = "NOT_OPEN" THEN UNCHANGED <<io_state, chained, lower>> ELSE internal_close
    /\ run' = "freed"
    /\ UNCHANGED <<header_pos, buffer, calling, opens, oks, stream>>

header_detect_io_close_async == close_cancels \/ close_begins

\* on_underlying_io_close_complete
on_underlying_io_close_complete ==
    /\ IoRuns
    /\ lower = "closing"
    /\ lower' = "closed"
    /\ io_state' = IF io_state \in Opening \cup {"CLOSING"} THEN "NOT_OPEN" ELSE io_state
    /\ chained' = IF io_state = "CLOSING" THEN 0 ELSE chained
    /\ UNCHANGED <<header_pos, call, opens, oks, stream>>

\* on_underlying_io_open_complete with IO_OPEN_OK, of the underlying io or of
\* the detected one.
open_complete_ok ==
    /\ IoRuns
    /\ \/ lower = "opening" /\ lower' = "open"
       \/ lower = "open" /\ io_state = "OPENING_DETECTED_IO" /\ UNCHANGED lower
    /\ io_state' = IF io_state \in {"OPENING_DETECTED_IO", "OPENING_UNDERLYING_IO"}
                   THEN "WAIT_FOR_HEADER" ELSE io_state
    /\ UNCHANGED <<header_pos, chained, call, opens, oks, stream>>

\* on_underlying_io_open_complete with IO_OPEN_ERROR
open_complete_error ==
    /\ IoRuns
    /\ lower = "opening" \/ (lower = "open" /\ io_state = "OPENING_DETECTED_IO")
    /\ IF io_state \in {"OPENING_DETECTED_IO", "OPENING_UNDERLYING_IO"}
       THEN internal_close
       ELSE lower' = "closed" /\ UNCHANGED <<io_state, chained>>
    /\ UNCHANGED <<header_pos, call, opens, oks, stream>>

\* on_underlying_io_error
on_underlying_io_error ==
    /\ IoRuns
    /\ lower \in {"opening", "open"}
    /\ \/ io_state \in Opening /\ internal_close
       \/ io_state = "OPEN" /\ io_state' = "ERROR" /\ UNCHANGED <<chained, lower>>
    /\ UNCHANGED <<header_pos, call, opens, oks, stream>>

-----------------------------------------------------------------------------

\* on_underlying_io_bytes_received enters its loop with the bytes of a call.
on_underlying_io_bytes_received(bytes) ==
    /\ IoRuns
    /\ lower \in {"opening", "open", "closing"}
    /\ Len(heard) + Len(bytes) <= MaxBytes
    /\ buffer' = bytes
    /\ heard' = heard \o bytes
    /\ UNCHANGED <<io_state, header_pos, chained, lower, calling, run, opens, oks,
                   consumed, given, answered>>

Looping == buffer # <<>> /\ ~calling /\ run = "runs"

\* The bytes come before the io below has reported its open: the open is
\* reported as failed, and the state is left.
loop_early ==
    /\ Looping
    /\ io_state = "OPENING_UNDERLYING_IO"
    /\ buffer' = <<>>
    /\ consumed' = consumed \o buffer
    /\ UNCHANGED <<io_state, header_pos, chained, lower, calling, run, opens, oks,
                   heard, given, answered>>

\* The bytes are the handshake of the detected io.
loop_detected ==
    /\ Looping
    /\ io_state = "OPENING_DETECTED_IO"
    /\ buffer' = <<>>
    /\ consumed' = consumed \o buffer
    /\ UNCHANGED <<io_state, header_pos, chained, lower, calling, run, opens, oks,
                   heard, given, answered>>

\* The bytes are given to the user.
loop_open ==
    /\ Looping
    /\ io_state = "OPEN"
    /\ buffer' = <<>>
    /\ given' = given \o buffer
    /\ UNCHANGED <<io_state, header_pos, chained, lower, calling, run, opens, oks,
                   heard, consumed, answered>>

\* In the other states the loop never makes `size' smaller.
loop_spins ==
    /\ Looping
    /\ io_state \in {"NOT_OPEN", "CLOSING", "ERROR"}
    /\ run' = "spins"
    /\ UNCHANGED <<io_state, header_pos, chained, lower, buffer, calling, opens, oks, stream>>

\* The entries whose header has the next byte at header_pos, whatever its
\* earlier bytes, and the first of them that is complete with it.
matching ==
    {i \in DOMAIN Entries :
        /\ header_pos < Len(Entries[i].bytes)
        /\ Entries[i].bytes[header_pos + 1] = Head(buffer)}

recognised ==
    {i \in matching :
        /\ header_pos + 1 = Len(Entries[i].bytes)
        /\ \A j \in matching : header_pos + 1 = Len(Entries[j].bytes) => i <= j}

\* Mutant: what follows the byte in the call is dropped.
byte_taken_alone ==
    /\ buffer' = <<>>
    /\ consumed' = Append(consumed, Head(buffer))

byte_taken ==
    /\ buffer' = Tail(buffer)
    /\ consumed' = Append(consumed, Head(buffer))

\* No entry has the byte: the first header is sent and the io is closed.
loop_no_match ==
    /\ Looping
    /\ io_state = "WAIT_FOR_HEADER"
    /\ matching = {}
    /\ internal_close
    /\ buffer' = <<>>
    /\ UNCHANGED <<header_pos, calling, run, opens, oks, stream>>

\* No header is complete yet.
loop_matches ==
    /\ Looping
    /\ io_state = "WAIT_FOR_HEADER"
    /\ matching # {} /\ recognised = {}
    /\ header_pos' = header_pos + 1
    /\ byte_taken
    /\ UNCHANGED <<io_state, chained, lower, calling, run, opens, oks,
                   heard, given, answered>>

\* The header is complete, but sending it back fails, or allocating, creating,
\* listing or opening the detected io, or this io reports inside xio_open that it
\* failed to open: only the first leaves the io below open.
loop_recognised_fails ==
    /\ Looping
    /\ io_state = "WAIT_FOR_HEADER"
    /\ \E i \in recognised :
         \/ io_state' = "NOT_OPEN" /\ UNCHANGED <<chained, lower>>
         \/ Entries[i].io /\ internal_close
    /\ header_pos' = header_pos + 1
    /\ byte_taken
    /\ UNCHANGED <<calling, run, opens, oks, heard, given, answered>>

\* The header is sent back and is that of the default: the io is open.
loop_opens ==
    /\ Looping
    /\ io_state = "WAIT_FOR_HEADER"
    /\ \E i \in recognised : ~Entries[i].io /\ answered' = Append(answered, i)
    /\ io_state' = "OPEN"
    /\ oks' = oks + 1
    /\ calling' = TRUE
    /\ header_pos' = header_pos + 1
    /\ byte_taken
    /\ UNCHANGED <<chained, lower, run, opens, heard, given>>

\* The header is sent back and the io of its protocol is created and opened.
loop_detects ==
    /\ Looping
    /\ io_state = "WAIT_FOR_HEADER"
    /\ \E i \in recognised : Entries[i].io /\ answered' = Append(answered, i)
    /\ chained' = chained + 1
    /\ io_state' = "OPENING_DETECTED_IO"
    /\ header_pos' = 0
    /\ byte_taken
    /\ UNCHANGED <<lower, calling, run, opens, oks, heard, given>>

\* The detected io reports its open already inside xio_open: the io waits for the
\* next header, but the position, reset only behind a detected io that is still
\* opening, stays behind the header that was recognised.
loop_detects_at_once ==
    /\ Looping
    /\ io_state = "WAIT_FOR_HEADER"
    /\ \E i \in recognised : Entries[i].io /\ answered' = Append(answered, i)
    /\ chained' = chained + 1
    /\ header_pos' = header_pos + 1
    /\ byte_taken
    /\ UNCHANGED <<io_state, lower, calling, run, opens, oks, heard, given>>

\* The callback of the user returns to the loop.
callback_returns ==
    /\ calling /\ calling' = FALSE
    /\ UNCHANGED <<io_state, header_pos, chained, lower, buffer, run, opens, oks, stream>>

loop ==
    \/ loop_early \/ loop_detected \/ loop_open \/ loop_spins
    \/ loop_no_match \/ loop_matches \/ loop_recognised_fails
    \/ loop_opens \/ loop_detects \/ loop_detects_at_once
    \/ callback_returns

Chunks == UNION {[1 .. n -> Bytes] : n \in 1 .. MaxChunk}

Next ==
    \/ header_detect_io_open_async
    \/ header_detect_io_close_async
    \/ header_detect_io_destroy
    \/ on_underlying_io_close_complete
    \/ open_complete_ok
    \/ open_complete_error
    \/ on_underlying_io_error
    \/ \E bytes \in Chunks : on_underlying_io_bytes_received(bytes)
    \/ loop

Spec == Init /\ [][Next]_vars

-----------------------------------------------------------------------------

\* What the user of an io relies on (Xio), for the phase that io_state stands
\* for: one success per open, bytes only while open, no way from closed but
\* through open.
phase ==
    CASE io_state = "NOT_OPEN" -> "closed"
      [] io_state \in Opening -> "opening"
      [] io_state = "OPEN" -> "open"
      [] io_state = "CLOSING" -> "closing"
      [] io_state = "ERROR" -> "error"

Interface == INSTANCE Xio WITH data <- Len(given)

ImplementsXio == Interface!Spec

\* However the stream is cut into calls, the user of an open io is given the
\* bytes behind the headers and the handshakes, all of them and in order.
PayloadIntact ==
    io_state = "OPEN" => heard = consumed \o given \o buffer

\* devdoc/header_detect_io_requirements.md:204: bytes that match none of the
\* headers do not open the io; the header answered is the header received.
RecognisedIsReceived ==
    \A i \in {answered[n] : n \in DOMAIN answered} :
        \E n \in 0 .. Len(consumed) - Len(Entries[i].bytes) :
            SubSeq(consumed, n + 1, n + Len(Entries[i].bytes)) = Entries[i].bytes
=============================================================================

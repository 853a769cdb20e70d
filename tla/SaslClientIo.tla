---------------------------- MODULE SaslClientIo ----------------------------
(***************************************************************************)
(* src/src/saslclientio.c: the io of a client that authenticates with SASL *)
(* before it gives its user the bytes of the io below; with it what it     *)
(* needs of sasl_frame_codec.c, of frame_codec.c and of the mechanisms.    *)
(*                                                                         *)
(* A byte is modelled by what it completes: a byte of the header, the last *)
(* byte of a SASL frame, or a byte of the user's.  The peer may send any   *)
(* sequence of them.  The loop of on_underlying_io_bytes_received is one   *)
(* action per byte; the user may close the io in the callback that tells   *)
(* him that it is open (`calling').  The io below (external) may refuse a  *)
(* close, complete it in the call, or later.                               *)
(***************************************************************************)
EXTENDS Naturals, Sequences, FiniteSets

CONSTANTS
    Mechanism,   \* "PLAIN", "ANONYMOUS" or "MSSBCBS"
    Credentials, \* lengths of authzid, authcid and passwd
    Offers,      \* the lists of SASL-MECHANISMS frames; NotASymbol an item of another type
    NotASymbol,
    MaxBytes,    \* bound: bytes received in one open
    MaxChunk,    \* bound: bytes of one call
    MaxOpens     \* bound: opens

ASSUME SaslAssumption ==
    /\ Mechanism \in {"PLAIN", "ANONYMOUS", "MSSBCBS"}
    /\ Credentials \subseteq Nat \X Nat \X Nat
    /\ MaxBytes \in Nat /\ MaxChunk \in Nat /\ MaxOpens \in Nat

VARIABLES
    io_state, sasl_header_exchange_state, sasl_client_negotiation_state,
    header_bytes_received,
    codec,       \* "ok", or which codec is in error: "frame" or "sasl"
    lower,       \* the io below: "closed", "opening", "open" or "closing"
    buffer, calling,
    opens,
    oks,         \* calls of on_io_open_complete with IO_OPEN_OK in this open
    wire,        \* "header", "init" and "response" as written in this open
    heard,       \* bytes received in this open
    given,       \* the bytes given to the user while the io is open,
    leaked,      \* and how many otherwise
    initial      \* length of the initial response

handshake == <<sasl_header_exchange_state, sasl_client_negotiation_state,
               header_bytes_received, codec>>
stream == <<heard, given, leaked>>
vars == <<io_state, handshake, lower, buffer, calling, opens, oks, wire, stream, initial>>

-----------------------------------------------------------------------------

IoStates == {"NOT_OPEN", "OPENING_UNDERLYING_IO", "SASL_HANDSHAKE", "OPEN", "CLOSING", "ERROR"}

HeaderExchangeStates == {"IDLE", "HEADER_SENT", "HEADER_RCVD", "HEADER_EXCH"}

\* CHALLENGE_RCVD, RESPONSE_SENT and ERROR are never assigned.
NegotiationStates == {"NOT_STARTED", "MECH_RCVD", "INIT_SENT", "OUTCOME_RCVD"}

\* What a byte completes.  "unknown" is a SASL frame the client does not take
\* (SASL-INIT, SASL-RESPONSE), "not_sasl" one that sasl_frame_codec refuses;
\* "header" and "user" belong to no frame, so that frame_codec refuses them.  An
\* outcome other than ok is like one that cannot be read.
header_size == 2

Bytes ==
    [k : {"header", "challenge", "unknown", "not_sasl", "user"}]
    \cup [k : {"mechanisms"}, list : Offers]
    \cup [k : {"outcome"}, code : {"ok", "auth"}]

\* The variables hold what saslclientio.c keeps in its instance.
TypeOK ==
    /\ io_state \in IoStates
    /\ sasl_header_exchange_state \in HeaderExchangeStates
    /\ sasl_client_negotiation_state \in NegotiationStates
    /\ header_bytes_received \in 0 .. header_size
    /\ codec \in {"ok", "frame", "sasl"}
    /\ lower \in {"closed", "opening", "open", "closing"}
    /\ buffer \in Seq(Bytes) /\ Len(buffer) <= MaxChunk /\ calling \in BOOLEAN
    /\ opens \in 0 .. MaxOpens /\ oks \in {0, 1}
    /\ wire \in Seq({"header", "init", "response"})
    /\ heard \in Seq(Bytes) /\ Len(heard) <= MaxBytes
    /\ given \in Seq(Bytes) /\ Len(given) <= Len(heard)
    /\ leaked \in Nat /\ leaked <= Len(heard)
    /\ initial \in 0 .. 3 * 255 + 2

-----------------------------------------------------------------------------

\* The mechanisms: name, initial response and answer to a challenge.

\* saslplain_create: [authzid] NUL authcid NUL passwd, each of at most 255
\* bytes, the last two not empty; 0 if it fails.
saslplain_create(authzid_length, authcid_length, passwd_length) ==
    IF /\ authzid_length <= 255
       /\ authcid_length \in 1 .. 255
       /\ passwd_length \in 1 .. 255
    THEN authzid_length + authcid_length + passwd_length + 2
    ELSE 0

saslplain ==
    [name |-> "PLAIN",
     init |-> {saslplain_create(c[1], c[2], c[3]) : c \in Credentials} \ {0},
     response |-> 0]

saslanonymous == [name |-> "ANONYMOUS", init |-> {0}, response |-> 0]

saslmssbcbs == [name |-> "MSSBCBS", init |-> {0}, response |-> 0]

\* saslmechanism_create and the functions that call through its interface
saslmechanism == CHOOSE m \in {saslplain, saslanonymous, saslmssbcbs} : m.name = Mechanism

\* sasl_frame_codec_encode_frame refuses a value of more than 512 - 8 bytes;
\* the rest of SASL-INIT takes some 24.
fits_in_frame(length) == length + 24 <= 512 - 8

\* saslclientio_create
Init ==
    /\ io_state = "NOT_OPEN"
    /\ sasl_header_exchange_state = "IDLE"
    /\ sasl_client_negotiation_state = "NOT_STARTED"
    /\ header_bytes_received = 0
    /\ codec = "ok"
    /\ lower = "closed"
    /\ buffer = <<>> /\ calling = FALSE
    /\ opens = 0 /\ oks = 0
    /\ wire = <<>>
    /\ heard = <<>> /\ given = <<>> /\ leaked = 0
    /\ initial \in saslmechanism.init

UserRuns == buffer = <<>> \/ calling

IoRuns == buffer = <<>> /\ ~calling

\* xio_close of the io below with on_underlying_io_close_complete: the states
\* <<io_state, lower>> it may leave when it is called in an opening state.
close_below(state, low) ==
    IF low \in {"opening", "open"}
    THEN {<<state, "closing">>, <<"NOT_OPEN", "closed">>, <<"NOT_OPEN", low>>}
    ELSE {<<"NOT_OPEN", low>>}

\* handle_error
handle_error(state, low) ==
    CASE state \in {"OPENING_UNDERLYING_IO", "SASL_HANDSHAKE"} -> close_below(state, low)
      [] state = "OPEN" -> {<<"ERROR", low>>}
      [] OTHER -> {<<state, low>>}

\* It is called again: by the callback of a codec, then for the failing byte.
handle_error_twice(state, low) ==
    UNION {handle_error(s[1], s[2]) : s \in handle_error(state, low)}

goes_to(outcomes) == \E s \in outcomes : io_state' = s[1] /\ lower' = s[2]

fails == goes_to(handle_error(io_state, lower))

fails_twice == goes_to(handle_error_twice(io_state, lower))

-----------------------------------------------------------------------------

\* Mutant: the negotiation of the last open is taken up again.
saslclientio_open_async_resumes ==
    /\ IoRuns
    /\ io_state = "NOT_OPEN"
    /\ opens < MaxOpens
    /\ opens' = opens + 1
    /\ oks' = 0
    /\ sasl_header_exchange_state' = "IDLE"
    /\ header_bytes_received' = 0
    /\ io_state' = "OPENING_UNDERLYING_IO"
    /\ lower' \in IF lower = "closed" THEN {"opening", "closed"} ELSE {lower}
    /\ wire' = <<>> /\ heard' = <<>> /\ given' = <<>> /\ leaked' = 0
    /\ UNCHANGED <<sasl_client_negotiation_state, codec, buffer, calling, initial>>

\* saslclientio_open_async; the codecs are those of the last open, and a failing
\* xio_open leaves the state.
saslclientio_open_async ==
    /\ IoRuns
    /\ io_state = "NOT_OPEN"
    /\ opens < MaxOpens
    /\ opens' = opens + 1
    /\ oks' = 0
    /\ sasl_header_exchange_state' = "IDLE"
    /\ sasl_client_negotiation_state' = "NOT_STARTED"
    /\ header_bytes_received' = 0
    /\ io_state' = "OPENING_UNDERLYING_IO"
    /\ lower' \in IF lower = "closed" THEN {"opening", "closed"} ELSE {lower}
    /\ wire' = <<>> /\ heard' = <<>> /\ given' = <<>> /\ leaked' = 0
    /\ UNCHANGED <<codec, buffer, calling, initial>>

\* saslclientio_close_async; a failing xio_close leaves the io CLOSING.
saslclientio_close_async ==
    /\ UserRuns
    /\ io_state \notin {"NOT_OPEN", "CLOSING"}
    /\ \/ io_state' = "CLOSING" /\ UNCHANGED lower
       \/ lower \in {"opening", "open"} /\ io_state' = "CLOSING" /\ lower' = "closing"
       \/ lower \in {"opening", "open"} /\ io_state' = "NOT_OPEN" /\ lower' = "closed"
    /\ UNCHANGED <<handshake, buffer, calling, opens, oks, wire, stream, initial>>

\* on_underlying_io_close_complete
on_underlying_io_close_complete ==
    /\ IoRuns
    /\ lower = "closing"
    /\ lower' = "closed"
    /\ io_state' = IF io_state \in {"OPENING_UNDERLYING_IO", "SASL_HANDSHAKE", "CLOSING"}
                   THEN "NOT_OPEN" ELSE io_state
    /\ UNCHANGED <<handshake, buffer, calling, opens, oks, wire, stream, initial>>

\* Mutant: the state is not looked at.
open_complete_ok_anytime ==
    /\ IoRuns
    /\ lower = "opening"
    /\ io_state' = "SASL_HANDSHAKE" /\ lower' = "open"
    /\ sasl_header_exchange_state' = "HEADER_SENT"
    /\ wire' = Append(wire, "header")
    /\ UNCHANGED <<sasl_client_negotiation_state, header_bytes_received, codec,
                   buffer, calling, opens, oks, stream, initial>>

\* on_underlying_io_open_complete with IO_OPEN_OK: the header is written, which
\* may fail.
open_complete_ok ==
    /\ IoRuns
    /\ lower = "opening"
    /\ \/ /\ io_state = "OPENING_UNDERLYING_IO"
          /\ sasl_header_exchange_state = "IDLE"
          /\ io_state' = "SASL_HANDSHAKE" /\ lower' = "open"
          /\ sasl_header_exchange_state' = "HEADER_SENT"
          /\ wire' = Append(wire, "header")
       \/ /\ io_state = "OPENING_UNDERLYING_IO"
          /\ goes_to(handle_error("SASL_HANDSHAKE", "open"))
          /\ UNCHANGED <<sasl_header_exchange_state, wire>>
       \/ /\ io_state \notin {"OPENING_UNDERLYING_IO", "SASL_HANDSHAKE", "OPEN"}
          /\ lower' = "open"
          /\ UNCHANGED <<io_state, sasl_header_exchange_state, wire>>
    /\ UNCHANGED <<sasl_client_negotiation_state, header_bytes_received, codec,
                   buffer, calling, opens, oks, stream, initial>>

\* on_underlying_io_open_complete with IO_OPEN_ERROR
open_complete_error ==
    /\ IoRuns
    /\ lower = "opening"
    /\ goes_to(handle_error(io_state, "closed"))
    /\ UNCHANGED <<handshake, buffer, calling, opens, oks, wire, stream, initial>>

\* on_underlying_io_error, and a call without bytes
on_underlying_io_error ==
    /\ IoRuns
    /\ lower \in {"opening", "open"}
    /\ fails
    /\ UNCHANGED <<handshake, buffer, calling, opens, oks, wire, stream, initial>>

\* on_underlying_io_bytes_received: the loop is entered in SASL_HANDSHAKE, the
\* bytes go to the user in OPEN, and in the other states nothing happens.
on_underlying_io_bytes_received(bytes) ==
    /\ IoRuns
    /\ lower \in {"open", "closing"}
    /\ io_state \in {"OPEN", "SASL_HANDSHAKE"}
    /\ Len(heard) + Len(bytes) <= MaxBytes
    /\ heard' = heard \o bytes
    /\ \/ io_state = "OPEN" /\ given' = given \o bytes /\ UNCHANGED buffer
       \/ io_state = "SASL_HANDSHAKE" /\ buffer' = bytes /\ UNCHANGED given
    /\ UNCHANGED <<io_state, handshake, lower, calling, opens, oks, wire, leaked, initial>>

-----------------------------------------------------------------------------

\* saslclientio_receive_byte, one iteration of the loop.

Looping == buffer # <<>> /\ ~calling

byte == Head(buffer)

\* The byte is refused: the rest of the call is dropped.
byte_refused == buffer' = <<>>

byte_taken == buffer' = Tail(buffer)

\* A byte of the header is expected and comes.
header_byte ==
    /\ Looping
    /\ sasl_header_exchange_state \in {"IDLE", "HEADER_SENT"}
    /\ byte.k = "header"
    /\ header_bytes_received' = header_bytes_received + 1
    /\ \/ /\ header_bytes_received + 1 < header_size
          /\ byte_taken
          /\ UNCHANGED <<sasl_header_exchange_state, io_state, lower, wire>>
       \/ /\ header_bytes_received + 1 = header_size
          /\ sasl_header_exchange_state = "HEADER_SENT"
          /\ sasl_header_exchange_state' = "HEADER_EXCH"
          /\ byte_taken
          /\ UNCHANGED <<io_state, lower, wire>>
       \/ /\ header_bytes_received + 1 = header_size
          /\ sasl_header_exchange_state = "IDLE"
          /\ sasl_header_exchange_state' = "HEADER_RCVD"
          /\ \/ byte_taken /\ wire' = Append(wire, "header") /\ UNCHANGED <<io_state, lower>>
             \/ byte_refused /\ fails /\ UNCHANGED wire
    /\ UNCHANGED <<sasl_client_negotiation_state, codec, calling, opens, oks, stream, initial>>

\* Another byte comes, or a byte comes behind a header that crossed ours.
header_mismatch ==
    /\ Looping
    /\ \/ sasl_header_exchange_state \in {"IDLE", "HEADER_SENT"} /\ byte.k # "header"
       \/ sasl_header_exchange_state = "HEADER_RCVD"
    /\ byte_refused
    /\ fails
    /\ UNCHANGED <<handshake, calling, opens, oks, wire, stream, initial>>

\* Behind the outcome the byte is the user's, whatever the outcome.
byte_of_user ==
    /\ Looping
    /\ sasl_header_exchange_state = "HEADER_EXCH"
    /\ sasl_client_negotiation_state = "OUTCOME_RCVD"
    /\ byte_taken
    /\ IF io_state = "OPEN" THEN given' = Append(given, byte) /\ UNCHANGED leaked
                            ELSE leaked' = leaked + 1 /\ UNCHANGED given
    /\ UNCHANGED <<io_state, lower, handshake, calling, opens, oks, wire, heard, initial>>

InFrames ==
    /\ Looping
    /\ sasl_header_exchange_state = "HEADER_EXCH"
    /\ sasl_client_negotiation_state # "OUTCOME_RCVD"

\* frame_codec_receive_bytes fails, for good, and tells by its callback too.
frame_malformed ==
    /\ InFrames
    /\ codec = "frame" \/ byte.k \in {"header", "user"}
    /\ codec' = "frame"
    /\ byte_refused
    /\ IF codec = "frame" THEN fails ELSE fails_twice
    /\ UNCHANGED <<sasl_header_exchange_state, sasl_client_negotiation_state,
                   header_bytes_received, calling, opens, oks, wire, stream, initial>>

\* sasl_frame_codec refuses the frame, for good, and tells by its callback.
frame_not_sasl ==
    /\ InFrames
    /\ codec = "ok"
    /\ byte.k = "not_sasl"
    /\ codec' = "sasl"
    /\ byte_taken
    /\ fails
    /\ UNCHANGED <<sasl_header_exchange_state, sasl_client_negotiation_state,
                   header_bytes_received, calling, opens, oks, wire, stream, initial>>

Frames == {"mechanisms", "challenge", "outcome", "unknown"}

\* on_sasl_frame_received_callback for a frame that changes nothing: of a type
\* the client does not take, behind an error of sasl_frame_codec, or with the
\* io no longer in the handshake.
frame_ignored ==
    /\ InFrames
    /\ \/ codec = "sasl" /\ byte.k \in Frames \cup {"not_sasl"}
       \/ codec = "ok" /\ byte.k = "unknown" /\ io_state = "SASL_HANDSHAKE"
       \/ codec = "ok" /\ byte.k \in Frames /\ io_state \in {"NOT_OPEN", "ERROR", "CLOSING"}
    /\ byte_taken
    /\ UNCHANGED <<io_state, lower, handshake, calling, opens, oks, wire, stream, initial>>

Handled == InFrames /\ codec = "ok" /\ io_state = "SASL_HANDSHAKE"

\* The search in the list of the server: an item that is not a symbol ends it
\* as if it had been found.
mechanism_found(list) ==
    \E i \in DOMAIN list :
        /\ list[i] \in {saslmechanism.name, NotASymbol}
        /\ \A j \in 1 .. i - 1 : list[j] # NotASymbol

\* SASL-MECHANISMS is not expected, or has an empty list or one without ours.
mechanisms_refused ==
    /\ Handled
    /\ byte.k = "mechanisms"
    /\ sasl_client_negotiation_state # "NOT_STARTED" \/ ~mechanism_found(byte.list)
    /\ byte_taken
    /\ fails
    /\ UNCHANGED <<handshake, calling, opens, oks, wire, stream, initial>>

\* on_bytes_encoded writes a frame: that this fails is told to handle_error
\* alone.
on_bytes_encoded(frame) ==
    \/ wire' = Append(wire, frame) /\ UNCHANGED <<io_state, lower>>
    \/ fails /\ UNCHANGED wire

\* send_sasl_init and send_sasl_response succeed.
send_sasl_init == fits_in_frame(initial) /\ on_bytes_encoded("init")

send_sasl_response == fits_in_frame(saslmechanism.response) /\ on_bytes_encoded("response")

\* Mutant: SASL-INIT is written for every SASL-MECHANISMS.
mechanisms_received_again ==
    /\ Handled
    /\ byte.k = "mechanisms"
    /\ mechanism_found(byte.list)
    /\ sasl_client_negotiation_state' = "INIT_SENT"
    /\ wire' = Append(wire, "init")
    /\ byte_taken
    /\ UNCHANGED <<sasl_header_exchange_state, header_bytes_received, codec, calling,
                   opens, oks, stream, initial, io_state, lower>>

\* SASL-INIT is built, which may fail, and written.
mechanisms_received ==
    /\ Handled
    /\ byte.k = "mechanisms"
    /\ sasl_client_negotiation_state = "NOT_STARTED"
    /\ mechanism_found(byte.list)
    /\ \/ /\ sasl_client_negotiation_state' = "MECH_RCVD"
          /\ fails
          /\ UNCHANGED wire
       \/ sasl_client_negotiation_state' = "INIT_SENT" /\ send_sasl_init
    /\ byte_taken
    /\ UNCHANGED <<sasl_header_exchange_state, header_bytes_received, codec, calling,
                   opens, oks, stream, initial>>

\* SASL-CHALLENGE: every mechanism answers with an empty SASL-RESPONSE, and the
\* negotiation stays in INIT_SENT.
challenge_received ==
    /\ Handled
    /\ byte.k = "challenge"
    /\ \/ sasl_client_negotiation_state = "INIT_SENT" /\ send_sasl_response
       \/ fails /\ UNCHANGED wire
    /\ byte_taken
    /\ UNCHANGED <<handshake, calling, opens, oks, stream, initial>>

\* SASL-OUTCOME that is not expected
outcome_refused ==
    /\ Handled
    /\ byte.k = "outcome"
    /\ sasl_client_negotiation_state # "INIT_SENT"
    /\ byte_taken
    /\ fails
    /\ UNCHANGED <<handshake, calling, opens, oks, wire, stream, initial>>

\* SASL-OUTCOME
outcome_received ==
    /\ Handled
    /\ byte.k = "outcome"
    /\ sasl_client_negotiation_state = "INIT_SENT"
    /\ sasl_client_negotiation_state' = "OUTCOME_RCVD"
    /\ \/ /\ byte.code = "ok"
          /\ io_state' = "OPEN"
          /\ oks' = oks + 1
          /\ calling' = TRUE
          /\ UNCHANGED lower
       \/ byte.code # "ok" /\ fails /\ UNCHANGED <<oks, calling>>
    /\ byte_taken
    /\ UNCHANGED <<sasl_header_exchange_state, header_bytes_received, codec, opens,
                   wire, stream, initial>>

\* The callback of the user returns to the loop.
callback_returns ==
    /\ calling /\ calling' = FALSE
    /\ UNCHANGED <<io_state, lower, handshake, buffer, opens, oks, wire, stream, initial>>

saslclientio_receive_byte ==
    \/ header_byte \/ header_mismatch \/ byte_of_user
    \/ frame_malformed \/ frame_not_sasl \/ frame_ignored
    \/ mechanisms_refused \/ mechanisms_received \/ challenge_received
    \/ outcome_refused \/ outcome_received
    \/ callback_returns

Chunks == UNION {[1 .. n -> Bytes] : n \in 1 .. MaxChunk}

Next ==
    \/ saslclientio_open_async
    \/ saslclientio_close_async
    \/ on_underlying_io_close_complete
    \/ open_complete_ok
    \/ open_complete_error
    \/ on_underlying_io_error
    \/ \E bytes \in Chunks : on_underlying_io_bytes_received(bytes)
    \/ saslclientio_receive_byte

Spec == Init /\ [][Next]_vars

-----------------------------------------------------------------------------

\* What the user of an io relies on (Xio): one success per open, and no way from
\* closed but through open.
phase ==
    CASE io_state = "NOT_OPEN" -> "closed"
      [] io_state \in {"OPENING_UNDERLYING_IO", "SASL_HANDSHAKE"} -> "opening"
      [] io_state = "OPEN" -> "open"
      [] io_state = "CLOSING" -> "closing"
      [] io_state = "ERROR" -> "error"

Interface == INSTANCE Xio WITH data <- Len(given)

ImplementsXio == Interface!Spec

\* The io opens only behind the whole dialogue with this server: its header, a
\* list with our mechanism, then the outcome ok, in that order and in this
\* open; the user is then given every byte behind the outcome, and no other.
OpenedByDialogue ==
    io_state = "OPEN" =>
        \E m, o \in DOMAIN heard :
            /\ m < o
            /\ Cardinality({i \in 1 .. m : heard[i].k = "header"}) >= header_size
            /\ heard[m].k = "mechanisms" /\ mechanism_found(heard[m].list)
            /\ heard[o] = [k |-> "outcome", code |-> "ok"]
            /\ SubSeq(heard, o + 1, Len(heard)) = given \o buffer

\* The header is written first, and the header and SASL-INIT once.
WrittenOnce ==
    \A i, j \in DOMAIN wire :
        /\ wire[1] = "header"
        /\ wire[i] = wire[j] /\ wire[i] # "response" => i = j

\* devdoc/saslclientio_requirements.md:197: bytes that come while the io is
\* opening are consumed by the handshake.
NothingLeaked == leaked = 0

\* devdoc/saslclientio_requirements.md:239: an error in the frame received ends
\* the open, so that an item that cannot be read does not pass for ours.
ChosenIsOffered ==
    "init" \in {wire[i] : i \in DOMAIN wire} =>
        \E m \in DOMAIN heard :
            /\ heard[m].k = "mechanisms"
            /\ saslmechanism.name \in {heard[m].list[i] : i \in DOMAIN heard[m].list}
=============================================================================

----------------------------- MODULE Connection -----------------------------
(***************************************************************************)
(* The AMQP connection of src/src/connection.c: the protocol header and    *)
(* OPEN handshake, the CLOSE exchange, the idle timeouts run by            *)
(* connection_dowork and the option setters, over an underlying xio that   *)
(* may refuse or lose anything.                                            *)
(*                                                                         *)
(* One thread runs the library.  A handler of the code is one action; the  *)
(* only handler that is cut is connection_on_bytes_received, which loops   *)
(* over a buffer: `looping' is TRUE between two of its iterations, and     *)
(* nothing else runs then.                                                 *)
(***************************************************************************)
EXTENDS Naturals

CONSTANTS
    HEADER_SIZE,     \* sizeof(amqp_header), 8 in the code
    IDLE_TIMEOUT,    \* the value given to connection_set_idle_timeout, in ticks
    REMOTE_IDLE,     \* the idle-time-out a peer puts in its OPEN, in ticks
    SEND_AFTER,      \* idle_timeout_empty_frame_send_ratio * REMOTE_IDLE
    MaxStall,        \* bound: ticks the application may let pass between two
                     \* calls of connection_dowork
    MaxFaults        \* bound: refused xio calls, failed allocations, failed
                     \* clock reads in one behaviour

ASSUME ConnectionAssumption ==
    /\ HEADER_SIZE \in Nat \ {0}
    /\ IDLE_TIMEOUT \in Nat \ {0}
    /\ REMOTE_IDLE \in Nat \ {0}
    /\ SEND_AFTER \in 0 .. REMOTE_IDLE      \* the ratio is in (0.0, 1.0]
    /\ MaxStall \in Nat \ {0}
    /\ MaxFaults \in Nat

VARIABLES
    connection_state,
    header_bytes_received,
    is_underlying_io_open,
    idle_timeout,         \* 0 until connection_set_idle_timeout
    remote_idle_timeout,  \* 0, or REMOTE_IDLE once an OPEN has said so
    since_received,       \* now - last_frame_received_time, saturating
    since_sent,           \* now - last_frame_sent_time, saturating
    looping,              \* connection_on_bytes_received has bytes left
    pumping,              \* connection_dowork is inside xio_dowork
    alive,                \* connection_destroy has not been called
    io,                   \* the underlying xio
    faults,               \* faults so far
    stall,                \* ticks since the last connection_dowork
    wire,                 \* what has been written, see Written
    quiet                 \* ticks since anything was written, or since the
                          \* OPEN of the peer was handled

code == <<connection_state, header_bytes_received, is_underlying_io_open,
          idle_timeout, remote_idle_timeout>>
clock == <<since_received, since_sent, stall, quiet>>
control == <<looping, pumping, alive>>
vars == <<code, clock, control, io, faults, wire>>

-----------------------------------------------------------------------------

\* The members of CONNECTION_STATE a handler leaves the connection in
\* (CLOSE_RCVD is passed through on the way to END).
States == {"START", "HDR_SENT", "HDR_EXCH", "OPEN_SENT", "OPENED",
           "DISCARDING", "END", "ERROR"}

\* What can be written: the protocol header, the OPEN and CLOSE frames, the
\* empty keep-alive frame and the frames of the endpoints.
Kinds == {"header", "open", "close", "empty", "frame"}

Saturate(n, top) == IF n < top THEN n ELSE top

\* The application's thread is not inside the library.
Outside == alive /\ ~pumping /\ ~looping

\* xio_dowork may call back.
InCallback == alive /\ pumping /\ ~looping

TypeOK ==
    /\ connection_state \in States
    /\ header_bytes_received \in 0 .. HEADER_SIZE
    /\ is_underlying_io_open \in BOOLEAN
    /\ idle_timeout \in {0, IDLE_TIMEOUT}
    /\ remote_idle_timeout \in {0, REMOTE_IDLE}
    /\ since_received \in 0 .. IDLE_TIMEOUT
    /\ since_sent \in 0 .. SEND_AFTER
    /\ looping \in BOOLEAN
    /\ pumping \in BOOLEAN
    /\ alive \in BOOLEAN
    /\ io \in {"closed", "opening", "open"}
    /\ faults \in 0 .. MaxFaults
    /\ stall \in 0 .. MaxStall
    /\ wire \in [before_open : SUBSET Kinds, after_close : SUBSET Kinds,
                 opens : 0 .. 2, closed : BOOLEAN, advertised : {0, IDLE_TIMEOUT}]
    /\ quiet \in 0 .. REMOTE_IDLE

Init ==
    /\ connection_state = "START"
    /\ header_bytes_received = 0
    /\ is_underlying_io_open = FALSE
    /\ idle_timeout = 0
    /\ remote_idle_timeout = 0
    /\ since_received = 0
    /\ since_sent = 0
    /\ looping = FALSE
    /\ pumping = FALSE
    /\ alive = TRUE
    /\ io = "closed"
    /\ faults = 0
    /\ stall = 0
    /\ wire = [before_open |-> {}, after_close |-> {}, opens |-> 0,
               closed |-> FALSE, advertised |-> 0]
    /\ quiet = 0

-----------------------------------------------------------------------------
(* The underlying xio and the frame encoder *)

\* How an attempt to write ends: the bytes are accepted, xio_send refuses
\* them, or the frame cannot be built or encoded in the first place.
Outcomes == {"sent", "refused", "not_built"}

\* n units of the fault budget.
Faults(n) ==
    /\ faults + n <= MaxFaults
    /\ faults' = faults + n

\* A write ends with out.  An xio that is not up refuses every send; the other
\* failures are faults, added to those the handler has met before.
Attempt(out, up, before) ==
    /\ out = "sent" => up
    /\ IF out = "not_built" \/ (out = "refused" /\ up)
       THEN Faults(before + 1)
       ELSE Faults(before)

\* What the peer sees of the write of a frame of kind k.
Written(k) ==
    [before_open |-> IF wire.opens = 0 /\ k # "open"
                     THEN wire.before_open \cup {k} ELSE wire.before_open,
     after_close |-> IF wire.closed THEN wire.after_close \cup {k} ELSE wire.after_close,
     opens       |-> IF k = "open" THEN Saturate(wire.opens + 1, 2) ELSE wire.opens,
     closed      |-> wire.closed \/ k = "close",
     advertised  |-> IF k = "open" THEN idle_timeout ELSE wire.advertised]

\* The wire and the quiet time after an attempt to write k.
Write(k, out) ==
    /\ wire' = IF out = "sent" THEN Written(k) ELSE wire
    /\ quiet' = IF out = "sent" THEN 0 ELSE quiet

NothingWritten == UNCHANGED <<wire, quiet>>

-----------------------------------------------------------------------------
(* Static functions of connection.c.  Each constrains connection_state', io',
   faults', wire' and quiet'. *)

\* send_header, called with the io just open: a refused header closes the io
\* and ends the connection.
send_header(sent_state, refused_state) ==
    \E out \in {"sent", "refused"} :
        /\ Attempt(out, TRUE, 0)
        /\ Write("header", out)
        /\ io' = IF out = "sent" THEN "open" ELSE "closed"
        /\ connection_state' = IF out = "sent" THEN sent_state ELSE refused_state

\* send_open_frame.  When xio_send refuses the bytes on_bytes_encoded closes
\* the io and sets END, but amqp_frame_codec_encode_frame still returns 0, so
\* send_open_frame goes on to set OPEN_SENT.  A caller that then sets a state
\* of its own passes it as sent_state.
send_open_frame(up, sent_state) ==
    \E out \in Outcomes :
        /\ Attempt(out, up, 0)
        /\ Write("open", out)
        /\ io' = IF out = "sent" THEN "open" ELSE "closed"
        /\ connection_state' = IF out = "not_built" THEN "END" ELSE sent_state

\* close_connection_with_error: a CLOSE that cannot be built closes the io and
\* ends the connection; otherwise the state is DISCARDING, even when xio_send
\* has refused the CLOSE and on_bytes_encoded has closed the io.
close_connection_with_error(before) ==
    \E out \in Outcomes :
        /\ Attempt(out, io = "open", before)
        /\ Write("close", out)
        /\ io' = IF out = "sent" THEN "open" ELSE "closed"
        /\ connection_state' = IF out = "not_built" THEN "END" ELSE "DISCARDING"

\* send_close_frame, then xio_close whatever came of the send, and a last
\* state.
send_close_and_close(state) ==
    \E out \in Outcomes :
        /\ Attempt(out, io = "open", 0)
        /\ Write("close", out)
        /\ io' = "closed"
        /\ connection_state' = IF out = "not_built" THEN "END" ELSE state

-----------------------------------------------------------------------------
(* The application's calls.  Callbacks run inside the library, so that a call
   may also come between two iterations of the receiving loop. *)

\* Mutant: the option may be set at any time.
connection_set_idle_timeout_anytime ==
    /\ alive
    /\ idle_timeout' = IDLE_TIMEOUT
    /\ UNCHANGED <<connection_state, header_bytes_received, is_underlying_io_open,
                   remote_idle_timeout, clock, control, io, faults, wire>>

\* connection_set_idle_timeout is refused once the state has left START.
connection_set_idle_timeout ==
    /\ alive
    /\ connection_state = "START"
    /\ idle_timeout' = IDLE_TIMEOUT
    /\ UNCHANGED <<connection_state, header_bytes_received, is_underlying_io_open,
                   remote_idle_timeout, clock, control, io, faults, wire>>

\* connection_open and connection_listen share their body: xio_open, then the
\* state START or HDR_EXCH.  The xio refuses, completes later, or completes
\* inside xio_open: then connection_on_io_open_complete has run in the state
\* before (START: the header is sent; else nothing happens) and the state it
\* left is overwritten.
open_io(state) ==
    /\ alive
    /\ ~is_underlying_io_open
    /\ \/ /\ Faults(1)
          /\ connection_state' = "END"
          /\ NothingWritten
          /\ UNCHANGED <<io, is_underlying_io_open>>
       \/ /\ io' = "opening"
          /\ connection_state' = state
          /\ is_underlying_io_open' = TRUE
          /\ NothingWritten
          /\ UNCHANGED faults
       \/ /\ connection_state = "START"
          /\ is_underlying_io_open' = TRUE
          /\ send_header(state, state)
       \/ /\ connection_state # "START"
          /\ io' = "open"
          /\ connection_state' = state
          /\ is_underlying_io_open' = TRUE
          /\ NothingWritten
          /\ UNCHANGED faults
    /\ UNCHANGED <<header_bytes_received, idle_timeout, remote_idle_timeout,
                   since_received, since_sent, stall, control>>

connection_open == open_io("START")

connection_listen == open_io("HDR_EXCH")

\* Mutant: a closed connection may be opened again.
connection_close_reopens ==
    /\ alive
    /\ send_close_and_close("DISCARDING") \/ send_close_and_close("END")
    /\ is_underlying_io_open' = FALSE
    /\ UNCHANGED <<header_bytes_received, idle_timeout, remote_idle_timeout,
                   since_received, since_sent, stall, control>>

\* connection_close, with an error condition or without.  Note the assignment
\* to is_underlying_io_open: the io counts as open ever after.
connection_close ==
    /\ alive
    /\ send_close_and_close("DISCARDING") \/ send_close_and_close("END")
    /\ is_underlying_io_open' = TRUE
    /\ UNCHANGED <<header_bytes_received, idle_timeout, remote_idle_timeout,
                   since_received, since_sent, stall, control>>

\* connection_destroy closes a connection whose io counts as open, then frees
\* it; not from a callback.
connection_destroy ==
    /\ alive
    /\ ~pumping
    /\ alive' = FALSE
    /\ IF is_underlying_io_open
       THEN send_close_and_close("END")
       ELSE NothingWritten /\ UNCHANGED <<connection_state, io, faults>>
    /\ UNCHANGED <<header_bytes_received, is_underlying_io_open, idle_timeout,
                   remote_idle_timeout, since_received, since_sent, stall,
                   looping, pumping>>

\* Mutant: the state is not looked at.
connection_encode_frame_unguarded ==
    /\ alive
    /\ \E out \in Outcomes :
          /\ Attempt(out, io = "open", 0)
          /\ Write("frame", out)
          /\ io' = IF out = "refused" THEN "closed" ELSE io
          /\ connection_state' = IF out = "refused" THEN "END" ELSE connection_state
          /\ since_sent' = IF out = "sent" THEN 0 ELSE since_sent
    /\ UNCHANGED <<header_bytes_received, is_underlying_io_open, idle_timeout,
                   remote_idle_timeout, since_received, stall, control>>

\* Mutant: the time of sending is taken before the frame is encoded.
connection_encode_frame_times_first ==
    /\ alive
    /\ connection_state = "OPENED"
    /\ \E out \in Outcomes :
          /\ Attempt(out, io = "open", 0)
          /\ Write("frame", out)
          /\ io' = IF out = "refused" THEN "closed" ELSE io
          /\ connection_state' = IF out = "refused" THEN "END" ELSE "OPENED"
          /\ since_sent' = 0
    /\ UNCHANGED <<header_bytes_received, is_underlying_io_open, idle_timeout,
                   remote_idle_timeout, since_received, stall, control>>

\* connection_encode_frame, called by an endpoint's session.  A frame that
\* cannot be encoded changes nothing; one that xio_send refuses ends the
\* connection; a clock that fails after the write leaves last_frame_sent_time.
connection_encode_frame ==
    /\ alive
    /\ connection_state = "OPENED"
    /\ \/ \E out \in Outcomes :
             /\ Attempt(out, io = "open", 0)
             /\ Write("frame", out)
             /\ io' = IF out = "refused" THEN "closed" ELSE io
             /\ connection_state' = IF out = "refused" THEN "END" ELSE "OPENED"
             /\ since_sent' = IF out = "sent" THEN 0 ELSE since_sent
       \/ /\ io = "open"
          /\ Faults(1)
          /\ Write("frame", "sent")
          /\ UNCHANGED <<io, connection_state, since_sent>>
    /\ UNCHANGED <<header_bytes_received, is_underlying_io_open, idle_timeout,
                   remote_idle_timeout, since_received, stall, control>>

-----------------------------------------------------------------------------
(* connection_dowork: connection_handle_deadlines, then xio_dowork unless the
   deadline is 0.  `pumping' spans xio_dowork. *)

\* Mutant: the local time-out counts only when the peer has one too.
local_deadline_passed_if_remote ==
    /\ idle_timeout # 0
    /\ remote_idle_timeout # 0
    /\ since_received >= idle_timeout

local_deadline_passed == idle_timeout # 0 /\ since_received >= idle_timeout

keep_alive_due == remote_idle_timeout # 0 /\ since_sent >= SEND_AFTER

\* The empty frame of connection_handle_deadlines.  A refused one has ended
\* the connection in on_bytes_encoded, yet counts as sent.
send_empty_frame ==
    \/ /\ close_connection_with_error(1)        \* the frame cannot be encoded
       /\ pumping' = TRUE
       /\ UNCHANGED since_sent
    \/ \E out \in {"sent", "refused"} :
          /\ Attempt(out, io = "open", 0)
          /\ Write("empty", out)
          /\ io' = IF out = "sent" THEN "open" ELSE "closed"
          /\ connection_state' = IF out = "sent" THEN connection_state ELSE "END"
          /\ since_sent' = 0
          /\ pumping' = (SEND_AFTER > 0)

connection_dowork ==
    /\ Outside
    /\ stall' = 0
    /\ \/ /\ close_connection_with_error(1)     \* the clock cannot be read
          /\ pumping' = TRUE
          /\ UNCHANGED since_sent
       \/ /\ local_deadline_passed
          /\ close_connection_with_error(0)
          /\ UNCHANGED <<pumping, since_sent>>
       \/ /\ ~local_deadline_passed
          /\ keep_alive_due
          /\ send_empty_frame
       \/ /\ ~local_deadline_passed
          /\ ~keep_alive_due
          /\ pumping' = TRUE
          /\ NothingWritten
          /\ UNCHANGED <<connection_state, io, faults, since_sent>>
    /\ UNCHANGED <<header_bytes_received, is_underlying_io_open, idle_timeout,
                   remote_idle_timeout, since_received, looping, alive>>

\* xio_dowork returns.
xio_dowork_done ==
    /\ alive
    /\ pumping
    /\ ~looping
    /\ pumping' = FALSE
    /\ UNCHANGED <<code, clock, looping, alive, io, faults, wire>>

\* A tick of the clock, outside connection_dowork, which does not block; the
\* application comes back to connection_dowork after at most MaxStall of them.
Tick ==
    /\ Outside
    /\ stall < MaxStall
    /\ stall' = stall + 1
    /\ since_received' = Saturate(since_received + 1, IDLE_TIMEOUT)
    /\ since_sent' = Saturate(since_sent + 1, SEND_AFTER)
    /\ quiet' = Saturate(quiet + 1, REMOTE_IDLE)
    /\ UNCHANGED <<code, control, io, faults, wire>>

-----------------------------------------------------------------------------
(* Callbacks of the underlying xio, made inside xio_dowork *)

\* connection_on_io_open_complete with IO_OPEN_OK.
io_open_ok ==
    /\ InCallback
    /\ io = "opening"
    /\ \/ connection_state = "START" /\ send_header("HDR_SENT", "END")
       \/ connection_state = "HDR_EXCH" /\ send_open_frame(TRUE, "OPEN_SENT")
    /\ UNCHANGED <<header_bytes_received, is_underlying_io_open, idle_timeout,
                   remote_idle_timeout, since_received, since_sent, stall, control>>

\* connection_on_io_open_complete with an error.
io_open_error ==
    /\ InCallback
    /\ io = "opening"
    /\ io' = "closed"
    /\ connection_state' = "END"
    /\ UNCHANGED <<header_bytes_received, is_underlying_io_open, idle_timeout,
                   remote_idle_timeout, clock, control, faults, wire>>

\* connection_on_io_error: ERROR, then xio_close.
connection_on_io_error ==
    /\ InCallback
    /\ io = "open"
    /\ connection_state # "END"
    /\ connection_state' = "ERROR"
    /\ io' = "closed"
    /\ UNCHANGED <<header_bytes_received, is_underlying_io_open, idle_timeout,
                   remote_idle_timeout, clock, control, faults, wire>>

\* A byte (or the last byte of a frame) reaches connection_byte_received: the
\* first of a buffer that the open xio delivers, or the next of the buffer
\* whose processing has begun, whatever has become of the io since.
byte_arrives ==
    /\ alive
    /\ looping \/ (pumping /\ io = "open")

\* The loop goes on over the rest of the buffer, if there is one, or breaks.
continues == looping' \in BOOLEAN

breaks == looping' = FALSE

\* A byte that matches the protocol header.
header_byte_matches ==
    /\ byte_arrives
    /\ connection_state \in {"START", "HDR_SENT"}
    /\ header_bytes_received' = header_bytes_received + 1
    /\ continues
    /\ IF header_bytes_received' = HEADER_SIZE
       THEN send_open_frame(io = "open", "OPEN_SENT")
       ELSE NothingWritten /\ UNCHANGED <<connection_state, io, faults>>
    /\ UNCHANGED <<is_underlying_io_open, idle_timeout, remote_idle_timeout,
                   since_received, since_sent, stall, pumping, alive>>

\* A byte that does not.
header_byte_differs ==
    /\ byte_arrives
    /\ connection_state \in {"START", "HDR_SENT"}
    /\ io' = "closed"
    /\ connection_state' = "END"
    /\ breaks
    /\ UNCHANGED <<header_bytes_received, is_underlying_io_open, idle_timeout,
                   remote_idle_timeout, clock, pumping, alive, faults, wire>>

\* Any byte in a state connection_byte_received does not know.
byte_dropped ==
    /\ byte_arrives
    /\ connection_state \in {"DISCARDING", "END", "ERROR"}
    /\ breaks
    /\ UNCHANGED <<code, clock, pumping, alive, io, faults, wire>>

decoding == connection_state \in {"HDR_EXCH", "OPEN_SENT", "OPENED"}

\* frame_codec_receive_bytes fails.
undecodable_byte ==
    /\ byte_arrives
    /\ decoding
    /\ close_connection_with_error(0)
    /\ breaks
    /\ UNCHANGED <<header_bytes_received, is_underlying_io_open, idle_timeout,
                   remote_idle_timeout, since_received, since_sent, stall,
                   pumping, alive>>

\* What is common to the frame_codec's callbacks on a complete frame.
frame_arrives ==
    /\ byte_arrives
    /\ decoding
    /\ continues
    /\ UNCHANGED <<header_bytes_received, is_underlying_io_open, idle_timeout,
                   since_sent, stall, pumping, alive>>

\* on_amqp_frame_received cannot read the clock.
frame_not_timed ==
    /\ frame_arrives
    /\ close_connection_with_error(1)
    /\ UNCHANGED <<since_received, remote_idle_timeout>>

\* on_empty_amqp_frame_received, and the frames of the endpoints as far as
\* this module goes.
other_frame_received ==
    /\ frame_arrives
    /\ since_received' = 0
    /\ NothingWritten
    /\ UNCHANGED <<connection_state, io, faults, remote_idle_timeout>>

\* The remote_idle_timeout after an OPEN, with an idle-time-out or without.
idle_time_out_of_open == {remote_idle_timeout, REMOTE_IDLE}

\* An OPEN on channel 0, well formed.
open_received ==
    /\ frame_arrives
    /\ since_received' = 0
    /\ remote_idle_timeout' \in idle_time_out_of_open
    /\ \/ /\ connection_state = "OPEN_SENT"
          /\ connection_state' = "OPENED"
          /\ quiet' = 0
          /\ UNCHANGED <<io, faults, wire>>
       \/ /\ connection_state = "HDR_EXCH"
          /\ send_open_frame(io = "open", "OPENED")

\* Everything on_amqp_frame_received answers with a CLOSE of its own: an OPEN
\* on another channel, in the OPENED state or with bad fields (its idle-time-out
\* may have been stored already), a CLOSE that cannot be accepted.
bad_frame_received ==
    /\ frame_arrives
    /\ since_received' = 0
    /\ close_connection_with_error(0)
    /\ remote_idle_timeout' \in IF connection_state = "OPENED"
                               THEN {remote_idle_timeout}
                               ELSE idle_time_out_of_open

\* A CLOSE: CLOSE_RCVD, our CLOSE, the io closed, END; in HDR_EXCH only the io
\* is closed.
close_received ==
    /\ frame_arrives
    /\ since_received' = 0
    /\ UNCHANGED remote_idle_timeout
    /\ \/ /\ connection_state # "HDR_EXCH"
          /\ send_close_and_close("END")
       \/ /\ connection_state = "HDR_EXCH"
          /\ io' = "closed"
          /\ NothingWritten
          /\ UNCHANGED <<connection_state, faults>>

-----------------------------------------------------------------------------

Application ==
    \/ connection_set_idle_timeout
    \/ connection_open
    \/ connection_listen
    \/ connection_close
    \/ connection_destroy
    \/ connection_encode_frame

Peer ==
    \/ header_byte_matches
    \/ header_byte_differs
    \/ byte_dropped
    \/ undecodable_byte
    \/ frame_not_timed
    \/ other_frame_received
    \/ open_received
    \/ bad_frame_received
    \/ close_received

Io ==
    \/ io_open_ok
    \/ io_open_error
    \/ connection_on_io_error
    \/ xio_dowork_done

Next == Application \/ Peer \/ Io \/ connection_dowork \/ Tick

Spec == Init /\ [][Next]_vars

\* The application keeps calling connection_dowork, and a receiving loop or an
\* xio_dowork that has begun comes to its end.
Fairness ==
    /\ WF_vars(connection_dowork)
    /\ WF_vars(xio_dowork_done)
    /\ WF_vars(Peer /\ looping /\ breaks)

FairSpec == Spec /\ Fairness

-----------------------------------------------------------------------------
(* Properties *)

\* A byte is compared with amqp_header[header_bytes_received] only within the
\* array: no order of opens, failed opens, closes and deliveries brings a
\* connection that has read the whole header back to START or HDR_SENT.
HeaderIndexInBounds ==
    connection_state \in {"START", "HDR_SENT"} => header_bytes_received < HEADER_SIZE

\* The peer sees one OPEN at most, no frame of an endpoint before it, and
\* after our CLOSE neither a header, nor an OPEN, nor a frame of an endpoint,
\* whatever was refused, lost or repeated on the way.
WireOrder ==
    /\ wire.opens <= 1
    /\ "frame" \notin wire.before_open
    /\ wire.after_close \cap {"header", "open", "frame"} = {}

\* An application that comes back to connection_dowork within what
\* idle_timeout_empty_frame_send_ratio leaves of the peer's idle-time-out
\* never lets that time-out expire on an open connection.
KeepAlive ==
    /\ SEND_AFTER > 0
    /\ SEND_AFTER + MaxStall <= REMOTE_IDLE
    /\ connection_state = "OPENED"
    /\ io = "open"
    /\ remote_idle_timeout # 0
    => quiet < REMOTE_IDLE

\* The idle time-out that connection_handle_deadlines enforces is the one the
\* OPEN on the wire announced to the peer.
AdvertisedIsEnforced ==
    wire.opens > 0 => wire.advertised = idle_timeout

\* An open connection whose idle time-out has expired does not stay open,
\* unless a frame comes in late.
IdleTimeoutCloses ==
    (connection_state = "OPENED" /\ idle_timeout # 0 /\ since_received = IDLE_TIMEOUT)
        ~> (connection_state # "OPENED" \/ since_received = 0 \/ ~alive)

\* src/devdoc/connection_requirements.md, 01_053 and 01_055: after the CLOSE
\* has been written, in CLOSE SENT and in its variant DISCARDING, nothing more
\* is written.
NothingAfterClose == wire.after_close = {}

=============================================================================

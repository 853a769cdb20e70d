-------------------------- MODULE ConnectionProofs --------------------------
(***************************************************************************)
(* Proofs about the connection, for every header size, time-out and bound. *)
(***************************************************************************)
EXTENDS Connection, TLAPS

\* Before a successful xio_open nothing has come in or gone out.
Unopened ==
    ~is_underlying_io_open =>
        /\ io = "closed"
        /\ header_bytes_received = 0
        /\ ~looping
        /\ wire.opens = 0
        /\ ~wire.closed
        /\ connection_state \in {"START", "DISCARDING", "END"}

\* While the xio is opening the connection waits for it.
Opening ==
    io = "opening" =>
        /\ ~wire.closed
        /\ connection_state \in {"START", "HDR_EXCH"}

\* A connection still shaking hands has written no OPEN.
NoOpenYet ==
    connection_state \in {"START", "HDR_SENT", "HDR_EXCH"} => wire.opens = 0

\* On an open io the states after the OPEN say that it was written, and a
\* CLOSE leaves only DISCARDING.
OnOpenIo ==
    io = "open" =>
        /\ connection_state \in {"OPEN_SENT", "OPENED"} => wire.opens = 1
        /\ wire.closed => connection_state = "DISCARDING"

\* How long the wire has been quiet, when an empty frame keeps it alive.
QuietTime ==
    (connection_state = "OPENED" /\ io = "open" /\ remote_idle_timeout # 0) =>
        /\ since_sent < SEND_AFTER => quiet <= since_sent
        /\ SEND_AFTER > 0 /\ SEND_AFTER + MaxStall <= REMOTE_IDLE
               => quiet < SEND_AFTER + stall

IInv ==
    /\ TypeOK
    /\ Unopened
    /\ Opening
    /\ NoOpenYet
    /\ OnOpenIo
    /\ QuietTime
    /\ HeaderIndexInBounds
    /\ WireOrder
    /\ AdvertisedIsEnforced

-----------------------------------------------------------------------------

USE ConnectionAssumption DEF ConnectionAssumption

\* A connection as connection_create2 leaves it satisfies the invariant.
THEOREM InitIInv == Init => IInv
  <1> SUFFICES ASSUME Init PROVE IInv
    OBVIOUS
  <1>1. wire \in [before_open : SUBSET Kinds, after_close : SUBSET Kinds,
                 opens : 0 .. 2, closed : BOOLEAN, advertised : {0, IDLE_TIMEOUT}]
    BY DEF Init, Kinds
  <1>2. /\ connection_state \in States
        /\ io \in {"closed", "opening", "open"}
        /\ idle_timeout \in {0, IDLE_TIMEOUT}
        /\ remote_idle_timeout \in {0, REMOTE_IDLE}
    BY DEF Init, States
  <1>3. /\ header_bytes_received \in 0 .. HEADER_SIZE
        /\ since_received \in 0 .. IDLE_TIMEOUT
        /\ since_sent \in 0 .. SEND_AFTER
        /\ stall \in 0 .. MaxStall
        /\ quiet \in 0 .. REMOTE_IDLE
        /\ faults \in 0 .. MaxFaults
    BY DEF Init
  <1>4. {is_underlying_io_open, looping, pumping, alive} \subseteq BOOLEAN
    BY DEF Init
  <1>5. TypeOK
    BY <1>1, <1>2, <1>3, <1>4 DEF TypeOK
  <1>6. Unopened /\ Opening /\ NoOpenYet /\ OnOpenIo /\ QuietTime
    BY DEF Init, Unopened, Opening, NoOpenYet, OnOpenIo, QuietTime
  <1>7. HeaderIndexInBounds /\ WireOrder /\ AdvertisedIsEnforced
    BY DEF Init, HeaderIndexInBounds, WireOrder, AdvertisedIsEnforced
  <1> QED
    BY <1>5, <1>6, <1>7 DEF IInv

\* The shared body of connection_open and connection_listen.
LEMMA OpenIoIInv ==
  ASSUME IInv, NEW state \in {"START", "HDR_EXCH"}, open_io(state)
  PROVE  IInv'
  <1> USE DEF IInv, TypeOK, States, Kinds, Unopened, Opening, NoOpenYet, OnOpenIo,
              QuietTime, HeaderIndexInBounds, WireOrder, AdvertisedIsEnforced
  <1>1. /\ is_underlying_io_open' \in BOOLEAN
        /\ io = "closed" /\ ~looping /\ ~wire.closed /\ wire.opens = 0
        /\ header_bytes_received = 0 /\ connection_state \in {"START", "DISCARDING", "END"}
        /\ UNCHANGED <<header_bytes_received, idle_timeout, remote_idle_timeout,
                       since_received, since_sent, stall, looping, pumping, alive>>
    BY DEF open_io, control, send_header
  <1>2. CASE /\ Faults(1)
             /\ connection_state' = "END"
             /\ NothingWritten
             /\ UNCHANGED <<io, is_underlying_io_open>>
    BY <1>1, <1>2 DEF Faults, NothingWritten
  <1>3. CASE /\ io' \in {"opening", "open"}
             /\ connection_state' = state
             /\ is_underlying_io_open'
             /\ NothingWritten
             /\ UNCHANGED faults
    BY <1>1, <1>3 DEF NothingWritten
  <1>4. CASE is_underlying_io_open' /\ send_header(state, state)
    BY <1>1, <1>4 DEF send_header, Attempt, Faults, Write, Written, Saturate
  <1> QED
    BY <1>2, <1>3, <1>4 DEF open_io

\* Every handler, call and callback of connection.c preserves it.
THEOREM NextIInv == IInv /\ [Next]_vars => IInv'
  <1> SUFFICES ASSUME IInv, [Next]_vars PROVE IInv'
    OBVIOUS
  <1> USE DEF IInv, TypeOK, States, Kinds, Unopened, Opening, NoOpenYet, OnOpenIo,
              QuietTime, HeaderIndexInBounds, WireOrder, AdvertisedIsEnforced,
              Outcomes, Attempt, Faults, Write, Written, Saturate
  <1>1. CASE connection_set_idle_timeout
    BY <1>1 DEF connection_set_idle_timeout, clock, control
  <1>2. CASE connection_open
    BY <1>2, OpenIoIInv DEF connection_open
  <1>3. CASE connection_listen
    BY <1>3, OpenIoIInv DEF connection_listen
  <1>4. CASE connection_close
    BY <1>4 DEF connection_close, send_close_and_close, clock, control
  <1>5. CASE connection_destroy
    <2>1. /\ alive' \in BOOLEAN
          /\ UNCHANGED <<header_bytes_received, is_underlying_io_open, idle_timeout,
                         remote_idle_timeout, since_received, since_sent, stall,
                         looping, pumping>>
      BY <1>5 DEF connection_destroy
    <2>2. CASE send_close_and_close("END") /\ is_underlying_io_open
      BY <2>1, <2>2 DEF send_close_and_close
    <2>3. CASE NothingWritten /\ UNCHANGED <<connection_state, io, faults>>
      BY <2>1, <2>3 DEF NothingWritten
    <2> QED
      BY <1>5, <2>2, <2>3 DEF connection_destroy
  <1>6. CASE connection_encode_frame
    BY <1>6 DEF connection_encode_frame, control
  <1>7. CASE connection_dowork
    <2>1. /\ alive /\ ~pumping /\ ~looping
          /\ stall' = 0
          /\ UNCHANGED <<header_bytes_received, is_underlying_io_open, idle_timeout,
                         remote_idle_timeout, since_received, looping, alive>>
      BY <1>7 DEF connection_dowork, Outside
    <2>2. ASSUME NEW n \in {0, 1}, close_connection_with_error(n), UNCHANGED since_sent,
                 pumping' \in BOOLEAN
          PROVE  IInv'
      BY <2>1, <2>2 DEF close_connection_with_error
    <2>3. CASE keep_alive_due /\ send_empty_frame
      <3>1. CASE close_connection_with_error(1) /\ UNCHANGED since_sent /\ pumping' = TRUE
        BY <2>2, <3>1
      <3>2. ASSUME NEW out \in {"sent", "refused"},
                   Attempt(out, io = "open", 0),
                   Write("empty", out),
                   io' = IF out = "sent" THEN "open" ELSE "closed",
                   connection_state' = IF out = "sent" THEN connection_state ELSE "END",
                   since_sent' = 0,
                   pumping' = (SEND_AFTER > 0)
            PROVE  IInv'
        <4>1. pumping' \in BOOLEAN
          BY <3>2
        <4> QED
          BY <2>1, <3>2, <4>1
      <3> QED
        BY <2>3, <3>1, <3>2 DEF send_empty_frame
    <2>4. CASE /\ ~keep_alive_due
               /\ pumping' = TRUE
               /\ NothingWritten
               /\ UNCHANGED <<connection_state, io, faults, since_sent>>
      BY <2>1, <2>4 DEF NothingWritten, keep_alive_due
    <2> QED
      BY <1>7, <2>2, <2>3, <2>4 DEF connection_dowork
  <1>8. CASE Tick
    BY <1>8 DEF Tick, Outside, code, control
  <1>9. CASE io_open_ok
    BY <1>9 DEF io_open_ok, send_header, send_open_frame, InCallback, control
  <1>10. CASE io_open_error
    BY <1>10 DEF io_open_error, InCallback, clock, control
  <1>11. CASE connection_on_io_error
    BY <1>11 DEF connection_on_io_error, InCallback, clock, control
  <1>12. CASE xio_dowork_done
    <2>1. pumping' \in BOOLEAN
      BY <1>12 DEF xio_dowork_done
    <2> QED
      BY <1>12, <2>1 DEF xio_dowork_done, code, clock
  <1>13. CASE header_byte_matches
    BY <1>13 DEF header_byte_matches, send_open_frame, byte_arrives, continues,
           NothingWritten
  <1>14. CASE header_byte_differs
    BY <1>14 DEF header_byte_differs, byte_arrives, breaks, clock
  <1>15. CASE byte_dropped
    BY <1>15, ZenonT(60) DEF byte_dropped, byte_arrives, breaks, code, clock
  <1>16. CASE undecodable_byte
    <2>1. looping' \in BOOLEAN
      BY <1>16 DEF undecodable_byte, breaks
    <2> QED
      BY <1>16, <2>1
         DEF undecodable_byte, byte_arrives, close_connection_with_error, decoding
  <1>17. CASE frame_not_timed
    BY <1>17 DEF frame_not_timed, frame_arrives, byte_arrives, continues, decoding,
           close_connection_with_error
  <1>18. CASE other_frame_received
    BY <1>18 DEF other_frame_received, frame_arrives, byte_arrives, continues, decoding,
           NothingWritten
  <1>19. CASE open_received
    BY <1>19 DEF open_received, idle_time_out_of_open, frame_arrives, byte_arrives,
           continues, decoding, send_open_frame
  <1>20. CASE bad_frame_received
    BY <1>20 DEF bad_frame_received, idle_time_out_of_open, frame_arrives, byte_arrives,
           continues, decoding, close_connection_with_error
  <1>21. CASE close_received
    BY <1>21 DEF close_received, frame_arrives, byte_arrives, continues, decoding,
           send_close_and_close, NothingWritten
  <1>22. CASE UNCHANGED vars
    BY <1>22 DEF vars, code, clock, control
  <1> QED
    BY <1>1, <1>2, <1>3, <1>4, <1>5, <1>6, <1>7, <1>8, <1>9, <1>10, <1>11, <1>12, <1>13, <1>14, <1>15, <1>16, <1>17, <1>18, <1>19, <1>20, <1>21, <1>22
       DEF Next, Application, Peer, Io

-----------------------------------------------------------------------------

\* The invariant holds of every behaviour of the connection.
THEOREM IInvHolds == Spec => []IInv
  BY InitIInv, NextIInv, PTL DEF Spec

\* Every variable keeps its type: in particular header_bytes_received never
\* passes sizeof(amqp_header) and none of the clocks its bound.
THEOREM TypeCorrect == Spec => []TypeOK
  <1>1. IInv => TypeOK
    BY DEF IInv
  <1> QED
    BY <1>1, IInvHolds, PTL

\* connection_byte_received never reads past amqp_header, for every header
\* size and every number of faults.
THEOREM HeaderRead == Spec => []HeaderIndexInBounds
  <1>1. IInv => HeaderIndexInBounds
    BY DEF IInv
  <1> QED
    BY <1>1, IInvHolds, PTL

\* What the peer sees: one OPEN, frames of endpoints only after it and only
\* before the CLOSE.
THEOREM WireOrdered == Spec => []WireOrder
  <1>1. IInv => WireOrder
    BY DEF IInv
  <1> QED
    BY <1>1, IInvHolds, PTL

\* connection_handle_deadlines enforces the time-out the OPEN announced.
THEOREM Advertised == Spec => []AdvertisedIsEnforced
  <1>1. IInv => AdvertisedIsEnforced
    BY DEF IInv
  <1> QED
    BY <1>1, IInvHolds, PTL

\* The empty frames of connection_handle_deadlines meet the peer's time-out
\* for every ratio that leaves the application the ticks it stalls for.
THEOREM KeptAlive == Spec => []KeepAlive
  <1>1. IInv => KeepAlive
    BY DEF IInv, TypeOK, QuietTime, KeepAlive
  <1> QED
    BY <1>1, IInvHolds, PTL

=============================================================================

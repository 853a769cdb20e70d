# A TLA+ development of azure-uamqp-c

uAMQP is a C implementation of AMQP 1.0. One application thread runs all of it:
it calls the API and, again and again, `connection_dowork`, which runs the io and
through it the callbacks of connection, sessions, links, senders and receivers.
There are no locks and no threads; what is hard is that everything happens in
callbacks nested in one another, that the peer, the io and the clock interleave
with the application's calls in any order, and that every allocation and every
write may fail half-way through a handler.

The modules translate the code under `src/src/`. `PROJECT.json` maps each
definition to its lines.

## Inventory

| component | state | operations and callbacks | hard behaviour | what makes it correct |
|---|---|---|---|---|
| `connection.c` | `connection_state`, header bytes read, both idle time-outs, times of the last frames, endpoint table | open, listen, close, destroy, setters, `connection_dowork`, `connection_encode_frame`, endpoint create and destroy; io: open complete, bytes received, error; codec: frame received | a write that fails ends the connection inside its caller; deadlines in every state; routing by channel number | header read within bounds, order on the wire, peer kept alive, silent peer given up, table sorted, frames reach their session |
| `session.c` | `session_state`, link endpoints, windows and transfer ids | create, begin, end, destroy, link endpoints, `session_send_transfer`; connection state changed, frame received | frames in flight when a session ends; sessions created by either side; 32-bit windows | begin and end once, links told of every loss, window respected |
| `link.c` | `link_state`, `is_closed`, credit, delivery count, list of pending deliveries | attach, detach, transfer, dowork (time-outs), settle modes; frame received, session state changed, session flow on, send complete | deliveries owned jointly with the sender and the io; credit in 32 bits | every delivery settled once, credit respected, time-outs |
| `message_sender.c` | sender state, array of sends (not sent, pending) | open, close, destroy, send, cancel; link state changed, flow on, delivery settled | seven ways to complete a send, nested in one another; retries of waiting sends | each send completed once, in order, none forgotten |
| `async_operation.c` | a context with a cancel handler | create, cancel, destroy | re-entrancy of the handler | nothing freed twice |
| `message_receiver.c` | receiver state, decoder | open, close, dispositions; transfer received | reassembly, callbacks that settle | each message delivered once |
| `frame_codec.c`, `amqp_frame_codec.c`, `sasl_frame_codec.c` | decoder state | receive bytes, encode, subscribe | any split of the stream, sizes at their limits | a frame is decoded independently of the split |
| `saslclientio.c`, `sasl_*.c` | header, negotiation and io states | open, close, send, dowork; bytes, frames, mechanism | failure and close in every state | one open-complete, no application data before the outcome |
| `header_detect_io.c` | detection and io state | open, close; bytes received | choosing the layer while bytes arrive | the right layer sees every byte |
| `cbs.c`, `amqp_management.c` | open state, pending operations | open, close, put/delete token, execute; sender and receiver states, messages | correlation of answers, errors with operations pending | each operation completed once |
| `amqpvalue.c` | decoder state, counted values | decode, encode, clone, destroy, composite items | any split of the bytes, nesting, forms that change at a size | the value decoded is the one encoded, within the limits |
| `amqp_definitions.c` (generated) | handles on shared composite values | create, clone, destroy, get, set, `amqpvalue_get_T` of 24 types | hundreds of functions that agree only by convention | what is set is what is read and what the peer accepts |
| `message.c`, `messaging.c`, `amqpvalue_to_string.c`, `socket_listener_*.c` | data | accessors, formatting, sockets | none | not modelled |

They interact by calls downwards (sender, link, session, connection, io) and by
callbacks upwards: bytes, then frames routed by channel to a session and by handle
to a link; state changes of the connection to all sessions, of a session to all
its links, of a link to its sender; the io's `on_send_complete` directly to the
link. `PROJECT.json` lists, under `hazards`, where this can go wrong.

## Modules

### Connection

`Connection.tla` is the state machine of `connection.c` without its endpoints.
A handler is one action, named after it; `connection_on_bytes_received` is cut
between two bytes, with `looping` excluding everything else meanwhile, and
`pumping` says that `connection_dowork` is inside `xio_dowork`. `code` holds the
fields of the connection. The clock is relative: `since_received` and
`since_sent` are the distances from now to the two times kept by the code,
saturating where nothing is compared any more. `io`, `wire` and `quiet` are the
io and what the peer sees of it: `wire` keeps the number of OPENs, the idle
time-out they advertised, and the kinds of frames written before the OPEN and
after a CLOSE. Every write has the outcomes of the code: sent, refused by
`xio_send` (upon which `on_bytes_encoded` closes the io and sets END *inside* the
caller, which goes on), or not built.

### Sessions

`Sessions.tla` is the endpoint table of `connection.c` and, on top, any number of
sessions of `session.c`. A handle names a session and its endpoint. Frames in
flight are two sequences; the peer (external) is any AMQP peer that answers BEGIN
and END, begins sessions itself and sends frames in its sessions. A session keeps
of its links one bit, whether it knows the link endpoint that the peer sends to.
Failed writes and allocations are left out here (they are in `Connection`).
`CRASHED` stands for the call of a NULL callback.

### Sender

`Sender.tla` composes a message sender with the sender side of its link and what
the session passes to its endpoint. Sends are numbered as they are accepted, which
is their order in the array. An action is one handler with everything it calls:
a session that goes down, the deliveries that the link settles, the messages that
the sender reports, all in one step. The exception is `send_all_pending_messages`,
of which an action is one iteration, so that each transfer of a pass may end
differently; `loop` says whose pass is running, and nothing else runs meanwhile.
The window of the session is abstracted to whether it is open: each FLOW and each
transfer leaves it open or closed. `pre_settled` is chosen once: `settled` or
`unsettled` (the `mixed` mode is not modelled).
Ghost variables: `limit` and `taken_back` (what the peer has granted), `failed`
(a queued send has failed in a pass), `dropped` (deliveries removed by a
disposition without a state), `sending` (callbacks that the io owes).

Abstractions to keep in mind: the completion callback does not call the sender
again; every send has a callback; the clock does not fail between a write and its
return; deliveries have ids that do not wrap.

### Xio, HeaderDetectIo, SaslClientIo

`Xio.tla` is the interface between an io and the one that opened it, as
`connection.c` and `saslclientio.c` use it: one success per open, bytes only while
open, closed until opened again. `Connection` assumes such an io.

`HeaderDetectIo.tla` and `SaslClientIo.tla` are the two ios of the library below a
connection. Both keep the state variables of the code, add the io below (`lower`,
external: it may open, fail, refuse a close, complete it at once or later) and run
the loop of `on_underlying_io_bytes_received` one byte per action, so that the user
may close inside the callback the loop makes. In `HeaderDetectIo` a detected io is
put on top of the stack below (`chained`) and its handshake takes bytes of its own, or
it is open before `xio_open` returns (`loop_detects_at_once`): then `header_pos` is
left behind the header that was recognised, and a next header that is no longer cannot
match. In `SaslClientIo` a byte is what it completes (a byte of the header, a SASL frame, a
byte of the user), and the sizes of the mechanisms' initial responses decide whether
SASL-INIT fits into a frame. Both are shown to implement `Xio` (`ImplementsXio`),
under the mapping that reads the interface's phase from `io_state` and `lower`.

### FrameCodec

`FrameCodec.tla` is the decoder of `frame_codec.c`, one iteration of its loop per
action, with the encoder, the subscriptions and `max_frame_size`; on top
`amqp_frame_codec.c`. Bytes are numbers; what the AMQP decoder makes of a byte of
the body is written into the byte. `ends` is for the properties only: the position
in the stream at which each written frame ends.

### AmqpValue

`AmqpValue.tla` is the encoder and the decoder of `amqpvalue.c`. A value is a
record of its type, its bytes and its items. `internal_decoder_decode_bytes` is a
stack of decoders, one for each level of nesting, each with its constructor, its
position and what it has built; a call takes one of the sizes `Cuts` or all that is
there. `iso` is the reference: every encoding that the standard has for a value,
written independently of the code. Another implementation may send any of them.
The limits of the decoder are constants and small.
Empty arrays and arrays of described values are outside `iso` and not checked.

### Definitions and Composites

`Definitions.tla` is the table of `amqp_definitions.c`: for each of its 24 composite
types the descriptor, what create stores, what `amqpvalue_get_T` checks and, field
by field, what get and set touch, each entry read from its own function and not from
the schema. `Composites.tla` says what these functions do with a shared, counted
value: a clone of a handle shares its items with the original.

### Transfers

`Transfers.tla` composes the sending and the receiving half of the library over two
queues of frames: windows and transfer ids of both sessions (modulo `MOD`), credit
of the link, the split of a message into TRANSFER frames, reassembly, dispositions
at once or later, and the queue of the message sender. A handler is one action with
the frames it writes. Sessions are mapped and links attached throughout (their
coming and going is in `Sender` and `Sessions`). `split_of` runs the two loops of
`session_send_transfer` over the chunks of a payload; `SplitAssumption` says what they
have to compute of each payload (`Splits`: the bytes one after the other, "more" on all
frames but the last, no empty frame beside another). TLC evaluates it, and
`SplitsChecked` for 85 messages of up to three chunks. `granted` is a history variable:
the highest count of TRANSFER frames that a FLOW of the receiving session has allowed.
Names that `Sessions` also uses have a prefix here, because `SessionsProofs` extends
both modules.

### Operations and Cbs

`Operations.tla` is what `cbs.c` promises its user: an accepted operation completes
once, with success only if the peer granted it, unless the user cancels it.
`Cbs.tla` is `cbs.c` on `amqp_management.c` on a message sender and a message
receiver. Because their callbacks nest, a function of the code is an operator from
the state of the library to the state after it, and an action is an API call or a
frame with all it causes. `ImplementsOperations` maps the two lists of pending
operations to the status of each.

### Proofs

Each module named `<M>Proofs.tla` extends the module `<M>` and holds its theorems:
`Connection`, `Sessions`, `Sender`, `HeaderDetectIo`, `SaslClientIo`, `Cbs`,
`FrameCodec` and `Composites`.

## Runs

| run | result | about |
|---|---|---|
| `connection` | passes, 78,000 states | `HeaderIndexInBounds`, `WireOrder`, `KeepAlive`, `AdvertisedIsEnforced`, `IdleTimeoutCloses` |
| `sessions` | passes, 1,000,000 states | `ChannelsSorted`, `LowestChannel`, `RoutedToMapped` |
| `sender` | passes, 290,000 states | `CompletedOnce`, `DeliveriesOwned`, `InOrder`, `WorkConserving`, `CreditRespected`, `TransferEnds` |
| `sender_late` | violated | `NoLateCompletion`: the comment at `message_sender.c:733` |
| `header_detect` | passes, 193,000 states | `PayloadIntact`: the user is given the bytes behind the headers, all and in order; `ImplementsXio` |
| `sasl` | passes, 1,860,000 states | `OpenedByDialogue`: open only behind header, mechanisms and outcome of this open; `WrittenOnce`; `ImplementsXio` |
| `frames` | passes, 392,000 states | `WritesInBuffer`, `FramesAsSent`, `OneCallbackPerFrame`; `OnlyBodilessLate`: of the frames received to their end, only one with an extended header and no body may be waiting, for the next byte |
| `values` | passes, 105,000 states | `DecodedAsSent`, `LimitsEnforced`, `EncodedPerIso` |
| `composites` | passes, 285,000 states | `ReadsBack`, `AcceptedByPeer`, `CountIsHolders` for all types |
| `transfers` | passes, 290,000 states | `DeliveredIntact`, `WindowKept`, `AllDelivered` |
| `cbs` | passes, 600,000 states | `PointersLive`, `OpenAnsweredOnce`, `ImplementsOperations` |
| `cbs_open` | violated | `OpenMeansBoth`: `amqp_management_requirements.md:395` |

The violated runs are disagreements between a document or comment and the code,
described with their quotations under `findings` in `PROJECT.json`. Further ones
are stated in the modules and kept out of the passing runs' properties; adding the
statement to the cfg shows the counterexample: `NothingAfterClose` (`Connection`),
`NoFrameBeforeBegin`, `SilentAfterEnd` (`Sessions`), `SettledIsCompleted`
(`Sender`), `RecognisedIsReceived` (`HeaderDetectIo`, with the table `SaslAndAmqp`:
the header of AMQP is answered as that of SASL), `NothingLeaked`, `ChosenIsOffered`
(`SaslClientIo`), `PerformativeDecoded`, `FramesPrompt` (`FrameCodec`: a frame with an extended
header and no body is complete, but indicated only with the first byte of the next),
`FrameWindow` (`Transfers`).
A frame that `ShortFrames` leaves out, added to `PeerFrames`, refutes `FramesAsSent`
(see *FrameCodec* under Theorems). Three more are
values that the run `values` leaves out: an empty binary, string or symbol that is
not inside another value is passed on twice; an array of two or more items whose
constructor has no data yields one item more than it has; the size of an array of
one-byte items or of nulls is written one too small (these are sent by other
implementations in the run, but not by the encoder). With `MAX_LINK_CREDIT` of 1
the receiver sends its FLOW before it has counted the delivery at hand
(`link.c:480`), so that it grants nothing new and TLC refutes `AllDelivered`; the
default is 10,000.

Deadlock is not checked: a connection, a session, a sender, a codec may all come to
rest, with nothing left that has to happen.

**Bounds.** They matter for what is only model-checked (listed at the end of
Theorems); the other safety properties are proved without them. *Connection*: a header of two bytes has a first, a last and a byte
past the end; the time-outs (3; 4, of which 2 before an empty frame; a stall of 2)
make the sum in `KeepAlive` exactly the peer's time-out, its tightest case; two
faults let one failure happen inside the handling of another. *Sessions*: three
sessions and `channel_max` of 2 fill the table (the code refuses the endpoint
that would bring the count above `channel_max`), free its lower channel and fill
the gap with the third; two peer channels allow a mirrored and a crossed assignment; two frames
in flight let the end of a session cross a frame of its successor. *Sender*: two
sends and a limit of two have a send waiting behind another, credit for one, for
both and for none, and credit taken back; `CREDIT_MOD` of 8 makes a wrapped credit
larger than every count. *HeaderDetectIo*: six bytes are two headers of two bytes, the
handshake of a detected io between them and payload behind; calls of up to three
bytes put a header, or its end and payload, into one call; two opens find what the
first has left behind. *SaslClientIo*: the dialogue takes five bytes as modelled,
the sixth is the user's; a mechanism list with, without and with an unreadable
entry; credentials that fit into SASL-INIT and that do not. *FrameCodec*: two
frames of which the first may be malformed, of an unsubscribed type, above
`max_frame_size` or cut short; 22 bytes hold the two longest of them that matter,
and a call takes any number of bytes. *AmqpValue*: every type and every constructor;
numbers on both sides of their short forms; list, map and array on both sides of an
8-bit size; one value above each limit; a second value behind the first, so that
what the first leaves in the decoder shows. *Composites*: two handles may hold one
value or be clones; two sets write the same or two fields. *Transfers*: a window of
1 and a credit of 2 run out with three messages, of one and of two frames; `MOD` of
8 makes the ids and windows wrap. *Cbs*: two operations whose answers cross; two
opens; one fault, which is a failing send in any call or a message that answers
nothing.

**Fairness.** *Connection*: `connection_dowork` is called again and again, and
the `xio_dowork` inside it and a loop over received bytes come to their end, which
is how the library is meant to be used. Nothing is assumed of the clock, and of
the peer and the io only that a buffer is finite. *Sender*: a pass that has begun ends (it is a
loop of the code); every send has a non-zero timeout and it passes; the application
keeps calling `link_dowork`. The last is strong fairness because handlers run to
their end between two calls: frames may keep arriving, but never inside
`link_dowork`'s turn. Nothing is assumed of the peer. *Transfers*: both sides keep
calling `connection_dowork`, so that a frame under way is received at last; nothing
is assumed of the application, which may keep a message unsettled for ever.

## Theorems

All are proved for every value of the constants, from the assumptions on them that
are named in the modules (`ConnectionAssumption`, `SessionsAssumption`,
`SenderAssumption`, `EntriesAssumption`, `SaslAssumption`, `CbsAssumption`,
`FrameAssumption`, `CompositesAssumption`, `TableAssumption`, `TransfersAssumption`,
`SplitAssumption`), which TLC evaluates in the runs; each is the standard argument that an inductive invariant holds initially,
is preserved by every action and implies the property.

*Connection* (`TypeCorrect`, `HeaderRead`, `WireOrdered`, `Advertised`,
`KeptAlive`). `IInv` adds what ties the state to the wire: before a successful
`xio_open` nothing has been written (`Unopened`), while it is opening the state is
START or HDR_EXCH (`Opening`), no OPEN before the handshake is over (`NoOpenYet`),
and on an open io OPEN_SENT and OPENED mean that the OPEN is on the wire while a
CLOSE leaves only DISCARDING (`OnOpenIo`). For `KeepAlive`, `QuietTime` bounds the
time without a write by `SEND_AFTER` and the time since the last call of
`connection_dowork`.

*Sessions* (`TypeCorrect`, `TableSorted`, `LowestFree`, `MappedRouted`). "Sorted"
alone does not let one conclude that the gap search finds the lowest channel
without an induction over the array; `Spaced` says directly that the channels of
positions j < k are at least k - j apart, and is preserved by insertion and
removal. Routing needs `Mirror`: while the peer answers on our channel numbers,
frames in both directions, the peer's table and the endpoint table agree on who
owns a channel; `Announced` and `Fresh` keep new handles apart from old ones.

*Transfers* (`TransferTypes`, `WindowIsKept`, `IntactDelivery`, in `SessionsProofs`). The
invariant `TransfersInv` says that there is a first transfer id and a sequence q, the
messages sent so far in their order, without repetition, such that the i-th of them has
the id `IdAt(first, i)`, modulo `MOD` (`Sender`). Everything under way is read along
q. Over the TRANSFER frames (`forth`) a cursor moves, from the messages delivered and the
pieces gathered of the next one (`Gathered`) to all of q (`Onward`); behind a failure it
is known only where messages end. Over the answers (`back`) moves the number of frames
allowed (`Backward`), from what the sender has written and may still write up to what the
receiver reckons with: each FLOW was written when the receiver had counted u frames, u no
more than now, and allows at least what those ahead of it do. So the window that the
sender computes from it modulo `MOD` is the real one, since the numbers involved are less
than `MOD` apart (`WindowCounts`, from `TransfersAssumption`); `Windows` says this as
long as no message is split. A DISPOSITION names the id of a message that was delivered,
and of no other, as fewer than `MOD` are sent. Both cursors are paths (`Path`), of which
lemmas say how they grow at one end, shrink at the other and are put together: this
replaces an induction over the queue. `Idle`: a message waits only if the link is busy, so
that a new one is not sent ahead of it.

*Sender* (`TypeCorrect`, `OneCompletion`, `ListsAgree`, `SentInOrder`,
`NothingLeftWaiting`, `WithinCredit`). `CompletedOnce` and `DeliveriesOwned` need
each other: what the link settles must still be in the array, and what is in the
array must not have been completed. `InOrder` needs `WorkConserving`, because a new
send is tried ahead of the queue, and may be so only if the queue could not be
sent; that in turn needs `Attached`: a sender becomes OPEN without credit and only
on a bound link in a session that has been mapped, so that the pass that credit
starts is never missed. `Credit` is the arithmetic behind `CreditRespected`.

*HeaderDetectIo* (`TypeCorrect`, `PayloadKept`, `ImplementsInterface`). `Accounted`:
until the io fails or is closed, what was heard is what headers and handshakes have
consumed, then what was given, then what is left of the call at hand. For the
refinement each step is shown to be a step of `Xio` or none, by cases of the state
in which the code takes it.

*SaslClientIo* (`TypeCorrect`, `WroteOnce`, `OpensByDialogue`,
`ImplementsInterface`). `Written` counts what has been written in each pair of
header and negotiation state. For `OpenedByDialogue` the invariant `Heard` places
header, list and outcome among the bytes heard in this open: which of them have been
taken, in each state, and that nothing behind them was dropped.

*Cbs* (`TypeCorrect`, `Pointers`, `AnsweredOnce`, `ImplementsPromise`). The functions
of the code are operators composed inside an action, in the middle of which the
library is in states that no action leaves behind. `Step` relates the library before
and after each operator (which operations may complete, and that opens answered and
opens under way add up) and is transitive; `Settled` is what the states of the two
layers are between actions; `Numbered` says that message ids number the operations and
that a request or response under way belongs to one of them. `ImplementsPromise` reads
from `Step` what each action does to the status of each operation.

*FrameCodec* (`TypeCorrect`, `InBuffer`, `CallbackPerFrame`, `AsSent`, `LateOnlyBodiless`).
`Shape` ties position, size and data offset to the memory of the frame; `Calls` the
callbacks of `amqp_frame_codec.c` to the frames indicated. `Stream` says where the
decoder is: there are a byte stream, the positions at which its frames end, and a
frame in which the decoder stands, such that what it has built from the bytes of that
frame is what the frame says; or it is in error, and indicates nothing any more.
`AsSent` has a hypothesis, `ShortFrames`: a frame of eight bytes that another
implementation sends has a data offset of at most three words. Without it the
statement is false: such a frame, of a type without subscription, makes the codec skip
into the next frame (`frame_codec.c:288`, `:368`; under `findings`).
`LateOnlyBodiless` needs no such hypothesis. It is what is true of `FramesPrompt`,
which TLC refutes (a finding): behind an extended header the codec waits for
body bytes even if the frame has none (`frame_codec.c:390`), so that such a frame is
indicated with the first byte of the next; no other well-formed frame is late, and
this one by no more than that byte. Failed codecs and those in a frame without
subscription, which indicate nothing any more, are outside both. `Following` says that
the codec is in the frame behind the ones it has indicated, unless it has failed, has
met a frame it cannot take or is in one without subscription (`Gone`), states that it
does not leave; and when a call returns (`Unfinished`), that frame has not been
received to its end, or has an extended header only. As frames end at
increasing positions (`Rising`), no earlier frame is left out. `FrameAssumption` says
of the frames only that they are as long as their size says (unless it is too small
for a frame). What the fold `FlattenSeq` makes of the payloads of an encoder call is
proved (`FlattenType`), by induction in the form the provers can use: `Inductive`, a
set of numbers with 0 and every successor holds all of them, from the least number
that it does not hold.

*Composites* (`TypeCorrect`, `Counted`, `ReadBack`, `Acceptable`). `TableAssumption`
says that create, check, getter and setter of each field agree on item and type
(`FieldAgrees`, `CreateAgrees`); it is about the finite table of `Definitions`, where
TLC evaluates it for all 24 types. From it `ReadsBack` and `AcceptedByPeer` follow
for any number of handles on any number of shared values: `Kept`, every value holds
what was last stored in it (up to the array that a getter makes of a single item),
and `Good`, every value with a handle passes the checks of `amqpvalue_get_T`.

Only model-checked:
- `IdleTimeoutCloses`, `TransferEnds` and `AllDelivered`: liveness under fairness is
  out of the prover's reach;
- `AmqpValue`: values are trees, its operators are RECURSIVE, and what they compute for
  every tree needs an induction over data;
- `Splits` of every payload, the assumption of `Transfers`: what the two loops compute
  for any chunks needs an induction over data;
- the violated runs and the refuted statements, of which TLC shows counterexamples.

## Not modelled

- `message.c`, `messaging.c`: containers with a setter, a getter and a clone for each
  section; no control. That a cloned section shares its value is in `Composites`.
- `amqpvalue_to_string.c`, tracing and logging: text only.
- `socket_listener_*.c`: system calls, used by the samples for servers.
- of `amqpvalue.c`: the create and get functions of the primitive types (each tests
  a type and copies a field), `amqpvalue_are_equal`, failing allocations.
- getters, options and operations that pass a call on without keeping state
  (`send`, `dowork` and `set_option` of the ios); the bytes of a SASL response.
- the delivery state that is passed to a completion callback (whether one is called
  is modelled, what it is told is not).
- `samples/`, `tests/`, `uamqp_generator/`: not part of the library.

Known limits of the present modules are the abstractions named above and the
hazards that have a note instead of a property.

## Plan

1. *Done*: `Connection`, `Sessions`, `Sender`, and their safety proofs.
2. *Done, model-checked*: `Transfers` (with the receiver), `FrameCodec`,
   `SaslClientIo` and `HeaderDetectIo` on `Xio`, `Cbs` on `Operations`,
   `Definitions` and `Composites`, `AmqpValue`.
3. *Done*: proofs for these, except `AmqpValue`.
4. In `Sender`: pre-settled transfers that complete inside `link_transfer_async`, a
   clock that fails behind a write, a completion callback that sends again.
5. `Connection` and `Sessions` composed, with the liveness of `session_begin`.

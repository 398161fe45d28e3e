# Verification of syfala

TLA+ models of the Syfala audio-over-UDP crates, TLC runs on small instances, and
TLAPS proofs for every instance.

## The system and its models

| Part | Source | Modules | State |
|---|---|---|---|
| UDP client: connections, IO requests, deadlines | `syfala_network/src/udp/client` | `GenericClient`, `ServerLifecycle`, `GenericClientProofs` | modelled |
| Client, network and servers together | `syfala_network/src/udp`, `syfala_proto` | `ClientSession`, `WireFormat`, `ClientSessionProofs` | modelled, servers external |
| Indexed ring buffer adapters | `syfala_utils/src/queue.rs` | `IndexedQueue`, `IndexedStream`, `IndexedQueueProofs` | modelled |
| Byte producer and consumer | `syfala_utils/src/byte_*.rs`, `sample_type.rs` | `ByteStreams`, `ByteStreamsProofs` | modelled |
| CoreAudio driver: IO and clock | `syfala_coreaudio/src/lib.rs` | `DeviceIO`, `DeviceClock`, `DeviceIOProofs` | modelled |
| CoreAudio driver: objects and properties | `syfala_coreaudio/src/lib.rs` | `HalProperties`, `MCHalProperties`, `HalPropertiesProofs` | partly |
| CoreAudio driver: reference count, entry points without state | `syfala_coreaudio/src/lib.rs` | | not modelled |
| JACK process handler, interleaver | `syfala_jack/src` | `JackHandler`, `JackHandlerProofs` | modelled, on top of `IndexedQueue` |
| Wire encoding | `syfala_network/src/lib.rs` | `WireFormat`, `UdpTransport`, `MCUdpTransport`, `UdpTransportProofs` | modelled, postcard external |
| UDP sockets, receive loops, beacon | `syfala_network/src/udp` | `UdpTransport` | modelled, callbacks external |
| Protocol types, stream formats | `syfala_proto/src` | messages in `WireFormat` and `GenericClient` | messages modelled, formats as opaque data |

A client broadcasts discovery messages. A server answers with a connection request
that describes its streams; the client accepts or rejects it, later asks the server
to start and stop audio IO, and drops servers that fall silent. Audio callbacks
(JACK, CoreAudio) exchange samples with network threads through indexed rings, and
byte adapters turn samples into indexed packets and back.

### UDP client

`GenericClient` has the maps `servers` and `deadlines`, the socket's receive timeout
and what became of the loop. One thread blocks in `recv`; `on_message`,
`on_unknown_message` and `on_timeout` are one action each, with everything the
handler calls. With `IoMayFail` any socket call may report an error: the handler
leaves where the code does, `start` returns, and `Restart` calls it again on what
is left. An `Instant` is the number of ticks left before it, so time needs no bound.

`ServerLifecycle` is the abstract contract: the moves the typestate traits of
`state.rs` offer. `GenericClient` implements it (`TypestateContract`).

`ClientSession` extends the client with a UDP network, the discovery beacon, and
external servers that follow the protocol documentation, since the repository has no
server. Datagrams in flight are a set per direction, so they are always reordered. Up
to `MaxFaults` times the network does worse: it loses a datagram, delivers one again,
or lets a request overtake the result of the connection it belongs to.

In `GenericClient` a message is what a handler gives to `send_msg`. In `ClientSession` it
goes through `WireFormat`: the message is encoded, `send_msg` hands the part of its buffer
to the socket that it has not written, and the server decodes that. With the constant
`SendsWritten` the same session can be studied as if `send_msg` sent what it has written,
the way the beacon does; the run leaves it `FALSE`, as the code is.

### Wire and sockets

`WireFormat` has the nested messages, their flat forms, the bytes that postcard makes of
those, and what `send_msg` passes on. `UdpTransport` has the loops that move them: `recv` into a buffer that is used again for
every datagram, `on_message` and `on_timeout`, the errors that end a loop and those that
do not, and the discovery beacon. One side, chosen by `Init`, runs its loop; its peers
send encoded packets, what their `send_msg` sends, and other programs send what they
like. Every datagram may arrive at any time, any number of times or not at all.

postcard and serde are external and modelled from their use: the number of a variant is
its position in the enum, a list is its length and its items, `fixint::le` is four or
eight bytes. Lengths are varints of one byte, so that lists have fewer than 128 formats. A
format is one byte other than 0, since no sample rate decodes from zeros.

### Rings and byte streams

`IndexedQueue` is a sender and a receiver thread on one ring. Samples are
represented by the index they were made for, so alignment is an equation. A call is
several steps: slots are counted once, elements are written or consumed, the counter
advances and wakes, slots are released. The other thread may run between any two.

`IndexedStream` is the abstract contract: a window on a stream of numbered samples, which
the writer extends and of which the reader is given the part it asks for. It has no
counters, chunks or iterators, so it says that these are right: what is written begins
where the call says, with padding only before that; what is given is the window's content
or padding for what was released before; what is released is what was given, no more and
no less. `IndexedQueue` and `JackHandler` implement it (`StreamContract`).

`JackHandler` extends it with JACK process handlers at either end, or at both, or at
neither (the ends without one keep the arbitrary caller of `IndexedQueue`). A cycle
starts with `process_tx` or `process_rx`: the frame time is compared with the first one,
which is kept, and one below it panics. Every `next` of the interleaving iterator is a
step (`pull`, `copy`), its raw pointers are offsets in their buffers. An input sample is
its index; an output sample is what is copied or, before that, `Stale`. A handler with
several ends treats them one after the other on separate rings, so each handler here has
one.

`ByteStreams` is `produce_packet`, the network and `consume_packet`; every `next` of
an iterator is a step, so a packet may end and a sink may fill up anywhere. A byte
is represented by its position in the stream.

### CoreAudio driver

`DeviceIO` is `start_io`, `stop_io` and `get_zero_timestamp` of several clients.
The first two do their work under the `DEVICE_IO` mutex and are one step;
the third reads the clock first and locks later, and is two. `DeviceClock` is the abstract
contract, one clock that is set when the first client starts, never to an earlier time,
and then advances by whole periods in both of its coordinates (`ClockContract`).

`HalProperties` has the object tree and the property tables. An entry has the size that
`get_data_size` declares, which the code computes from one type, and the items that
`write_data` writes, of a type named at another place. The setters are two steps, the
store and the callback. Volumes are stored as gains: `db_to_gain` is any increasing function
to positive numbers (`Power10`), `gain_to_db` its inverse by way of the squared gain, and a
scalar is the square of a position in the decibel range, in whole units. Rounding is left
out. The audio server is external: it asks for a size before it reads, and reads again what
a callback names. Checks of pointers and qualifiers are left out; they return before any
state changes.

## Runs

| Run | Shows |
|---|---|
| `client` | with errors and restarts: every deadline has a server, an active server has a deadline, and state changes are those of the typestate traits; as long as no call has failed: one deadline per server, no panic, no zero timeout; silent servers are dropped |
| `client_notimeout` (violation) | `on_timeout` without servers removes the receive timeout and connecting does not restore it, so a silent server stays |
| `client_stop` (violation) | a server that is to stop is sent START_IO |
| `session_unanswered` (violation) | on a perfect network a server's connection request is never answered: `send_msg` sends the part of its buffer after the message, which is a Discovery to the server |
| `queue` | samples stay at their index from port to port, pointers stay in their buffers, the ring is not overrun, boundaries are announced once, and the whole implements `IndexedStream` |
| `queue_early_wake` (violation) | the receiver's waker runs before the slots are released |
| `jack_padding` (violation) | when the ring runs empty, the rest of JACK's output buffers is neither written nor padded |
| `bytes` | packets hold the bytes their index names, no sample is dropped, the consumer never goes back or delivers too much |
| `bytes_panic` (violation) | the byte that completes a sample makes `strict_sub` at `byte_consumer.rs:153` panic |
| `device_io` | the counter is the number of clients, timestamps lie on one line and are up to date, only overlapping calls panic, and the whole implements `DeviceClock` |
| `hal_view` | the audio server's view is right or known to be stale, a volume set in either scale reads back in both, the object tree is consistent and its controls cover the arrays, as many bytes are written as declared, but for two lists that are empty in the input scope |
| `transport` | a message comes out of encoding, a used buffer and decoding as it went in; of the socket's errors only those that are not timeouts end a loop or the beacon, of a callback's any |

Each property has a mutant, a definition named in `PROJECT.json` that changes the
model the way a bug in the code would and that TLC refutes. They stand before the
definition they change, with the comment "Mutant".

`hal_view`, `device_io`, `bytes`, `queue` and `transport` switch deadlock checking off
because their callers may stop for good, at a bound, after a panic or with an error.

### Bounds

- Client: two addresses are needed because `on_timeout` treats several servers at
  once; a connection timeout of 4 ticks and a poll period of 2 make deadlines expire
  before, at and after a poll. Time is unbounded.
- Stop: one server, a timeout of 2 ticks and a poll period of 1 are enough to reach the
  arm of `on_timeout`.
- Session: one server, one connection, no fault: the smallest session in which a request
  must be answered. The theorems cover any number of each.
- Ring: capacity 3 and indices to 6 fill the ring, wrap it, skip and repeat; periods
  of 2 with calls of up to 4 elements cross several boundaries at once. Two ports, which
  3 slots do not divide into frames, cycles of 1 and 2 frames and frame times to 2 give
  jumps forward, repetitions, jumps back and frames torn by a full or an empty ring.
- Transport: bytes of base 10, so that a header's 16 bytes have different values within
  the integers TLC has; a buffer of 18 bytes holds a header and one byte of audio and
  cuts the next; one datagram in the socket, since each is handled before the next. The
  buffer given to `send_msg` has 2 bytes here and 200 in `session_unanswered`, as in the
  code.
- Bytes: samples of 3 bytes, so that packets end at a boundary and at two places
  inside; 4 packets allow a gap, a late packet and a repetition.
- Driver: three clients for a limit of two; 7 ticks are three periods and a rest. One
  channel gives a master and a channel pair of controls; two sets by two threads
  let one setter overtake another between store and callback. The gains are powers of two.

### Fairness

`client` and `client_notimeout` assume that the clock advances and that the client's
thread is scheduled; nothing of the servers. `session_unanswered` assumes all one may hope
for (`SessionFairness`): the client, its beacon and the servers run, and every datagram is
delivered; the request is not answered even then. `transport` assumes that threads run,
callbacks return, sleeps end, and that a receive or a send that can succeed does so in the
end. These are properties of the environment, needed for any progress.

## Proofs

All theorems hold for every value of the constants within the named assumptions
(`ClientAssumption`, `QueueAssumption`, `JackAssumption`, `WireAssumption`,
`TransportAssumption`, `ByteStreamsAssumption`, `DeviceIOAssumption`, `HalAssumption`,
`GainAssumption`, and the hypotheses `Bounds` of two theorems about sessions): periods,
sizes, ports and capacities are positive, bounds are natural numbers, the set of CoreAudio
clients is finite, audio headers fit their widths, lists have fewer than 128 formats, and
gains increase with the decibel value. Each
proof module defines an inductive invariant, has one lemma per action, and combines them
with PTL.

- `GenericClientProofs`: `TypeCorrect`, `DeadlinesBelong`, `ActiveServersCanExpire`,
  `EveryServerHasDeadline`, `CleanRun`, and `Typestates`, the refinement of
  `ServerLifecycle`. The invariant `IInv` is the conjunction of the safety properties: that
  an active server has a deadline rests on its acknowledgement being handled without a
  send. `TimeoutInTime` is the safety half of dropping silent servers: whenever
  `on_timeout` returns Ok nobody overdue is left, and the timeout it sets ends no later
  than the next deadline. `NoneIsForever`: after it has once set no timeout at all, none
  is ever set again and nobody is dropped for silence.
- `ClientSessionProofs`: `SessionTypes`, `ActiveServersReady`, on the client's lemmas. The
  strengthening follows an acknowledgement from the server to the client: while one is in
  flight its server is ready, and a server that has not connected has sent nothing. It is
  about a single connection (`MaxSessions <= 1`), where the property holds; it does not
  depend on `SendsWritten`.
  `SessionClient` says that the composition implements `GenericClient!Spec`, so that its
  theorems carry over (`SessionTypestates`). `StopsNeverSettle` holds for any number of
  connections: as no `StopIO` is ever in flight, no server sends an answer to one, and
  `PendingStop` is left only with the connection. `SendMsgConnectsNobody` is about
  `send_msg` as it is: from its 199 zeros a server decodes a Discovery, so only Discoveries
  and connection requests are ever in flight, nobody is connected, and a server that asks
  goes on asking.
- `IndexedQueueProofs`: `TypeCorrect`, `Alignment`, `Delivery`, `NoOverrun`, `Wakes`,
  `WakesFindData`, and `StreamKept`, the refinement of `IndexedStream`. The strengthening
  relates the two counters to the ends of the ring at every point of a call, and says
  exactly what a half-done call holds: what is about to be published is padding up to one
  index and samples from there (`OutExact`), what is about to be released ends where what
  was given ends (`TakenExact`). Both rest on what the lazy `shift_iter` yields and
  consumes (`ShiftExact`, `ConsumedExact`). `EarlyByOneCall` bounds what `queue_early_wake`
  shows: the wake-up is early only until the chunk is released.
- `JackHandlerProofs`: `JackTypes`, `CaptureInPlace`, `InBounds`, `PlaybackInPlace`,
  `UnderrunsOnly`, `JackQueue`, `JackStream`, on the lemmas of the queue. The strengthening
  says where the iterator is after k samples (frame k div ports, port k mod ports, the
  pointers of the earlier ports one ahead), what has been pulled or copied by then, and
  what the receiver's counter becomes when the loop ends with one iterator or the other.
  `UnderrunsOnly` says how far `MissingSamplesPadded` fails: what a cycle leaves unwritten
  is exactly what the receiver's counter has not passed.
- `UdpTransportProofs`: `RoundTripClient` and `RoundTripServer` say that decoding inverts
  encoding, for every message, header, list of formats and payload; `TransportTypes` and
  `Handing` carry that through the loop and its buffer. `LoopsReturnOnError`: a loop has
  returned only if its receive failed with an error other than a timeout, or a callback
  with any. `SendMsgIsBlank`: of zeros a server
  makes a `Discovery` or nothing, a client a `Connect` without streams or nothing, whatever
  the message and the buffers.
- `ByteStreamsProofs`: `TypeCorrect`, `ProducerInPlace`, `NoSampleDropped`,
  `SinkBounded`, `IndexMonotone`. Strengthening: the packet in progress ends where the
  stream is, the scratch buffer holds the sample the stream is inside of, and padding
  still to be pulled is already counted in the index. `NoSampleAssembled`: for every size
  of a sample, only padding is delivered and the byte that completes a sample panics.
  `BytesShiftedByGap`: packets that continue the stream are consumed in place, and after a
  gap the bytes are off by exactly the gap.
- `DeviceIOProofs`: `TypeCorrect`, `ClientsCounted`, `Timestamps`, `Latest`,
  `NoPanicAlone`, and `ClockKept`, the refinement of `DeviceClock`. Strengthening: the clock
  is not behind the timestamp, and a clock value read by a pending call is not older than
  it unless calls have overlapped.
- `HalPropertiesProofs`: `HalTypes`, `ViewStaysCurrent`, `ReadsBack`, `Tree`, `Sizes`,
  `AnyBuffer`. `TypeOK` and `ViewCurrent` are inductive together; the work is in what a
  property reads as, in which properties a setter changes (only those of its own control,
  so that announcing these is enough), in the arithmetic between object IDs and elements,
  in `gain_to_db` being inverse to `db_to_gain` on the stored gains, and in the entries of
  the tables: for each of them the declared size is the size of the type written times the
  number of items (`Sound`). `AnyBuffer` is about a buffer of any size.

`NoneIsForever`, `StopsNeverSettle`, `SendMsgConnectsNobody`, `NoSampleAssembled`,
`EarlyByOneCall` and `UnderrunsOnly` go with the six violations: what TLC shows with one
behaviour they describe for every value of the constants.

Only model-checked: liveness (`SilentServersExpire`, `LoopsKeepServing`), which is out of the
prover's reach; that the six violations do occur, which is one behaviour each.

## What the code does beyond the runs

Seen while modelling, beside or behind what the runs show:

- If `send_msg` sent what it has written (`SendsWritten = TRUE`), a first connection request
  would be answered on a network without faults, even though it reorders, and a server that
  connects once not be streamed to before it is ready (TLC, one fault allowed). Then other
  hazards would surface: one lost request or answer leaves a server pending, because
  nothing is sent again; and with `MaxSessions = 2` a delayed `StartOk` of the first
  connection is taken for an answer (`ActiveMeansServerReady` fails), and a rebooted server
  that is still in the map is not answered (`ConnectRequestsAnswered` fails).
- A reply that cannot be sent leaves a server without deadline, against the comment at
  `generic/mod.rs:272`; its later disconnection panics in `on_decoded_message`.
- Steady traffic keeps `on_timeout` from running; the client sends no heartbeats
  although `syfala_proto/src/lib.rs:39` has both sides do so.
- Overlapping `get_zero_timestamp` calls may panic in `strict_sub` and end the audio
  server's process.
- `TICKS_PER_TIMESTAMP` multiplies nanoseconds by `numer / denom`, which converts ticks
  to nanoseconds and not the other way round.
- `db_to_norm` clamps with its bounds exchanged; it returns 1 for every input.
- The sizes of the device's `OwnedObjects` and `Streams` do not depend on the scope although
  the data does: in the input scope nothing is written, and yet a size is declared, against
  the comment at `syfala_coreaudio/src/lib.rs:751`. `SizesFitData` says that there is no
  other such property.
- `n_skipped_bytes` in `feed_bytes` is counted from the receiver's index and not the
  packet's; a full sink loses padding because the index has moved already.
- A message sent with `send_msg` arrives as the zeros of the rest of its buffer: a client's
  decodes to `Discovery`, a server's to a `Connect` without streams. The discovery beacon
  is right, it encodes into a `Cursor` and sends up to its position.
- serde numbers variants by position, so the explicit discriminants of the flat enums
  (`syfala_network/src/lib.rs:37`) do not reach the wire.
- A callback's error ends a receive loop even if it is the timeout of a send: `start` uses
  `?` on it, although it "only returns if a non-recoverable I/O error occurs"
  (`client/mod.rs:151`, `server/mod.rs:115`). `LoopsKeepServing` has it as the code does it.
- `SampleType::is_signed` leaves `I64` out.
- `do_io_operation` has a comment on `ReadInput`; only `WriteMix` is supported.

## Not modelled, and why

- The reference count of the plug-in (`query_interface`, `add_ref`, `release`) changes a
  counter nothing reads. The device, configuration and IO-operation entry points check
  arguments and return constants.
- Pointer and qualifier checks of the property entry points return before any state
  changes; that they are complete is a matter of the C interface.
- postcard and serde are external; varints of more than one byte (lists of 128 streams or
  more) are not modelled.
- Formats and silence values are data no other state depends on. `from_bytes` of the
  sample types is never reached: the consumer panics first.
- Data races inside the ring are the external library's; `Relaxed` atomics of the driver
  are single values, so interleaving of stores is all they allow.
- A server application and its deadlines are not in the repository, so what follows from
  the client sending no heartbeats is not stated as a property.

## Plan

1. An audio path that composes `JackHandler` and `ByteStreams`, with an abstract
   specification (a stream with gaps) that it implements, once `byte_consumer.rs:153` no
   longer panics: until then no sample reaches the far end.
2. Several connections of one server, once `send_msg` sends its message and an
   acknowledgement can be told from one that belongs to an earlier connection.

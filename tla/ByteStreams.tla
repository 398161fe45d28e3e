----------------------------- MODULE ByteStreams -----------------------------
(***************************************************************************)
(* The two adapters between samples and indexed byte packets: the producer *)
(* (SampleByteStream fed from a ring of samples) and the consumer          *)
(* (AudioPacketSamplePadder feeding a ring of samples), with the network   *)
(* between them.                                                           *)
(*                                                                         *)
(* A byte is represented by its position in the stream it was made for:    *)
(* byte o of the k-th sample is k * SIZE + o.  A packet is the index it    *)
(* carries and its bytes.  Each call of an iterator's next is a step; the  *)
(* caller of produce_packet stops when it likes, and the sink of           *)
(* consume_packet stops when it has no slot left.                          *)
(*                                                                         *)
(* The network is external: any packet sent may arrive at any time, any    *)
(* number of times or never.                                               *)
(***************************************************************************)
EXTENDS Integers, Sequences, FiniteSets

CONSTANTS
  SIZE,         \* bytes of a sample
  MaxSamples,   \* bound: samples the source yields
  MaxPackets,   \* bound: packets sent
  MaxSlots      \* bound: free slots the sink finds for one packet

ASSUME ByteStreamsAssumption ==
  /\ SIZE \in Nat \ {0}
  /\ MaxSamples \in Nat
  /\ MaxPackets \in Nat
  /\ MaxSlots \in Nat

VARIABLES
  pushed,     \* samples the audio thread has put into the source
  popped,     \* samples the producer has taken from it
  txIdx,      \* current_byte_idx of the SampleByteStream
  txSample,   \* its current_sample_bytes
  chunk,      \* samples the source had when the packet in progress was begun
  txPc,       \* whether a packet is in progress
  packet,     \* that packet
  net,        \* packets sent
  rxIdx,      \* current_byte_idx of the AudioPacketSamplePadder
  rxSample,   \* its current_sample_bytes
  rxPc,       \* whether a packet is being consumed
  padding,    \* padding samples of the packet in progress yet to be pulled
  rest,       \* bytes of the packet in progress yet to be pulled
  slots,      \* free slots of the sink yet to be filled
  delivered,  \* samples written to the sink
  panicked    \* the consumer's thread has panicked

tx == <<pushed, popped, txIdx, txSample, chunk, txPc, packet>>
rx == <<rxIdx, rxSample, rxPc, padding, rest, slots, delivered, panicked>>
vars == <<tx, net, rx>>

Offsets == 0 .. SIZE - 1
Packet == [byte_idx : Nat, bytes : Seq(Nat)]

TypeOK ==
  /\ pushed \in Nat /\ popped \in Nat /\ chunk \in Nat
  /\ txIdx \in Nat /\ txSample \in [Offsets -> Nat]
  /\ txPc \in {"idle", "framing"} /\ packet \in Packet
  /\ net \in SUBSET Packet
  /\ rxIdx \in Nat /\ rxSample \in [Offsets -> Nat]
  /\ rxPc \in {"idle", "pulling"}
  /\ padding \in Nat /\ rest \in Seq(Nat) /\ slots \in Nat
  /\ delivered \in Nat /\ panicked \in BOOLEAN

NoPacket == [byte_idx |-> 0, bytes |-> <<>>]

Init ==
  /\ pushed = 0 /\ popped = 0 /\ chunk = 0
  /\ txIdx = 0 /\ txSample = [o \in Offsets |-> 0]
  /\ txPc = "idle" /\ packet = NoPacket
  /\ net = {}
  /\ rxIdx = 0 /\ rxSample = [o \in Offsets |-> 0]
  /\ rxPc = "idle" /\ padding = 0 /\ rest = <<>> /\ slots = 0
  /\ delivered = 0 /\ panicked = FALSE

-----------------------------------------------------------------------------
(* The producer *)

\* The audio thread writes a sample into the source ring.
Push ==
  /\ pushed < MaxSamples
  /\ pushed' = pushed + 1
  /\ UNCHANGED <<popped, txIdx, txSample, chunk, txPc, packet, net, rx>>

\* Mutant: big-endian bytes.
to_bytes_be(k) == [o \in Offsets |-> k * SIZE + (SIZE - 1 - o)]

\* The little-endian bytes of the k-th sample.
to_bytes(k) == [o \in Offsets |-> k * SIZE + o]

\* A packet is begun: its index is the stream's, its samples those now available.
produce_packet ==
  /\ txPc = "idle"
  /\ Cardinality(net) < MaxPackets
  /\ txPc' = "framing"
  /\ packet' = [byte_idx |-> txIdx, bytes |-> <<>>]
  /\ chunk' = pushed - popped
  /\ UNCHANGED <<pushed, popped, txIdx, txSample, net, rx>>

\* Mutant: a sample is fetched one byte too late.
needs_sample_late == txIdx % SIZE = SIZE - 1

\* The index is at a sample boundary.
needs_sample == txIdx % SIZE = 0

\* SampleByteStreamIter::next, when it yields a byte.
next ==
  LET fetched == IF needs_sample THEN to_bytes(popped) ELSE txSample
  IN /\ txPc = "framing"
     /\ needs_sample => chunk > 0
     /\ txSample' = fetched
     /\ popped' = IF needs_sample THEN popped + 1 ELSE popped
     /\ chunk' = IF needs_sample THEN chunk - 1 ELSE chunk
     /\ txIdx' = txIdx + 1
     /\ packet' = [packet EXCEPT !.bytes = Append(@, fetched[txIdx % SIZE])]
     /\ UNCHANGED <<pushed, txPc, net, rx>>

\* The caller has what it wants and sends it; the samples not taken from the
\* chunk stay in the ring.
send ==
  /\ txPc = "framing"
  /\ txPc' = "idle"
  /\ net' = IF packet.bytes = <<>> THEN net ELSE net \cup {packet}
  /\ packet' = NoPacket
  /\ chunk' = 0
  /\ UNCHANGED <<pushed, popped, txIdx, txSample, rx>>

-----------------------------------------------------------------------------
(* The consumer *)

prev_spl_idx == rxIdx \div SIZE
next_spl_idx(byte_idx) == (byte_idx + SIZE - 1) \div SIZE

\* Mutants: the operands are swapped; one padding sample too many.
n_padding_samples_swapped(byte_idx) == prev_spl_idx - next_spl_idx(byte_idx)
n_padding_samples_more(byte_idx) == next_spl_idx(byte_idx) - prev_spl_idx + 1

n_padding_samples(byte_idx) == next_spl_idx(byte_idx) - prev_spl_idx

\* Mutant: a late packet rewinds the stream.
reindexed_back(byte_idx) == IF byte_idx = rxIdx THEN rxIdx ELSE next_spl_idx(byte_idx) * SIZE

\* The index feed_bytes leaves before any byte is pulled.
reindexed(byte_idx) == IF byte_idx > rxIdx THEN next_spl_idx(byte_idx) * SIZE ELSE rxIdx

\* Bytes of the packet that are skipped: all of a late packet.
n_skipped_bytes(p) ==
  CASE p.byte_idx < rxIdx -> Len(p.bytes)
    [] p.byte_idx = rxIdx -> 0
    [] p.byte_idx > rxIdx -> next_spl_idx(p.byte_idx) * SIZE - rxIdx

\* consume_packet up to the first pull of the sink, which has n free slots.
feed_bytes(p, n) ==
  /\ ~panicked
  /\ rxPc = "idle"
  /\ rxPc' = "pulling"
  /\ padding' = IF p.byte_idx > rxIdx THEN n_padding_samples(p.byte_idx) ELSE 0
  /\ rest' = SubSeq(p.bytes, n_skipped_bytes(p) + 1, Len(p.bytes))
  /\ rxIdx' = reindexed(p.byte_idx)
  /\ slots' = n
  /\ UNCHANGED <<tx, net, rxSample, delivered, panicked>>

\* The sink pulls a padding sample.
pull_padding ==
  /\ ~panicked /\ rxPc = "pulling" /\ slots > 0
  /\ padding > 0
  /\ padding' = padding - 1
  /\ slots' = slots - 1
  /\ delivered' = delivered + 1
  /\ UNCHANGED <<tx, net, rxIdx, rxSample, rxPc, rest, panicked>>

\* The sink pulls a sample and one byte is consumed for it.  The byte that
\* completes a sample makes curr.strict_sub(sample_size) panic: curr is the
\* offset of that byte, which is less than the size.
pull_byte ==
  LET curr == rxIdx % SIZE
      complete == (rxIdx + 1) % SIZE = 0
  IN /\ ~panicked /\ rxPc = "pulling" /\ slots > 0
     /\ padding = 0 /\ rest # <<>>
     /\ rxSample' = [rxSample EXCEPT ![curr] = Head(rest)]
     /\ rxIdx' = rxIdx + 1
     /\ rest' = Tail(rest)
     /\ IF ~complete
        THEN UNCHANGED <<slots, delivered, panicked>>
        ELSE IF curr - SIZE < 0
             THEN panicked' = TRUE /\ UNCHANGED <<slots, delivered>>
             ELSE slots' = slots - 1 /\ delivered' = delivered + 1 /\ UNCHANGED panicked
     /\ UNCHANGED <<tx, net, rxPc, padding>>

\* The sink is full, or the iterator is exhausted; what is left is dropped.
consumed ==
  /\ ~panicked /\ rxPc = "pulling"
  /\ slots = 0 \/ (padding = 0 /\ rest = <<>>)
  /\ rxPc' = "idle" /\ padding' = 0 /\ rest' = <<>> /\ slots' = 0
  /\ UNCHANGED <<tx, net, rxIdx, rxSample, delivered, panicked>>

Next ==
  \/ Push \/ produce_packet \/ next \/ send
  \/ \E p \in net, n \in 0 .. MaxSlots : feed_bytes(p, n)
  \/ pull_padding \/ pull_byte \/ consumed

Spec == Init /\ [][Next]_vars

-----------------------------------------------------------------------------
\* Every byte sent is the byte its packet's index says, although packets end in
\* the middle of samples and samples arrive while a packet is being made.
PacketsInPlace ==
  \A p \in net \cup {packet} : \A i \in DOMAIN p.bytes : p.bytes[i] = p.byte_idx + i - 1

\* produce_packet drops nothing: the samples taken from the source are those whose
\* bytes have been yielded, the last one perhaps in part.
NothingDropped ==
  /\ popped + chunk <= pushed
  /\ txIdx <= popped * SIZE
  /\ popped * SIZE < txIdx + SIZE

\* The sink never holds more samples than the stream has positions: a late or
\* repeated packet and a sample padded once are not delivered again.
SinkNotAhead == delivered * SIZE <= rxIdx

\* The consumer's index never goes back, whatever packets arrive in what order.
RxMonotone == [][rxIdx' >= rxIdx]_vars

\* Bytes are put together to full samples: the consumer's thread does not panic.
SamplesReconstructed == ~panicked
=============================================================================

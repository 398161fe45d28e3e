-------------------------- MODULE ByteStreamsProofs --------------------------
(***************************************************************************)
(* Proofs about ByteStreams, for samples of any size, any number of them   *)
(* and any division into packets.                                          *)
(***************************************************************************)
EXTENDS ByteStreams, TLAPS

\* The packet in progress ends where the stream is.
PacketContinues == txPc = "framing" => packet.byte_idx + Len(packet.bytes) = txIdx

\* In the middle of a sample the scratch buffer holds that sample.
SampleHeld == txIdx % SIZE # 0 => txSample = to_bytes(popped - 1)

\* The padding still to be pulled has been counted in the consumer's index.
PaddingCounted == (delivered + padding) * SIZE <= rxIdx

TxInv == PacketsInPlace /\ NothingDropped /\ PacketContinues /\ SampleHeld
IInv == TypeOK /\ TxInv /\ PaddingCounted

-----------------------------------------------------------------------------
(* Arithmetic *)

LEMMA MulMonotone ==
  ASSUME NEW a \in Int, NEW b \in Int, NEW s \in Nat, a <= b
  PROVE  a * s <= b * s
  <1>1. b - a \in Nat /\ (b - a) * s \in Nat
    OBVIOUS
  <1>2. b * s = a * s + (b - a) * s
    OBVIOUS
  <1> QED BY <1>1, <1>2

LEMMA DivMod ==
  ASSUME NEW x \in Nat, NEW s \in Nat \ {0}
  PROVE  /\ x \div s \in Nat
         /\ x % s \in 0 .. s - 1
         /\ x = (x \div s) * s + (x % s)
  OBVIOUS

\* Where a stream that has fetched k samples of size s, and no more than it
\* needed, stands at byte x.
LEMMA Boundary ==
  ASSUME NEW x \in Nat, NEW k \in Nat, NEW s \in Nat \ {0},
         x <= k * s, k * s < x + s
  PROVE  /\ x % s = 0 => k * s = x
         /\ x % s # 0 => k - 1 \in Nat /\ (k - 1) * s + (x % s) = x
  <1> DEFINE q == x \div s
             r == x % s
  <1>1. q \in Nat /\ r \in 0 .. s - 1 /\ x = q * s + r
    BY DivMod
  <1> HIDE DEF q, r
  <1>2. (q + 1) * s = q * s + s /\ (q + 2) * s = q * s + s + s /\ (k - 1) * s = k * s - s
    BY <1>1
  <1>3. k >= q
    <2> SUFFICES ASSUME k + 1 <= q PROVE FALSE
      BY <1>1
    <2>1. (k + 1) * s <= q * s /\ (k + 1) * s = k * s + s
      BY <1>1, MulMonotone
    <2> QED BY <1>1, <2>1
  <1>4. k <= q + 1
    <2> SUFFICES ASSUME q + 2 <= k PROVE FALSE
      BY <1>1
    <2>1. (q + 2) * s <= k * s
      BY <1>1, MulMonotone
    <2> QED BY <1>1, <1>2, <2>1
  <1>5. k = q \/ k = q + 1
    BY <1>1, <1>3, <1>4
  <1>6. CASE r = 0
    <2>1. k # q + 1
      BY <1>1, <1>2, <1>6
    <2>2. k * s = x
      BY <1>1, <1>5, <1>6, <2>1
    <2> QED BY <1>6, <2>2 DEF r
  <1>7. CASE r # 0
    <2>1. k # q
      BY <1>1, <1>7
    <2>2. k - 1 \in Nat /\ (k - 1) * s + r = x
      BY <1>1, <1>2, <1>5, <1>7, <2>1
    <2> QED BY <1>7, <2>2 DEF r
  <1> QED BY <1>6, <1>7

-----------------------------------------------------------------------------
(* The inductive invariant *)

LEMMA InitIInv == Init => IInv
  <1> SUFFICES ASSUME Init PROVE IInv
    OBVIOUS
  <1>1. TypeOK
    <2>1. NoPacket \in Packet
      BY DEF NoPacket, Packet
    <2>2. [o \in Offsets |-> 0] \in [Offsets -> Nat] /\ <<>> \in Seq(Nat)
      OBVIOUS
    <2> QED BY <2>1, <2>2 DEF Init, TypeOK
  <1>2. 0 * SIZE = 0 /\ 0 < 0 + SIZE /\ 0 % SIZE = 0
    BY ByteStreamsAssumption
  <1>3. PacketsInPlace
    BY DEF Init, PacketsInPlace, NoPacket
  <1>4. NothingDropped /\ PacketContinues /\ SampleHeld /\ PaddingCounted
    BY <1>2 DEF Init, NothingDropped, PacketContinues, SampleHeld, PaddingCounted
  <1> QED BY <1>1, <1>3, <1>4 DEF IInv, TxInv

\* A step of the consumer, or one that leaves all but pushed alone.
LEMMA TxUnchanged ==
  ASSUME IInv, UNCHANGED <<popped, txIdx, txSample, chunk, txPc, packet, net>>,
         pushed' >= pushed, pushed' \in Nat
  PROVE  TxInv'
  BY DEF IInv, TypeOK, TxInv, PacketsInPlace, NothingDropped, PacketContinues, SampleHeld

LEMMA PushIInv ==
  ASSUME IInv, Push
  PROVE  IInv'
  <1>1. TypeOK' /\ PaddingCounted'
    BY DEF IInv, TypeOK, PaddingCounted, Push, rx
  <1>2. pushed' >= pushed /\ pushed' \in Nat
    BY DEF IInv, TypeOK, Push
  <1> QED BY <1>1, <1>2, TxUnchanged DEF IInv, Push

LEMMA ProduceIInv ==
  ASSUME IInv, produce_packet
  PROVE  IInv'
  <1>1. packet' = [byte_idx |-> txIdx, bytes |-> <<>>] /\ packet' \in Packet
    BY DEF IInv, TypeOK, produce_packet, Packet
  <1>2. TypeOK' /\ NothingDropped'
    BY <1>1 DEF IInv, TypeOK, TxInv, NothingDropped, produce_packet, rx
  <1>3. PacketsInPlace' /\ PacketContinues'
    BY <1>1 DEF IInv, TypeOK, TxInv, PacketsInPlace, PacketContinues, produce_packet
  <1>4. SampleHeld' /\ PaddingCounted'
    BY DEF IInv, TxInv, SampleHeld, PaddingCounted, produce_packet, rx
  <1> QED BY <1>2, <1>3, <1>4 DEF IInv, TxInv

\* The byte that next yields is the one at the stream's position.
LEMMA NextByte ==
  ASSUME IInv, next
  PROVE  /\ packet' = [packet EXCEPT !.bytes = Append(packet.bytes, txIdx)]
         /\ txSample' = to_bytes(popped' - 1)
         /\ txIdx' = txIdx + 1
         /\ popped' \in Nat /\ chunk' \in Nat /\ popped' + chunk' <= pushed
         /\ txIdx' <= popped' * SIZE /\ popped' * SIZE < txIdx' + SIZE
  <1> DEFINE o == txIdx % SIZE
  <1>1. txIdx \in Nat /\ popped \in Nat /\ SIZE \in Nat \ {0} /\ chunk \in Nat /\ pushed \in Nat
    BY ByteStreamsAssumption DEF IInv, TypeOK
  <1>2. txIdx <= popped * SIZE /\ popped * SIZE < txIdx + SIZE /\ popped + chunk <= pushed
    BY DEF IInv, TxInv, NothingDropped
  <1>3. o \in Offsets
    BY <1>1, DivMod DEF Offsets
  <1>4. /\ o = 0 => popped * SIZE = txIdx
        /\ o # 0 => popped - 1 \in Nat /\ (popped - 1) * SIZE + o = txIdx
    BY <1>1, <1>2, Boundary
  <1>5. txIdx' = txIdx + 1
    BY DEF next
  <1>6. CASE o = 0
    <2>1. /\ txSample' = to_bytes(popped) /\ popped' = popped + 1 /\ chunk' = chunk - 1
          /\ chunk > 0
          /\ packet' = [packet EXCEPT !.bytes = Append(packet.bytes, to_bytes(popped)[o])]
      BY <1>6 DEF next, needs_sample
    <2>2. to_bytes(popped)[o] = txIdx
      <3>1. to_bytes(popped)[o] = popped * SIZE + o
        BY <1>3 DEF to_bytes
      <3> HIDE DEF o
      <3> QED BY <1>1, <1>4, <1>6, <3>1
    <2> HIDE DEF o
    <2>3. popped' - 1 = popped /\ popped' \in Nat /\ chunk' \in Nat /\ popped' + chunk' <= pushed
      BY <1>1, <1>2, <2>1
    <2>4. popped' * SIZE = popped * SIZE + SIZE
      BY <1>1, <2>1
    <2>5. popped * SIZE = txIdx
      BY <1>4, <1>6
    <2>6. txIdx' <= popped' * SIZE /\ popped' * SIZE < txIdx' + SIZE
      BY <1>1, <1>5, <2>4, <2>5
    <2> QED BY <1>5, <2>1, <2>2, <2>3, <2>6
  <1>7. CASE o # 0
    <2>1. /\ txSample' = txSample /\ popped' = popped /\ chunk' = chunk
          /\ packet' = [packet EXCEPT !.bytes = Append(packet.bytes, txSample[o])]
      BY <1>7 DEF next, needs_sample
    <2>2. txSample = to_bytes(popped - 1)
      BY <1>7 DEF IInv, TxInv, SampleHeld
    <2>3. to_bytes(popped - 1)[o] = txIdx
      <3>1. to_bytes(popped - 1)[o] = (popped - 1) * SIZE + o
        BY <1>3 DEF to_bytes
      <3> QED BY <1>4, <1>7, <3>1
    <2>4. txIdx # popped * SIZE
      <3> HIDE DEF o
      <3>1. (popped - 1) * SIZE = popped * SIZE - SIZE
        BY <1>1
      <3>2. o < SIZE /\ o \in Int
        BY <1>1, <1>3 DEF Offsets
      <3> QED BY <1>1, <1>4, <1>7, <3>1, <3>2
    <2> HIDE DEF o
    <2>5. popped * SIZE \in Nat
      BY <1>1
    <2>6. txIdx' <= popped' * SIZE /\ popped' * SIZE < txIdx' + SIZE
      BY <1>1, <1>2, <1>5, <2>1, <2>4, <2>5
    <2> QED BY <1>1, <1>2, <1>5, <2>1, <2>2, <2>3, <2>6
  <1> QED BY <1>6, <1>7

LEMMA NextIterIInv ==
  ASSUME IInv, next
  PROVE  IInv'
  <1>1. packet \in Packet /\ packet.bytes \in Seq(Nat) /\ packet.byte_idx \in Nat /\ txIdx \in Nat
    BY DEF IInv, TypeOK, Packet
  <1>2. /\ packet' = [packet EXCEPT !.bytes = Append(packet.bytes, txIdx)]
        /\ txSample' = to_bytes(popped' - 1)
        /\ txIdx' = txIdx + 1
        /\ popped' \in Nat /\ chunk' \in Nat /\ popped' + chunk' <= pushed
        /\ txIdx' <= popped' * SIZE /\ popped' * SIZE < txIdx' + SIZE
    BY NextByte
  <1>3. /\ packet'.byte_idx = packet.byte_idx
        /\ packet'.bytes = Append(packet.bytes, txIdx)
        /\ packet' \in Packet
    <2>1. Append(packet.bytes, txIdx) \in Seq(Nat)
      BY <1>1
    <2> QED BY <1>1, <1>2, <2>1 DEF Packet
  <1>4. txSample' \in [Offsets -> Nat]
    <2>1. CASE needs_sample
      <3>1. txSample' = to_bytes(popped)
        BY <2>1 DEF next
      <3>2. popped * SIZE \in Nat
        BY ByteStreamsAssumption DEF IInv, TypeOK
      <3>3. \A o \in Offsets : popped * SIZE + o \in Nat
        BY <3>2, ByteStreamsAssumption DEF Offsets
      <3> QED BY <3>1, <3>3 DEF to_bytes
    <2>2. CASE ~needs_sample
      BY <2>2 DEF next, IInv, TypeOK
    <2> QED BY <2>1, <2>2
  <1>5. TypeOK'
    <2>1. UNCHANGED <<pushed, txPc, net, rxIdx, rxSample, rxPc, padding, rest, slots, delivered, panicked>>
      BY DEF next, rx
    <2>2. txIdx' \in Nat
      BY <1>1, <1>2
    <2> QED BY <1>2, <1>3, <1>4, <2>1, <2>2 DEF IInv, TypeOK
  <1>6. NothingDropped'
    BY <1>2 DEF NothingDropped, next
  <1>7. SampleHeld'
    BY <1>2 DEF SampleHeld
  <1>8. packet.byte_idx + Len(packet.bytes) = txIdx
    BY DEF IInv, TxInv, PacketContinues, next
  <1>9. PacketContinues'
    <2>1. Len(Append(packet.bytes, txIdx)) = Len(packet.bytes) + 1 /\ Len(packet.bytes) \in Nat
      BY <1>1
    <2>2. packet.byte_idx + (Len(packet.bytes) + 1) = txIdx + 1
      BY <1>1, <1>8, <2>1
    <2>3. Len(packet'.bytes) = Len(packet.bytes) + 1
      BY <1>3, <2>1
    <2>4. packet'.byte_idx + Len(packet'.bytes) = txIdx'
      BY <1>2, <1>3, <2>2, <2>3, Zenon
    <2> QED BY <2>4 DEF PacketContinues
  <1>10. PacketsInPlace'
    <2>1. net' = net
      BY DEF next
    <2>2. ASSUME NEW i \in DOMAIN packet'.bytes
          PROVE  packet'.bytes[i] = packet.byte_idx + i - 1
      <3>1. i \in 1 .. Len(packet.bytes) + 1
        BY <1>1, <1>3, <2>2
      <3>2. CASE i = Len(packet.bytes) + 1
        BY <1>1, <1>3, <1>8, <3>2
      <3>3. CASE i # Len(packet.bytes) + 1
        <4>1. i \in DOMAIN packet.bytes /\ packet'.bytes[i] = packet.bytes[i]
          BY <1>1, <1>3, <3>1, <3>3
        <4> QED BY <4>1 DEF IInv, TxInv, PacketsInPlace
      <3> QED BY <3>2, <3>3
    <2> QED BY <1>3, <2>1, <2>2 DEF IInv, TxInv, PacketsInPlace
  <1>11. PaddingCounted'
    BY DEF IInv, PaddingCounted, next, rx
  <1> QED BY <1>5, <1>6, <1>7, <1>9, <1>10, <1>11 DEF IInv, TxInv

LEMMA SendIInv ==
  ASSUME IInv, send
  PROVE  IInv'
  <1>1. NoPacket \in Packet /\ NoPacket.bytes = <<>>
    BY DEF NoPacket, Packet
  <1>2. net' \subseteq net \cup {packet} /\ packet' = NoPacket
    BY DEF send
  <1>3. TypeOK'
    BY <1>1, <1>2 DEF IInv, TypeOK, send, rx
  <1>4. PacketsInPlace'
    BY <1>1, <1>2 DEF IInv, TxInv, PacketsInPlace
  <1>5. NothingDropped' /\ SampleHeld' /\ PacketContinues' /\ PaddingCounted'
    BY DEF IInv, TypeOK, TxInv, NothingDropped, SampleHeld, PacketContinues, PaddingCounted,
           send, rx
  <1> QED BY <1>3, <1>4, <1>5 DEF IInv, TxInv

\* Rounding an index up to a sample boundary does not lower it.
LEMMA RoundUp ==
  ASSUME NEW x \in Nat, NEW s \in Nat \ {0}
  PROVE  /\ (x + s - 1) \div s \in Nat
         /\ x <= ((x + s - 1) \div s) * s
  <1> DEFINE y == x + s - 1
  <1>1. y \in Nat /\ y + 1 = x + s
    OBVIOUS
  <1> HIDE DEF y
  <1>2. y \div s \in Nat /\ y % s \in 0 .. s - 1 /\ y = (y \div s) * s + (y % s)
    BY <1>1, DivMod
  <1> DEFINE p == (y \div s) * s
             m == y % s
  <1>3. p \in Nat /\ m \in 0 .. s - 1 /\ y = p + m
    BY <1>2
  <1> HIDE DEF p, m
  <1>4. x <= p
    BY <1>1, <1>3
  <1> QED BY <1>2, <1>4 DEF p, y

LEMMA FeedIInv ==
  ASSUME IInv, NEW p \in net, NEW n \in 0 .. MaxSlots, feed_bytes(p, n)
  PROVE  IInv' /\ rxIdx' >= rxIdx
  <1>1. p \in Packet /\ p.byte_idx \in Nat /\ p.bytes \in Seq(Nat)
    BY DEF IInv, TypeOK, Packet
  <1>2. SIZE \in Nat \ {0} /\ rxIdx \in Nat /\ delivered \in Nat /\ padding \in Nat
    BY ByteStreamsAssumption DEF IInv, TypeOK
  <1> DEFINE b == p.byte_idx
             k == next_spl_idx(b)
             j == rxIdx \div SIZE
  <1>3. k \in Nat /\ b <= k * SIZE
    BY <1>1, <1>2, RoundUp DEF next_spl_idx
  <1>4. j \in Nat /\ j * SIZE <= rxIdx /\ rxIdx < (j + 1) * SIZE
    <2>1. j \in Nat /\ rxIdx % SIZE \in 0 .. SIZE - 1 /\ rxIdx = j * SIZE + (rxIdx % SIZE)
      BY <1>2, DivMod
    <2> DEFINE r == rxIdx % SIZE
    <2>2. r \in 0 .. SIZE - 1 /\ rxIdx = j * SIZE + r
      BY <2>1
    <2> HIDE DEF j, r
    <2>3. (j + 1) * SIZE = j * SIZE + SIZE
      BY <1>2, <2>1
    <2> QED BY <1>2, <2>1, <2>2, <2>3
  <1>5. (delivered + padding) * SIZE <= rxIdx
    BY DEF IInv, PaddingCounted
  <1>6. delivered <= j
    <2> HIDE DEF j
    <2> SUFFICES ASSUME j + 1 <= delivered PROVE FALSE
      BY <1>2, <1>4
    <2>1. delivered \in Int /\ delivered + padding \in Int /\ delivered <= delivered + padding
      BY <1>2
    <2>2. (j + 1) * SIZE <= delivered * SIZE
      BY <1>2, <1>4, MulMonotone
    <2>3. delivered * SIZE <= (delivered + padding) * SIZE
      BY <1>2, <2>1, MulMonotone
    <2> QED BY <1>2, <1>4, <1>5, <2>2, <2>3
  <1>7. SubSeq(p.bytes, n_skipped_bytes(p) + 1, Len(p.bytes)) \in Seq(Nat)
    <2>1. n_skipped_bytes(p) \in Nat
      <3>1. CASE b < rxIdx
        BY <1>1, <1>2, <3>1 DEF n_skipped_bytes
      <3>2. CASE b = rxIdx
        BY <1>1, <1>2, <3>2 DEF n_skipped_bytes
      <3>3. CASE b > rxIdx
        BY <1>1, <1>2, <1>3, <3>3 DEF n_skipped_bytes
      <3> QED BY <1>1, <1>2, <3>1, <3>2, <3>3
    <2> DEFINE w == p.bytes
               s == n_skipped_bytes(p)
    <2>2. w \in Seq(Nat) /\ s \in Nat
      BY <1>1, <2>1
    <2> HIDE DEF w, s
    <2>3. SubSeq(w, s + 1, Len(w)) \in Seq(Nat)
      BY <2>2
    <2> QED BY <2>3 DEF w, s
  <1>8. CASE b > rxIdx
    <2>1. padding' = k - j /\ rxIdx' = k * SIZE /\ delivered' = delivered
      BY <1>8 DEF feed_bytes, n_padding_samples, prev_spl_idx, reindexed
    <2> HIDE DEF k, j
    <2>2. j <= k
      <3> SUFFICES ASSUME k + 1 <= j PROVE FALSE
        BY <1>3, <1>4
      <3>1. (k + 1) * SIZE <= j * SIZE /\ (k + 1) * SIZE = k * SIZE + SIZE
        BY <1>2, <1>3, <1>4, MulMonotone
      <3> QED BY <1>1, <1>2, <1>3, <1>4, <1>8, <3>1
    <2>3. delivered + (k - j) <= k /\ delivered + (k - j) \in Int
      BY <1>2, <1>3, <1>4, <1>6, <2>2
    <2>4. (delivered + (k - j)) * SIZE <= k * SIZE
      BY <1>2, <1>3, <2>3, MulMonotone
    <2>5. PaddingCounted'
      BY <2>1, <2>4 DEF PaddingCounted
    <2>6. k - j \in Nat /\ k * SIZE \in Nat /\ k * SIZE >= rxIdx
      BY <1>1, <1>2, <1>3, <1>4, <1>8, <2>2
    <2>7. TypeOK'
      BY <1>7, <2>1, <2>6 DEF IInv, TypeOK, feed_bytes, tx
    <2>8. TxInv'
      BY TxUnchanged DEF feed_bytes, tx, IInv, TypeOK
    <2> QED BY <2>1, <2>5, <2>6, <2>7, <2>8 DEF IInv
  <1>9. CASE ~(b > rxIdx)
    <2>1. padding' = 0 /\ rxIdx' = rxIdx /\ delivered' = delivered
      BY <1>9 DEF feed_bytes, reindexed
    <2>2. (delivered + 0) * SIZE <= (delivered + padding) * SIZE
      <3>1. delivered + 0 \in Int /\ delivered + padding \in Int /\ delivered + 0 <= delivered + padding
        BY <1>2
      <3> QED BY <1>2, <3>1, MulMonotone
    <2>3. (delivered + 0) * SIZE <= rxIdx
      BY <1>2, <1>5, <2>2
    <2>4. PaddingCounted'
      BY <2>1, <2>3 DEF PaddingCounted
    <2>5. TypeOK'
      BY <1>7, <2>1 DEF IInv, TypeOK, feed_bytes, tx
    <2>6. TxInv'
      BY TxUnchanged DEF feed_bytes, tx, IInv, TypeOK
    <2> QED BY <1>2, <2>1, <2>4, <2>5, <2>6 DEF IInv
  <1> QED BY <1>8, <1>9

LEMMA PullPaddingIInv ==
  ASSUME IInv, pull_padding
  PROVE  IInv' /\ rxIdx' >= rxIdx
  <1>1. delivered \in Nat /\ padding \in Nat /\ padding > 0 /\ slots \in Nat /\ slots > 0 /\ rxIdx \in Nat
    BY DEF IInv, TypeOK, pull_padding
  <1>2. padding' = padding - 1 /\ delivered' = delivered + 1 /\ slots' = slots - 1 /\ rxIdx' = rxIdx
    BY DEF pull_padding
  <1>3. padding - 1 \in Nat /\ delivered + 1 \in Nat /\ slots - 1 \in Nat
    BY <1>1
  <1>4. (delivered + 1) + (padding - 1) = delivered + padding
    BY <1>1
  <1>5. PaddingCounted'
    BY <1>2, <1>4 DEF IInv, PaddingCounted
  <1>6. TypeOK'
    BY <1>2, <1>3 DEF IInv, TypeOK, pull_padding, tx
  <1>7. TxInv'
    BY TxUnchanged DEF pull_padding, tx, IInv, TypeOK
  <1> QED BY <1>1, <1>2, <1>5, <1>6, <1>7 DEF IInv

\* The byte that completes a sample panics, so no sample is delivered here.
LEMMA PullByteIInv ==
  ASSUME IInv, pull_byte
  PROVE  IInv' /\ rxIdx' >= rxIdx
  <1>1. /\ SIZE \in Nat \ {0} /\ rxIdx \in Nat /\ delivered \in Nat /\ padding \in Nat
        /\ rest \in Seq(Nat) /\ rest # <<>>
    BY ByteStreamsAssumption DEF IInv, TypeOK, pull_byte
  <1>2. rxIdx % SIZE \in Offsets /\ (rxIdx % SIZE) - SIZE < 0
    <2>1. rxIdx % SIZE \in 0 .. SIZE - 1
      BY <1>1, DivMod
    <2> DEFINE c == rxIdx % SIZE
    <2>2. c \in 0 .. SIZE - 1
      BY <2>1
    <2> HIDE DEF c
    <2>3. c \in Offsets /\ c - SIZE < 0
      BY <1>1, <2>2 DEF Offsets
    <2> QED BY <2>3 DEF c
  <1>3. /\ rxIdx' = rxIdx + 1 /\ rest' = Tail(rest) /\ padding' = padding
        /\ rxSample' = [rxSample EXCEPT ![rxIdx % SIZE] = Head(rest)]
    BY DEF pull_byte
  <1>4. slots' = slots /\ delivered' = delivered /\ panicked' \in {panicked, TRUE}
    BY <1>2 DEF pull_byte
  <1>5. Tail(rest) \in Seq(Nat) /\ Head(rest) \in Nat
    BY <1>1
  <1>6. rxSample' \in [Offsets -> Nat]
    BY <1>2, <1>3, <1>5 DEF IInv, TypeOK
  <1>7. (delivered + padding) * SIZE <= rxIdx + 1
    BY <1>1 DEF IInv, PaddingCounted
  <1>8. PaddingCounted'
    BY <1>3, <1>4, <1>7 DEF PaddingCounted
  <1>9. rxIdx + 1 \in Nat /\ rxIdx + 1 >= rxIdx
    BY <1>1
  <1>10. TypeOK'
    BY <1>3, <1>4, <1>5, <1>6, <1>9 DEF IInv, TypeOK, pull_byte, tx
  <1>11. TxInv'
    BY TxUnchanged DEF pull_byte, tx, IInv, TypeOK
  <1> QED BY <1>3, <1>8, <1>9, <1>10, <1>11 DEF IInv

\* Padding the sink had no slot for is forgotten.
LEMMA ConsumedIInv ==
  ASSUME IInv, consumed
  PROVE  IInv' /\ rxIdx' >= rxIdx
  <1>1. SIZE \in Nat \ {0} /\ rxIdx \in Nat /\ delivered \in Nat /\ padding \in Nat
    BY ByteStreamsAssumption DEF IInv, TypeOK
  <1>2. delivered + 0 \in Int /\ delivered + padding \in Int /\ delivered + 0 <= delivered + padding
    BY <1>1
  <1>3. (delivered + 0) * SIZE <= (delivered + padding) * SIZE
    BY <1>1, <1>2, MulMonotone
  <1>4. (delivered + 0) * SIZE <= rxIdx
    BY <1>1, <1>3 DEF IInv, PaddingCounted
  <1>5. PaddingCounted'
    BY <1>4 DEF consumed, PaddingCounted
  <1>6. TypeOK'
    BY DEF IInv, TypeOK, consumed, tx
  <1>7. TxInv'
    BY TxUnchanged DEF consumed, tx, IInv, TypeOK
  <1> QED BY <1>1, <1>5, <1>6, <1>7 DEF IInv, consumed

LEMMA StutterIInv ==
  ASSUME IInv, UNCHANGED vars
  PROVE  IInv'
  <1>1. TypeOK'
    BY DEF IInv, TypeOK, vars, tx, rx
  <1>2. TxInv'
    BY TxUnchanged DEF vars, tx, rx, IInv, TypeOK
  <1> QED BY <1>1, <1>2 DEF IInv, PaddingCounted, vars, rx

LEMMA NextIInv == IInv /\ [Next]_vars => IInv' /\ (Next => rxIdx' >= rxIdx)
  <1> SUFFICES ASSUME IInv, [Next]_vars PROVE IInv' /\ (Next => rxIdx' >= rxIdx)
    OBVIOUS
  <1>0. ASSUME UNCHANGED rx PROVE rxIdx' >= rxIdx
    BY <1>0 DEF IInv, TypeOK, rx
  <1>1. CASE Push
    BY <1>0, <1>1, PushIInv DEF Push
  <1>2. CASE produce_packet
    BY <1>0, <1>2, ProduceIInv DEF produce_packet
  <1>3. CASE next
    BY <1>0, <1>3, NextIterIInv DEF next
  <1>4. CASE send
    BY <1>0, <1>4, SendIInv DEF send
  <1>5. CASE \E p \in net, n \in 0 .. MaxSlots : feed_bytes(p, n)
    BY <1>5, FeedIInv
  <1>6. CASE pull_padding
    BY <1>6, PullPaddingIInv
  <1>7. CASE pull_byte
    BY <1>7, PullByteIInv
  <1>8. CASE consumed
    BY <1>8, ConsumedIInv
  <1>9. CASE UNCHANGED vars
    <2>1. UNCHANGED rx
      BY <1>9 DEF vars
    <2> QED BY <1>0, <1>9, <2>1, StutterIInv
  <1> QED BY <1>1, <1>2, <1>3, <1>4, <1>5, <1>6, <1>7, <1>8, <1>9 DEF Next

LEMMA SpecIInv == Spec => []IInv
  BY InitIInv, NextIInv, PTL DEF Spec

-----------------------------------------------------------------------------
(* What holds for every size of sample *)

\* Both adapters' state is of its type; no subtraction but the one at the end of a
\* sample underflows.
THEOREM TypeCorrect == Spec => []TypeOK
  <1>1. IInv => TypeOK
    BY DEF IInv
  <1> QED BY <1>1, SpecIInv, PTL

\* Every byte produce_packet yields is the one its packet's index names.
THEOREM ProducerInPlace == Spec => []PacketsInPlace
  <1>1. IInv => PacketsInPlace
    BY DEF IInv, TxInv
  <1> QED BY <1>1, SpecIInv, PTL

\* produce_packet takes a sample only to yield it, and yields every one it takes.
THEOREM NoSampleDropped == Spec => []NothingDropped
  <1>1. IInv => NothingDropped
    BY DEF IInv, TxInv
  <1> QED BY <1>1, SpecIInv, PTL

\* consume_packet never delivers more samples than the stream has positions.
THEOREM SinkBounded == Spec => []SinkNotAhead
  <1>1. IInv => SinkNotAhead
    <2> SUFFICES ASSUME IInv PROVE SinkNotAhead
      OBVIOUS
    <2>1. SIZE \in Nat \ {0} /\ rxIdx \in Nat /\ delivered \in Nat /\ padding \in Nat
      BY ByteStreamsAssumption DEF IInv, TypeOK
    <2>2. delivered \in Int /\ delivered + padding \in Int /\ delivered <= delivered + padding
      BY <2>1
    <2>3. delivered * SIZE <= (delivered + padding) * SIZE
      BY <2>1, <2>2, MulMonotone
    <2> QED BY <2>1, <2>3 DEF IInv, PaddingCounted, SinkNotAhead
  <1> QED BY <1>1, SpecIInv, PTL

\* No packet moves the consumer's index back.
THEOREM IndexMonotone == Spec => RxMonotone
  <1>1. IInv /\ [Next]_vars => [rxIdx' >= rxIdx]_vars
    BY NextIInv
  <1> QED BY <1>1, SpecIInv, PTL DEF Spec, RxMonotone

-----------------------------------------------------------------------------
(* What the consumer does instead *)

\* A step that delivers a sample delivers padding, and the byte that completes a
\* sample panics.
PaddingOnly ==
  /\ delivered' # delivered => pull_padding
  /\ pull_byte /\ rxIdx' % SIZE = 0 => panicked'

\* Whatever the size of a sample and however the bytes arrive, consume_packet puts no
\* sample together.  It is what is behind the violation of SamplesReconstructed.
THEOREM NoSampleAssembled == Spec => [][PaddingOnly]_vars
  <1>1. IInv /\ [Next]_vars => [PaddingOnly]_vars
    <2> SUFFICES ASSUME IInv, Next PROVE PaddingOnly
      OBVIOUS
    <2>1. CASE pull_byte
      <3>1. rxIdx \in Nat /\ SIZE \in Nat \ {0}
        BY ByteStreamsAssumption DEF IInv, TypeOK
      <3>2. rxIdx % SIZE \in 0 .. SIZE - 1
        BY <3>1, DivMod
      <3>3. (rxIdx % SIZE) - SIZE < 0
        <4> DEFINE c == rxIdx % SIZE
        <4>1. c \in 0 .. SIZE - 1
          BY <3>2
        <4> HIDE DEF c
        <4>2. c - SIZE < 0
          BY <3>1, <4>1
        <4> QED BY <4>2 DEF c
      <3>4. rxIdx' = rxIdx + 1 /\ delivered' = delivered
        BY <2>1, <3>3 DEF pull_byte
      <3>5. (rxIdx + 1) % SIZE = 0 => panicked'
        BY <2>1, <3>3 DEF pull_byte
      <3> QED BY <3>4, <3>5 DEF PaddingOnly
    <2>2. CASE ~pull_byte
      BY <2>2 DEF PaddingOnly, Next, Push, produce_packet, next, send, feed_bytes, consumed, rx
    <2> QED BY <2>1, <2>2
  <1> QED BY <1>1, SpecIInv, PTL DEF Spec

\* The bytes of a packet that are left to be pulled belong to the positions they will
\* be pulled for, shifted by the gap before the packet.
ShiftedByGap(p) ==
  \A i \in 1 .. Len(rest') :
    rest'[i] = rxIdx' + i - 1 + (IF p.byte_idx > rxIdx THEN p.byte_idx - rxIdx ELSE 0)

LEMMA Suffix ==
  ASSUME NEW w \in Seq(Nat), NEW s \in Nat, NEW i \in 1 .. Len(SubSeq(w, s + 1, Len(w)))
  PROVE  i \in Nat \ {0} /\ s + i \in 1 .. Len(w) /\ SubSeq(w, s + 1, Len(w))[i] = w[s + i]
  OBVIOUS

LEMMA FeedShifts ==
  ASSUME IInv, NEW p \in net, NEW n \in 0 .. MaxSlots, feed_bytes(p, n)
  PROVE  ShiftedByGap(p)
  <1> DEFINE b == p.byte_idx
             len == Len(p.bytes)
             k == next_spl_idx(b)
             s == n_skipped_bytes(p)
  <1>1. b \in Nat /\ p.bytes \in Seq(Nat) /\ len \in Nat /\ rxIdx \in Nat /\ SIZE \in Nat \ {0}
    BY ByteStreamsAssumption DEF IInv, TypeOK, Packet
  <1>2. k \in Nat /\ b <= k * SIZE
    BY <1>1, RoundUp DEF next_spl_idx
  <1>3. k * SIZE \in Nat
    BY <1>1, <1>2
  <1>4. \A i \in 1 .. len : p.bytes[i] = b + i - 1
    BY <1>1 DEF IInv, TxInv, PacketsInPlace
  <1>5. rest' = SubSeq(p.bytes, s + 1, len) /\ rxIdx' = IF b > rxIdx THEN k * SIZE ELSE rxIdx
    BY DEF feed_bytes, reindexed
  <1>6. /\ b < rxIdx => s = len
        /\ b = rxIdx => s = 0
        /\ b > rxIdx => s = k * SIZE - rxIdx
    <2>1. CASE b < rxIdx
      BY <1>1, <2>1 DEF n_skipped_bytes
    <2>2. CASE b = rxIdx
      BY <1>1, <2>2 DEF n_skipped_bytes
    <2>3. CASE b > rxIdx
      BY <1>1, <2>3 DEF n_skipped_bytes
    <2> QED BY <1>1, <2>1, <2>2, <2>3
  <1> HIDE DEF b, len, k, s
  <1>7. s \in Nat
    BY <1>1, <1>2, <1>3, <1>6
  <1>8. ASSUME NEW i \in 1 .. Len(rest')
        PROVE  rest'[i] = rxIdx' + i - 1 + (IF b > rxIdx THEN b - rxIdx ELSE 0)
    <2>1. i \in Nat \ {0} /\ s + i \in 1 .. len /\ rest'[i] = p.bytes[s + i]
      <3> DEFINE w == p.bytes
      <3>1. w \in Seq(Nat) /\ len = Len(w) /\ rest' = SubSeq(w, s + 1, Len(w))
        BY <1>1, <1>5 DEF len
      <3> HIDE DEF w
      <3>2. i \in 1 .. Len(SubSeq(w, s + 1, Len(w)))
        BY <3>1
      <3>3. i \in Nat \ {0} /\ s + i \in 1 .. Len(w) /\ SubSeq(w, s + 1, Len(w))[i] = w[s + i]
        BY <1>7, <3>1, <3>2, Suffix
      <3> QED BY <3>1, <3>3 DEF w
    <2>2. rest'[i] = b + (s + i) - 1
      BY <1>4, <2>1
    <2>3. CASE b > rxIdx
      <3> DEFINE m == k * SIZE
      <3>1. m \in Nat /\ s = m - rxIdx /\ rxIdx' = m
        BY <1>3, <1>5, <1>6, <2>3
      <3> HIDE DEF m
      <3>2. b + (s + i) - 1 = m + i - 1 + (b - rxIdx)
        BY <1>1, <2>1, <3>1
      <3> QED BY <2>2, <2>3, <3>1, <3>2
    <2>4. CASE b = rxIdx
      BY <1>1, <1>5, <1>6, <2>1, <2>2, <2>4
    <2>5. CASE b < rxIdx
      BY <1>1, <1>6, <2>1, <2>5
    <2> QED BY <1>1, <2>3, <2>4, <2>5
  <1> QED BY <1>8 DEF ShiftedByGap, b

\* A packet that continues the stream is consumed in place and a late one not at all;
\* after a gap the bytes are those that belong a whole gap further on, because
\* feed_bytes counts what it skips from the consumer's index and not the packet's.
THEOREM BytesShiftedByGap ==
  Spec => [][\A p \in net, n \in 0 .. MaxSlots : feed_bytes(p, n) => ShiftedByGap(p)]_vars
  <1>1. IInv => \A p \in net, n \in 0 .. MaxSlots : feed_bytes(p, n) => ShiftedByGap(p)
    BY FeedShifts
  <1> QED BY <1>1, SpecIInv, PTL DEF Spec
=============================================================================

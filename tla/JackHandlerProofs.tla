------------------------- MODULE JackHandlerProofs -------------------------
(***************************************************************************)
(* Proofs about JackHandler, for any number of ports and frames, any ring  *)
(* and any frame times.                                                    *)
(***************************************************************************)
EXTENDS JackHandler, IndexedQueueProofs

-----------------------------------------------------------------------------
(* Frames and ports *)

LEMMA TimesNat ==
  ASSUME NEW a \in Nat, NEW b \in Nat
  PROVE  a * b \in Nat
  OBVIOUS

LEMMA Distribute ==
  ASSUME NEW a \in Nat, NEW b \in Nat, NEW c \in Nat
  PROVE  (a + b) * c = a * c + b * c
  OBVIOUS

\* A later frame begins at least a frame later.
LEMMA LaterFrame ==
  ASSUME NEW f \in Nat, NEW g \in Nat, NEW P \in Nat, f < g
  PROVE  f * P + P <= g * P
  <1> DEFINE d == g - f - 1
  <1>1. d \in Nat /\ g = f + (1 + d) /\ 1 + d \in Nat
    OBVIOUS
  <1> HIDE DEF d
  <1>2. (f + (1 + d)) * P = f * P + (1 + d) * P
    BY <1>1, Distribute
  <1>3. (1 + d) * P = 1 * P + d * P
    BY <1>1, Distribute
  <1>4. 1 * P = P /\ d * P \in Nat /\ f * P \in Nat
    BY <1>1, TimesNat
  <1>5. g * P = f * P + (P + d * P)
    BY <1>1, <1>2, <1>3, <1>4
  <1> QED BY <1>4, <1>5

\* A sample's position in the interleaved stream determines its frame and port.
LEMMA PositionUnique ==
  ASSUME NEW P \in Nat, NEW f \in Nat, NEW g \in Nat,
         NEW p \in 0 .. P - 1, NEW q \in 0 .. P - 1,
         f * P + p = g * P + q
  PROVE  f = g /\ p = q
  <1>1. f * P \in Nat /\ g * P \in Nat
    BY TimesNat
  <1>2. ~(f < g)
    <2> SUFFICES ASSUME f < g PROVE FALSE
      OBVIOUS
    <2>1. f * P + P <= g * P
      BY LaterFrame
    <2> QED BY <1>1, <2>1
  <1>3. ~(g < f)
    <2> SUFFICES ASSUME g < f PROVE FALSE
      OBVIOUS
    <2>1. g * P + P <= f * P
      BY LaterFrame
    <2> QED BY <1>1, <2>1
  <1>4. f = g
    BY <1>2, <1>3
  <1>5. f * P + p = f * P + q
    BY <1>4
  <1> QED BY <1>1, <1>4, <1>5

\* The samples of the first n frames are the first n * P of the stream.
LEMMA PositionBound ==
  ASSUME NEW P \in Nat, NEW n \in Nat, NEW f \in 0 .. n - 1, NEW p \in 0 .. P - 1
  PROVE  f * P + p \in Nat /\ f * P + p < n * P
  <1>1. f \in Nat /\ f < n /\ f * P \in Nat /\ n * P \in Nat
    BY TimesNat
  <1>2. f * P + P <= n * P
    BY <1>1, LaterFrame
  <1> QED BY <1>1, <1>2

-----------------------------------------------------------------------------
(* The iterator *)

\* An Interleaved iterator over n frames that has yielded k references: the ports
\* before the current one are one frame ahead of the others.
ItInv(it, P, n, k) ==
  /\ it \in IteratorOf(P)
  /\ it.remaining_frames <= n
  /\ it.remaining_frames = 0 => it.current_index = 0
  /\ k = (n - it.remaining_frames) * P + it.current_index
  /\ \A p \in 0 .. P - 1 :
       it.ptrs[p] = (n - it.remaining_frames) + (IF p < it.current_index THEN 1 ELSE 0)

\* interleave starts it.
LEMMA InterleaveIt ==
  ASSUME NEW P \in Nat \ {0}, NEW n \in Nat
  PROVE  ItInv(interleave(P, n), P, n, 0)
  <1> DEFINE it == interleave(P, n)
  <1>1. it \in IteratorOf(P)
    BY DEF interleave, IteratorOf
  <1>2. /\ it.remaining_frames = n /\ it.current_index = 0
        /\ \A p \in 0 .. P - 1 : it.ptrs[p] = 0
    BY DEF interleave
  <1>3. (n - n) * P + 0 = 0
    OBVIOUS
  <1> HIDE DEF it
  <1>4. ItInv(it, P, n, 0)
    BY <1>1, <1>2, <1>3 DEF ItInv
  <1> QED BY <1>4 DEF it

\* next hands out the reference of the k-th sample and keeps the invariant.
LEMMA NextIt ==
  ASSUME NEW P \in Nat \ {0}, NEW n \in Nat, NEW k, NEW it, ItInv(it, P, n, k),
         it.remaining_frames # 0
  PROVE  /\ ItInv(next(it, P), P, n, k + 1)
         /\ item(it) = <<it.current_index, n - it.remaining_frames>>
         /\ item(it) \in Buffer(P, n)
         /\ k = (n - it.remaining_frames) * P + it.current_index
         /\ k \in Nat
  <1> DEFINE r == it.remaining_frames
             c == it.current_index
             f == n - r
             new == next(it, P)
  <1>1. /\ r \in Nat /\ r # 0 /\ r <= n /\ c \in 0 .. P - 1 /\ f \in Nat /\ f <= n - 1
        /\ it.ptrs \in [0 .. P - 1 -> Nat]
        /\ k = f * P + c
        /\ \A p \in 0 .. P - 1 : it.ptrs[p] = f + (IF p < c THEN 1 ELSE 0)
    <2>1. r \in Nat /\ c \in 0 .. P - 1 /\ it.ptrs \in [0 .. P - 1 -> Nat]
      <3>1. it \in IteratorOf(P)
        BY DEF ItInv
      <3> QED BY <3>1 DEF IteratorOf
    <2>2. r # 0 /\ r <= n
      BY DEF ItInv
    <2>3. /\ k = f * P + c
          /\ \A p \in 0 .. P - 1 : it.ptrs[p] = f + (IF p < c THEN 1 ELSE 0)
      BY Zenon DEF ItInv
    <2>4. f \in Nat /\ f <= n - 1
      <3> HIDE DEF r
      <3> QED BY <2>1, <2>2
    <2> HIDE DEF r, c, f
    <2> QED BY <2>1, <2>2, <2>3, <2>4
  <1>2. it.ptrs[c] = f
    <2> HIDE DEF r, c, f
    <2>1. it.ptrs[c] = f + (IF c < c THEN 1 ELSE 0) /\ c \in Int
      BY <1>1
    <2> QED BY <1>1, <2>1
  <1>3. /\ item(it) = <<c, f>> /\ item(it) \in Buffer(P, n)
    <2>1. item(it) = <<c, f>>
      BY <1>2, Zenon DEF item
    <2> HIDE DEF r, c, f
    <2>2. f \in 0 .. n - 1 /\ c \in 0 .. P - 1
      BY <1>1
    <2> QED BY <2>1, <2>2 DEF Buffer
  <1>4. f * P \in Nat /\ k \in Nat
    <2> HIDE DEF r, c, f
    <2>1. f \in Nat /\ P \in Nat /\ c \in Nat /\ k = f * P + c
      BY <1>1
    <2>2. f * P \in Nat
      BY <2>1, TimesNat
    <2> QED BY <2>1, <2>2
  <1>5. new.ptrs \in [0 .. P - 1 -> Nat] /\ \A p \in 0 .. P - 1 :
          new.ptrs[p] = IF p = c THEN f + 1 ELSE it.ptrs[p]
    <2>1. new.ptrs = [it.ptrs EXCEPT ![c] = it.ptrs[c] + 1]
      BY DEF next
    <2> HIDE DEF new, c, f, r
    <2>2. it.ptrs \in [0 .. P - 1 -> Nat] /\ c \in 0 .. P - 1 /\ f \in Nat
      BY <1>1
    <2> DEFINE old == it.ptrs
    <2>3. old \in [0 .. P - 1 -> Nat] /\ new.ptrs = [old EXCEPT ![c] = f + 1]
      BY <1>2, <2>1, <2>2
    <2>4. \A p \in 0 .. P - 1 : new.ptrs[p] = IF p = c THEN f + 1 ELSE old[p]
      <3> HIDE DEF old
      <3> QED BY <2>3, Zenon
    <2>5. new.ptrs \in [0 .. P - 1 -> Nat]
      <3> HIDE DEF old
      <3> QED BY <2>2, <2>3
    <2> QED BY <2>4, <2>5
  <1>6. CASE c + 1 = P
    <2>1. new.remaining_frames = r - 1 /\ new.current_index = 0
      BY <1>6 DEF next
    <2>2. new \in IteratorOf(P)
      <3>1. new = [remaining_frames |-> r - 1, current_index |-> 0, ptrs |-> new.ptrs]
        BY <1>6 DEF next
      <3>2. r - 1 \in Nat /\ 0 \in 0 .. P - 1
        <4> HIDE DEF r, c, f
        <4> QED BY <1>1
      <3>3. new.ptrs \in [0 .. P - 1 -> Nat]
        BY <1>5
      <3> HIDE DEF new, r
      <3> QED BY <3>1, <3>2, <3>3 DEF IteratorOf
    <2>3. n - (r - 1) = f + 1
      BY <1>1
    <2>4. (f + 1) * P = f * P + P
      <3> HIDE DEF f
      <3>1. (f + 1) * P = f * P + 1 * P
        BY <1>1, Distribute
      <3> QED BY <3>1
    <2>5. k + 1 = (n - new.remaining_frames) * P + new.current_index
      <3>1. k + 1 = f * P + P
        <4> HIDE DEF f, c
        <4> QED BY <1>1, <1>4, <1>6
      <3> HIDE DEF f, c, new, r
      <3> QED BY <1>4, <2>1, <2>3, <2>4, <3>1
    <2>6. \A p \in 0 .. P - 1 :
            new.ptrs[p] = (n - new.remaining_frames)
                            + (IF p < new.current_index THEN 1 ELSE 0)
      <3> TAKE p \in 0 .. P - 1
      <3>1. new.ptrs[p] = f + 1
        <4> HIDE DEF new, f, c
        <4> QED BY <1>1, <1>5, <1>6
      <3> HIDE DEF new, f, r
      <3> QED BY <1>1, <2>1, <2>3, <3>1
    <2>7. new.remaining_frames <= n
      <3> HIDE DEF new, f, r
      <3> QED BY <1>1, <2>1
    <2>8. ItInv(new, P, n, k + 1)
      <3> HIDE DEF new
      <3> QED BY <2>1, <2>2, <2>5, <2>6, <2>7 DEF ItInv
    <2> QED BY <1>1, <1>3, <1>4, <2>8
  <1>7. CASE c + 1 # P
    <2>1. new.remaining_frames = r /\ new.current_index = c + 1
      BY <1>7 DEF next
    <2>2. new \in IteratorOf(P)
      <3>1. new = [remaining_frames |-> r, current_index |-> c + 1, ptrs |-> new.ptrs]
        BY <1>7 DEF next
      <3>2. r \in Nat /\ c + 1 \in 0 .. P - 1
        <4> HIDE DEF r, c, f
        <4> QED BY <1>1, <1>7
      <3>3. new.ptrs \in [0 .. P - 1 -> Nat]
        BY <1>5
      <3> HIDE DEF new, r, c
      <3> QED BY <3>1, <3>2, <3>3 DEF IteratorOf
    <2>5. k + 1 = (n - new.remaining_frames) * P + new.current_index
      <3>1. k + 1 = f * P + (c + 1)
        <4> HIDE DEF f, c
        <4> QED BY <1>1, <1>4
      <3>2. n - new.remaining_frames = f
        BY <2>1
      <3> HIDE DEF f, c, new, r
      <3> QED BY <2>1, <3>1, <3>2
    <2>6. \A p \in 0 .. P - 1 :
            new.ptrs[p] = (n - new.remaining_frames)
                            + (IF p < new.current_index THEN 1 ELSE 0)
      <3> TAKE p \in 0 .. P - 1
      <3>1. n - new.remaining_frames = f
        BY <2>1
      <3>2. new.ptrs[p] = f + (IF p < c + 1 THEN 1 ELSE 0)
        <4> HIDE DEF new, f, c
        <4> QED BY <1>1, <1>5
      <3> HIDE DEF new, f, r, c
      <3> QED BY <2>1, <3>1, <3>2
    <2>7. new.remaining_frames <= n /\ new.remaining_frames # 0
      <3> HIDE DEF new, f, r
      <3> QED BY <1>1, <2>1
    <2>8. ItInv(new, P, n, k + 1)
      <3> HIDE DEF new
      <3> QED BY <2>2, <2>5, <2>6, <2>7 DEF ItInv
    <2> QED BY <1>1, <1>3, <1>4, <2>8
  <1> QED BY <1>6, <1>7

\* An iterator with no frames left has yielded them all.
LEMMA EndIt ==
  ASSUME NEW P \in Nat \ {0}, NEW n \in Nat, NEW k, NEW it, ItInv(it, P, n, k),
         it.remaining_frames = 0
  PROVE  k = n * P
  <1>1. k = (n - 0) * P + 0
    BY DEF ItInv
  <1>2. n * P \in Nat
    BY TimesNat
  <1> QED BY <1>1, <1>2

-----------------------------------------------------------------------------
(* The inductive invariant *)

\* During a capture cycle of n frames from frame f on, what has been pulled is the
\* beginning of its samples.
CaptureCycle(n, f) ==
  /\ txPc = "idle"
  /\ txIdx = f * TxPorts
  /\ txIn = [x \in Buffer(TxPorts, n) |-> (f + x[2]) * TxPorts + x[1]]
  /\ ItInv(txIter, TxPorts, n, Len(txValues))
  /\ txValues = samples(txIdx, Len(txValues))

CaptureInv ==
  /\ "tx" \notin handlers => txIn = NoBuffer
  /\ txIn = NoBuffer => txIter.remaining_frames = 0
  /\ txIn # NoBuffer => \E n \in Nat, f \in Nat : CaptureCycle(n, f)

\* The position of an output sample in the interleaved stream of the cycle.
Pos(x) == x[2] * RxPorts + x[1]

\* When the cycle is over, the samples the receiver's counter has passed are written
\* and no others: what the cycle leaves as JACK had it is exactly what the ring did
\* not hold, the tail of an underrun.
WrittenUpToCounter ==
  rxPc = "releasing" =>
    \A x \in DOMAIN rxOut :
      (rxOut[x] = Stale) <=> (Place(x) >= rxCount)

\* During a playback cycle of n frames, the output is written up to what has been
\* pulled.
PlaybackCycle(n) ==
  /\ ItInv(rxIter, RxPorts, n, rxPulled)
  /\ rxOut \in [Buffer(RxPorts, n) -> Int]
  /\ rxPulled <= Len(source)
  /\ \A x \in Buffer(RxPorts, n) :
       rxOut[x] = IF Pos(x) < rxPulled THEN source[Pos(x) + 1] ELSE Stale

PlaybackInv ==
  /\ "rx" \notin handlers => rxOut = NoBuffer /\ rxIter.remaining_frames = 0
  /\ rxPc = "idle" => rxOut = NoBuffer
  /\ "rx" \in handlers /\ rxPc = "reading" => rxIdx = rxFrame * RxPorts /\ \E n \in Nat : PlaybackCycle(n)
  /\ rxPc = "releasing" => OutputInPlace /\ WrittenUpToCounter

JackInv ==
  /\ IInv
  /\ JackTypeOK
  /\ CaptureInv
  /\ PlaybackInv

\* What a step does not touch stays as it was.
LEMMA CaptureFrame ==
  ASSUME CaptureInv, UNCHANGED capture, UNCHANGED handlers, txIn # NoBuffer => txPc' = txPc
  PROVE  CaptureInv'
  <1>1. CASE txIn = NoBuffer
    BY <1>1 DEF CaptureInv, capture
  <1>2. CASE txIn # NoBuffer
    <2>1. PICK n \in Nat, f \in Nat : CaptureCycle(n, f)
      BY <1>2 DEF CaptureInv
    <2>2. CaptureCycle(n, f)'
      BY <1>2, <2>1 DEF CaptureCycle, capture
    <2> QED BY <1>2, <2>2 DEF CaptureInv, capture
  <1> QED BY <1>1, <1>2

LEMMA PlaybackFrame ==
  ASSUME PlaybackInv, UNCHANGED playback, UNCHANGED rx, UNCHANGED handlers,
         rxPc = "reading" => source' = source
  PROVE  PlaybackInv'
  <1>1. CASE "rx" \in handlers /\ rxPc = "reading"
    <2>1. PICK n \in Nat : PlaybackCycle(n)
      BY <1>1 DEF PlaybackInv
    <2>2. PlaybackCycle(n)'
      BY <1>1, <2>1 DEF PlaybackCycle, playback
    <2> QED BY <1>1, <2>2 DEF PlaybackInv, playback, rx
  <1>2. CASE ~("rx" \in handlers /\ rxPc = "reading")
    BY <1>2 DEF PlaybackInv, OutputInPlace, WrittenUpToCounter, Place, playback, rx
  <1> QED BY <1>1, <1>2

LEMMA SourceLen == IInv /\ rxPc = "reading" => Len(source) \in Nat
  BY SourceFacts

\* The sender writes behind the chunk that is being read.
LEMMA SourceStable ==
  ASSUME IInv, UNCHANGED rx, head' = head,
         \A p \in head .. tail - 1 : ring'[p] = ring[p]
  PROVE  source' = source
  <1>1. head \in Nat /\ tail \in Nat /\ rxAvail \in Nat /\ head + rxAvail <= tail
    BY DEF IInv, TypeOK, RingBounded
  <1>2. \A j \in 1 .. rxAvail : head + j - 1 \in head .. tail - 1
    BY <1>1
  <1>3. chunk' = chunk
    BY <1>2 DEF chunk, rx
  <1> QED BY <1>3 DEF source, rx

-----------------------------------------------------------------------------
(* The steps *)

LEMMA InitJack == JackInit => JackInv
  <1> SUFFICES ASSUME JackInit PROVE JackInv
    OBVIOUS
  <1>1. IInv
    BY InitIInv DEF JackInit
  <1>2. /\ ItInv(interleave(TxPorts, 0), TxPorts, 0, 0)
        /\ ItInv(interleave(RxPorts, 0), RxPorts, 0, 0)
    BY InterleaveIt, JackAssumption
  <1>3. txIter \in IteratorOf(TxPorts) /\ rxIter \in IteratorOf(RxPorts)
    BY <1>2 DEF JackInit, ItInv
  <1>4. JackTypeOK
    BY <1>1, <1>3 DEF JackInit, JackTypeOK, IInv
  <1>5. CaptureInv
    BY DEF JackInit, CaptureInv, interleave
  <1>6. PlaybackInv
    BY DEF JackInit, Init, PlaybackInv, interleave
  <1> QED BY <1>1, <1>4, <1>5, <1>6 DEF JackInv

LEMMA ProcessTx ==
  ASSUME JackInv, NEW t \in Nat, NEW n \in Nat, process_tx(t, n),
         "tx" \in handlers, UNCHANGED handlers
  PROVE  JackInv'
  <1>1. UNCHANGED <<vars, playback>>
    BY DEF process_tx
  <1>2. IInv'
    BY <1>1, NextIInv DEF JackInv
  <1>3. source' = source
    BY <1>1 DEF source, chunk, vars, rx
  <1>4. PlaybackInv'
    BY <1>1, <1>3, PlaybackFrame DEF JackInv, vars
  <1>5. PICK first \in txStart' :
          LET frame_idx == t - first
          IN IF frame_idx < 0
             THEN panicked' = panicked \cup {"tx"} /\ UNCHANGED <<txIdx, txIn, txIter, txValues>>
             ELSE /\ txIdx' = spl_idx(frame_idx, TxPorts)
                  /\ txIn' = [x \in Buffer(TxPorts, n) |->
                                (frame_idx + x[2]) * TxPorts + x[1]]
                  /\ txIter' = interleave(TxPorts, n)
                  /\ txValues' = <<>>
                  /\ UNCHANGED panicked
    BY DEF process_tx
  <1>6. txStart' \subseteq Nat /\ first \in Nat
    <2>1. txStart' \subseteq Nat
      BY DEF process_tx, get_or_init, JackInv, JackTypeOK
    <2> QED BY <2>1
  <1>7. CASE t - first < 0
    <2>1. panicked' = panicked \cup {"tx"} /\ UNCHANGED <<txIdx, txIn, txIter, txValues>>
      BY <1>5, <1>7
    <2>2. JackTypeOK'
      BY <1>1, <1>2, <1>6, <2>1 DEF JackInv, JackTypeOK, IInv, playback
    <2>3. CaptureInv'
      <3>1. txIn = NoBuffer /\ txIter.remaining_frames = 0
        BY DEF JackInv, CaptureInv, process_tx
      <3> QED BY <2>1, <3>1 DEF CaptureInv
    <2> QED BY <1>2, <1>4, <2>2, <2>3 DEF JackInv
  <1>8. CASE ~(t - first < 0)
    <2> DEFINE f == t - first
    <2>1. f \in Nat
      BY <1>6, <1>8
    <2>2. /\ txIdx' = f * TxPorts
          /\ txIn' = [x \in Buffer(TxPorts, n) |-> (f + x[2]) * TxPorts + x[1]]
          /\ txIter' = interleave(TxPorts, n)
          /\ txValues' = <<>>
          /\ UNCHANGED panicked
      BY <1>5, <1>8 DEF spl_idx
    <2> HIDE DEF f
    <2>3. txIdx' \in Nat
      BY <2>1, <2>2, TimesNat, JackAssumption
    <2>4. ItInv(txIter', TxPorts, n, 0)
      BY <2>2, InterleaveIt, JackAssumption
    <2>5. txIter' \in IteratorOf(TxPorts)
      BY <2>4 DEF ItInv
    <2>6. JackTypeOK'
      BY <1>1, <1>2, <1>6, <2>2, <2>3, <2>5 DEF JackInv, JackTypeOK, IInv, playback
    <2>7. Len(txValues') = 0 /\ txValues' = samples(txIdx', 0)
      BY <2>2 DEF samples
    <2>8. txPc' = "idle"
      BY <1>1 DEF process_tx, vars, tx
    <2>9. CaptureCycle(n, f)'
      BY <2>2, <2>4, <2>7, <2>8 DEF CaptureCycle
    <2>10. txIn' = NoBuffer => txIter'.remaining_frames = 0
      <3> SUFFICES ASSUME txIn' = NoBuffer, n # 0 PROVE FALSE
        BY <2>2 DEF interleave
      <3>1. <<0, 0>> \in Buffer(TxPorts, n)
        BY JackAssumption DEF Buffer
      <3>2. DOMAIN txIn' = Buffer(TxPorts, n) /\ DOMAIN NoBuffer = {}
        BY <2>2 DEF NoBuffer
      <3> QED BY <3>1, <3>2
    <2>11. CaptureInv'
      BY <2>1, <2>9, <2>10 DEF CaptureInv
    <2> QED BY <1>2, <1>4, <2>6, <2>11 DEF JackInv
  <1> QED BY <1>7, <1>8

LEMMA Pull ==
  ASSUME JackInv, pull,
         "tx" \in handlers, UNCHANGED handlers
  PROVE  JackInv'
  <1>1. UNCHANGED <<vars, playback, panicked, txStart, txIdx, txIn>>
    BY DEF pull
  <1>2. IInv'
    BY <1>1, NextIInv DEF JackInv
  <1>3. source' = source
    BY <1>1 DEF source, chunk, vars, rx
  <1>4. PlaybackInv'
    BY <1>1, <1>3, PlaybackFrame DEF JackInv, vars
  <1>5. txIn # NoBuffer
    BY DEF JackInv, CaptureInv, pull
  <1>6. PICK n \in Nat, f \in Nat : CaptureCycle(n, f)
    BY <1>5 DEF JackInv, CaptureInv
  <1> DEFINE k == Len(txValues)
             g == n - txIter.remaining_frames
             c == txIter.current_index
  <1>7. /\ ItInv(txIter', TxPorts, n, k + 1)
        /\ item(txIter) = <<c, g>> /\ item(txIter) \in Buffer(TxPorts, n)
        /\ k = g * TxPorts + c /\ k \in Nat
    <2>1. ItInv(txIter, TxPorts, n, k) /\ txIter.remaining_frames # 0
      BY <1>6 DEF CaptureCycle, pull
    <2>2. txIter' = next(txIter, TxPorts)
      BY DEF pull
    <2> HIDE DEF k
    <2> QED BY <2>1, <2>2, NextIt, JackAssumption
  <1>8. c \in Nat /\ g \in Nat /\ txIdx = f * TxPorts /\ TxPorts \in Nat
    BY <1>6, JackAssumption DEF CaptureCycle, ItInv, IteratorOf
  <1>9. txIn[item(txIter)] = txIdx + k
    <2>1. txIn[item(txIter)] = (f + g) * TxPorts + c
      <3> HIDE DEF c, g
      <3> QED BY <1>6, <1>7 DEF CaptureCycle
    <2> HIDE DEF c, g, k
    <2>2. (f + g) * TxPorts = f * TxPorts + g * TxPorts
      BY <1>8, Distribute
    <2>3. f * TxPorts \in Nat /\ g * TxPorts \in Nat
      BY <1>8, TimesNat
    <2> QED BY <1>7, <1>8, <2>1, <2>2, <2>3
  <1>10. txIdx \in Nat
    BY DEF JackInv, JackTypeOK
  <1>11. txValues' = Append(txValues, txIdx + k)
    BY <1>9 DEF pull
  <1>12. txValues \in Seq(Nat) /\ txValues = samples(txIdx, k)
    BY <1>6 DEF CaptureCycle, JackInv, JackTypeOK
  <1>13. /\ txValues' \in Seq(Nat) /\ Len(txValues') = k + 1
         /\ txValues' = samples(txIdx, k + 1)
    <2>1. txValues' \in Seq(Nat) /\ Len(txValues') = k + 1
      BY <1>10, <1>11, <1>12
    <2>2. \A j \in 1 .. k + 1 : txValues'[j] = txIdx + j - 1
      <3> TAKE j \in 1 .. k + 1
      <3>1. CASE j \in 1 .. k
        <4>1. txValues'[j] = txValues[j]
          BY <1>11, <1>12, <3>1
        <4>2. samples(txIdx, k)[j] = txIdx + j - 1
          <5> HIDE DEF k
          <5> QED BY <3>1 DEF samples
        <4> QED BY <1>12, <4>1, <4>2
      <3>2. CASE j = k + 1
        <4>1. txValues'[j] = txIdx + k
          BY <1>11, <1>12, <3>2
        <4> HIDE DEF k
        <4> QED BY <1>7, <1>10, <3>2, <4>1
      <3> HIDE DEF k
      <3> QED BY <1>7, <3>1, <3>2
    <2>3. txValues' = [j \in 1 .. k + 1 |-> txValues'[j]]
      BY <2>1
    <2> QED BY <2>1, <2>2, <2>3 DEF samples
  <1>14. CaptureCycle(n, f)'
    <2>1. txPc' = txPc
      BY <1>1 DEF vars, tx
    <2> HIDE DEF k
    <2> QED BY <1>1, <1>6, <1>7, <1>13, <2>1 DEF CaptureCycle
  <1>15. CaptureInv'
    BY <1>1, <1>5, <1>14 DEF CaptureInv
  <1>16. JackTypeOK'
    <2>1. txIter' \in IteratorOf(TxPorts)
      BY <1>7 DEF ItInv
    <2> QED BY <1>1, <1>2, <1>13, <2>1 DEF JackInv, JackTypeOK, IInv, playback
  <1> QED BY <1>2, <1>4, <1>15, <1>16 DEF JackInv

LEMMA ProcessSend ==
  ASSUME JackInv, process_send,
         "tx" \in handlers, UNCHANGED handlers
  PROVE  JackInv'
  <1>1. PICK n \in Nat, f \in Nat : CaptureCycle(n, f)
    BY DEF JackInv, CaptureInv, process_send
  <1>2. /\ txValues = samples(txIdx, Len(txValues)) /\ Len(txValues) \in Nat
        /\ txIdx \in Nat
    BY <1>1 DEF CaptureCycle, JackInv, JackTypeOK
  <1>3. send(txIdx, samples(txIdx, Len(txValues)))
    BY <1>2 DEF process_send
  <1>4. IInv'
    BY <1>2, <1>3, SendIInv DEF JackInv
  <1>5. UNCHANGED <<ring, head, tail, rx, playback, panicked, txStart, txIdx, txIter>>
    BY DEF process_send, send
  <1>6. source' = source
    BY <1>5 DEF source, chunk, rx
  <1>7. PlaybackInv'
    BY <1>5, <1>6, PlaybackFrame DEF JackInv
  <1>8. CaptureInv'
    BY <1>5 DEF CaptureInv, process_send
  <1>9. JackTypeOK'
    BY <1>4, <1>5 DEF JackInv, JackTypeOK, IInv, process_send, playback
  <1> QED BY <1>4, <1>7, <1>8, <1>9 DEF JackInv

LEMMA SendRest ==
  ASSUME JackInv, fill_from_iter \/ send_advance,
         UNCHANGED <<capture, playback, panicked, handlers>>
  PROVE  JackInv'
  <1>1. IInv'
    BY FillIInv, SendAdvanceIInv DEF JackInv
  <1>2. UNCHANGED rx /\ head' = head /\ txPc # "idle"
    BY DEF fill_from_iter, send_advance
  <1>3. \A p \in head .. tail - 1 : ring'[p] = ring[p]
    <2>1. CASE send_advance
      BY <2>1 DEF send_advance
    <2>2. CASE fill_from_iter
      <3>1. head \in Nat /\ tail \in Nat /\ Len(txOut) \in Nat
        BY DEF JackInv, IInv, TypeOK
      <3> QED BY <2>2, <3>1 DEF fill_from_iter
    <2> QED BY <2>1, <2>2
  <1>4. source' = source
    BY <1>2, <1>3, SourceStable DEF JackInv
  <1>5. PlaybackInv'
    BY <1>2, <1>4, PlaybackFrame DEF JackInv
  <1>6. CaptureInv'
    BY <1>2, CaptureFrame DEF JackInv, CaptureInv, CaptureCycle
  <1>7. JackTypeOK'
    BY <1>1 DEF JackInv, JackTypeOK, IInv, capture, playback
  <1> QED BY <1>1, <1>5, <1>6, <1>7 DEF JackInv

LEMMA ProcessRx ==
  ASSUME JackInv, NEW t \in Nat, NEW n \in Nat, process_rx(t, n),
         "rx" \in handlers, UNCHANGED handlers
  PROVE  JackInv'
  <1>1. UNCHANGED capture
    BY DEF process_rx
  <1>2. PICK first \in rxStart' :
          LET frame_idx == t - first
          IN IF frame_idx < 0
             THEN /\ rxPc = "idle"
                  /\ panicked' = panicked \cup {"rx"}
                  /\ UNCHANGED <<vars, rxFrame, rxOut, rxIter, rxPulled>>
             ELSE /\ recv(spl_idx(frame_idx, RxPorts))
                  /\ rxFrame' = frame_idx
                  /\ rxOut' = [x \in Buffer(RxPorts, n) |-> Stale]
                  /\ rxIter' = interleave(RxPorts, n)
                  /\ rxPulled' = 0
                  /\ UNCHANGED panicked
    BY DEF process_rx
  <1>3. rxStart' \subseteq Nat /\ first \in Nat
    <2>1. rxStart' \subseteq Nat
      BY DEF process_rx, get_or_init, JackInv, JackTypeOK
    <2> QED BY <2>1
  <1>4. CASE t - first < 0
    <2>1. /\ rxPc = "idle"
          /\ panicked' = panicked \cup {"rx"}
          /\ UNCHANGED <<vars, rxFrame, rxOut, rxIter, rxPulled>>
      BY <1>2, <1>4
    <2>2. IInv'
      BY <2>1, NextIInv DEF JackInv
    <2>3. JackTypeOK'
      BY <1>1, <1>3, <2>1, <2>2 DEF JackInv, JackTypeOK, IInv, capture
    <2>4. CaptureInv'
      BY <1>1, <2>1, CaptureFrame DEF JackInv, vars, tx
    <2>5. PlaybackInv'
      BY <2>1 DEF JackInv, PlaybackInv, vars, rx
    <2> QED BY <2>2, <2>3, <2>4, <2>5 DEF JackInv
  <1>5. CASE ~(t - first < 0)
    <2> DEFINE f == t - first
    <2>1. f \in Nat
      BY <1>3, <1>5
    <2>2. /\ recv(f * RxPorts)
          /\ rxFrame' = f
          /\ rxOut' = [x \in Buffer(RxPorts, n) |-> Stale]
          /\ rxIter' = interleave(RxPorts, n)
          /\ rxPulled' = 0
          /\ UNCHANGED panicked
      BY <1>2, <1>5 DEF spl_idx
    <2> HIDE DEF f
    <2>3. f * RxPorts \in Nat
      BY <2>1, TimesNat, JackAssumption
    <2>4. IInv'
      BY <2>2, <2>3, RecvIInv DEF JackInv
    <2>5. ItInv(rxIter', RxPorts, n, 0)
      BY <2>2, InterleaveIt, JackAssumption
    <2>6. JackTypeOK'
      <3>1. rxIter' \in IteratorOf(RxPorts)
        BY <2>5 DEF ItInv
      <3> QED BY <1>1, <1>3, <2>1, <2>2, <2>4, <3>1 DEF JackInv, JackTypeOK, IInv, capture
    <2>7. CaptureInv'
      BY <1>1, <2>2, CaptureFrame DEF JackInv, recv, tx
    <2>8. rxPc' = "reading" /\ rxIdx' = f * RxPorts
      BY <2>2 DEF recv
    <2>9. Len(source') \in Nat
      <3>1. (IInv /\ rxPc = "reading")'
        BY <2>4, <2>8
      <3>2. (Len(source) \in Nat)'
        BY <3>1, SourceLen, PTL
      <3> QED BY <3>2
    <2>10. PlaybackCycle(n)'
      <3>1. rxOut' \in [Buffer(RxPorts, n) -> Int]
        BY <2>2 DEF Stale
      <3>2. \A x \in Buffer(RxPorts, n) : ~(Pos(x) < 0) /\ rxOut'[x] = Stale
        <4> TAKE x \in Buffer(RxPorts, n)
        <4>1. x[1] \in Nat /\ x[2] \in Nat
          BY JackAssumption DEF Buffer
        <4>2. x[2] * RxPorts \in Nat
          BY <4>1, TimesNat, JackAssumption
        <4> QED BY <2>2, <4>1, <4>2 DEF Pos
      <3> QED BY <2>2, <2>5, <2>9, <3>1, <3>2 DEF PlaybackCycle, Pos
    <2>11. PlaybackInv'
      BY <2>2, <2>8, <2>10 DEF PlaybackInv
    <2> QED BY <2>4, <2>6, <2>7, <2>11 DEF JackInv
  <1> QED BY <1>4, <1>5

\* The fields of a place in a buffer.
LEMMA PlaceFacts ==
  ASSUME NEW n \in Nat, NEW x \in Buffer(RxPorts, n), rxFrame \in Nat
  PROVE  /\ x[1] \in 0 .. RxPorts - 1 /\ x[2] \in 0 .. n - 1 /\ x = <<x[1], x[2]>>
         /\ Pos(x) \in Nat /\ Pos(x) < n * RxPorts
         /\ Place(x) = rxFrame * RxPorts + Pos(x)
  <1>1. x[1] \in 0 .. RxPorts - 1 /\ x[2] \in 0 .. n - 1 /\ x = <<x[1], x[2]>>
    BY DEF Buffer
  <1>2. RxPorts \in Nat
    BY JackAssumption
  <1>3. Pos(x) \in Nat /\ Pos(x) < n * RxPorts
    BY <1>1, <1>2, PositionBound DEF Pos
  <1>4. (rxFrame + x[2]) * RxPorts = rxFrame * RxPorts + x[2] * RxPorts
    BY <1>1, <1>2, Distribute
  <1>5. rxFrame * RxPorts \in Nat /\ x[2] * RxPorts \in Nat
    BY <1>1, <1>2, TimesNat
  <1> QED BY <1>1, <1>3, <1>4, <1>5 DEF Pos, Place

LEMMA Copy ==
  ASSUME JackInv, copy,
         "rx" \in handlers, UNCHANGED handlers
  PROVE  JackInv'
  <1>1. UNCHANGED <<vars, capture, panicked, rxStart, rxFrame>> /\ rxPc = "reading"
    BY DEF copy
  <1>2. IInv'
    BY <1>1, NextIInv DEF JackInv
  <1>3. CaptureInv'
    BY <1>1, CaptureFrame DEF JackInv, vars, tx
  <1>4. PICK n \in Nat : PlaybackCycle(n)
    BY <1>1 DEF JackInv, PlaybackInv
  <1> DEFINE g == n - rxIter.remaining_frames
             c == rxIter.current_index
  <1>5. /\ ItInv(rxIter', RxPorts, n, rxPulled + 1)
        /\ item(rxIter) = <<c, g>> /\ item(rxIter) \in Buffer(RxPorts, n)
        /\ rxPulled = g * RxPorts + c /\ rxPulled \in Nat
    <2>1. ItInv(rxIter, RxPorts, n, rxPulled) /\ rxIter.remaining_frames # 0
      BY <1>4 DEF PlaybackCycle, copy
    <2>2. rxIter' = next(rxIter, RxPorts)
      BY DEF copy
    <2> QED BY <2>1, <2>2, NextIt, JackAssumption
  <1>6. /\ rxOut' = [rxOut EXCEPT ![item(rxIter)] = source[rxPulled + 1]]
        /\ rxPulled' = rxPulled + 1 /\ rxPulled < Len(source)
        /\ source' = source
    BY <1>1 DEF copy, source, chunk, vars, rx
  <1>7. source \in Seq(Elem) /\ Len(source) \in Nat
    BY <1>1, SourceFacts DEF JackInv
  <1>8. source[rxPulled + 1] \in Int
    <2>1. rxPulled + 1 \in 1 .. Len(source)
      BY <1>5, <1>6, <1>7
    <2>2. source[rxPulled + 1] \in Elem
      BY <1>7, <2>1
    <2> QED BY <2>2 DEF Elem, Pad
  <1> HIDE DEF g, c
  <1>9. rxOut \in [Buffer(RxPorts, n) -> Int]
    BY <1>4 DEF PlaybackCycle
  <1>10. rxOut' \in [Buffer(RxPorts, n) -> Int]
    BY <1>5, <1>6, <1>8, <1>9
  <1>p. rxPulled \in Nat /\ rxPulled' = rxPulled + 1
    BY <1>5, <1>6
  <1>11. ASSUME NEW x \in Buffer(RxPorts, n)
         PROVE  rxOut'[x] = IF Pos(x) < rxPulled' THEN source[Pos(x) + 1] ELSE Stale
    <2>1. Pos(x) \in Nat
      BY PlaceFacts DEF JackInv, JackTypeOK
    <2>2. rxOut[x] = IF Pos(x) < rxPulled THEN source[Pos(x) + 1] ELSE Stale
      BY <1>4 DEF PlaybackCycle
    <2>3. CASE x = item(rxIter)
      <3>1. Pos(x) = rxPulled
        BY <1>5, <2>3 DEF Pos
      <3>2. rxOut'[x] = source[rxPulled + 1]
        BY <1>6, <1>9, <2>3
      <3>3. Pos(x) < rxPulled'
        BY <1>p, <3>1
      <3> QED BY <3>1, <3>2, <3>3
    <2>4. CASE x # item(rxIter)
      <3>1. Pos(x) # rxPulled
        <4> SUFFICES ASSUME Pos(x) = rxPulled PROVE FALSE
          OBVIOUS
        <4>1. x[1] \in 0 .. RxPorts - 1 /\ x[2] \in Nat /\ x = <<x[1], x[2]>>
          BY PlaceFacts DEF JackInv, JackTypeOK
        <4>2. c \in 0 .. RxPorts - 1 /\ g \in Nat
          BY <1>5 DEF Buffer
        <4>3. x[2] * RxPorts + x[1] = g * RxPorts + c
          BY <1>5 DEF Pos
        <4>4. x[2] = g /\ x[1] = c
          BY <4>1, <4>2, <4>3, PositionUnique, JackAssumption
        <4> QED BY <1>5, <2>4, <4>1, <4>4
      <3>2. rxOut'[x] = rxOut[x]
        BY <1>6, <1>9, <2>4
      <3>3. (Pos(x) < rxPulled') <=> (Pos(x) < rxPulled)
        BY <1>p, <2>1, <3>1
      <3> QED BY <2>2, <3>2, <3>3
    <2> QED BY <2>3, <2>4
  <1>12. PlaybackCycle(n)'
    <2>1. rxPulled' <= Len(source)
      BY <1>5, <1>6, <1>7
    <2> QED BY <1>5, <1>6, <1>10, <1>11, <2>1 DEF PlaybackCycle, Pos
  <1>13. PlaybackInv'
    BY <1>1, <1>12 DEF JackInv, PlaybackInv, vars, rx
  <1>14. JackTypeOK'
    <2>1. rxIter' \in IteratorOf(RxPorts)
      BY <1>5 DEF ItInv
    <2>2. rxPulled' \in Nat
      BY <1>5, <1>6
    <2> QED BY <1>1, <1>2, <2>1, <2>2 DEF JackInv, JackTypeOK, IInv, capture
  <1> QED BY <1>2, <1>3, <1>13, <1>14 DEF JackInv

LEMMA CopyEnd ==
  ASSUME JackInv, copy_end,
         "rx" \in handlers, UNCHANGED handlers
  PROVE  JackInv'
  <1>1. UNCHANGED <<capture, playback, panicked>>
    BY DEF copy_end
  <1>2. rxPc = "reading" /\ rxPc' = "releasing" /\ UNCHANGED <<tx, rxIdx, rxAvail>>
    BY DEF copy_end, recv_drop
  <1>3. rxPulled \in Nat /\ rxPulled + 1 \in Nat /\ rxFrame \in Nat
    BY DEF JackInv, JackTypeOK
  <1>4. IInv'
    BY <1>3, RecvDropIInv DEF JackInv, copy_end
  <1>5. CaptureInv'
    BY <1>1, <1>2, CaptureFrame DEF JackInv, tx
  <1>6. JackTypeOK'
    BY <1>1, <1>4 DEF JackInv, JackTypeOK, IInv, capture, playback
  <1>7. PICK n \in Nat : PlaybackCycle(n)
    BY <1>2 DEF JackInv, PlaybackInv
  <1>8. /\ source \in Seq(Elem) /\ Len(source) \in Nat
        /\ Len(source) = IF rxAvail > rxIdx - rxCount THEN rxAvail - (rxIdx - rxCount) ELSE 0
        /\ \A j \in 1 .. Len(source) : source[j] \in {rxIdx + j - 1, Pad}
    <2>1. IInv
      BY DEF JackInv
    <2>2. /\ source \in Seq(Elem)
          /\ Len(source) = IF rxAvail > rxIdx - rxCount THEN rxAvail - (rxIdx - rxCount) ELSE 0
          /\ \A j \in 1 .. Len(source) : source[j] \in {rxIdx + j - 1, Pad}
      BY <1>2, <2>1, SourceFacts
    <2>3. Len(source) \in Nat
      BY <2>2
    <2> QED BY <2>2, <2>3
  <1>9. rxAvail \in Nat /\ rxIdx \in Nat /\ rxCount \in Nat /\ rxIdx = rxFrame * RxPorts
    BY <1>2 DEF JackInv, IInv, TypeOK, PlaybackInv
  <1>10. ASSUME NEW x \in Buffer(RxPorts, n)
         PROVE  /\ Pos(x) \in Nat /\ Place(x) = rxIdx + Pos(x) /\ Pos(x) < n * RxPorts
                /\ Pos(x) < rxPulled => rxOut[x] \in {Place(x), Pad}
                /\ ~(Pos(x) < rxPulled) => rxOut[x] = Stale
    <2>1. Pos(x) \in Nat /\ Place(x) = rxIdx + Pos(x) /\ Pos(x) < n * RxPorts
      BY <1>3, <1>9, PlaceFacts
    <2>2. rxOut[x] = IF Pos(x) < rxPulled THEN source[Pos(x) + 1] ELSE Stale
      BY <1>7 DEF PlaybackCycle
    <2>3. ASSUME Pos(x) < rxPulled PROVE rxOut[x] \in {Place(x), Pad}
      <3>1. Pos(x) + 1 \in 1 .. Len(source)
        BY <1>3, <1>7, <1>8, <2>1, <2>3 DEF PlaybackCycle
      <3>2. source[Pos(x) + 1] \in {rxIdx + (Pos(x) + 1) - 1, Pad}
        BY <1>8, <3>1
      <3>3. rxIdx + (Pos(x) + 1) - 1 = Place(x)
        BY <1>9, <2>1
      <3> QED BY <2>2, <2>3, <3>2, <3>3
    <2> QED BY <2>1, <2>2, <2>3
  <1>11. DOMAIN rxOut = Buffer(RxPorts, n) /\ rxOut' = rxOut /\ rxFrame' = rxFrame
    BY <1>1, <1>7 DEF PlaybackCycle, playback
  <1>12. OutputInPlace'
    BY <1>10, <1>11 DEF OutputInPlace, Place
  <1>13. \A x \in Buffer(RxPorts, n) : (rxOut[x] = Stale) <=> ~(Pos(x) < rxPulled)
    <2> TAKE x \in Buffer(RxPorts, n)
    <2>1. Place(x) \in Nat
      BY <1>9, <1>10
    <2> QED BY <1>10, <2>1 DEF Stale, Pad
  \* The counter after the cycle: at the end of what has been copied, or past it, if
  \* that was all that was asked for; otherwise at the end of what was in the ring.
  <1>c. /\ rxPulled <= Len(source) =>
             rxCount + consumed(rxAvail, rxIdx - rxCount, rxPulled) >= rxIdx + rxPulled
               \/ rxPulled = 0
        /\ rxPulled = Len(source) =>
             /\ consumed(rxAvail, rxIdx - rxCount, rxPulled + 1) = rxAvail
             /\ rxCount + rxAvail = rxIdx + rxPulled
                  \/ (rxPulled = 0 /\ rxCount + rxAvail <= rxIdx)
    <2> DEFINE len == Len(source)
    <2>1. len \in Nat /\ len = IF rxAvail > rxIdx - rxCount THEN rxAvail - (rxIdx - rxCount) ELSE 0
      BY <1>8
    <2>2. rxPulled \in Nat /\ rxAvail \in Nat /\ rxIdx \in Nat /\ rxCount \in Nat
      BY <1>3, <1>9
    <2> HIDE DEF len
    <2>3. rxPulled <= len =>
            rxCount + consumed(rxAvail, rxIdx - rxCount, rxPulled) >= rxIdx + rxPulled
              \/ rxPulled = 0
      <3>1. CASE rxIdx < rxCount
        BY <2>1, <2>2, <3>1 DEF consumed, Least
      <3>2. CASE rxIdx >= rxCount
        BY <2>1, <2>2, <3>2 DEF consumed, Least
      <3> QED BY <2>2, <3>1, <3>2
    <2>4. rxPulled = len =>
            rxCount + rxAvail = rxIdx + rxPulled \/ (rxPulled = 0 /\ rxCount + rxAvail <= rxIdx)
      BY <2>1, <2>2
    <2>5. rxPulled = len => consumed(rxAvail, rxIdx - rxCount, rxPulled + 1) = rxAvail
      <3>1. CASE rxIdx < rxCount
        BY <2>1, <2>2, <3>1 DEF consumed, Least
      <3>2. CASE rxIdx >= rxCount
        BY <2>1, <2>2, <3>2 DEF consumed, Least
      <3> QED BY <2>2, <3>1, <3>2
    <2> QED BY <2>3, <2>4, <2>5 DEF len
  <1>14. CASE rxIter.remaining_frames = 0
    <2>1. rxPulled = n * RxPorts
      BY <1>7, <1>14, EndIt, JackAssumption DEF PlaybackCycle
    <2>2. rxCount' = rxCount + consumed(rxAvail, rxIdx - rxCount, rxPulled)
      BY <1>14 DEF copy_end, recv_drop
    <2>3. rxCount' >= rxIdx + rxPulled \/ rxPulled = 0
      BY <1>7, <1>c, <2>2 DEF PlaybackCycle
    <2>4. rxCount' \in Nat
      BY <1>4 DEF IInv, TypeOK
    <2>5. ASSUME NEW x \in Buffer(RxPorts, n)
          PROVE  rxOut[x] # Stale /\ ~(Place(x) >= rxCount')
      <3>1. Pos(x) < rxPulled /\ Pos(x) \in Nat /\ Place(x) = rxIdx + Pos(x)
        BY <1>10, <2>1
      <3>2. rxOut[x] # Stale
        BY <1>13, <3>1
      <3> QED BY <1>3, <1>9, <2>3, <2>4, <3>1, <3>2
    <2>6. WrittenUpToCounter'
      BY <1>11, <2>5 DEF WrittenUpToCounter, Place
    <2> QED BY <1>2, <1>4, <1>5, <1>6, <1>12, <2>6 DEF JackInv, PlaybackInv
  <1>15. CASE rxIter.remaining_frames # 0
    <2>1. /\ rxPulled = Len(source)
          /\ rxTaken' = consumed(rxAvail, rxIdx - rxCount, rxPulled + 1)
          /\ rxCount' = rxCount + rxTaken'
      BY <1>15 DEF copy_end, recv_drop
    <2>2. /\ rxTaken' = rxAvail
          /\ rxCount' = rxIdx + rxPulled \/ (rxPulled = 0 /\ rxCount' <= rxIdx)
      <3>1. /\ consumed(rxAvail, rxIdx - rxCount, rxPulled + 1) = rxAvail
            /\ rxCount + rxAvail = rxIdx + rxPulled
                 \/ (rxPulled = 0 /\ rxCount + rxAvail <= rxIdx)
        BY <1>c, <2>1
      <3> QED BY <2>1, <3>1
    <2>3. rxCount' \in Nat
      BY <1>4 DEF IInv, TypeOK
    <2>4. ASSUME NEW x \in Buffer(RxPorts, n)
          PROVE  (rxOut[x] = Stale) <=> (Place(x) >= rxCount')
      <3>1. Pos(x) \in Nat /\ Place(x) = rxIdx + Pos(x)
        BY <1>10
      <3>2. ~(Pos(x) < rxPulled) <=> (Place(x) >= rxCount')
        BY <1>3, <1>9, <2>2, <2>3, <3>1
      <3> QED BY <1>13, <3>2
    <2>5. WrittenUpToCounter'
      BY <1>2, <1>11, <2>2, <2>4 DEF WrittenUpToCounter, Place
    <2> QED BY <1>2, <1>4, <1>5, <1>6, <1>12, <2>5 DEF JackInv, PlaybackInv
  <1> QED BY <1>14, <1>15

LEMMA ProcessReturn ==
  ASSUME JackInv, process_return,
         "rx" \in handlers, UNCHANGED handlers
  PROVE  JackInv'
  <1>1. UNCHANGED <<capture, panicked, rxStart, rxFrame, rxIter, tx>>
    BY DEF process_return, recv_release
  <1>2. IInv'
    BY RecvReleaseIInv DEF JackInv, process_return
  <1>3. CaptureInv'
    BY <1>1, CaptureFrame DEF JackInv, tx
  <1>4. PlaybackInv'
    BY DEF PlaybackInv, process_return, recv_release
  <1>5. JackTypeOK'
    BY <1>1, <1>2 DEF JackInv, JackTypeOK, IInv, capture, process_return
  <1> QED BY <1>2, <1>3, <1>4, <1>5 DEF JackInv

LEMMA OtherTx ==
  ASSUME JackInv, TxCaller, "tx" \notin handlers,
         UNCHANGED <<capture, playback, panicked, handlers>>
  PROVE  JackInv'
  <1>1. IInv'
    BY NextIInv DEF JackInv, Next
  <1>2. UNCHANGED <<ring, head, tail, rx>>
    BY DEF TxCaller, send
  <1>3. source' = source
    BY <1>2 DEF source, chunk, rx
  <1>4. PlaybackInv'
    BY <1>2, <1>3, PlaybackFrame DEF JackInv
  <1>5. CaptureInv'
    BY CaptureFrame DEF JackInv, CaptureInv
  <1>6. JackTypeOK'
    BY <1>1 DEF JackInv, JackTypeOK, IInv, capture, playback
  <1> QED BY <1>1, <1>4, <1>5, <1>6 DEF JackInv

LEMMA OtherRx ==
  ASSUME JackInv, RxCaller, "rx" \notin handlers,
         UNCHANGED <<capture, playback, panicked, handlers>>
  PROVE  JackInv'
  <1>1. IInv'
    BY NextIInv DEF JackInv, Next
  <1>2. UNCHANGED tx
    BY DEF RxCaller, recv, recv_drop, recv_release
  <1>3. CaptureInv'
    BY <1>2, CaptureFrame DEF JackInv, tx
  <1>4. rxOut' = NoBuffer /\ rxIter'.remaining_frames = 0
    BY DEF JackInv, PlaybackInv, playback
  <1>5. (OutputInPlace /\ WrittenUpToCounter)'
    BY <1>4 DEF OutputInPlace, WrittenUpToCounter, NoBuffer
  <1>6. PlaybackInv'
    BY <1>4, <1>5 DEF PlaybackInv
  <1>7. JackTypeOK'
    BY <1>1 DEF JackInv, JackTypeOK, IInv, capture, playback
  <1> QED BY <1>1, <1>3, <1>6, <1>7 DEF JackInv

LEMMA NextJack == JackInv /\ [JackNext]_jackVars => JackInv'
  <1> SUFFICES ASSUME JackInv, [JackNext]_jackVars PROVE JackInv'
    OBVIOUS
  <1>1. FrameTime \subseteq Nat /\ Frames \subseteq Nat
    BY JackAssumption DEF FrameTime, Frames
  <1>2. CASE UNCHANGED jackVars
    <2>1. IInv'
      BY <1>2, NextIInv DEF JackInv, jackVars
    <2>2. source' = source /\ UNCHANGED <<rx, tx, capture, playback, panicked, handlers>>
      BY <1>2 DEF source, chunk, jackVars, vars, rx
    <2>3. CaptureInv' /\ PlaybackInv'
      BY <2>2, CaptureFrame, PlaybackFrame DEF JackInv, tx
    <2>4. JackTypeOK'
      BY <2>1, <2>2 DEF JackInv, JackTypeOK, IInv, capture, playback
    <2> QED BY <2>1, <2>3, <2>4 DEF JackInv
  <1> QED BY <1>1, <1>2, ProcessTx, Pull, ProcessSend, SendRest, ProcessRx, Copy, CopyEnd,
             ProcessReturn, OtherTx, OtherRx DEF JackNext, Capture, Playback

LEMMA SpecJack == JackSpec => []JackInv
  BY InitJack, NextJack, PTL DEF JackSpec

-----------------------------------------------------------------------------
(* Theorems *)

\* Type correctness: no sample index is negative, whatever last_frame_time does.
THEOREM JackTypes == JackSpec => []JackTypeOK
  <1>1. JackInv => JackTypeOK
    BY DEF JackInv
  <1> QED BY <1>1, SpecJack, PTL

\* The samples a JACK handler captures are in the ring at their own index.
THEOREM CaptureInPlace == JackSpec => []RingAligned
  <1>1. JackInv => RingAligned
    BY DEF JackInv, IInv
  <1> QED BY <1>1, SpecJack, PTL

\* The SAFETY comments of Interleaved::next: it never goes past a buffer, for any
\* number of ports and frames.
THEOREM InBounds == JackSpec => []PointersInBounds
  <1>1. ASSUME JackInv PROVE PointersInBounds
    <2>1. ASSUME txIter.remaining_frames # 0 PROVE item(txIter) \in DOMAIN txIn
      <3>1. PICK n \in Nat, f \in Nat : CaptureCycle(n, f)
        BY <1>1, <2>1 DEF JackInv, CaptureInv
      <3>2. DOMAIN txIn = Buffer(TxPorts, n) /\ ItInv(txIter, TxPorts, n, Len(txValues))
        BY <3>1 DEF CaptureCycle
      <3> QED BY <2>1, <3>2, NextIt, JackAssumption
    <2>2. ASSUME rxPc = "reading", rxIter.remaining_frames # 0
          PROVE  item(rxIter) \in DOMAIN rxOut
      <3>1. PICK n \in Nat : PlaybackCycle(n)
        BY <1>1, <2>2 DEF JackInv, PlaybackInv
      <3>2. DOMAIN rxOut = Buffer(RxPorts, n) /\ ItInv(rxIter, RxPorts, n, rxPulled)
        BY <3>1 DEF PlaybackCycle
      <3> QED BY <2>2, <3>2, NextIt, JackAssumption
    <2> QED BY <2>1, <2>2 DEF PointersInBounds
  <1>2. JackInv => PointersInBounds
    BY <1>1
  <1> QED BY <1>2, SpecJack, PTL

\* Each output port gets its own channel, each frame its own samples.
THEOREM PlaybackInPlace == JackSpec => []OutputInPlace
  <1>1. ASSUME JackInv PROVE OutputInPlace
    <2>1. CASE rxPc = "idle" \/ "rx" \notin handlers
      BY <1>1, <2>1 DEF JackInv, PlaybackInv, OutputInPlace, NoBuffer
    <2>2. CASE rxPc = "reading" /\ "rx" \in handlers
      <3>1. PICK n \in Nat : PlaybackCycle(n)
        BY <1>1, <2>2 DEF JackInv, PlaybackInv
      <3>2. /\ Len(source) \in Nat /\ rxIdx \in Nat /\ rxFrame \in Nat
            /\ \A j \in 1 .. Len(source) : source[j] \in {rxIdx + j - 1, Pad}
        <4>1. IInv /\ rxIdx \in Nat /\ rxFrame \in Nat
          BY <1>1 DEF JackInv, JackTypeOK, IInv, TypeOK
        <4>2. Len(source) \in Nat
          BY <2>2, <4>1, SourceLen
        <4>3. \A j \in 1 .. Len(source) : source[j] \in {rxIdx + j - 1, Pad}
          BY <2>2, <4>1, SourceFacts
        <4> QED BY <4>1, <4>2, <4>3
      <3> SUFFICES ASSUME NEW x \in Buffer(RxPorts, n)
                   PROVE  rxOut[x] \in {Place(x), Pad, Stale}
        BY <3>1 DEF OutputInPlace, PlaybackCycle
      <3>3. Pos(x) \in Nat /\ Place(x) = rxIdx + Pos(x)
        BY <1>1, <2>2, <3>2, PlaceFacts DEF JackInv, PlaybackInv
      <3>4. rxOut[x] = IF Pos(x) < rxPulled THEN source[Pos(x) + 1] ELSE Stale
        BY <3>1 DEF PlaybackCycle
      <3>5. CASE Pos(x) < rxPulled
        <4>1. Pos(x) + 1 \in 1 .. Len(source)
          <5>1. rxPulled \in Nat /\ rxPulled <= Len(source)
            BY <1>1, <3>1 DEF PlaybackCycle, JackInv, JackTypeOK
          <5>2. Len(source) \in Nat /\ Pos(x) \in Nat
            BY <3>2, <3>3
          <5> QED BY <3>5, <5>1, <5>2
        <4>2. source[Pos(x) + 1] \in {rxIdx + (Pos(x) + 1) - 1, Pad}
          BY <3>2, <4>1
        <4>3. rxIdx + (Pos(x) + 1) - 1 = Place(x)
          BY <3>2, <3>3
        <4> QED BY <3>4, <3>5, <4>2, <4>3
      <3> QED BY <3>4, <3>5
    <2>3. CASE rxPc = "releasing"
      BY <1>1, <2>3 DEF JackInv, PlaybackInv
    <2> QED BY <1>1, <2>1, <2>2, <2>3 DEF JackInv, IInv, TypeOK
  <1>2. JackInv => OutputInPlace
    BY <1>1
  <1> QED BY <1>2, SpecJack, PTL

\* How far MissingSamplesPadded fails: a cycle leaves unwritten exactly the output
\* samples the receiver's counter has not passed, those the ring did not hold.
THEOREM UnderrunsOnly == JackSpec => []WrittenUpToCounter
  <1>1. JackInv => WrittenUpToCounter
    BY DEF JackInv, PlaybackInv, WrittenUpToCounter
  <1> QED BY <1>1, SpecJack, PTL

\* What the queue guarantees any caller it guarantees a handler: the ring is not
\* overrun, every boundary is announced once and not before its data is there, and
\* what is handed out is what was asked for.
THEOREM JackQueue ==
  JackSpec => [](RingBounded /\ DeliveredAligned /\ WakePerBoundary /\ TxWakeHasData)
  <1>1. JackInv => RingBounded /\ DeliveredAligned /\ WakePerBoundary /\ TxWakeHasData
    BY TxWakes DEF JackInv, IInv
  <1> QED BY <1>1, SpecJack, PTL

\* With JACK handlers at one end or at both, the ring is still the stream with a
\* window: cycles that jump, repeat or are torn by a full or an empty ring only pad
\* and release what the stream allows.
THEOREM JackStream == JackSpec => StreamContract
  <1>1. JackInit => Stream!Init
    BY StreamInit DEF JackInit
  <1>2. JackInv /\ [JackNext]_jackVars => [Stream!Next]_(Stream!stream)
    <2> SUFFICES ASSUME JackInv, [JackNext]_jackVars PROVE [Stream!Next]_(Stream!stream)
      OBVIOUS
    <2>i. IInv /\ rxPulled \in Nat /\ rxPulled + 1 \in Nat
      BY DEF JackInv, JackTypeOK
    <2>1. CASE UNCHANGED jackVars \/ send_advance \/ TxCaller \/ Capture
      BY <2>1, StreamStutters DEF TxCaller, Capture, process_tx, pull, process_send, jackVars
    <2>2. CASE fill_from_iter
      BY <2>2, <2>i, StreamWrites DEF Stream!Next
    <2>3. CASE RxCaller
      <3>1. 0 .. MaxIdx \subseteq Nat /\ 0 .. MaxLen \subseteq Nat
        BY QueueAssumption
      <3> QED BY <2>3, <2>i, <3>1, StreamAsks, StreamGives, StreamReleases
              DEF Stream!Next, RxCaller
    <2>4. ASSUME NEW t \in FrameTime, NEW n \in Frames, process_rx(t, n)
          PROVE  [Stream!Next]_(Stream!stream)
      <3>1. PICK first \in rxStart' :
              \/ UNCHANGED vars
              \/ ~(t - first < 0) /\ recv(spl_idx(t - first, RxPorts))
        BY <2>4, Zenon DEF process_rx
      <3>2. CASE UNCHANGED vars
        BY <3>2, StreamStutters
      <3>3. CASE ~(t - first < 0) /\ recv(spl_idx(t - first, RxPorts))
        <4>1. t - first \in Nat
          <5>1. FrameTime \subseteq Nat
            BY JackAssumption DEF FrameTime
          <5>2. rxStart' = get_or_init(rxStart, t) /\ rxStart \subseteq Nat
            BY <2>4 DEF process_rx, JackInv, JackTypeOK
          <5>3. t \in Nat /\ first \in Nat
            BY <5>1, <5>2 DEF get_or_init
          <5> QED BY <3>3, <5>3
        <4>2. spl_idx(t - first, RxPorts) \in Nat
          BY <4>1, TimesNat, JackAssumption DEF spl_idx
        <4> QED BY <3>3, <4>2, StreamAsks DEF Stream!Next
      <3> QED BY <3>1, <3>2, <3>3
    <2>5. CASE copy
      BY <2>5, StreamStutters DEF copy
    <2>6. CASE copy_end
      BY <2>6, <2>i, StreamGives DEF copy_end, Stream!Next
    <2>7. CASE process_return
      BY <2>7, <2>i, StreamReleases DEF process_return, Stream!Next
    <2> QED BY <2>1, <2>2, <2>3, <2>4, <2>5, <2>6, <2>7 DEF JackNext, Playback
  <1> QED BY <1>1, <1>2, SpecJack, PTL DEF JackSpec, StreamContract, Stream!Spec

=============================================================================

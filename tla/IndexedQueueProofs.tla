------------------------- MODULE IndexedQueueProofs -------------------------
(***************************************************************************)
(* Proofs about IndexedQueue, for any capacity, periods and indices.       *)
(***************************************************************************)
EXTENDS IndexedQueue, TLAPS

-----------------------------------------------------------------------------
(* Iterators *)

\* What shift_iter makes of an iterator: deviation elements fewer, or that many more
\* if it is negative; these are padding, and the j-th of the others is the one the
\* iterator has at j + deviation.
LEMMA ShiftExact ==
  ASSUME NEW it \in Seq(Elem), NEW dev \in Int
  PROVE  /\ shift_iter(it, dev) \in Seq(Elem)
         /\ Len(shift_iter(it, dev)) = IF Len(it) > dev THEN Len(it) - dev ELSE 0
         /\ \A j \in 1 .. Len(shift_iter(it, dev)) :
              /\ j <= -dev => shift_iter(it, dev)[j] = Pad
              /\ j > -dev => j + dev \in 1 .. Len(it) /\ shift_iter(it, dev)[j] = it[j + dev]
  <1> DEFINE padding  == IF dev < 0 THEN -dev ELSE 0
             skipping == IF dev < 0 THEN 0 ELSE dev
             rest     == IF Len(it) > skipping THEN Len(it) - skipping ELSE 0
             e(j)     == IF j <= padding THEN Pad ELSE it[j - padding + skipping]
  <1>1. padding \in Nat /\ skipping \in Nat /\ rest \in Nat /\ Len(it) \in Nat
    OBVIOUS
  <1>2. ASSUME NEW j \in 1 .. padding + rest
        PROVE  /\ e(j) \in Elem
               /\ j <= -dev => e(j) = Pad
               /\ j > -dev => j + dev \in 1 .. Len(it) /\ e(j) = it[j + dev]
    <2>0. (j <= padding) <=> (j <= -dev)
      BY <1>1
    <2>1. CASE j <= padding
      BY <2>0, <2>1 DEF Elem
    <2>2. CASE j > padding
      <3>0. rest = Len(it) - skipping
        <4>1. CASE Len(it) > skipping
          BY <4>1
        <4>2. CASE ~(Len(it) > skipping)
          <5>1. rest = 0
            BY <4>2
          <5> HIDE DEF rest, padding, skipping
          <5> QED BY <1>1, <2>2, <5>1
        <4> QED BY <4>1, <4>2
      <3>1. j - padding + skipping \in 1 .. Len(it)
        <4> HIDE DEF rest, padding, skipping
        <4> QED BY <1>1, <2>2, <3>0
      <3>2. j - padding + skipping = j + dev
        BY <1>1
      <3>3. it[j - padding + skipping] \in Elem
        BY <3>1
      <3>4. e(j) = it[j - padding + skipping] /\ ~(j <= -dev)
        BY <1>1, <2>0, <2>2
      <3> HIDE DEF e, padding, skipping
      <3> QED BY <3>1, <3>2, <3>3, <3>4
    <2> QED BY <1>1, <2>1, <2>2
  <1>3. shift_iter(it, dev) = [j \in 1 .. padding + rest |-> e(j)]
    BY DEF shift_iter
  <1>4. padding + rest = IF Len(it) > dev THEN Len(it) - dev ELSE 0
    <2>1. CASE dev < 0
      <3>1. padding = -dev /\ skipping = 0
        BY <2>1
      <3>2. rest = Len(it)
        <4>1. CASE Len(it) > 0
          BY <3>1, <4>1
        <4>2. CASE Len(it) = 0
          BY <3>1, <4>2
        <4> QED BY <1>1, <4>1, <4>2
      <3>3. Len(it) > dev
        BY <1>1, <2>1
      <3> HIDE DEF padding, rest
      <3> QED BY <1>1, <3>1, <3>2, <3>3
    <2>2. CASE ~(dev < 0)
      BY <1>1, <2>2
    <2> QED BY <2>1, <2>2
  <1> HIDE DEF padding, rest, e
  <1>5. /\ [j \in 1 .. padding + rest |-> e(j)] \in Seq(Elem)
        /\ Len([j \in 1 .. padding + rest |-> e(j)]) = padding + rest
    BY <1>1, <1>2
  <1> QED BY <1>1, <1>2, <1>3, <1>4, <1>5

LEMMA TakePrefix ==
  ASSUME NEW it \in Seq(Elem), NEW n \in Nat
  PROVE  /\ take(it, n) \in Seq(Elem)
         /\ Len(take(it, n)) = Least(n, Len(it))
         /\ Len(take(it, n)) <= n /\ Len(take(it, n)) <= Len(it)
         /\ \A j \in 1 .. Len(take(it, n)) : take(it, n)[j] = it[j]
  <1>1. Least(n, Len(it)) \in Nat /\ Least(n, Len(it)) <= n /\ Least(n, Len(it)) <= Len(it)
    BY DEF Least
  <1> QED BY <1>1 DEF take

\* A caller that asks for n elements and is given some consumes what comes before the
\* end of these; one that is given none consumes at most what it skips.
LEMMA ConsumedExact ==
  ASSUME NEW len \in Nat, NEW dev \in Int, NEW n \in Nat, NEW g \in Nat,
         g = Least(n, IF len > dev THEN len - dev ELSE 0)
  PROVE  /\ consumed(len, dev, n) \in 0 .. len
         /\ g # 0 => consumed(len, dev, n) = IF dev + g > 0 THEN dev + g ELSE 0
         /\ g = 0 => consumed(len, dev, n) = 0 \/ consumed(len, dev, n) <= dev
  <1>1. CASE dev < 0
    BY <1>1 DEF consumed, Least
  <1>2. CASE dev >= 0 /\ len > dev
    BY <1>2 DEF consumed, Least
  <1>3. CASE dev >= 0 /\ ~(len > dev)
    BY <1>3 DEF consumed, Least
  <1> QED BY <1>1, <1>2, <1>3

LEMMA DivBounds ==
  ASSUME NEW x \in Nat, NEW d \in Nat \ {0}
  PROVE  x \div d \in Nat /\ (x \div d) * d <= x
  OBVIOUS

-----------------------------------------------------------------------------
(* The inductive invariant *)

\* Each counter is at its own end of the ring, except while the other step of the
\* call is still to come; this is what makes the deviations right.
CountersFollow ==
  /\ txPc # "counting" => txCount = tail
  /\ txPc = "counting" => tail = txCount + Len(txOut)
  /\ rxPc # "releasing" => rxCount = head /\ rxTaken = 0
  /\ rxPc = "releasing" => rxCount = head + rxTaken /\ rxTaken <= rxAvail

\* What is about to be written: the samples of the slots it is going to, after
\* padding for the gap before them.
WrittenFrom(from) ==
  \A j \in 1 .. Len(txOut) : txOut[j] = IF tail + j - 1 < from THEN Pad ELSE tail + j - 1
OutExact == txPc = "filling" => \E from \in Nat : WrittenFrom(from)

\* What is about to be released: all that was handed out and what is before it.  A
\* caller that was given nothing has skipped at most what is before its index.
TakenExact ==
  rxPc = "releasing" =>
    /\ delivered = <<>> => rxTaken = 0 \/ head + rxTaken <= rxIdx
    /\ delivered # <<>> =>
         head + rxTaken = IF rxIdx + Len(delivered) > head THEN rxIdx + Len(delivered) ELSE head

IInv ==
  /\ TypeOK
  /\ RingAligned
  /\ DeliveredAligned
  /\ RingBounded
  /\ WakePerBoundary
  /\ CountersFollow
  /\ OutExact
  /\ TakenExact

LEMMA InitIInv == Init => IInv
  <1> SUFFICES ASSUME Init PROVE IInv
    OBVIOUS
  <1>1. 0 \div TxPeriod = 0 /\ 0 \div RxPeriod = 0
    BY QueueAssumption
  <1>2. TypeOK
    BY DEF Init, TypeOK, Elem, Pad
  <1> QED BY <1>1, <1>2, QueueAssumption DEF Init, IInv, RingAligned, DeliveredAligned,
             RingBounded, WakePerBoundary, CountersFollow, OutExact, TakenExact

\* A send computes aligned elements that fit into the ring.
LEMMA SendIInv ==
  ASSUME IInv, NEW idx \in Nat, NEW len \in Nat, send(idx, samples(idx, len))
  PROVE  IInv'
  <1> DEFINE values == samples(idx, len)
             out == shift_iter(values, txCount - idx)
  <1>1. idx \in Nat /\ len \in Nat /\ txCount \in Nat /\ txCount = tail /\ tail \in Nat /\ head \in Nat
    BY QueueAssumption DEF IInv, TypeOK, CountersFollow, send
  <1>2. values \in Seq(Elem) /\ Len(values) = len /\ \A k \in 1 .. len : values[k] = idx + k - 1
    BY <1>1 DEF Elem, samples
  <1>3. /\ out \in Seq(Elem)
        /\ \A j \in 1 .. Len(out) : out[j] = IF tail + j - 1 < idx THEN Pad ELSE tail + j - 1
    <2> DEFINE dev == txCount - idx
    <2>1. dev \in Int
      BY <1>1
    <2> HIDE DEF values, dev
    <2>2. /\ out \in Seq(Elem)
          /\ \A j \in 1 .. Len(out) :
               /\ j <= -dev => out[j] = Pad
               /\ j > -dev => j + dev \in 1 .. Len(values) /\ out[j] = values[j + dev]
      BY <1>2, <2>1, ShiftExact DEF dev
    <2>3. ASSUME NEW j \in 1 .. Len(out)
          PROVE  out[j] = IF tail + j - 1 < idx THEN Pad ELSE tail + j - 1
      <3>1. j \in Int /\ (j <= -dev <=> tail + j - 1 < idx)
        BY <1>1, <2>2 DEF dev
      <3>2. CASE j <= -dev
        BY <2>2, <3>1, <3>2
      <3>3. CASE ~(j <= -dev)
        <4>1. j + dev \in 1 .. len /\ out[j] = values[j + dev]
          BY <1>2, <2>1, <2>2, <3>1, <3>3
        <4>2. out[j] = idx + (j + dev) - 1
          BY <1>2, <4>1
        <4>3. idx + (j + dev) - 1 = tail + j - 1
          BY <1>1, <3>1 DEF dev
        <4> HIDE DEF out
        <4> QED BY <3>1, <3>3, <4>2, <4>3
      <3> QED BY <3>2, <3>3
    <2> QED BY <2>2, <2>3
  <1>4. Capacity - (tail - head) \in Nat
    BY <1>1, QueueAssumption DEF IInv, RingBounded, TypeOK
  <1>5. txOut' = take(out, Capacity - (tail - head))
    BY DEF send, write_chunk
  <1> HIDE DEF out, values
  <1>6. /\ txOut' \in Seq(Elem)
        /\ Len(txOut') <= Capacity - (tail - head)
        /\ \A j \in 1 .. Len(txOut') :
             txOut'[j] = IF tail + j - 1 < idx THEN Pad ELSE tail + j - 1
    <2>1. /\ txOut' \in Seq(Elem)
          /\ Len(txOut') <= Capacity - (tail - head) /\ Len(txOut') <= Len(out)
          /\ \A j \in 1 .. Len(txOut') : txOut'[j] = out[j]
      BY <1>3, <1>4, <1>5, TakePrefix
    <2> QED BY <1>3, <2>1
  <1>7. TypeOK'
    BY <1>6 DEF IInv, TypeOK, send, rx
  <1>8. RingAligned' /\ DeliveredAligned' /\ TakenExact' /\ WakePerBoundary'
    BY DEF IInv, RingAligned, DeliveredAligned, TakenExact, WakePerBoundary, send, rx
  <1>9. RingBounded'
    BY <1>1, <1>6, QueueAssumption DEF IInv, RingBounded, TypeOK, send, rx
  <1>10. CountersFollow'
    BY <1>6 DEF IInv, CountersFollow, send, rx
  <1>11. OutExact'
    <2>1. WrittenFrom(idx)'
      BY <1>6 DEF WrittenFrom, send
    <2> QED BY <1>1, <2>1 DEF OutExact
  <1> QED BY <1>7, <1>8, <1>9, <1>10, <1>11 DEF IInv

\* Publishing extends the ring by what was computed.
LEMMA FillIInv ==
  ASSUME IInv, fill_from_iter
  PROVE  IInv'
  <1> DEFINE n == Len(txOut)
  <1>1. /\ head \in Nat /\ tail \in Nat /\ txOut \in Seq(Elem) /\ n \in Nat
        /\ ring \in [head .. tail - 1 -> Elem]
        /\ tail' = tail + n /\ head' = head /\ txPc = "filling" /\ txPc' = "counting"
    BY DEF IInv, TypeOK, fill_from_iter
  <1>2. ring' = [p \in head .. tail + n - 1 |-> IF p < tail THEN ring[p] ELSE txOut[p - tail + 1]]
    BY DEF fill_from_iter
  <1>w. PICK from \in Nat : WrittenFrom(from)
    BY <1>1 DEF IInv, OutExact
  <1>3. ASSUME NEW p \in head .. tail + n - 1
        PROVE  ring'[p] \in Elem /\ ring'[p] \in {p, Pad}
    <2>1. CASE p < tail
      <3>1. p \in head .. tail - 1
        BY <1>1, <2>1
      <3> QED BY <1>1, <1>2, <2>1, <3>1 DEF IInv, RingAligned
    <2>2. CASE ~(p < tail)
      <3>1. p - tail + 1 \in 1 .. n
        BY <1>1, <2>2
      <3>2. txOut[p - tail + 1] \in {tail + (p - tail + 1) - 1, Pad}
        BY <1>w, <3>1 DEF WrittenFrom
      <3>3. tail + (p - tail + 1) - 1 = p
        BY <1>1
      <3>4. txOut[p - tail + 1] \in Elem
        BY <1>1, <3>1
      <3> QED BY <1>2, <2>2, <3>2, <3>3, <3>4
    <2> QED BY <2>1, <2>2
  <1>4. ring' \in [head' .. tail' - 1 -> Elem] /\ tail' \in Nat
    BY <1>1, <1>2, <1>3
  <1>5. TypeOK'
    BY <1>1, <1>4 DEF IInv, TypeOK, fill_from_iter, rx
  <1>6. RingAligned'
    BY <1>1, <1>3 DEF RingAligned
  <1>7. DeliveredAligned' /\ TakenExact' /\ WakePerBoundary'
    BY DEF IInv, DeliveredAligned, TakenExact, WakePerBoundary, fill_from_iter, rx
  <1>8. RingBounded'
    BY <1>1, QueueAssumption DEF IInv, TypeOK, RingBounded, fill_from_iter, rx
  <1>9. CountersFollow' /\ OutExact'
    BY <1>1 DEF IInv, CountersFollow, OutExact, fill_from_iter, rx
  <1> QED BY <1>5, <1>6, <1>7, <1>8, <1>9 DEF IInv

LEMMA SendAdvanceIInv ==
  ASSUME IInv, send_advance
  PROVE  IInv'
  <1>1. /\ txCount \in Nat /\ Len(txOut) \in Nat /\ txCount + Len(txOut) \in Nat
        /\ txWoken = txCount \div TxPeriod
    BY DEF IInv, TypeOK, WakePerBoundary
  <1>2. (txCount + Len(txOut)) \div TxPeriod \in Nat /\ txCount \div TxPeriod \in Nat
    BY <1>1, DivBounds, QueueAssumption
  <1>3. txWoken' = (txCount + Len(txOut)) \div TxPeriod
    BY <1>1, <1>2 DEF send_advance, advance_wakes, boundaries_crossed
  <1>4. txCount' = txCount + Len(txOut) /\ txOut' = <<>> /\ txPc' = "idle"
    BY DEF send_advance
  <1>5. TypeOK'
    BY <1>1, <1>2, <1>3, <1>4 DEF IInv, TypeOK, send_advance, rx
  <1>6. WakePerBoundary'
    BY <1>3, <1>4 DEF IInv, WakePerBoundary, send_advance, rx
  <1>7. RingAligned' /\ DeliveredAligned' /\ TakenExact' /\ OutExact'
    BY <1>4 DEF IInv, RingAligned, DeliveredAligned, TakenExact, OutExact, send_advance, rx
  <1>8. RingBounded' /\ CountersFollow'
    BY <1>1, <1>4 DEF IInv, TypeOK, RingBounded, CountersFollow, send_advance, rx
  <1> QED BY <1>5, <1>6, <1>7, <1>8 DEF IInv

LEMMA RecvIInv ==
  ASSUME IInv, NEW idx \in Nat, recv(idx)
  PROVE  IInv'
  <1>1. /\ idx \in Nat /\ head \in Nat /\ tail \in Nat /\ rxAvail \in Nat
        /\ head + rxAvail <= tail
    BY QueueAssumption DEF IInv, TypeOK, RingBounded
  <1>2. tail - head \in Nat
    BY <1>1
  <1>3. TypeOK'
    BY <1>1, <1>2 DEF IInv, TypeOK, recv, tx
  <1>4. RingBounded' /\ CountersFollow'
    BY <1>1 DEF IInv, RingBounded, CountersFollow, recv, tx
  <1>5. RingAligned' /\ WakePerBoundary' /\ OutExact'
    BY DEF IInv, RingAligned, WakePerBoundary, OutExact, WrittenFrom, recv, tx
  <1>6. DeliveredAligned' /\ TakenExact'
    BY DEF DeliveredAligned, TakenExact, recv
  <1> QED BY <1>3, <1>4, <1>5, <1>6 DEF IInv

\* The iterator recv returns: the ring's content from the index asked for, as far as
\* the chunk goes, with padding for what has been released.
LEMMA SourceFacts ==
  ASSUME IInv, rxPc = "reading"
  PROVE  /\ source \in Seq(Elem)
         /\ Len(source) = IF rxAvail > rxIdx - rxCount THEN rxAvail - (rxIdx - rxCount) ELSE 0
         /\ \A j \in 1 .. Len(source) :
              source[j] = IF rxIdx + j - 1 < head THEN Pad ELSE ring[rxIdx + j - 1]
         /\ \A j \in 1 .. Len(source) : source[j] \in {rxIdx + j - 1, Pad}
  <1> DEFINE dev == rxIdx - rxCount
             out == shift_iter(chunk, dev)
  <1>1. /\ head \in Nat /\ tail \in Nat /\ rxAvail \in Nat /\ rxIdx \in Nat
        /\ rxCount \in Nat /\ rxCount = head /\ dev \in Int
        /\ ring \in [head .. tail - 1 -> Elem] /\ head + rxAvail <= tail
    BY QueueAssumption DEF IInv, TypeOK, RingBounded, CountersFollow
  <1>2. \A k \in 1 .. rxAvail : head + k - 1 \in head .. tail - 1
    BY <1>1
  <1>3. /\ chunk \in Seq(Elem) /\ Len(chunk) = rxAvail
        /\ \A k \in 1 .. rxAvail : chunk[k] = ring[head + k - 1]
    BY <1>1, <1>2 DEF chunk
  <1>4. source = out
    BY DEF source
  <1>d. \A j \in Int : (j <= -dev <=> rxIdx + j - 1 < head) /\ head + (j + dev) - 1 = rxIdx + j - 1
    BY <1>1
  <1> HIDE DEF dev
  <1>5. /\ out \in Seq(Elem)
        /\ Len(out) = IF rxAvail > dev THEN rxAvail - dev ELSE 0
        /\ \A j \in 1 .. Len(out) :
             /\ j <= -dev => out[j] = Pad
             /\ j > -dev => j + dev \in 1 .. rxAvail /\ out[j] = chunk[j + dev]
    BY <1>1, <1>3, ShiftExact
  <1> HIDE DEF out
  <1>6. ASSUME NEW j \in 1 .. Len(out)
        PROVE  /\ out[j] = IF rxIdx + j - 1 < head THEN Pad ELSE ring[rxIdx + j - 1]
               /\ out[j] \in {rxIdx + j - 1, Pad}
    <2>1. j \in Int
      BY <1>5
    <2>2. CASE j <= -dev
      BY <1>5, <1>d, <2>1, <2>2
    <2>3. CASE ~(j <= -dev)
      <3>1. j + dev \in 1 .. rxAvail /\ out[j] = chunk[j + dev]
        BY <1>1, <1>5, <2>1, <2>3
      <3>2. out[j] = ring[head + (j + dev) - 1] /\ head + (j + dev) - 1 \in head .. tail - 1
        BY <1>2, <1>3, <3>1
      <3>3. out[j] = ring[rxIdx + j - 1] /\ rxIdx + j - 1 \in head .. tail - 1
        BY <1>d, <2>1, <3>2
      <3>4. ~(rxIdx + j - 1 < head)
        BY <1>d, <2>1, <2>3
      <3> QED BY <3>3, <3>4 DEF IInv, RingAligned
    <2> QED BY <2>2, <2>3
  <1> QED BY <1>4, <1>5, <1>6 DEF dev

\* What a recv hands out, and what it takes for that.
LEMMA RecvDropFacts ==
  ASSUME IInv, NEW n \in Nat, recv_drop(n)
  PROVE  /\ delivered' \in Seq(Elem)
         /\ \A j \in 1 .. Len(delivered') :
              delivered'[j] = IF rxIdx + j - 1 < head THEN Pad ELSE ring[rxIdx + j - 1]
         /\ \A j \in 1 .. Len(delivered') : delivered'[j] \in {rxIdx + j - 1, Pad}
         /\ delivered' = <<>> \/ rxIdx + Len(delivered') <= tail
         /\ rxTaken' \in 0 .. rxAvail
         /\ delivered' = <<>> => rxTaken' = 0 \/ head + rxTaken' <= rxIdx
         /\ delivered' # <<>> =>
              head + rxTaken' = IF rxIdx + Len(delivered') > head
                                THEN rxIdx + Len(delivered') ELSE head
  <1> DEFINE dev == rxIdx - rxCount
             g == Len(delivered')
  <1>1. /\ head \in Nat /\ tail \in Nat /\ rxAvail \in Nat /\ rxIdx \in Nat
        /\ rxCount \in Nat /\ rxCount = head /\ rxPc = "reading" /\ head + rxAvail <= tail
    BY DEF IInv, TypeOK, RingBounded, CountersFollow, recv_drop
  <1>2. /\ source \in Seq(Elem)
        /\ Len(source) = IF rxAvail > dev THEN rxAvail - dev ELSE 0
        /\ \A j \in 1 .. Len(source) :
             source[j] = IF rxIdx + j - 1 < head THEN Pad ELSE ring[rxIdx + j - 1]
        /\ \A j \in 1 .. Len(source) : source[j] \in {rxIdx + j - 1, Pad}
    BY <1>1, SourceFacts
  <1>3. delivered' = take(source, n) /\ rxTaken' = consumed(rxAvail, dev, n)
    BY DEF recv_drop
  <1>4. /\ delivered' \in Seq(Elem) /\ g = Least(n, Len(source)) /\ g <= Len(source)
        /\ \A j \in 1 .. g : delivered'[j] = source[j]
    BY <1>2, <1>3, TakePrefix
  <1>5. g \in Nat /\ Len(source) \in Nat /\ dev \in Int /\ rxIdx = head + dev
    BY <1>1, <1>2, <1>4
  <1>6. (delivered' = <<>>) <=> (g = 0)
    BY <1>4
  <1> HIDE DEF g, dev
  <1>7. \A j \in 1 .. g : j \in 1 .. Len(source)
    BY <1>4, <1>5
  <1>8. /\ rxTaken' \in 0 .. rxAvail
        /\ g # 0 => rxTaken' = IF dev + g > 0 THEN dev + g ELSE 0
        /\ g = 0 => rxTaken' = 0 \/ rxTaken' <= dev
    BY <1>1, <1>2, <1>3, <1>4, <1>5, ConsumedExact
  <1>9. g # 0 => rxIdx + g <= tail
    <2> SUFFICES ASSUME g # 0 PROVE rxIdx + g <= tail
      OBVIOUS
    <2>1. Len(source) = rxAvail - dev
      BY <1>2, <1>4, <1>5
    <2> QED BY <1>1, <1>4, <1>5, <2>1
  <1>10. /\ g = 0 => rxTaken' = 0 \/ head + rxTaken' <= rxIdx
         /\ g # 0 => head + rxTaken' = IF rxIdx + g > head THEN rxIdx + g ELSE head
    <2> DEFINE t == rxTaken'
    <2>1. t \in Nat
      BY <1>1, <1>8
    <2>2. /\ g # 0 => t = IF dev + g > 0 THEN dev + g ELSE 0
          /\ g = 0 => t = 0 \/ t <= dev
      BY <1>8
    <2> HIDE DEF t
    <2>3. /\ g = 0 => t = 0 \/ head + t <= rxIdx
          /\ g # 0 => head + t = IF rxIdx + g > head THEN rxIdx + g ELSE head
      BY <1>1, <1>5, <2>1, <2>2
    <2> QED BY <2>3 DEF t
  <1> QED BY <1>2, <1>4, <1>6, <1>7, <1>8, <1>9, <1>10 DEF g

LEMMA RecvDropIInv ==
  ASSUME IInv, NEW n \in Nat, recv_drop(n)
  PROVE  IInv'
  <1>1. /\ rxCount \in Nat /\ rxAvail \in Nat /\ rxIdx \in Nat /\ head \in Nat
        /\ rxCount = head /\ rxWoken = rxCount \div RxPeriod
    BY DEF IInv, TypeOK, CountersFollow, WakePerBoundary, recv_drop
  <1>2. rxTaken' \in Nat /\ rxTaken' <= rxAvail /\ rxCount + rxTaken' \in Nat
    BY <1>1, RecvDropFacts
  <1>3. (rxCount + rxTaken') \div RxPeriod \in Nat /\ rxCount \div RxPeriod \in Nat
    BY <1>1, <1>2, DivBounds, QueueAssumption
  <1>4. rxWoken' = (rxCount + rxTaken') \div RxPeriod
    BY <1>1, <1>3 DEF recv_drop, advance_wakes, boundaries_crossed
  <1>5. rxCount' = rxCount + rxTaken' /\ rxPc' = "releasing" /\ rxIdx' = rxIdx /\ rxAvail' = rxAvail
    BY DEF recv_drop
  <1>6. TypeOK'
    BY <1>2, <1>3, <1>4, <1>5, RecvDropFacts DEF IInv, TypeOK, recv_drop, tx
  <1>7. DeliveredAligned'
    BY <1>5, RecvDropFacts DEF DeliveredAligned
  <1>8. TakenExact'
    BY <1>5, RecvDropFacts DEF TakenExact, recv_drop
  <1>9. WakePerBoundary'
    BY <1>4, <1>5 DEF IInv, WakePerBoundary, recv_drop, tx
  <1>10. CountersFollow'
    BY <1>1, <1>2, <1>5 DEF IInv, CountersFollow, recv_drop, tx
  <1>11. RingAligned' /\ RingBounded' /\ OutExact'
    BY DEF IInv, RingAligned, RingBounded, OutExact, WrittenFrom, recv_drop, tx
  <1> QED BY <1>6, <1>7, <1>8, <1>9, <1>10, <1>11 DEF IInv

LEMMA RecvReleaseIInv ==
  ASSUME IInv, recv_release
  PROVE  IInv'
  <1>1. /\ head \in Nat /\ tail \in Nat /\ rxTaken \in Nat /\ rxAvail \in Nat /\ rxCount \in Nat
        /\ rxCount = head + rxTaken /\ rxTaken <= rxAvail /\ head + rxAvail <= tail
        /\ ring \in [head .. tail - 1 -> Elem]
    BY DEF IInv, TypeOK, CountersFollow, RingBounded, recv_release
  <1>2. /\ head' = head + rxTaken /\ tail' = tail /\ rxPc' = "idle" /\ rxTaken' = 0 /\ rxAvail' = 0
        /\ ring' = [p \in head + rxTaken .. tail - 1 |-> ring[p]]
    BY DEF recv_release
  <1>3. \A p \in head' .. tail' - 1 : p \in head .. tail - 1 /\ ring'[p] = ring[p]
    BY <1>1, <1>2
  <1>4. ring' \in [head' .. tail' - 1 -> Elem]
    BY <1>1, <1>2, <1>3
  <1>5. TypeOK'
    BY <1>1, <1>2, <1>4 DEF IInv, TypeOK, recv_release, tx
  <1>6. RingAligned'
    BY <1>3 DEF IInv, RingAligned
  <1>7. RingBounded'
    BY <1>1, <1>2, QueueAssumption DEF IInv, TypeOK, RingBounded, recv_release, tx
  <1>8. CountersFollow'
    BY <1>1, <1>2 DEF IInv, CountersFollow, recv_release, tx
  <1>9. DeliveredAligned' /\ TakenExact' /\ WakePerBoundary' /\ OutExact'
    BY DEF IInv, DeliveredAligned, TakenExact, WakePerBoundary, OutExact, WrittenFrom, recv_release, tx
  <1> QED BY <1>5, <1>6, <1>7, <1>8, <1>9 DEF IInv

LEMMA NextIInv == IInv /\ [Next]_vars => IInv'
  <1> SUFFICES ASSUME IInv, [Next]_vars PROVE IInv'
    OBVIOUS
  <1>1. CASE UNCHANGED vars
    BY <1>1 DEF IInv, TypeOK, RingAligned, DeliveredAligned, RingBounded, WakePerBoundary,
       CountersFollow, OutExact, WrittenFrom, TakenExact, vars, tx, rx
  <1>2. 0 .. MaxIdx \subseteq Nat /\ 0 .. MaxLen \subseteq Nat
    BY QueueAssumption
  <1> QED BY <1>1, <1>2, SendIInv, FillIInv, SendAdvanceIInv, RecvIInv, RecvDropIInv,
             RecvReleaseIInv DEF Next, TxCaller, RxCaller

LEMMA SpecIInv == Spec => []IInv
  BY InitIInv, NextIInv, PTL DEF Spec

\* The sender's counter is not ahead of what it has published.
LEMMA TxWakes == IInv => TxWakeHasData
  <1> SUFFICES ASSUME IInv PROVE TxWakeHasData
    OBVIOUS
  <1>1. txCount \in Nat /\ tail \in Nat /\ txCount <= tail /\ txWoken = txCount \div TxPeriod
    BY DEF IInv, TypeOK, CountersFollow, WakePerBoundary
  <1>2. (txCount \div TxPeriod) \in Nat /\ (txCount \div TxPeriod) * TxPeriod <= txCount
    BY <1>1, DivBounds, QueueAssumption
  <1>3. (txCount \div TxPeriod) * TxPeriod \in Nat
    BY <1>2, QueueAssumption
  <1> QED BY <1>1, <1>2, <1>3 DEF TxWakeHasData

-----------------------------------------------------------------------------
(* Theorems *)

\* Type correctness of the queue: in particular exactly the published and not yet
\* released slots are occupied.
THEOREM TypeCorrect == Spec => []TypeOK
  <1>1. IInv => TypeOK
    BY DEF IInv
  <1> QED BY <1>1, SpecIInv, PTL

\* Samples are where their index says in the ring, for any capacity and any indices
\* the two callers use.
THEOREM Alignment == Spec => []RingAligned
  <1>1. IInv => RingAligned
    BY DEF IInv
  <1> QED BY <1>1, SpecIInv, PTL

\* What recv hands out is what its caller asked for, or padding.
THEOREM Delivery == Spec => []DeliveredAligned
  <1>1. IInv => DeliveredAligned
    BY DEF IInv
  <1> QED BY <1>1, SpecIInv, PTL

\* Counting slots once per call is enough: the ring is never overrun.
THEOREM NoOverrun == Spec => []RingBounded
  <1>1. IInv => RingBounded
    BY DEF IInv
  <1> QED BY <1>1, SpecIInv, PTL

\* Every boundary that a counter crosses is announced, once.
THEOREM Wakes == Spec => []WakePerBoundary
  <1>1. IInv => WakePerBoundary
    BY DEF IInv
  <1> QED BY <1>1, SpecIInv, PTL

\* The sender announces a period only when its data is there.
THEOREM WakesFindData == Spec => []TxWakeHasData
  BY TxWakes, SpecIInv, PTL

\* The receiver announces slots too early, but by one call at most: in every state but
\* the one between the counter's step and the release, they are there.
THEOREM EarlyByOneCall == Spec => [](rxPc # "releasing" => RxWakeHasSpace)
  <1>1. ASSUME IInv, rxPc # "releasing" PROVE RxWakeHasSpace
    <2>1. rxCount \in Nat /\ rxCount = head /\ rxWoken = rxCount \div RxPeriod
      BY <1>1 DEF IInv, TypeOK, CountersFollow, WakePerBoundary
    <2>2. (rxCount \div RxPeriod) * RxPeriod <= rxCount
      BY <2>1, DivBounds, QueueAssumption
    <2> QED BY <2>1, <2>2 DEF RxWakeHasSpace
  <1>2. IInv => (rxPc # "releasing" => RxWakeHasSpace)
    BY <1>1
  <1> QED BY <1>2, SpecIInv, PTL

-----------------------------------------------------------------------------
(* The stream *)

\* Publishing a chunk extends the window.  Where its samples begin is moved to the
\* chunk's ends if it lies outside.
LEMMA StreamWrites ==
  ASSUME IInv, fill_from_iter
  PROVE  Stream!Write
  <1> DEFINE n == Len(txOut)
  <1>1. /\ head \in Nat /\ tail \in Nat /\ n \in Nat /\ head' = head /\ tail' = tail + n
        /\ tail + n - head <= Capacity /\ txPc = "filling" /\ UNCHANGED <<rxIdx, delivered>>
    BY DEF IInv, TypeOK, RingBounded, fill_from_iter, rx
  <1>2. PICK from \in Nat : WrittenFrom(from)
    BY <1>1 DEF IInv, OutExact
  <1> DEFINE f == IF from < tail THEN tail ELSE IF from > tail + n THEN tail + n ELSE from
  <1>3. f \in tail .. tail'
    BY <1>1
  <1>4. ASSUME NEW p \in head .. tail + n - 1
        PROVE  (IF p < tail THEN ring[p] ELSE txOut[p - tail + 1])
                 = (IF p < tail THEN ring[p] ELSE IF p < f THEN Pad ELSE p)
    <2>1. CASE p < tail
      BY <2>1
    <2>2. CASE ~(p < tail)
      <3>1. p - tail + 1 \in 1 .. n /\ tail + (p - tail + 1) - 1 = p
        BY <1>1, <2>2
      <3>2. txOut[p - tail + 1] = IF tail + (p - tail + 1) - 1 < from
                                  THEN Pad ELSE tail + (p - tail + 1) - 1
        BY <1>2, <3>1 DEF WrittenFrom
      <3>3. txOut[p - tail + 1] = IF p < from THEN Pad ELSE p
        BY <3>1, <3>2
      <3>4. p < from <=> p < f
        BY <1>1, <2>2
      <3> HIDE DEF f
      <3> QED BY <2>2, <3>3, <3>4
    <2> QED BY <2>1, <2>2
  <1>5. ring' = [p \in head .. tail + n - 1 |-> IF p < tail THEN ring[p] ELSE txOut[p - tail + 1]]
    BY DEF fill_from_iter
  <1> HIDE DEF f, n
  <1>6. ring' = [p \in head .. tail' - 1 |->
                   IF p < tail THEN ring[p] ELSE IF p < f THEN Pad ELSE p]
    BY <1>1, <1>4, <1>5
  <1>7. tail' \in Nat /\ tail <= tail' /\ tail' - head <= Capacity
    BY <1>1
  <1> QED BY <1>1, <1>3, <1>6, <1>7 DEF Stream!Write

\* A recv asks,
LEMMA StreamAsks ==
  ASSUME NEW idx \in Nat, recv(idx)
  PROVE  Stream!Ask
  BY DEF recv, Stream!Ask

\* is given the content from its index on,
LEMMA StreamGives ==
  ASSUME IInv, NEW n \in Nat, recv_drop(n)
  PROVE  Stream!Give
  <1>1. /\ delivered' \in Seq(Elem)
        /\ \A j \in 1 .. Len(delivered') :
             delivered'[j] = IF rxIdx + j - 1 < head THEN Pad ELSE ring[rxIdx + j - 1]
        /\ delivered' = <<>> \/ rxIdx + Len(delivered') <= tail
    BY RecvDropFacts
  <1>2. delivered' = [j \in 1 .. Len(delivered') |-> delivered'[j]]
    BY <1>1
  <1>3. delivered' = [j \in 1 .. Len(delivered') |->
                        IF rxIdx + j - 1 < head THEN Pad ELSE ring[rxIdx + j - 1]]
    BY <1>1, <1>2
  <1>4. UNCHANGED <<ring, head, tail, rxIdx>>
    BY DEF recv_drop
  <1> QED BY <1>1, <1>3, <1>4 DEF Stream!Give

\* and releases it.
LEMMA StreamReleases ==
  ASSUME IInv, recv_release
  PROVE  Stream!Release
  <1>1. /\ head \in Nat /\ tail \in Nat /\ rxTaken \in Nat /\ rxAvail \in Nat /\ rxIdx \in Nat
        /\ rxTaken <= rxAvail /\ head + rxAvail <= tail /\ rxPc = "releasing"
    BY DEF IInv, TypeOK, CountersFollow, RingBounded, recv_release
  <1>2. /\ head' = head + rxTaken /\ ring' = [p \in head' .. tail - 1 |-> ring[p]]
        /\ UNCHANGED <<tail, rxIdx, delivered>>
    BY DEF recv_release
  <1>3. head' \in head .. tail
    BY <1>1, <1>2
  <1>4. CASE delivered = <<>>
    <2>1. rxTaken = 0 \/ head + rxTaken <= rxIdx
      BY <1>1, <1>4 DEF IInv, TakenExact
    <2>2. head' > head => head' <= rxIdx
      BY <1>1, <1>2, <2>1
    <2> QED BY <1>2, <1>3, <1>4, <2>2 DEF Stream!Release
  <1>5. CASE delivered # <<>>
    <2>1. head' = IF rxIdx + Len(delivered) > head THEN rxIdx + Len(delivered) ELSE head
      BY <1>1, <1>2, <1>5 DEF IInv, TakenExact
    <2> QED BY <1>2, <1>3, <1>5, <2>1 DEF Stream!Release
  <1> QED BY <1>4, <1>5

\* The steps of a call that the window does not show.
LEMMA StreamStutters ==
  ASSUME UNCHANGED vars \/ send_advance \/ \E idx, values : send(idx, values)
  PROVE  UNCHANGED Stream!stream
  BY DEF Stream!stream, vars, rx, send, send_advance

LEMMA StreamInit == Init => Stream!Init
  BY DEF Init, Stream!Init

\* The ring with its counters and iterators, between two threads that run at any
\* time, implements the stream with a window, for any capacity and any indices.
THEOREM StreamKept == Spec => StreamContract
  <1>1. IInv /\ [Next]_vars => [Stream!Next]_(Stream!stream)
    <2> SUFFICES ASSUME IInv, [Next]_vars PROVE [Stream!Next]_(Stream!stream)
      OBVIOUS
    <2>1. CASE UNCHANGED vars \/ send_advance \/ TxCaller
      BY <2>1, StreamStutters DEF TxCaller
    <2>2. CASE fill_from_iter
      BY <2>2, StreamWrites DEF Stream!Next
    <2>3. CASE RxCaller
      <3>1. 0 .. MaxIdx \subseteq Nat /\ 0 .. MaxLen \subseteq Nat
        BY QueueAssumption
      <3> QED BY <2>3, <3>1, StreamAsks, StreamGives, StreamReleases DEF Stream!Next, RxCaller
    <2> QED BY <2>1, <2>2, <2>3 DEF Next
  <1> QED BY <1>1, StreamInit, SpecIInv, PTL DEF Spec, StreamContract, Stream!Spec

=============================================================================

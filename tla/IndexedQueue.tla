---------------------------- MODULE IndexedQueue ----------------------------
(***************************************************************************)
(* The indexed ring buffer adapters of syfala_utils::queue: an IndexedTx   *)
(* and an IndexedRx at the two ends of one rtrb ring, each with a          *)
(* PeriodicCounter, each driven by a thread of its own.                    *)
(*                                                                         *)
(* A sample is represented by the logical index it was made for, so that   *)
(* being at the right place is being equal to one's place.  Slots are      *)
(* numbered by the order in which they are written, and ring maps the      *)
(* numbers of the occupied ones to what they hold.                         *)
(*                                                                         *)
(* The ring is external: slots() is a lower bound that only the caller can *)
(* use up, fill_from_iter publishes what it wrote before it returns, and   *)
(* the iterator of a read chunk releases what it consumed when dropped.    *)
(***************************************************************************)
EXTENDS Integers, Sequences

CONSTANTS
  Capacity,   \* slots of the ring
  TxPeriod,   \* period of the sender's counter
  RxPeriod,   \* period of the receiver's counter
  MaxIdx,     \* bound: the last index a caller uses
  MaxLen      \* bound: elements a caller sends, or asks for, in one call

ASSUME QueueAssumption ==
  /\ Capacity \in Nat \ {0}
  /\ TxPeriod \in Nat \ {0}
  /\ RxPeriod \in Nat \ {0}
  /\ MaxIdx \in Nat
  /\ MaxLen \in Nat

VARIABLES
  ring,       \* occupied slots
  head,       \* slots released by the consumer
  tail,       \* slots published by the producer
  txPc,       \* where the sender's thread is
  txOut,      \* elements the send in progress puts into its write chunk
  txCount,    \* the sender's counter
  txWoken,    \* wake events the sender's counter has announced
  rxPc,       \* where the receiver's thread is
  rxIdx,      \* index asked for by the last recv
  rxAvail,    \* slots in the read chunk of the recv in progress
  rxTaken,    \* slots of the chunk its iterator has consumed
  rxCount,    \* the receiver's counter
  rxWoken,    \* wake events the receiver's counter has announced
  delivered   \* elements the last recv handed to its caller

tx == <<txPc, txOut, txCount, txWoken>>
rx == <<rxPc, rxIdx, rxAvail, rxTaken, rxCount, rxWoken, delivered>>
vars == <<ring, head, tail, tx, rx>>

Pad == -1
Elem == Nat \cup {Pad}

TypeOK ==
  /\ head \in Nat /\ tail \in Nat
  /\ ring \in [head .. tail - 1 -> Elem]
  /\ txPc \in {"idle", "filling", "counting"}
  /\ txOut \in Seq(Elem)
  /\ txCount \in Nat /\ txWoken \in Nat
  /\ rxPc \in {"idle", "reading", "releasing"}
  /\ rxIdx \in Nat /\ rxAvail \in Nat /\ rxTaken \in Nat
  /\ rxCount \in Nat /\ rxWoken \in Nat
  /\ delivered \in Seq(Elem)

Init ==
  /\ ring = [p \in 0 .. -1 |-> Pad] /\ head = 0 /\ tail = 0
  /\ txPc = "idle" /\ txOut = <<>> /\ txCount = 0 /\ txWoken = 0
  /\ rxPc = "idle" /\ rxIdx = 0 /\ rxAvail = 0 /\ rxTaken = 0
  /\ rxCount = 0 /\ rxWoken = 0 /\ delivered = <<>>

-----------------------------------------------------------------------------
(* Iterators and counters *)

Least(m, n) == IF m <= n THEN m ELSE n

\* Mutant: the element at the boundary is replaced by padding as well.
shift_iter_pads_more(it, deviation) ==
  LET padding  == IF deviation < 0 THEN -deviation ELSE 0
      skipping == IF deviation < 0 THEN 0 ELSE deviation
      rest     == IF Len(it) > skipping THEN Len(it) - skipping ELSE 0
  IN [j \in 1 .. padding + rest |->
        IF j <= padding + 1 THEN Pad ELSE it[j - padding + skipping]]

shift_iter(it, deviation) ==
  LET padding  == IF deviation < 0 THEN -deviation ELSE 0
      skipping == IF deviation < 0 THEN 0 ELSE deviation
      rest     == IF Len(it) > skipping THEN Len(it) - skipping ELSE 0
  IN [j \in 1 .. padding + rest |->
        IF j <= padding THEN Pad ELSE it[j - padding + skipping]]

\* The first n elements of an iterator, or all if it has fewer.
take(it, n) == [j \in 1 .. Least(n, Len(it)) |-> it[j]]

\* How many elements of an iterator of length len are consumed when n elements
\* are asked of shift_iter: Chain starts on it after the padding, and Skip
\* drops elements with the first one it is asked for.
consumed(len, deviation, n) ==
  LET padding  == IF deviation < 0 THEN -deviation ELSE 0
      skipping == IF deviation < 0 THEN 0 ELSE deviation
  IN IF n <= padding THEN 0 ELSE Least(len, skipping + n - padding)

\* Mutant: a period that has begun counts as crossed.
boundaries_begun(count, period) == (count + period - 1) \div period

boundaries_crossed(count, period) == count \div period

\* Mutant: one wake per call, however many boundaries it crosses.
advance_wakes_once(count, n, period) ==
  IF boundaries_crossed(count + n, period) > boundaries_crossed(count, period) THEN 1 ELSE 0

\* PeriodicCounter::advance: the wakes it gives when count grows by n.
advance_wakes(count, n, period) ==
  boundaries_crossed(count + n, period) - boundaries_crossed(count, period)

-----------------------------------------------------------------------------
(* IndexedTx::send *)

\* Mutant: the chunk is not limited to the free slots.
write_chunk_all(out) == out

\* producer_get_all and fill_from_iter: what of the iterator fits.
write_chunk(out) == take(out, Capacity - (tail - head))

\* Mutant: the deviation has the sign it has in recv.
send_opposite(idx, values) ==
  /\ txPc = "idle"
  /\ txPc' = "filling"
  /\ txOut' = write_chunk(shift_iter(values, idx - txCount))
  /\ UNCHANGED <<ring, head, tail, txCount, txWoken, rx>>

\* The deviation is computed and the free slots are read.
send(idx, values) ==
  /\ txPc = "idle"
  /\ txPc' = "filling"
  /\ txOut' = write_chunk(shift_iter(values, txCount - idx))
  /\ UNCHANGED <<ring, head, tail, txCount, txWoken, rx>>

\* The chunk is written and published.
fill_from_iter ==
  /\ txPc = "filling"
  /\ txPc' = "counting"
  /\ tail' = tail + Len(txOut)
  /\ ring' = [p \in head .. tail + Len(txOut) - 1 |->
                IF p < tail THEN ring[p] ELSE txOut[p - tail + 1]]
  /\ UNCHANGED <<head, txOut, txCount, txWoken, rx>>

\* The counter follows, and wakes whoever waits for the data.
send_advance ==
  /\ txPc = "counting"
  /\ txPc' = "idle"
  /\ txOut' = <<>>
  /\ txCount' = txCount + Len(txOut)
  /\ txWoken' = txWoken + advance_wakes(txCount, Len(txOut), TxPeriod)
  /\ UNCHANGED <<ring, head, tail, rx>>

-----------------------------------------------------------------------------
(* IndexedRx::recv *)

\* The read chunk covers what is available now.
recv(idx) ==
  /\ rxPc = "idle"
  /\ rxPc' = "reading"
  /\ rxIdx' = idx
  /\ rxAvail' = tail - head
  /\ delivered' = <<>>
  /\ UNCHANGED <<ring, head, tail, tx, rxTaken, rxCount, rxWoken>>

chunk == [j \in 1 .. rxAvail |-> ring[head + j - 1]]

\* The iterator recv returns.
source == shift_iter(chunk, rxIdx - rxCount)

\* Mutant: the counter leaves out the elements that were skipped.
recv_drop_unskipped(n) ==
  LET deviation == rxIdx - rxCount
      counted   == IF deviation < 0 THEN rxTaken' ELSE Len(delivered')
  IN /\ rxPc = "reading"
     /\ rxPc' = "releasing"
     /\ delivered' = take(source, n)
     /\ rxTaken' = consumed(rxAvail, deviation, n)
     /\ rxCount' = rxCount + counted
     /\ rxWoken' = rxWoken + advance_wakes(rxCount, counted, RxPeriod)
     /\ UNCHANGED <<ring, head, tail, tx, rxIdx, rxAvail>>

\* The caller takes up to n elements and drops the iterator: drop of
\* ReadChunksIterCounter advances the counter, which may wake ...
recv_drop(n) ==
  LET deviation == rxIdx - rxCount
  IN /\ rxPc = "reading"
     /\ rxPc' = "releasing"
     /\ delivered' = take(source, n)
     /\ rxTaken' = consumed(rxAvail, deviation, n)
     /\ rxCount' = rxCount + rxTaken'
     /\ rxWoken' = rxWoken + advance_wakes(rxCount, rxTaken', RxPeriod)
     /\ UNCHANGED <<ring, head, tail, tx, rxIdx, rxAvail>>

\* ... and only then is its field `iter` dropped, which releases the slots.
recv_release ==
  /\ rxPc = "releasing"
  /\ rxPc' = "idle"
  /\ head' = head + rxTaken
  /\ ring' = [p \in head + rxTaken .. tail - 1 |-> ring[p]]
  /\ rxTaken' = 0 /\ rxAvail' = 0
  /\ UNCHANGED <<tail, tx, rxIdx, rxCount, rxWoken, delivered>>

-----------------------------------------------------------------------------
(* Callers that use any indices and lengths *)

\* The samples of len indices from idx on.
samples(idx, len) == [j \in 1 .. len |-> idx + j - 1]

TxCaller == \E idx \in 0 .. MaxIdx, len \in 0 .. MaxLen : send(idx, samples(idx, len))

RxCaller ==
  \/ \E idx \in 0 .. MaxIdx : recv(idx)
  \/ \E n \in 0 .. MaxLen : recv_drop(n)
  \/ recv_release

Next == TxCaller \/ fill_from_iter \/ send_advance \/ RxCaller

Spec == Init /\ [][Next]_vars

-----------------------------------------------------------------------------
\* Whatever indices the two callers jump to, an occupied slot holds the sample
\* of its own logical index or padding: a full ring, a repeated or a skipped
\* cycle never shifts the stream.
RingAligned == \A p \in head .. tail - 1 : ring[p] \in {p, Pad}

\* The j-th element recv hands out is the sample for the index asked for plus j,
\* or padding, although the counters and the ring move in separate steps.
DeliveredAligned ==
  \A j \in 1 .. Len(delivered) : delivered[j] \in {rxIdx + j - 1, Pad}

\* The ring is never overrun: not by a write chunk obtained from a stale count of
\* free slots, nor is a slot released that was not published.
RingBounded ==
  /\ tail + (IF txPc = "filling" THEN Len(txOut) ELSE 0) - head <= Capacity
  /\ head + rxAvail <= tail

\* To its two callers the ring is a window on a stream of numbered samples: what a
\* send publishes is its samples after padding for the gap before them, what a recv
\* hands out is the window's content from the index asked for, with padding only for
\* what is gone, and exactly what was handed out, or is before it, is released.
Stream == INSTANCE IndexedStream WITH
  slots <- ring, released <- head, published <- tail, asked <- rxIdx, given <- delivered

StreamContract == Stream!Spec

\* Each counter has announced every boundary it has crossed, once, however many
\* boundaries one call crosses.
WakePerBoundary ==
  /\ txWoken = txCount \div TxPeriod
  /\ rxWoken = rxCount \div RxPeriod

\* Each wake of the sender's counter comes after a whole period of elements has
\* been published, so that a thread it wakes finds its work.
TxWakeHasData == txWoken * TxPeriod <= tail

\* The same for the receiver's counter and the slots it frees ("each wake
\* corresponds to one unit of newly available work").  It fails: the counter
\* advances, and wakes, before the slots are released.
RxWakeHasSpace == rxWoken * RxPeriod <= head

=============================================================================

---------------------------- MODULE JackHandler ----------------------------
(***************************************************************************)
(* The JACK process handler (syfala_jack) and its Interleaver, at the ends *)
(* of an indexed queue: a handler with one JackTx fills the ring from its  *)
(* input ports, a handler with one JackRx empties it into its output       *)
(* ports.  Each is called back by the thread of its own JACK client.  At   *)
(* an end without a handler is a caller that uses any indices.             *)
(*                                                                         *)
(* JACK is external.  last_frame_time may be anything on every call ("can  *)
(* decrease or jump randomly"), n_frames may differ from call to call      *)
(* (buffer_size is ignored), an input buffer holds the samples of its      *)
(* cycle, and an output buffer whatever was in it.                         *)
(*                                                                         *)
(* frame_idx and the port count are 32 bits wide: their product fits into  *)
(* the u64 it is computed in, and only strict_sub can panic.               *)
(***************************************************************************)
EXTENDS IndexedQueue

CONSTANTS
  TxPorts,    \* input ports of the capturing handler
  RxPorts,    \* output ports of the playing handler
  MaxTime,    \* bound: the last frame time JACK reports
  MaxFrames   \* bound: frames of one cycle

\* Interleaver::new returns None without ports.
ASSUME JackAssumption ==
  /\ TxPorts \in Nat \ {0}
  /\ RxPorts \in Nat \ {0}
  /\ MaxTime \in Nat
  /\ MaxFrames \in Nat

VARIABLES
  handlers,   \* the ends of the queue that have a JACK handler
  txStart,    \* start_frame_idx of the capturing handler: a OnceCell
  rxStart,    \* start_frame_idx of the playing handler
  panicked,   \* the handlers whose process has panicked
  txIdx,      \* spl_idx of the capture cycle
  txIn,       \* input buffers of the cycle, by port and offset
  txIter,     \* its Interleaved iterator
  txValues,   \* what has been pulled from it
  rxFrame,    \* frame_idx of the playback cycle
  rxOut,      \* output buffers of the cycle, by port and offset
  rxIter,     \* its Interleaved iterator
  rxPulled    \* how many output samples it has yielded

capture == <<txStart, txIdx, txIn, txIter, txValues>>
playback == <<rxStart, rxFrame, rxOut, rxIter, rxPulled>>
jackVars == <<vars, capture, playback, panicked, handlers>>
Ends == {"tx", "rx"}

\* What JACK left in an output buffer.
Stale == -2

Buffer(ports, n) == (0 .. ports - 1) \X (0 .. n - 1)
NoBuffer == [x \in {} |-> Stale]

-----------------------------------------------------------------------------
(* Interleaver *)

\* Interleaver::interleave fetches the pointers of the cycle's buffers; a pointer
\* is kept as its offset in its buffer.
interleave(ports, n_frames) ==
  [remaining_frames |-> n_frames, current_index |-> 0, ptrs |-> [p \in 0 .. ports - 1 |-> 0]]

\* The reference next returns: port and offset.
item(it) == <<it.current_index, it.ptrs[it.current_index]>>

\* Mutant: the pointer that moves is that of the following port.
next_moves_other(it, ports) ==
  LET idx  == it.current_index
      last == idx + 1 = ports
      new  == IF last THEN 0 ELSE idx + 1
  IN [remaining_frames |-> IF last THEN it.remaining_frames - 1 ELSE it.remaining_frames,
      current_index    |-> new,
      ptrs             |-> [it.ptrs EXCEPT ![new] = @ + 1]]

\* Interleaved::next, when remaining_frames is not 0: the iterator afterwards.
next(it, ports) ==
  LET idx  == it.current_index
      last == idx + 1 = ports
  IN [remaining_frames |-> IF last THEN it.remaining_frames - 1 ELSE it.remaining_frames,
      current_index    |-> IF last THEN 0 ELSE idx + 1,
      ptrs             |-> [it.ptrs EXCEPT ![idx] = @ + 1]]

-----------------------------------------------------------------------------
JackInit ==
  /\ Init
  /\ handlers \in SUBSET Ends
  /\ txStart = {} /\ rxStart = {} /\ panicked = {}
  /\ txIdx = 0 /\ txIn = NoBuffer /\ txIter = interleave(TxPorts, 0) /\ txValues = <<>>
  /\ rxFrame = 0 /\ rxOut = NoBuffer /\ rxIter = interleave(RxPorts, 0) /\ rxPulled = 0

get_or_init(cell, frame) == IF cell = {} THEN {frame} ELSE cell

spl_idx(frame_idx, ports) == frame_idx * ports

\* Mutant: the subtraction is not checked.
process_tx_unchecked(last_frame_time, n_frames) ==
  /\ "tx" \notin panicked
  /\ txPc = "idle" /\ txIn = NoBuffer
  /\ txStart' = get_or_init(txStart, last_frame_time)
  /\ \E first \in txStart' :
       LET frame_idx == last_frame_time - first
       IN /\ txIdx' = spl_idx(frame_idx, TxPorts)
          /\ txIn' = [x \in Buffer(TxPorts, n_frames) |->
                        (frame_idx + x[2]) * TxPorts + x[1]]
  /\ txIter' = interleave(TxPorts, n_frames)
  /\ txValues' = <<>>
  /\ UNCHANGED <<vars, playback, panicked>>

\* process of the capturing handler, up to tx.send: the first frame time is kept,
\* one below it makes strict_sub panic.
process_tx(last_frame_time, n_frames) ==
  /\ "tx" \notin panicked
  /\ txPc = "idle" /\ txIn = NoBuffer
  /\ txStart' = get_or_init(txStart, last_frame_time)
  /\ \E first \in txStart' :
       LET frame_idx == last_frame_time - first
       IN IF frame_idx < 0
          THEN panicked' = panicked \cup {"tx"} /\ UNCHANGED <<txIdx, txIn, txIter, txValues>>
          ELSE /\ txIdx' = spl_idx(frame_idx, TxPorts)
               /\ txIn' = [x \in Buffer(TxPorts, n_frames) |->
                             (frame_idx + x[2]) * TxPorts + x[1]]
               /\ txIter' = interleave(TxPorts, n_frames)
               /\ txValues' = <<>>
               /\ UNCHANGED panicked
  /\ UNCHANGED <<vars, playback>>

\* fill_from_iter pulls a sample.  Nobody else sees the iterator, so that it does
\* not matter that this comes before send has read the free slots.
pull ==
  /\ txIter.remaining_frames # 0
  /\ txValues' = Append(txValues, txIn[item(txIter)])
  /\ txIter' = next(txIter, TxPorts)
  /\ UNCHANGED <<vars, playback, panicked, txStart, txIdx, txIn>>

process_send ==
  /\ txIn # NoBuffer /\ txIter.remaining_frames = 0
  /\ send(txIdx, txValues)
  /\ txIn' = NoBuffer /\ txValues' = <<>>
  /\ UNCHANGED <<playback, panicked, txStart, txIdx, txIter>>

\* process of the playing handler, up to and including rx.recv.
process_rx(last_frame_time, n_frames) ==
  /\ "rx" \notin panicked
  /\ rxStart' = get_or_init(rxStart, last_frame_time)
  /\ \E first \in rxStart' :
       LET frame_idx == last_frame_time - first
       IN IF frame_idx < 0
          THEN /\ rxPc = "idle"
               /\ panicked' = panicked \cup {"rx"}
               /\ UNCHANGED <<vars, rxFrame, rxOut, rxIter, rxPulled>>
          ELSE /\ recv(spl_idx(frame_idx, RxPorts))
               /\ rxFrame' = frame_idx
               /\ rxOut' = [x \in Buffer(RxPorts, n_frames) |-> Stale]
               /\ rxIter' = interleave(RxPorts, n_frames)
               /\ rxPulled' = 0
               /\ UNCHANGED panicked
  /\ UNCHANGED capture

\* Mutant: the receiver's iterator is one sample ahead.
copy_ahead ==
  /\ rxPc = "reading"
  /\ rxIter.remaining_frames # 0 /\ rxPulled + 1 < Len(source)
  /\ rxOut' = [rxOut EXCEPT ![item(rxIter)] = source[rxPulled + 2]]
  /\ rxIter' = next(rxIter, RxPorts)
  /\ rxPulled' = rxPulled + 1
  /\ UNCHANGED <<vars, capture, panicked, rxStart, rxFrame>>

\* One turn of the loop over the zipped iterators: *dest = src.
copy ==
  /\ rxPc = "reading"
  /\ rxIter.remaining_frames # 0 /\ rxPulled < Len(source)
  /\ rxOut' = [rxOut EXCEPT ![item(rxIter)] = source[rxPulled + 1]]
  /\ rxIter' = next(rxIter, RxPorts)
  /\ rxPulled' = rxPulled + 1
  /\ UNCHANGED <<vars, capture, panicked, rxStart, rxFrame>>

\* The loop ends with the first of the two iterators; the receiver's has been asked
\* for one sample more than it had if it was that one.
copy_end ==
  /\ \/ rxIter.remaining_frames = 0 /\ recv_drop(rxPulled)
     \/ rxIter.remaining_frames # 0 /\ rxPulled = Len(source) /\ recv_drop(rxPulled + 1)
  /\ UNCHANGED <<capture, playback, panicked>>

\* process returns and JACK has its buffers back.
process_return ==
  /\ recv_release
  /\ rxOut' = NoBuffer /\ rxPulled' = 0
  /\ UNCHANGED <<capture, panicked, rxStart, rxFrame, rxIter>>

FrameTime == 0 .. MaxTime
Frames == 1 .. MaxFrames

Capture == (\E t \in FrameTime, n \in Frames : process_tx(t, n)) \/ pull \/ process_send
Playback == (\E t \in FrameTime, n \in Frames : process_rx(t, n)) \/ copy \/ copy_end \/ process_return

JackNext ==
  /\ \/ "tx" \in handlers /\ Capture
     \/ "rx" \in handlers /\ Playback
     \/ /\ \/ "tx" \notin handlers /\ TxCaller
           \/ "rx" \notin handlers /\ RxCaller
           \/ fill_from_iter
           \/ send_advance
        /\ UNCHANGED <<capture, playback, panicked>>
  /\ UNCHANGED handlers

JackSpec == JackInit /\ [][JackNext]_jackVars

-----------------------------------------------------------------------------
IteratorOf(ports) ==
  [remaining_frames : Nat, current_index : 0 .. ports - 1, ptrs : [0 .. ports - 1 -> Nat]]

JackTypeOK ==
  /\ TypeOK
  /\ txStart \subseteq Nat /\ rxStart \subseteq Nat
  /\ handlers \subseteq Ends /\ panicked \subseteq Ends
  /\ txIdx \in Nat /\ txValues \in Seq(Nat)
  /\ txIter \in IteratorOf(TxPorts) /\ rxIter \in IteratorOf(RxPorts)
  /\ rxFrame \in Nat /\ rxPulled \in Nat

\* The reference that next is about to hand out lies in a buffer of the cycle
\* ("ensuring we're within the buffer's bounds", interleaver.rs), for both handlers.
PointersInBounds ==
  /\ txIter.remaining_frames # 0 => item(txIter) \in DOMAIN txIn
  /\ rxPc = "reading" /\ rxIter.remaining_frames # 0 => item(rxIter) \in DOMAIN rxOut

\* The index of an output sample: that of its frame, counted from the handler's
\* first cycle, times the ports, plus its port.
Place(x) == (rxFrame + x[2]) * RxPorts + x[1]

\* A sample of the playback cycle is the one its port and its frame call for, or
\* padding, or has not been written: whatever the frame times of the two handlers
\* do, and although a full ring takes parts of frames.
OutputInPlace == \A x \in DOMAIN rxOut : rxOut[x] \in {Place(x), Pad, Stale}

\* A cycle leaves nothing of its output buffers as JACK had it: where the ring has no
\* sample there is padding ("Padding is applied automatically when samples are
\* missing", syfala_jack lib.rs).  It fails when the ring runs empty: the loop of
\* process ends with the receiver's iterator, which pads only the indices its
\* counter has already passed, and the rest of the buffers is not written.
MissingSamplesPadded ==
  rxPc = "releasing" => \A x \in DOMAIN rxOut : rxOut[x] # Stale

=============================================================================

--------------------------- MODULE DeviceIOProofs ---------------------------
(***************************************************************************)
(* Proofs about DeviceIO, for any number of clients, any limit on them and *)
(* any spacing of the timestamps.                                          *)
(***************************************************************************)
EXTENDS DeviceIO, FiniteSetTheorems, TLAPS

\* The host clock is never behind the timestamps, nor behind what a pending call
\* has read from it.
ClockAhead ==
  /\ current_host_timestamp <= mach_absolute_time
  /\ \A c \in Clients : pc[c] = "reading" => current_time[c] <= mach_absolute_time

\* As long as no two calls have overlapped, at most one is pending, and the
\* clock value it has read is not behind the timestamps.
PendingFresh ==
  ~overlapped =>
    /\ \A c, d \in Clients : pc[c] = "reading" /\ pc[d] = "reading" => c = d
    /\ \A c \in Clients : pc[c] = "reading" => current_host_timestamp <= current_time[c]

IInv ==
  /\ TypeOK
  /\ CountIsClients
  /\ ClockAhead
  /\ PendingFresh
  /\ TimestampsLinear
  /\ LatestTimestamp
  /\ PanicNeedsOverlap

-----------------------------------------------------------------------------
\* What a division by a period leaves is shorter than the period.
LEMMA DivBounds ==
  ASSUME NEW x \in Nat, NEW d \in Nat \ {0}
  PROVE  /\ x \div d \in Nat
         /\ d * (x \div d) <= x
         /\ x < d * (x \div d) + d
  OBVIOUS

\* Whole periods divide without a rest.
LEMMA DivOfProduct ==
  ASSUME NEW n \in Nat, NEW d \in Nat \ {0}
  PROVE  (d * n) \div d = n
  <1> DEFINE q == (d * n) \div d
  <1>1. d * n \in Nat
    OBVIOUS
  <1>2. q \in Nat /\ d * q <= d * n /\ d * n < d * q + d
    BY <1>1, DivBounds
  <1> HIDE DEF q
  <1>3. q <= n
    BY <1>2
  <1>4. n < q + 1
    BY <1>2
  <1> QED BY <1>2, <1>3, <1>4 DEF q

\* Advancing both coordinates by n periods stays on the line.
LEMMA OnTheLine ==
  ASSUME NEW h \in Int, NEW f \in Int, NEW n \in Int, NEW t \in Int, NEW r \in Int,
         h * r = f * t
  PROVE  (h + t * n) * r = (f + r * n) * t
  OBVIOUS

\* Nobody is between start_io and stop_io when the counter is None.
LEMMA NobodyActive ==
  ASSUME IInv, n_active_clients = 0
  PROVE  \A c \in Clients : pc[c] = "out"
  <1>1. IsFiniteSet(ActiveClients)
    BY DeviceIOAssumption, FS_Subset DEF ActiveClients
  <1>2. ActiveClients = {}
    BY <1>1, FS_EmptySet DEF IInv, CountIsClients
  <1> QED BY <1>2 DEF ActiveClients

-----------------------------------------------------------------------------
LEMMA InitIInv == Init => IInv
  <1> SUFFICES ASSUME Init PROVE IInv
    OBVIOUS
  <1>1. TypeOK
    <2>1. mach_absolute_time \in Nat /\ n_active_clients \in 0 .. MAX_CLIENTS
      BY DeviceIOAssumption DEF Init
    <2>2. answer \in [at : Nat, sample_time : Nat, host_time : Nat]
      BY DEF Init, NoAnswer
    <2>3. pc \in [Clients -> {"out", "running", "reading"}] /\ current_time \in [Clients -> Nat]
      BY DEF Init
    <2> QED BY <2>1, <2>2, <2>3 DEF Init, TypeOK
  <1>2. ActiveClients = {}
    BY DEF Init, ActiveClients
  <1>3. CountIsClients
    BY <1>2, FS_EmptySet DEF Init, CountIsClients
  <1>4. ClockAhead /\ PendingFresh /\ TimestampsLinear /\ PanicNeedsOverlap
    BY DeviceIOAssumption DEF Init, ClockAhead, PendingFresh, TimestampsLinear, PanicNeedsOverlap
  <1>5. LatestTimestamp
    BY DEF Init, LatestTimestamp, NoAnswer
  <1> QED BY <1>1, <1>3, <1>4, <1>5 DEF IInv

LEMMA TickIInv ==
  ASSUME IInv, Tick
  PROVE  IInv'
  <1>1. TypeOK' /\ ClockAhead'
    BY DEF IInv, TypeOK, ClockAhead, Tick, timestamps
  <1>2. CountIsClients' /\ PendingFresh' /\ TimestampsLinear' /\ LatestTimestamp' /\ PanicNeedsOverlap'
    BY DEF IInv, CountIsClients, ActiveClients, PendingFresh, TimestampsLinear,
           LatestTimestamp, PanicNeedsOverlap, Tick, timestamps
  <1> QED BY <1>1, <1>2 DEF IInv

LEMMA StartIInv ==
  ASSUME IInv, NEW c \in Clients, start_io(c)
  PROVE  IInv'
  <1>1. TypeOK'
    BY DeviceIOAssumption
    DEF IInv, TypeOK, start_io, checked_add, anchored, timestamps
  <1>2. CountIsClients'
    <2>1. IsFiniteSet(ActiveClients)
      BY DeviceIOAssumption, FS_Subset DEF ActiveClients
    <2>2. CASE n_active_clients = MAX_CLIENTS
      <3>1. pc' = pc /\ n_active_clients' = n_active_clients
        BY <2>2 DEF IInv, TypeOK, start_io, checked_add
      <3> QED BY <3>1 DEF IInv, CountIsClients, ActiveClients
    <2>3. CASE n_active_clients # MAX_CLIENTS
      <3>0. checked_add = n_active_clients + 1 /\ checked_add # n_active_clients
        BY <2>3, DeviceIOAssumption DEF IInv, TypeOK, checked_add
      <3>1. n_active_clients' = n_active_clients + 1 /\ pc' = [pc EXCEPT ![c] = "running"]
        BY <3>0 DEF start_io
      <3>2. ActiveClients' = ActiveClients \cup {c} /\ c \notin ActiveClients
        BY <3>1 DEF IInv, TypeOK, ActiveClients, start_io
      <3>3. Cardinality(ActiveClients \cup {c}) = Cardinality(ActiveClients) + 1
        BY <2>1, <3>2, FS_AddElement
      <3> QED BY <3>1, <3>2, <3>3 DEF IInv, CountIsClients
    <2> QED BY <2>2, <2>3
  <1>3. \A d \in Clients : pc'[d] = "reading" => pc[d] = "reading"
    BY DEF IInv, TypeOK, start_io
  <1>4. CASE n_active_clients = 0
    <2>1. \A d \in Clients : pc[d] = "out"
      BY <1>4, NobodyActive
    <2>2. \A d \in Clients : pc'[d] # "reading"
      BY <2>1, <1>3
    <2>3. /\ current_host_timestamp' = mach_absolute_time
          /\ current_frame_timestamp' = 0
          /\ anchor' = mach_absolute_time
          /\ mach_absolute_time' = mach_absolute_time
      BY <1>4 DEF start_io, first_client, anchored
    <2>4. ClockAhead' /\ PendingFresh' /\ TimestampsLinear'
      BY <2>2, <2>3, DeviceIOAssumption
      DEF IInv, TypeOK, ClockAhead, PendingFresh, TimestampsLinear
    <2> QED BY <1>1, <1>2, <2>4 DEF IInv, LatestTimestamp, PanicNeedsOverlap, start_io
  <1>5. CASE n_active_clients # 0
    <2>1. ClockAhead' /\ PendingFresh'
      BY <1>3, <1>5 DEF IInv, TypeOK, ClockAhead, PendingFresh, start_io, first_client, timestamps
    <2>2. TimestampsLinear'
      BY <1>5 DEF IInv, TypeOK, TimestampsLinear, start_io, first_client, timestamps
    <2> QED BY <1>1, <1>2, <2>1, <2>2 DEF IInv, LatestTimestamp, PanicNeedsOverlap, start_io
  <1> QED BY <1>4, <1>5

LEMMA StopIInv ==
  ASSUME IInv, NEW c \in Clients, stop_io(c)
  PROVE  IInv'
  <1>1. c \in ActiveClients
    BY DEF ActiveClients, stop_io
  <1>2. IsFiniteSet(ActiveClients)
    BY DeviceIOAssumption, FS_Subset DEF ActiveClients
  <1>3. n_active_clients \in 1 .. MAX_CLIENTS
    BY <1>1, NobodyActive, DeviceIOAssumption DEF IInv, TypeOK, ActiveClients
  <1>4. n_active_clients' = n_active_clients - 1
    BY <1>3, DeviceIOAssumption DEF stop_io, without_client
  <1>5. TypeOK'
    BY <1>3, <1>4, DeviceIOAssumption DEF IInv, TypeOK, stop_io, timestamps
  <1>6. ActiveClients' = ActiveClients \ {c}
    BY DEF IInv, TypeOK, ActiveClients, stop_io
  <1>7. Cardinality(ActiveClients \ {c}) = Cardinality(ActiveClients) - 1
    BY <1>1, <1>2, FS_RemoveElement
  <1>8. CountIsClients'
    BY <1>4, <1>6, <1>7 DEF IInv, CountIsClients
  <1>9. \A d \in Clients : pc'[d] = "reading" => pc[d] = "reading"
    BY DEF IInv, TypeOK, stop_io
  <1>10. ClockAhead' /\ PendingFresh'
    BY <1>9 DEF IInv, ClockAhead, PendingFresh, stop_io, timestamps
  <1>11. TimestampsLinear'
    BY <1>3 DEF IInv, TimestampsLinear, stop_io, timestamps
  <1> QED BY <1>5, <1>8, <1>10, <1>11 DEF IInv, LatestTimestamp, PanicNeedsOverlap, stop_io

LEMMA ReadIInv ==
  ASSUME IInv, NEW c \in Clients, read_clock(c)
  PROVE  IInv'
  <1>1. TypeOK'
    BY DEF IInv, TypeOK, read_clock, timestamps
  <1>2. CountIsClients'
    BY DEF IInv, TypeOK, CountIsClients, ActiveClients, read_clock
  <1>3. ClockAhead'
    BY DEF IInv, TypeOK, ClockAhead, read_clock, timestamps
  <1>4. PendingFresh'
    <2> SUFFICES ASSUME ~overlapped' PROVE PendingFresh'
      BY DEF PendingFresh
    <2>1. ~overlapped /\ \A d \in Clients : pc[d] # "reading"
      BY DEF read_clock, IInv, TypeOK
    <2>2. \A d \in Clients : pc'[d] = "reading" => d = c
      BY <2>1 DEF read_clock, IInv, TypeOK
    <2>3. current_host_timestamp' <= current_time'[c]
      BY DEF read_clock, IInv, TypeOK, ClockAhead, timestamps
    <2> QED BY <2>2, <2>3 DEF PendingFresh
  <1>5. TimestampsLinear' /\ LatestTimestamp' /\ PanicNeedsOverlap'
    BY DEF IInv, TimestampsLinear, LatestTimestamp, PanicNeedsOverlap, read_clock, timestamps
  <1> QED BY <1>1, <1>2, <1>3, <1>4, <1>5 DEF IInv

LEMMA AdvanceIInv ==
  ASSUME IInv, NEW c \in Clients, advance_timestamps(c)
  PROVE  IInv'
  <1> DEFINE elapsed == current_time[c] - current_host_timestamp
             n == n_timestamps_advanced(elapsed)
  <1>1. CASE elapsed < 0
    <2>1. /\ aborted' = TRUE
          /\ UNCHANGED <<mach_absolute_time, n_active_clients, timestamps, pc, current_time,
                         answer, anchor, overlapped>>
      BY <1>1 DEF advance_timestamps
    <2>2. overlapped
      BY <1>1 DEF IInv, TypeOK, PendingFresh, advance_timestamps
    <2>3. TypeOK' /\ PanicNeedsOverlap'
      BY <2>1, <2>2 DEF IInv, TypeOK, PanicNeedsOverlap, timestamps
    <2>4. CountIsClients' /\ ClockAhead' /\ PendingFresh' /\ TimestampsLinear' /\ LatestTimestamp'
      BY <2>1 DEF IInv, CountIsClients, ActiveClients, ClockAhead, PendingFresh,
                  TimestampsLinear, LatestTimestamp, timestamps
    <2> QED BY <2>3, <2>4 DEF IInv
  <1>2. CASE ~(elapsed < 0)
    <2>1. elapsed \in Nat /\ pc[c] = "reading"
      BY <1>2 DEF IInv, TypeOK, advance_timestamps
    <2>2. /\ n \in Nat
          /\ TICKS_PER_TIMESTAMP * n <= elapsed
          /\ elapsed < TICKS_PER_TIMESTAMP * n + TICKS_PER_TIMESTAMP
      BY <2>1, DivBounds, DeviceIOAssumption DEF n_timestamps_advanced
    <2>3. /\ current_host_timestamp' = current_host_timestamp + TICKS_PER_TIMESTAMP * n
          /\ current_frame_timestamp' = current_frame_timestamp + FRAMES_PER_TIMESTAMP * n
          /\ answer' = [at |-> current_time[c], sample_time |-> current_frame_timestamp',
                        host_time |-> current_host_timestamp']
          /\ pc' = [pc EXCEPT ![c] = "running"]
          /\ UNCHANGED <<mach_absolute_time, n_active_clients, current_time, anchor,
                         overlapped, aborted>>
      BY <1>2 DEF advance_timestamps
    <2>4. TICKS_PER_TIMESTAMP * n \in Nat /\ FRAMES_PER_TIMESTAMP * n \in Nat
      BY <2>2, DeviceIOAssumption
    <2> HIDE DEF n
    <2>5. TypeOK'
      BY <2>3, <2>4 DEF IInv, TypeOK
    <2>6. ActiveClients' = ActiveClients
      BY <2>1, <2>3 DEF IInv, TypeOK, ActiveClients
    <2>7. CountIsClients' /\ PanicNeedsOverlap'
      BY <2>3, <2>6 DEF IInv, CountIsClients, PanicNeedsOverlap
    <2>8. current_host_timestamp' <= current_time[c] /\ current_time[c] <= mach_absolute_time
      BY <2>1, <2>2, <2>3, <2>4 DEF IInv, TypeOK, ClockAhead
    <2>9. \A d \in Clients : pc'[d] = "reading" => pc[d] = "reading" /\ d # c
      BY <2>3 DEF IInv, TypeOK
    <2>10. ClockAhead'
      BY <2>3, <2>5, <2>8, <2>9 DEF IInv, TypeOK, ClockAhead
    <2>11. PendingFresh'
      BY <2>1, <2>3, <2>9 DEF IInv, PendingFresh
    <2>12. TimestampsLinear'
      <3> SUFFICES ASSUME n_active_clients > 0
                   PROVE  (current_host_timestamp' - anchor) * FRAMES_PER_TIMESTAMP
                            = current_frame_timestamp' * TICKS_PER_TIMESTAMP
        BY <2>3 DEF TimestampsLinear
      <3> DEFINE h == current_host_timestamp - anchor
      <3>1. h \in Int /\ h * FRAMES_PER_TIMESTAMP = current_frame_timestamp * TICKS_PER_TIMESTAMP
        BY DEF IInv, TypeOK, TimestampsLinear
      <3>2. current_host_timestamp' - anchor = h + TICKS_PER_TIMESTAMP * n
        BY <2>3, <2>4 DEF IInv, TypeOK
      <3> HIDE DEF h
      <3>3. (h + TICKS_PER_TIMESTAMP * n) * FRAMES_PER_TIMESTAMP
              = (current_frame_timestamp + FRAMES_PER_TIMESTAMP * n) * TICKS_PER_TIMESTAMP
        BY <2>2, <3>1, OnTheLine, DeviceIOAssumption DEF IInv, TypeOK
      <3> QED BY <2>3, <3>2, <3>3
    <2>13. LatestTimestamp'
      <3>1. current_time[c] < current_host_timestamp' + TICKS_PER_TIMESTAMP
        BY <2>1, <2>2, <2>3, <2>4, DeviceIOAssumption DEF IInv, TypeOK
      <3> QED BY <2>3, <2>8, <3>1 DEF LatestTimestamp
    <2> QED BY <2>5, <2>7, <2>10, <2>11, <2>12, <2>13 DEF IInv
  <1> QED BY <1>1, <1>2

LEMMA StutterIInv ==
  ASSUME IInv, UNCHANGED vars
  PROVE  IInv'
  BY DEF IInv, vars, timestamps, TypeOK, CountIsClients, ActiveClients, ClockAhead, PendingFresh,
         TimestampsLinear, LatestTimestamp, PanicNeedsOverlap

LEMMA SpecIInv == Spec => []IInv
  <1>1. IInv /\ [Next]_vars => IInv'
    BY TickIInv, StartIInv, StopIInv, ReadIInv, AdvanceIInv, StutterIInv DEF Next
  <1> QED BY InitIInv, <1>1, PTL DEF Spec

-----------------------------------------------------------------------------
\* Type correctness: in particular start_io never counts beyond the limit.
THEOREM TypeCorrect == Spec => []TypeOK
  <1>1. IInv => TypeOK
    BY DEF IInv
  <1> QED BY SpecIInv, <1>1, PTL

\* The counter of start_io and stop_io is the number of clients doing IO.
THEOREM ClientsCounted == Spec => []CountIsClients
  <1>1. IInv => CountIsClients
    BY DEF IInv
  <1> QED BY SpecIInv, <1>1, PTL

\* What get_zero_timestamp reports lies on the device's time line, from the start of
\* IO on, however late and by whomever it is called.
THEOREM Timestamps == Spec => []TimestampsLinear
  <1>1. IInv => TimestampsLinear
    BY DEF IInv
  <1> QED BY SpecIInv, <1>1, PTL

\* What get_zero_timestamp reports is the latest timestamp at the time at which its
\* caller has read the clock: the division catches up on all periods missed.
THEOREM Latest == Spec => []LatestTimestamp
  <1>1. IInv => LatestTimestamp
    BY DEF IInv
  <1> QED BY SpecIInv, <1>1, PTL

\* The strict_sub of get_zero_timestamp panics only when calls overlap.
THEOREM NoPanicAlone == Spec => []PanicNeedsOverlap
  <1>1. IInv => PanicNeedsOverlap
    BY DEF IInv
  <1> QED BY SpecIInv, <1>1, PTL

-----------------------------------------------------------------------------
(* The refinement of DeviceClock *)

\* The first client sets the clock, and does so with the mutex held; another one
\* changes nothing the clock shows.
LEMMA StartClock ==
  ASSUME IInv, NEW c \in Clients, start_io(c)
  PROVE  Clock!Start \/ UNCHANGED Clock!clock
  <1>1. CASE n_active_clients = 0
    <2>1. n_active_clients' = 1
      BY <1>1, DeviceIOAssumption DEF start_io, checked_add
    <2>2. current_host_timestamp' = mach_absolute_time /\ current_frame_timestamp' = 0
      BY <1>1 DEF start_io, first_client, anchored
    <2>3. mach_absolute_time \in Nat /\ mach_absolute_time >= current_host_timestamp
      BY DEF IInv, TypeOK, ClockAhead
    <2> QED BY <1>1, <2>1, <2>2, <2>3 DEF Clock!Start
  <1>2. CASE n_active_clients # 0
    <2>1. n_active_clients > 0 /\ n_active_clients' > 0
      BY <1>2, DeviceIOAssumption DEF IInv, TypeOK, start_io, checked_add
    <2>2. UNCHANGED timestamps
      BY <1>2 DEF start_io, first_client
    <2> QED BY <2>1, <2>2 DEF Clock!clock, timestamps
  <1> QED BY <1>1, <1>2

\* The last client stops the clock where it is.
LEMMA StopClock ==
  ASSUME IInv, NEW c \in Clients, stop_io(c)
  PROVE  Clock!Stop \/ UNCHANGED Clock!clock
  <1>1. n_active_clients > 0
    BY NobodyActive DEF IInv, TypeOK, stop_io
  <1>2. UNCHANGED timestamps
    BY DEF stop_io
  <1> QED BY <1>1, <1>2 DEF Clock!Stop, Clock!clock, timestamps

\* A pending call belongs to a client that is doing IO, so IO is running; the clock
\* advances by the periods that have passed, or stays if none has.
LEMMA AdvanceClock ==
  ASSUME IInv, NEW c \in Clients, advance_timestamps(c)
  PROVE  Clock!Advance \/ UNCHANGED Clock!clock
  <1> DEFINE elapsed == current_time[c] - current_host_timestamp
             n == n_timestamps_advanced(elapsed)
  <1>1. n_active_clients > 0 /\ n_active_clients' = n_active_clients
    <2>1. pc[c] = "reading" /\ n_active_clients' = n_active_clients
      BY DEF advance_timestamps
    <2>2. n_active_clients # 0 /\ n_active_clients \in Nat
      BY <2>1, NobodyActive, DeviceIOAssumption DEF IInv, TypeOK
    <2> QED BY <2>1, <2>2
  <1>2. CASE elapsed < 0
    BY <1>1, <1>2 DEF advance_timestamps, Clock!clock, timestamps
  <1>3. CASE ~(elapsed < 0)
    <2>1. elapsed \in Nat
      BY <1>3 DEF IInv, TypeOK, advance_timestamps
    <2>2. n \in Nat
      BY <2>1, DivBounds, DeviceIOAssumption DEF n_timestamps_advanced
    <2>3. /\ current_host_timestamp' = current_host_timestamp + TICKS_PER_TIMESTAMP * n
          /\ current_frame_timestamp' = current_frame_timestamp + FRAMES_PER_TIMESTAMP * n
      BY <1>3 DEF advance_timestamps
    <2>4. current_host_timestamp \in Nat /\ current_frame_timestamp \in Nat
      BY DEF IInv, TypeOK
    <2> HIDE DEF n
    <2>5. CASE n = 0
      BY <1>1, <2>3, <2>4, <2>5, DeviceIOAssumption DEF Clock!clock
    <2>6. CASE n # 0
      <3>1. (current_host_timestamp' - current_host_timestamp) \div TICKS_PER_TIMESTAMP = n
        <4>1. current_host_timestamp' - current_host_timestamp = TICKS_PER_TIMESTAMP * n
          BY <2>2, <2>3, <2>4, DeviceIOAssumption
        <4>2. (TICKS_PER_TIMESTAMP * n) \div TICKS_PER_TIMESTAMP = n
          BY <2>2, DivOfProduct, DeviceIOAssumption
        <4> QED BY <4>1, <4>2
      <3> QED BY <1>1, <2>2, <2>3, <2>6, <3>1 DEF Clock!Advance
    <2> QED BY <2>5, <2>6
  <1> QED BY <1>2, <1>3

\* The driver implements DeviceClock, for any number of clients that start, stop and
\* ask in any order: the clock is set only while nobody uses it, and never back.
THEOREM ClockKept == Spec => ClockContract
  <1>1. Init => Clock!Init
    BY DEF Init, Clock!Init
  <1>2. IInv /\ [Next]_vars => [Clock!Next]_Clock!clock
    <2> SUFFICES ASSUME IInv, [Next]_vars
                 PROVE  Clock!Next \/ UNCHANGED Clock!clock
      OBVIOUS
    <2>1. CASE UNCHANGED vars
      BY <2>1 DEF vars, timestamps, Clock!clock
    <2>2. CASE Tick
      BY <2>2 DEF Tick, timestamps, Clock!clock
    <2>3. ASSUME NEW c \in Clients, read_clock(c)
          PROVE  UNCHANGED Clock!clock
      BY <2>3 DEF read_clock, timestamps, Clock!clock
    <2> QED BY <2>1, <2>2, <2>3, StartClock, StopClock, AdvanceClock DEF Next, Clock!Next
  <1> QED BY <1>1, <1>2, SpecIInv, PTL DEF Spec, ClockContract, Clock!Spec
=============================================================================

----------------------------- MODULE DeviceClock -----------------------------
(***************************************************************************)
(* What the CoreAudio driver promises the audio server about the device's  *)
(* clock, whoever starts and stops IO and asks for timestamps: it is set   *)
(* anew when IO starts and only then, never to an earlier host time, and   *)
(* while IO runs its two coordinates advance together, by whole periods.   *)
(***************************************************************************)
EXTENDS Integers

CONSTANTS
  TICKS_PER_TIMESTAMP,   \* host clock ticks between zero timestamps
  FRAMES_PER_TIMESTAMP   \* sample frames between zero timestamps

VARIABLES
  running,      \* whether any client does IO
  host_time,    \* the last zero timestamp, in host time
  sample_time   \* and in sample time

clock == <<running, host_time, sample_time>>

Init == ~running /\ host_time = 0 /\ sample_time = 0

\* start_io of the first client.
Start ==
  /\ ~running /\ running'
  /\ host_time' \in Nat /\ host_time' >= host_time
  /\ sample_time' = 0

\* get_zero_timestamp, when at least one period has passed.
Advance ==
  LET n == (host_time' - host_time) \div TICKS_PER_TIMESTAMP
  IN /\ running /\ running'
     /\ n > 0
     /\ host_time' = host_time + TICKS_PER_TIMESTAMP * n
     /\ sample_time' = sample_time + FRAMES_PER_TIMESTAMP * n

\* stop_io of the last client.
Stop ==
  /\ running /\ ~running'
  /\ UNCHANGED <<host_time, sample_time>>

Next == Start \/ Advance \/ Stop

Spec == Init /\ [][Next]_clock

=============================================================================

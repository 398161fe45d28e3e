------------------------------ MODULE DeviceIO ------------------------------
(***************************************************************************)
(* The IO part of the CoreAudio driver: the DEVICE_IO mutex, the count of  *)
(* clients doing IO, and the zero timestamps of the device's clock.        *)
(*                                                                         *)
(* Each client of the device has a thread of its own in the audio server,  *)
(* which is external: it starts IO, asks for zero timestamps while its IO  *)
(* is running, and stops IO.  start_io and stop_io do all their work under *)
(* the mutex and are one step each; get_zero_timestamp reads the clock     *)
(* first and takes the mutex later, so it is two.  A panic in one of these *)
(* extern "C" functions ends the process.  Calls with a bad driver pointer *)
(* or device ID return an error and change nothing; they are left out.     *)
(***************************************************************************)
EXTENDS Integers, FiniteSets

CONSTANTS
  Clients,               \* clients of the device
  MAX_CLIENTS,           \* the largest NonZeroU32
  TICKS_PER_TIMESTAMP,   \* host clock ticks between zero timestamps
  FRAMES_PER_TIMESTAMP,  \* sample frames between zero timestamps
  MaxTime                \* bound: the last host time

ASSUME DeviceIOAssumption ==
  /\ IsFiniteSet(Clients)
  /\ MAX_CLIENTS \in Nat \ {0}
  /\ TICKS_PER_TIMESTAMP \in Nat \ {0}
  /\ FRAMES_PER_TIMESTAMP \in Nat \ {0}
  /\ MaxTime \in Nat

VARIABLES
  mach_absolute_time,       \* the host clock
  n_active_clients,         \* clients doing IO, 0 for None
  current_host_timestamp,   \* host time of the last zero timestamp
  current_frame_timestamp,  \* sample time of the last zero timestamp
  pc,                       \* where each client is
  current_time,             \* the clock as read by the call in progress
  answer,                   \* what get_zero_timestamp last returned, and to whom
  anchor,                   \* history: host time at which IO was last started
  overlapped,               \* history: two get_zero_timestamp calls overlapped
  aborted                   \* a panic has ended the process

timestamps == <<current_host_timestamp, current_frame_timestamp>>
vars == <<mach_absolute_time, n_active_clients, timestamps, pc, current_time,
          answer, anchor, overlapped, aborted>>

NoAnswer == [at |-> 0, sample_time |-> 0, host_time |-> 0]

TypeOK ==
  /\ mach_absolute_time \in Nat
  /\ n_active_clients \in 0 .. MAX_CLIENTS
  /\ current_host_timestamp \in Nat
  /\ current_frame_timestamp \in Nat
  /\ pc \in [Clients -> {"out", "running", "reading"}]
  /\ current_time \in [Clients -> Nat]
  /\ answer \in [at : Nat, sample_time : Nat, host_time : Nat]
  /\ anchor \in Nat
  /\ overlapped \in BOOLEAN
  /\ aborted \in BOOLEAN

Init ==
  /\ mach_absolute_time \in 0 .. MaxTime
  /\ n_active_clients = 0
  /\ current_host_timestamp = 0
  /\ current_frame_timestamp = 0
  /\ pc = [c \in Clients |-> "out"]
  /\ current_time = [c \in Clients |-> 0]
  /\ answer = NoAnswer
  /\ anchor = 0
  /\ overlapped = FALSE
  /\ aborted = FALSE

\* The host clock advances between any two steps.
Tick ==
  /\ mach_absolute_time < MaxTime
  /\ mach_absolute_time' = mach_absolute_time + 1
  /\ UNCHANGED <<n_active_clients, timestamps, pc, current_time, answer, anchor,
                 overlapped, aborted>>

-----------------------------------------------------------------------------
\* Mutants: the limit on clients is not checked; every start anchors the clock;
\* the sample time is not reset.
checked_add_unchecked == n_active_clients + 1
first_client_always == TRUE
anchored_keep == <<mach_absolute_time, current_frame_timestamp>>

\* n_clients.checked_add(1), which leaves the count alone at its limit.
checked_add ==
  IF n_active_clients = MAX_CLIENTS THEN n_active_clients ELSE n_active_clients + 1

first_client == n_active_clients = 0

\* The timestamps the first client sets.
anchored == <<mach_absolute_time, 0>>

\* A client starts IO.  The first one anchors the clock, with the mutex held;
\* one too many gets an error and stays out.
start_io(c) ==
  /\ ~aborted
  /\ pc[c] = "out"
  /\ n_active_clients' = checked_add
  /\ pc' = [pc EXCEPT ![c] = IF checked_add = n_active_clients THEN "out" ELSE "running"]
  /\ IF first_client
     THEN /\ current_host_timestamp' = anchored[1]
          /\ current_frame_timestamp' = anchored[2]
          /\ anchor' = anchored[1]
     ELSE UNCHANGED <<timestamps, anchor>>
  /\ UNCHANGED <<mach_absolute_time, current_time, answer, overlapped, aborted>>

\* Mutant: any stop ends IO for the device.
without_client_none == 0

\* The count once a client has stopped.  A stop that finds none is an error.
without_client == IF n_active_clients = 0 THEN 0 ELSE n_active_clients - 1

stop_io(c) ==
  /\ ~aborted
  /\ pc[c] = "running"
  /\ n_active_clients' = without_client
  /\ pc' = [pc EXCEPT ![c] = "out"]
  /\ UNCHANGED <<mach_absolute_time, timestamps, current_time, answer, anchor,
                 overlapped, aborted>>

\* get_zero_timestamp up to the lock: the clock is read.
read_clock(c) ==
  /\ ~aborted
  /\ pc[c] = "running"
  /\ current_time' = [current_time EXCEPT ![c] = mach_absolute_time]
  /\ pc' = [pc EXCEPT ![c] = "reading"]
  /\ overlapped' = (overlapped \/ \E d \in Clients : pc[d] = "reading")
  /\ UNCHANGED <<mach_absolute_time, n_active_clients, timestamps, answer, anchor, aborted>>

\* Mutant: at most one timestamp is caught up per call.
n_timestamps_advanced_one(elapsed) == IF elapsed < TICKS_PER_TIMESTAMP THEN 0 ELSE 1

n_timestamps_advanced(elapsed) == elapsed \div TICKS_PER_TIMESTAMP

\* get_zero_timestamp from the lock on.  A clock read that is older than the
\* current timestamp makes strict_sub panic.
advance_timestamps(c) ==
  LET elapsed_time_ticks == current_time[c] - current_host_timestamp
      n == n_timestamps_advanced(elapsed_time_ticks)
      host_time == current_host_timestamp + TICKS_PER_TIMESTAMP * n
      sample_time == current_frame_timestamp + FRAMES_PER_TIMESTAMP * n
  IN /\ ~aborted
     /\ pc[c] = "reading"
     /\ IF elapsed_time_ticks < 0
        THEN /\ aborted' = TRUE
             /\ UNCHANGED <<timestamps, pc, answer>>
        ELSE /\ current_host_timestamp' = host_time
             /\ current_frame_timestamp' = sample_time
             /\ answer' = [at |-> current_time[c], sample_time |-> sample_time,
                           host_time |-> host_time]
             /\ pc' = [pc EXCEPT ![c] = "running"]
             /\ UNCHANGED aborted
     /\ UNCHANGED <<mach_absolute_time, n_active_clients, current_time, anchor, overlapped>>

Next ==
  \/ Tick
  \/ \E c \in Clients :
       start_io(c) \/ stop_io(c) \/ read_clock(c) \/ advance_timestamps(c)

Spec == Init /\ [][Next]_vars

-----------------------------------------------------------------------------
ActiveClients == {c \in Clients : pc[c] # "out"}

\* The counter that start_io and stop_io keep is the number of clients doing
\* IO, so that the clock is re-anchored only when nobody is using it.
CountIsClients == n_active_clients = Cardinality(ActiveClients)

\* The timestamps lie on the line through the start of IO: host time and sample
\* time advance by TICKS_PER_TIMESTAMP and FRAMES_PER_TIMESTAMP together, however
\* late and by whomever get_zero_timestamp is called.
TimestampsLinear ==
  n_active_clients > 0 =>
    (current_host_timestamp - anchor) * FRAMES_PER_TIMESTAMP
      = current_frame_timestamp * TICKS_PER_TIMESTAMP

\* get_zero_timestamp returns the latest timestamp that is not after the clock
\* value it has read, however long nobody has asked.
LatestTimestamp ==
  /\ answer.host_time <= answer.at
  /\ answer # NoAnswer => answer.at < answer.host_time + TICKS_PER_TIMESTAMP

\* The strict_sub of get_zero_timestamp panics only if two of these calls have
\* overlapped: start_io never anchors the clock after a pending call has read it.
PanicNeedsOverlap == aborted => overlapped

\* The driver keeps the promise of DeviceClock: the clock is set anew only when IO
\* starts for the first client, and only forward; any other step of any client leaves
\* it alone or advances both coordinates by the same number of whole periods.
Clock == INSTANCE DeviceClock WITH
  running <- n_active_clients > 0,
  host_time <- current_host_timestamp,
  sample_time <- current_frame_timestamp
ClockContract == Clock!Spec
=============================================================================

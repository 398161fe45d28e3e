-------------------------- MODULE ServerLifecycle --------------------------
(***************************************************************************)
(* What the typestate traits of udp::client::generic::state promise an     *)
(* application about each server: which callback may take which state      *)
(* object to which other one.  A state object that is dropped, by a        *)
(* disconnection or a timeout, leaves its server disconnected.             *)
(***************************************************************************)
CONSTANT Addr
VARIABLE io

State == {"Disconnected", "Inactive", "PendingStart", "Active", "PendingStop"}

\* ClientContext::connect
connect == {<<"Disconnected", "Inactive">>}
\* IOInactiveContext::poll_start_io
poll_start_io == {<<"Inactive", "PendingStart">>}
\* IOStartPendingContext::start_io, start_io_refused; start_io_failed stays
start_io == {<<"PendingStart", "Active">>, <<"PendingStart", "Inactive">>}
\* IOActiveContext::poll_stop_io; on_audio stays
poll_stop_io == {<<"Active", "PendingStop">>}
\* IOStopPendingConxtext::stop_io, stop_io_refused; stop_io_failed stays
stop_io == {<<"PendingStop", "Inactive">>, <<"PendingStop", "Active">>}
drop == (State \ {"Disconnected"}) \X {"Disconnected"}

Moves == connect \cup poll_start_io \cup start_io \cup poll_stop_io \cup stop_io \cup drop

Init == io = [a \in Addr |-> "Disconnected"]

\* Servers move independently, any number of them in one step.
Next ==
  /\ io' \in [Addr -> State]
  /\ \A a \in Addr : io'[a] = io[a] \/ <<io[a], io'[a]>> \in Moves

Spec == Init /\ [][Next]_io

=============================================================================

--------------------------- MODULE GenericClient ---------------------------
(***************************************************************************)
(* The UDP client state machine (syfala_network, udp::client::generic) and *)
(* the blocking receive loop that drives it (udp::client::Client::start).  *)
(*                                                                         *)
(* One thread owns the state.  It blocks in recv until a datagram comes    *)
(* (on_message) or the socket's receive timeout elapses (on_timeout).  The *)
(* environment is open here: any server may send any message at any time.  *)
(* ClientSession closes it with a network and with servers.                *)
(* What the handlers give to send_msg is in `sent`; WireFormat has what    *)
(* send_msg makes of it.                                                   *)
(*                                                                         *)
(* Time.  An Instant is kept as the number of ticks left before it, and    *)
(* stops at 0: the code compares a deadline with the present only through  *)
(* `deadline <= now` and `deadline - now`.  No bound on time is needed.    *)
(***************************************************************************)
EXTENDS Integers, FiniteSets

CONSTANTS
  Addr,                 \* socket addresses of servers
  CONN_TIMEOUT,         \* ticks of silence after which a server is dropped
  REQUEST_POLL_PERIOD,  \* longest receive timeout on_timeout asks for
  SocketTimeout,        \* receive timeout the application gave the socket
  IoMayFail             \* whether the socket may report hard errors

Timeouts == {{}} \cup {{t} : t \in 1 .. REQUEST_POLL_PERIOD}

ASSUME ClientAssumption ==
  /\ REQUEST_POLL_PERIOD \in Nat \ {0}
  /\ CONN_TIMEOUT \in Nat \ {0}
  /\ SocketTimeout \in Timeouts
  /\ IoMayFail \in BOOLEAN

VARIABLES
  servers,      \* GenericClient::servers, a map from address to IO state
  deadlines,    \* GenericClient::deadlines, ticks left of each server
  recvTimeout,  \* receive timeout of the socket: {} for None, {t} for Some(t)
  waited,       \* ticks the thread has been blocked in the current recv
  status,       \* what became of Client::start
  sent,         \* messages the last handler gave to send_msg
  failed        \* history: a socket call has failed

vars == <<servers, deadlines, recvTimeout, waited, status, sent, failed>>

ServerIOState == {"Inactive", "PendingStart", "Active", "PendingStop"}
Status == {"Running", "Returned", "Panicked"}

\* Server::Connected messages; Connect and Disconnect have their own handlers.
ConnectedMsg == {"StartOk", "StartFailure", "StartRefusal",
                 "StopOk", "StopFailure", "StopRefusal", "Heartbeat", "Audio"}
ClientMsg == {"ConnectionOk", "ConnectionErr", "StartIO", "StopIO"}

TypeOK ==
  /\ DOMAIN servers \subseteq Addr
  /\ servers \in [DOMAIN servers -> ServerIOState]
  /\ DOMAIN deadlines \subseteq Addr
  /\ deadlines \in [DOMAIN deadlines -> 0 .. CONN_TIMEOUT]
  /\ recvTimeout \in Timeouts
  /\ waited \in 0 .. REQUEST_POLL_PERIOD
  /\ status \in Status
  /\ sent \subseteq Addr \X ClientMsg
  /\ failed \in BOOLEAN

-----------------------------------------------------------------------------
\* Maps: HashMap::insert / PriorityQueue::push (both replace), and remove.
Put(map, key, val) ==
  [k \in DOMAIN map \cup {key} |-> IF k = key THEN val ELSE map[k]]
Without(map, keys) == [k \in DOMAIN map \ keys |-> map[k]]

\* GenericClient::new, on a socket whose timeout the application has chosen.
Init ==
  /\ servers = [a \in {} |-> "Inactive"]
  /\ deadlines = [a \in {} |-> 0]
  /\ recvTimeout = SocketTimeout
  /\ waited = 0
  /\ status = "Running"
  /\ sent = {}
  /\ failed = FALSE

-----------------------------------------------------------------------------
\* Mutant: a start acknowledgement is accepted in every state.
on_msg_any_state(state, msg) ==
  CASE msg = "StartOk"                                -> "Active"
    [] state = "PendingStart" /\ msg = "StartRefusal" -> "Inactive"
    [] state = "PendingStop"  /\ msg = "StopOk"       -> "Inactive"
    [] state = "PendingStop"  /\ msg = "StopRefusal"  -> "Active"
    [] OTHER                                          -> state

\* ServerIOState::on_msg: the transitions; in any other state the message is
\* ignored.
on_msg(state, msg) ==
  CASE state = "PendingStart" /\ msg = "StartOk"      -> "Active"
    [] state = "PendingStart" /\ msg = "StartRefusal" -> "Inactive"
    [] state = "PendingStop"  /\ msg = "StopOk"       -> "Inactive"
    [] state = "PendingStop"  /\ msg = "StopRefusal"  -> "Active"
    [] OTHER                                          -> state

\* ServerIOState::on_msg: a temporary failure repeats the pending request.
retry(addr, state, msg) ==
  IF state = "PendingStart" /\ msg = "StartFailure" THEN {<<addr, "StartIO">>}
  ELSE IF state = "PendingStop" /\ msg = "StopFailure" THEN {<<addr, "StopIO">>}
  ELSE {}

\* Mutant: only a deadline that exists is moved (change_priority, not push).
refresh_known(addr, srv) ==
  IF addr \in DOMAIN deadlines THEN Put(deadlines, addr, CONN_TIMEOUT) ELSE deadlines

\* The end of on_decoded_message: a server still connected gets a new deadline.
refresh(addr, srv) ==
  IF addr \in DOMAIN srv THEN Put(deadlines, addr, CONN_TIMEOUT) ELSE deadlines

\* A socket call reports an error, which the loop returns.
IoError ==
  /\ IoMayFail
  /\ status' = "Returned"
  /\ failed' = TRUE

\* A handler that leaves the servers srv and sends out.  A failed send leaves
\* the handler by `?`: the servers are changed, the deadline is not.
Handled(addr, srv, out) ==
  /\ servers' = srv
  /\ \/ /\ sent' = out
        /\ deadlines' = refresh(addr, srv)
        /\ UNCHANGED <<status, failed>>
     \/ /\ out # {}
        /\ sent' = {}
        /\ IoError
        /\ UNCHANGED deadlines

on_server_connect_request(addr) ==
  \/ /\ addr \in DOMAIN servers
     /\ Handled(addr, servers, {})
  \/ /\ addr \notin DOMAIN servers        \* callbacks.connect accepts
     /\ Handled(addr, Put(servers, addr, "Inactive"), {<<addr, "ConnectionOk">>})
  \/ /\ addr \notin DOMAIN servers        \* callbacks.connect rejects
     /\ Handled(addr, servers, {<<addr, "ConnectionErr">>})

on_connected_message(addr, msg) ==
  IF addr \in DOMAIN servers
  THEN Handled(addr, [servers EXCEPT ![addr] = on_msg(@, msg)],
               retry(addr, servers[addr], msg))
  ELSE Handled(addr, servers, {})

\* Mutant: the deadline of a disconnected server is forgotten.
on_disconnect_keep(addr) ==
  /\ servers' = Without(servers, {addr})
  /\ sent' = {}
  /\ UNCHANGED <<deadlines, status, failed>>

\* deadlines.remove(&addr).unwrap() panics when a connected server has none.
on_disconnect(addr) ==
  /\ servers' = Without(servers, {addr})
  /\ sent' = {}
  /\ IF addr \in DOMAIN servers
     THEN /\ deadlines' = Without(deadlines, {addr})
          /\ status' = IF addr \in DOMAIN deadlines THEN status ELSE "Panicked"
     ELSE UNCHANGED <<deadlines, status>>
  /\ UNCHANGED failed

\* Client::start calls recv again after every handler.
Recv ==
  /\ status = "Running"
  /\ waited' = 0

on_message(addr, msg) ==
  /\ Recv
  /\ UNCHANGED recvTimeout
  /\ \/ msg = "Connect" /\ on_server_connect_request(addr)
     \/ msg \in ConnectedMsg /\ on_connected_message(addr, msg)
     \/ msg = "Disconnect" /\ on_disconnect(addr)

\* A datagram that does not decode only reaches callbacks.unknown_message.
on_unknown_message ==
  /\ Recv
  /\ sent' = {}
  /\ UNCHANGED <<servers, deadlines, recvTimeout, status, failed>>

-----------------------------------------------------------------------------
\* Mutant: a deadline that has just come is not overdue yet.
ExpiredStrict == {a \in DOMAIN deadlines : deadlines[a] < 0}

\* The while loop of on_timeout pops the servers whose deadline has come.
Expired == {a \in DOMAIN deadlines : deadlines[a] <= 0}

\* Mutant: the deadline is popped and the server stays in the map.
UnexpiredAll == servers

\* ... and removes each of them from the map.
Unexpired == Without(servers, Expired)

\* The states the loop over the servers polls for an application request.
Pollable(live) == {a \in DOMAIN live : live[a] \in {"Inactive", "Active"}}

\* The request that poll_start_io / poll_stop_io turns a state into.
Requested(state) == IF state = "Inactive" THEN "PendingStart" ELSE "PendingStop"

\* The message the request is sent with, by the state it is made in: both arms
\* of the loop send Client::START_IO.
RequestMsg(state) == IF state = "Inactive" THEN "StartIO" ELSE "StartIO"

\* Mutant: one tick more, so that the deadline has surely come by then.
NextTimeoutLate(left) ==
  LET bounds == {REQUEST_POLL_PERIOD, CONN_TIMEOUT} \cup {left[a] : a \in DOMAIN left}
  IN IF DOMAIN left = {} THEN {}
     ELSE {1 + CHOOSE t \in bounds : \A u \in bounds : t <= u}

\* Mutant: the timeout is armed only when several servers are connected.
NextTimeoutSeveral(left) ==
  IF Cardinality(DOMAIN left) <= 1 THEN {} ELSE {1}

\* peek().map(next - now).map(min(POLL).min(CONN)): None without deadlines.
NextTimeout(left) ==
  LET bounds == {REQUEST_POLL_PERIOD, CONN_TIMEOUT} \cup {left[a] : a \in DOMAIN left}
  IN IF DOMAIN left = {} THEN {}
     ELSE {CHOOSE t \in bounds : \A u \in bounds : t <= u}

\* set_recv_timeout: std refuses a zero timeout, and the error is returned.
set_recv_timeout(t) ==
  /\ IF 0 \in t THEN status' = "Returned" /\ UNCHANGED recvTimeout
                ELSE recvTimeout' = t /\ UNCHANGED status
  /\ UNCHANGED failed

\* asked: the servers whose poll_start_io / poll_stop_io returned Ok.  The loop
\* leaves at the first failed send, in whatever order the map is iterated: the
\* server concerned has changed state, the ones after it were not polled.
PollRequests(live, asked) ==
  /\ servers' = [a \in DOMAIN live |->
                   IF a \in asked THEN Requested(live[a]) ELSE live[a]]
  /\ \/ /\ sent' = {<<a, RequestMsg(live[a])>> : a \in asked}
        /\ \/ set_recv_timeout(NextTimeout(deadlines'))
           \/ IoError /\ UNCHANGED recvTimeout
     \/ /\ \E last \in asked :
             sent' = {<<a, RequestMsg(live[a])>> : a \in asked \ {last}}
        /\ IoError
        /\ UNCHANGED recvTimeout

on_timeout ==
  /\ Recv
  /\ \E t \in recvTimeout : waited >= t
  /\ deadlines' = Without(deadlines, Expired)
  /\ IF Expired \subseteq DOMAIN servers
     THEN \E asked \in SUBSET Pollable(Unexpired) : PollRequests(Unexpired, asked)
     ELSE /\ status' = "Panicked"        \* servers.remove(&addr).unwrap()
          /\ servers' = Unexpired
          /\ sent' = {}
          /\ UNCHANGED <<recvTimeout, failed>>

-----------------------------------------------------------------------------
\* recv fails with an error that is not a timeout, and start returns it.
RecvError ==
  /\ status = "Running"
  /\ IoError
  /\ sent' = {}
  /\ UNCHANGED <<servers, deadlines, recvTimeout, waited>>

\* start borrows the client: the application may call it again with the state
\* the failed call left behind.
Restart ==
  /\ status = "Returned"
  /\ status' = "Running"
  /\ waited' = 0
  /\ sent' = {}
  /\ UNCHANGED <<servers, deadlines, recvTimeout, failed>>

\* One unit of time.  A handler may run late: nothing forces it before a tick.
Tick ==
  /\ deadlines' = [a \in DOMAIN deadlines |->
                     IF deadlines[a] = 0 THEN 0 ELSE deadlines[a] - 1]
  /\ waited' = IF waited < REQUEST_POLL_PERIOD THEN waited + 1 ELSE waited
  /\ UNCHANGED <<servers, recvTimeout, status, sent, failed>>

ServerMsg == ConnectedMsg \cup {"Connect", "Disconnect"}

Next ==
  \/ \E a \in Addr, m \in ServerMsg : on_message(a, m)
  \/ on_unknown_message
  \/ on_timeout
  \/ RecvError
  \/ Restart
  \/ Tick

Spec == Init /\ [][Next]_vars

\* The clock advances and the client's thread is scheduled.  Nothing is assumed
\* of the servers.
FairSpec == Spec /\ WF_vars(Tick) /\ WF_vars(on_timeout)

-----------------------------------------------------------------------------
(* Safety *)

\* Every deadline belongs to a connected server, whatever the socket did and
\* however often start was called again.  It is what on_timeout's
\* servers.remove(&addr).unwrap() relies on.
DeadlinesOfServers == DOMAIN deadlines \subseteq DOMAIN servers

\* A server whose IO is active, or being stopped, has a deadline: it can be
\* dropped for silence even after failed sends and restarts of the loop.
ActiveHasDeadline ==
  \A a \in DOMAIN servers :
    servers[a] \in {"Active", "PendingStop"} => a \in DOMAIN deadlines

\* Until a socket call fails, deadlines has exactly one entry per connected server
\* (the comment on deadlines.push in on_decoded_message).  When the reply to an
\* accepted connection cannot be sent, the server stays in the map without one.
DeadlinePerServer == ~failed => DOMAIN deadlines = DOMAIN servers

\* Until a socket call fails, the client never stops by its own doing: neither
\* unwrap fails, and set_recv_timeout is never given a zero duration.
NeverStopsItself == ~failed => status = "Running"

\* The IO state of every address moves only as the typestate traits of state.rs
\* allow, although one on_timeout moves several of them at once.
Lifecycle == INSTANCE ServerLifecycle WITH
  io <- [a \in Addr |-> IF a \in DOMAIN servers THEN servers[a] ELSE "Disconnected"]
TypestateContract == Lifecycle!Spec

\* A server whose streams the application wants stopped is sent a stop request ("stop
\* IO requested by client for the server at addr", the comment on that arm of
\* on_timeout), unless the send fails.  It is not: the arm sends Client::START_IO, as
\* the one for starting does.
StopRequestsSent ==
  [][\A a \in DOMAIN servers \cap DOMAIN servers' :
       servers[a] = "Active" /\ servers'[a] = "PendingStop" /\ status' = "Running"
         => <<a, "StopIO">> \in sent']_vars

(* Liveness *)

Datagram == on_unknown_message \/ \E a \in Addr, m \in ServerMsg : on_message(a, m)

\* From some time on the network is silent.
Quiet == <>[][~Datagram]_vars

\* When the network falls silent, a server that is connected while the socket
\* has a receive timeout is dropped in the end: on_timeout keeps re-arming the
\* timeout until the last deadline has come.
SilentServersExpire ==
  Quiet /\ []~failed => \A a \in Addr :
             (a \in DOMAIN servers /\ recvTimeout # {}) ~> (a \notin DOMAIN servers)

\* The same without the condition on the socket, as the module documentation has
\* it ("Socket timeouts are used to periodically poll server deadlines").  It
\* fails when the last on_timeout ran with no server connected: it has set the
\* timeout to None, and connecting a server does not set it again.
ConnectedServersExpire ==
  Quiet /\ []~failed => \A a \in Addr : (a \in DOMAIN servers) ~> (a \notin DOMAIN servers)

=============================================================================

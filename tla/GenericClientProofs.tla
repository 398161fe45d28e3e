------------------------ MODULE GenericClientProofs ------------------------
(***************************************************************************)
(* Proofs about GenericClient, for any set of addresses and any timing.    *)
(***************************************************************************)
EXTENDS GenericClient, WellFoundedInduction, TLAPS

\* on_msg stays within the IO states.
LEMMA OnMsgType ==
  ASSUME NEW s \in ServerIOState, NEW m
  PROVE  on_msg(s, m) \in ServerIOState
  BY DEF on_msg, ServerIOState

\* A nonempty set of naturals has a least element: peek() on the queue.
LEMMA LeastExists ==
  ASSUME NEW S \in SUBSET Nat, S # {}
  PROVE  \E t \in S : \A u \in S : t <= u
  <1> DEFINE Less == {p \in Nat \X Nat : p[1] < p[2]}
  <1>1. IsWellFoundedOn(Less, Nat)
    BY NatLessThanWellFounded DEF OpToRel
  <1> HIDE DEF Less
  <1>2. PICK t \in S : \A u \in S : ~ (<<u, t>> \in Less)
    BY <1>1, WFMin
  <1>3. ASSUME NEW u \in S PROVE t <= u
    <2>1. u \in Nat /\ t \in Nat /\ <<u, t>> \notin Less
      BY <1>2
    <2> QED BY <2>1 DEF Less
  <1> QED BY <1>3

\* While there are deadlines, the timeout on_timeout asks for is positive, no longer
\* than the poll period, and ends no later than any of them.
LEMMA NextTimeoutInTime ==
  ASSUME NEW left, left \in [DOMAIN left -> 1 .. CONN_TIMEOUT], DOMAIN left # {}
  PROVE  \E t \in 1 .. REQUEST_POLL_PERIOD :
           NextTimeout(left) = {t} /\ \A a \in DOMAIN left : t <= left[a]
  <1> DEFINE bounds == {REQUEST_POLL_PERIOD, CONN_TIMEOUT} \cup {left[a] : a \in DOMAIN left}
             least == CHOOSE t \in bounds : \A u \in bounds : t <= u
  <1>1. bounds \in SUBSET (Nat \ {0}) /\ REQUEST_POLL_PERIOD \in bounds
    BY ClientAssumption
  <1>2. \A a \in DOMAIN left : left[a] \in bounds
    OBVIOUS
  <1>3. NextTimeout(left) = {least}
    BY DEF NextTimeout
  <1> HIDE DEF bounds
  <1>4. \E t \in bounds : \A u \in bounds : t <= u
    BY <1>1, LeastExists
  <1>5. least \in bounds /\ \A u \in bounds : least <= u
    BY <1>4
  <1> HIDE DEF least
  <1>6. least \in 1 .. REQUEST_POLL_PERIOD
    BY <1>1, <1>5, ClientAssumption
  <1> QED BY <1>2, <1>3, <1>5, <1>6

\* The timeout on_timeout asks for is one set_recv_timeout accepts, provided no
\* deadline in the queue has come.
LEMMA NextTimeoutType ==
  ASSUME NEW left, left \in [DOMAIN left -> 1 .. CONN_TIMEOUT]
  PROVE  NextTimeout(left) \in Timeouts
  <1>1. CASE DOMAIN left = {}
    BY <1>1 DEF NextTimeout, Timeouts
  <1>2. CASE DOMAIN left # {}
    BY <1>2, NextTimeoutInTime DEF Timeouts
  <1> QED BY <1>1, <1>2

-----------------------------------------------------------------------------
\* The inductive invariant.  NeverStopsItself needs DeadlinePerServer (the
\* unwrap of a disconnection), and every clause needs the types.
IInv ==
  /\ TypeOK
  /\ DeadlinesOfServers
  /\ ActiveHasDeadline
  /\ DeadlinePerServer
  /\ NeverStopsItself

\* Initially both maps are empty.
LEMMA InitIInv == Init => IInv
  <1> SUFFICES ASSUME Init PROVE IInv
    OBVIOUS
  <1> USE ClientAssumption DEF Init
  <1>1. DOMAIN servers = {} /\ DOMAIN deadlines = {}
    OBVIOUS
  <1>2. servers \in [DOMAIN servers -> ServerIOState] /\ recvTimeout \in Timeouts
    OBVIOUS
  <1>3. deadlines \in [DOMAIN deadlines -> 0 .. CONN_TIMEOUT]
    OBVIOUS
  <1>4. waited \in 0 .. REQUEST_POLL_PERIOD /\ status \in Status
    BY DEF Status
  <1>5. TypeOK
    BY <1>1, <1>2, <1>3, <1>4 DEF TypeOK
  <1> QED
    BY <1>1, <1>5
    DEF IInv, DeadlinesOfServers, ActiveHasDeadline, DeadlinePerServer, NeverStopsItself

\* The common part of the message handlers keeps the invariant: it is enough
\* that the servers it stores are typed, that none is lost, that a new one is
\* the sender, and that only the sender may have become active without sending.
LEMMA HandledIInv ==
  ASSUME IInv, NEW addr \in Addr, NEW srv, NEW out \in SUBSET (Addr \X ClientMsg),
         DOMAIN srv \subseteq Addr, srv \in [DOMAIN srv -> ServerIOState],
         DOMAIN servers \subseteq DOMAIN srv,
         DOMAIN srv \subseteq DOMAIN servers \cup {addr},
         \A a \in DOMAIN srv : srv[a] \in {"Active", "PendingStop"} =>
            \/ a = addr /\ out = {}
            \/ a \in DOMAIN servers /\ servers[a] \in {"Active", "PendingStop"},
         Handled(addr, srv, out), Recv, UNCHANGED recvTimeout
  PROVE  IInv'
  <1> USE ClientAssumption DEF IInv, TypeOK, Recv
  <1>1. CASE sent' = out /\ deadlines' = refresh(addr, srv) /\ UNCHANGED <<status, failed>>
    <2>1. DOMAIN deadlines' = DOMAIN deadlines \cup (DOMAIN srv \cap {addr})
      BY <1>1 DEF refresh, Put
    <2>2. deadlines' \in [DOMAIN deadlines' -> 0 .. CONN_TIMEOUT]
      BY <1>1 DEF refresh, Put
    <2>3. TypeOK'
      BY <1>1, <2>1, <2>2 DEF Handled
    <2>4. DeadlinesOfServers' /\ DeadlinePerServer'
      BY <1>1, <2>1 DEF Handled, DeadlinesOfServers, DeadlinePerServer
    <2>5. ActiveHasDeadline'
      BY <2>1 DEF Handled, ActiveHasDeadline
    <2>6. NeverStopsItself'
      BY <1>1 DEF NeverStopsItself
    <2> QED BY <2>3, <2>4, <2>5, <2>6
  <1>2. CASE out # {} /\ sent' = {} /\ IoError /\ UNCHANGED deadlines
    <2>1. TypeOK'
      BY <1>2 DEF Handled, Status, IoError
    <2>2. ActiveHasDeadline'
      BY <1>2 DEF Handled, ActiveHasDeadline
    <2> QED
      BY <1>2, <2>1, <2>2
      DEF Handled, IoError, DeadlinesOfServers, DeadlinePerServer, NeverStopsItself
  <1> QED BY <1>1, <1>2 DEF Handled

\* Every message handler keeps the invariant.
LEMMA OnMessageIInv ==
  ASSUME IInv, NEW addr \in Addr, NEW msg \in ServerMsg, on_message(addr, msg)
  PROVE  IInv'
  <1> USE DEF IInv, TypeOK
  <1>0. Recv /\ UNCHANGED recvTimeout
    BY DEF on_message
  <1>1. CASE on_server_connect_request(addr)
    <2>1. CASE addr \in DOMAIN servers /\ Handled(addr, servers, {})
      BY <1>0, <2>1, HandledIInv
    <2>2. CASE /\ addr \notin DOMAIN servers
               /\ Handled(addr, Put(servers, addr, "Inactive"), {<<addr, "ConnectionOk">>})
      <3> DEFINE srv == Put(servers, addr, "Inactive")
      <3>1. /\ DOMAIN srv = DOMAIN servers \cup {addr}
            /\ srv \in [DOMAIN srv -> ServerIOState]
            /\ srv[addr] = "Inactive"
            /\ \A a \in DOMAIN servers : srv[a] = servers[a]
        BY <2>2 DEF Put, ServerIOState
      <3>2. {<<addr, "ConnectionOk">>} \in SUBSET (Addr \X ClientMsg)
        BY DEF ClientMsg
      <3> HIDE DEF srv
      <3>3. Handled(addr, srv, {<<addr, "ConnectionOk">>})
        BY <2>2 DEF srv
      <3> QED BY <1>0, <3>1, <3>2, <3>3, HandledIInv
    <2>3. CASE addr \notin DOMAIN servers /\ Handled(addr, servers, {<<addr, "ConnectionErr">>})
      <3>1. {<<addr, "ConnectionErr">>} \in SUBSET (Addr \X ClientMsg)
        BY DEF ClientMsg
      <3> QED BY <1>0, <2>3, <3>1, HandledIInv
    <2> QED BY <1>1, <2>1, <2>2, <2>3 DEF on_server_connect_request
  <1>2. CASE on_connected_message(addr, msg)
    <2>1. CASE addr \notin DOMAIN servers
      BY <1>0, <1>2, <2>1, HandledIInv DEF on_connected_message
    <2>2. CASE addr \in DOMAIN servers
      <3> DEFINE srv == [servers EXCEPT ![addr] = on_msg(@, msg)]
                 out == retry(addr, servers[addr], msg)
      <3>1. /\ DOMAIN srv = DOMAIN servers
            /\ srv \in [DOMAIN srv -> ServerIOState]
            /\ srv[addr] = on_msg(servers[addr], msg)
            /\ \A a \in DOMAIN servers \ {addr} : srv[a] = servers[a]
        BY <2>2, OnMsgType
      <3>2. out \in SUBSET (Addr \X ClientMsg)
        BY DEF retry, ClientMsg
      <3>3. Handled(addr, srv, out)
        BY <1>2, <2>2 DEF on_connected_message
      <3>4. on_msg(servers[addr], msg) # servers[addr] => out = {}
        BY DEF on_msg, retry
      <3> HIDE DEF srv, out
      <3> QED BY <1>0, <2>2, <3>1, <3>2, <3>3, <3>4, HandledIInv
    <2> QED BY <2>1, <2>2
  <1>3. CASE on_disconnect(addr)
    <2>1. /\ DOMAIN servers' = DOMAIN servers \ {addr}
          /\ \A a \in DOMAIN servers' : servers'[a] = servers[a]
          /\ servers' \in [DOMAIN servers' -> ServerIOState]
      BY <1>3 DEF on_disconnect, Without
    <2>2. /\ DOMAIN deadlines' = DOMAIN deadlines \ {addr}
          /\ deadlines' \in [DOMAIN deadlines' -> 0 .. CONN_TIMEOUT]
      BY <1>3 DEF on_disconnect, Without, DeadlinesOfServers
    <2>3. /\ status' = status \/ (status' = "Panicked" /\ failed)
          /\ failed' = failed
      BY <1>3 DEF on_disconnect, DeadlinePerServer
    <2>4. recvTimeout' \in Timeouts /\ sent' \subseteq Addr \X ClientMsg
      BY <1>0, <1>3 DEF on_disconnect
    <2>5. waited' \in 0 .. REQUEST_POLL_PERIOD
      BY <1>0, ClientAssumption DEF Recv
    <2>6. status' \in Status
      BY <2>3 DEF Status
    <2>7. DOMAIN servers' \subseteq Addr /\ DOMAIN deadlines' \subseteq Addr
      BY <2>1, <2>2
    <2>8. TypeOK'
      BY <2>1, <2>2, <2>3, <2>4, <2>5, <2>6, <2>7
    <2> QED
      BY <2>1, <2>2, <2>3, <2>8
      DEF DeadlinesOfServers, ActiveHasDeadline, DeadlinePerServer, NeverStopsItself
  <1> QED BY <1>1, <1>2, <1>3 DEF on_message

\* on_timeout keeps the invariant: what it pops it also removes, what is left
\* in the queue lies in the future, so the next timeout is not zero.
LEMMA OnTimeoutIInv ==
  ASSUME IInv, on_timeout
  PROVE  IInv'
  <1> USE DEF IInv, TypeOK
  <1>1. Expired \subseteq DOMAIN servers
    BY DEF Expired, DeadlinesOfServers
  <1>2. PICK asked \in SUBSET Pollable(Unexpired) : PollRequests(Unexpired, asked)
    BY <1>1 DEF on_timeout
  <1>3. /\ DOMAIN Unexpired = DOMAIN servers \ Expired
        /\ Unexpired \in [DOMAIN Unexpired -> ServerIOState]
        /\ \A a \in DOMAIN Unexpired : Unexpired[a] = servers[a]
    BY DEF Unexpired, Without
  <1>4. /\ DOMAIN deadlines' = DOMAIN deadlines \ Expired
        /\ deadlines' \in [DOMAIN deadlines' -> 1 .. CONN_TIMEOUT]
    BY ClientAssumption DEF on_timeout, Without, Expired
  <1>5. /\ DOMAIN servers' = DOMAIN servers \ Expired
        /\ servers' \in [DOMAIN servers' -> ServerIOState]
        /\ \A a \in DOMAIN servers' :
             servers'[a] \in {"Active", "PendingStop"} =>
               servers[a] \in {"Active", "PendingStop"}
    BY <1>2, <1>3 DEF PollRequests, Pollable, Requested, ServerIOState
  <1>6. NextTimeout(deadlines') \in Timeouts
    BY <1>4, NextTimeoutType
  <1>7. /\ recvTimeout' \in Timeouts
        /\ \/ status' = "Running" /\ failed' = failed
           \/ status' = "Returned" /\ failed' = TRUE
    <2>1. 0 \notin NextTimeout(deadlines')
      BY <1>6, ClientAssumption DEF Timeouts
    <2> QED BY <1>2, <1>6, <2>1 DEF PollRequests, set_recv_timeout, IoError, on_timeout, Recv
  <1>8. sent' \subseteq Addr \X ClientMsg
    <2>1. asked \subseteq Addr
      BY <1>2, <1>3 DEF Pollable
    <2>2. \A a \in asked : <<a, RequestMsg(Unexpired[a])>> \in Addr \X ClientMsg
      BY <2>1 DEF RequestMsg, ClientMsg
    <2> QED BY <1>2, <2>2 DEF PollRequests
  <1>9. TypeOK'
    <2>1. waited' \in 0 .. REQUEST_POLL_PERIOD
      BY ClientAssumption DEF on_timeout, Recv
    <2>2. status' \in Status /\ failed' \in BOOLEAN
      BY <1>7 DEF Status
    <2>3. deadlines' \in [DOMAIN deadlines' -> 0 .. CONN_TIMEOUT]
      BY <1>4, ClientAssumption
    <2> QED BY <1>4, <1>5, <1>7, <1>8, <2>1, <2>2, <2>3
  <1>10. DeadlinesOfServers' /\ DeadlinePerServer'
    BY <1>4, <1>5, <1>7 DEF DeadlinesOfServers, DeadlinePerServer
  <1>11. ActiveHasDeadline'
    BY <1>4, <1>5 DEF ActiveHasDeadline
  <1>12. NeverStopsItself'
    BY <1>7 DEF NeverStopsItself
  <1> QED BY <1>9, <1>10, <1>11, <1>12

\* Every step of the receive loop and of the clock keeps the invariant.
LEMMA NextIInv == IInv /\ [Next]_vars => IInv'
  <1> SUFFICES ASSUME IInv, [Next]_vars PROVE IInv'
    OBVIOUS
  <1>1. ASSUME NEW a \in Addr, NEW m \in ServerMsg, on_message(a, m) PROVE IInv'
    BY <1>1, OnMessageIInv
  <1>2. CASE on_timeout
    BY <1>2, OnTimeoutIInv
  <1> USE ClientAssumption
      DEF IInv, TypeOK, DeadlinesOfServers, ActiveHasDeadline, DeadlinePerServer,
          NeverStopsItself, Status
  <1>3. CASE on_unknown_message
    BY <1>3 DEF on_unknown_message, Recv
  <1>4. CASE RecvError
    BY <1>4 DEF RecvError, IoError
  <1>5. CASE Restart
    BY <1>5 DEF Restart
  <1>6. CASE Tick
    <2>1. /\ DOMAIN deadlines' = DOMAIN deadlines
          /\ deadlines' \in [DOMAIN deadlines' -> 0 .. CONN_TIMEOUT]
      BY <1>6 DEF Tick
    <2>2. waited' \in 0 .. REQUEST_POLL_PERIOD
      BY <1>6 DEF Tick
    <2> QED BY <1>6, <2>1, <2>2 DEF Tick
  <1>7. CASE UNCHANGED vars
    BY <1>7 DEF vars
  <1> QED BY <1>1, <1>2, <1>3, <1>4, <1>5, <1>6, <1>7 DEF Next

\* The invariant holds in every reachable state.
LEMMA SpecIInv == Spec => []IInv
  BY InitIInv, NextIInv, PTL DEF Spec

\* Type correctness of the client, for every set of servers and every timing.
THEOREM TypeCorrect == Spec => []TypeOK
  BY SpecIInv, PTL DEF IInv

\* The unwrap in on_timeout never fails: no deadline outlives its server,
\* through send failures and restarts of the loop.
THEOREM DeadlinesBelong == Spec => []DeadlinesOfServers
  BY SpecIInv, PTL DEF IInv

\* A server with active IO can always be dropped for silence.
THEOREM ActiveServersCanExpire == Spec => []ActiveHasDeadline
  BY SpecIInv, PTL DEF IInv

\* Until a socket call fails, every connected server has a deadline.
THEOREM EveryServerHasDeadline == Spec => []DeadlinePerServer
  BY SpecIInv, PTL DEF IInv

\* Until a socket call fails, the client neither panics nor asks for a zero
\* timeout: its receive loop runs on.
THEOREM CleanRun == Spec => []NeverStopsItself
  BY SpecIInv, PTL DEF IInv

-----------------------------------------------------------------------------
(* The receive timeout *)

\* What is left after on_timeout, when it returns Ok: no server whose deadline has
\* come, and a timeout that wakes the loop again in time for the next deadline; none
\* if there is no deadline.
Rearmed ==
  /\ \A a \in DOMAIN deadlines : a \in DOMAIN servers /\ deadlines[a] > 0
  /\ DOMAIN deadlines = {} => recvTimeout = {}
  /\ DOMAIN deadlines # {} =>
       \E t \in 1 .. REQUEST_POLL_PERIOD :
         recvTimeout = {t} /\ \A a \in DOMAIN deadlines : t <= deadlines[a]

LEMMA TimeoutRearms ==
  ASSUME IInv, on_timeout, status' = "Running"
  PROVE  Rearmed'
  <1> USE DEF IInv, TypeOK
  <1>1. Expired \subseteq DOMAIN servers
    BY DEF Expired, DeadlinesOfServers
  <1>2. PICK asked \in SUBSET Pollable(Unexpired) : PollRequests(Unexpired, asked)
    BY <1>1 DEF on_timeout
  <1>3. /\ DOMAIN deadlines' = DOMAIN deadlines \ Expired
        /\ deadlines' \in [DOMAIN deadlines' -> 1 .. CONN_TIMEOUT]
    BY ClientAssumption DEF on_timeout, Without, Expired
  <1>4. DOMAIN servers' = DOMAIN servers \ Expired
    BY <1>2 DEF PollRequests, Unexpired, Without
  <1>5. recvTimeout' = NextTimeout(deadlines')
    BY <1>2 DEF PollRequests, set_recv_timeout, IoError
  <1>6. \A a \in DOMAIN deadlines' : a \in DOMAIN servers' /\ deadlines'[a] > 0
    BY <1>3, <1>4, ClientAssumption DEF DeadlinesOfServers
  <1>7. CASE DOMAIN deadlines' = {}
    BY <1>5, <1>6, <1>7 DEF Rearmed, NextTimeout
  <1>8. CASE DOMAIN deadlines' # {}
    BY <1>3, <1>5, <1>6, <1>8, NextTimeoutInTime DEF Rearmed
  <1> QED BY <1>7, <1>8

\* Every on_timeout that returns Ok has dropped all servers that are overdue, and the
\* timeout it sets ends no later than the next deadline: silence is noticed at the
\* first timeout after it has lasted CONN_TIMEOUT, not a poll period later.
THEOREM TimeoutInTime == Spec => [][on_timeout /\ status' = "Running" => Rearmed']_vars
  BY SpecIInv, TimeoutRearms, PTL DEF Spec

\* A step while the socket has no receive timeout leaves it without one, and drops
\* only a server that disconnects.
Deaf ==
  recvTimeout = {} =>
    /\ recvTimeout' = {}
    /\ \A a \in DOMAIN servers \ DOMAIN servers' : on_message(a, "Disconnect")

\* Once on_timeout has set the receive timeout to None it never runs again, whatever
\* connects: from then on no server is dropped for silence.  It is what is behind the
\* violation of ConnectedServersExpire, for any number of servers.
THEOREM NoneIsForever == Spec => [][Deaf]_vars
  <1>1. ASSUME Next PROVE Deaf
    <2> SUFFICES ASSUME recvTimeout = {}
                 PROVE  /\ recvTimeout' = {}
                        /\ \A a \in DOMAIN servers \ DOMAIN servers' : on_message(a, "Disconnect")
      BY DEF Deaf
    <2>1. CASE on_timeout
      BY <2>1 DEF on_timeout
    <2>2. ASSUME NEW addr \in Addr, NEW msg \in ServerMsg, on_message(addr, msg)
          PROVE  /\ recvTimeout' = {}
                 /\ \A a \in DOMAIN servers \ DOMAIN servers' : on_message(a, "Disconnect")
      <3>1. recvTimeout' = {}
        BY <2>2 DEF on_message
      <3>2. CASE msg = "Connect" /\ on_server_connect_request(addr)
        <4>1. DOMAIN servers \subseteq DOMAIN servers'
          BY <3>2 DEF on_server_connect_request, Handled, Put
        <4> QED BY <3>1, <4>1
      <3>3. CASE msg \in ConnectedMsg /\ on_connected_message(addr, msg)
        <4>1. DOMAIN servers \subseteq DOMAIN servers'
          BY <3>3 DEF on_connected_message, Handled
        <4> QED BY <3>1, <4>1
      <3>4. CASE msg = "Disconnect" /\ on_disconnect(addr)
        <4>1. DOMAIN servers \ DOMAIN servers' \subseteq {addr}
          BY <3>4 DEF on_disconnect, Without
        <4> QED BY <2>2, <3>1, <3>4, <4>1
      <3> QED BY <2>2, <3>2, <3>3, <3>4 DEF on_message
    <2>3. CASE on_unknown_message \/ RecvError \/ Restart \/ Tick
      BY <2>3 DEF on_unknown_message, RecvError, Restart, Tick
    <2> QED BY <1>1, <2>1, <2>2, <2>3 DEF Next
  <1> QED BY <1>1, PTL DEF Spec

-----------------------------------------------------------------------------
\* The refinement mapping of TypestateContract.
IO == [a \in Addr |-> IF a \in DOMAIN servers THEN servers[a] ELSE "Disconnected"]

\* One step of the map for one address: what every handler does to a server is
\* a move of the contract.
Moved(a) == IO'[a] = IO[a] \/ <<IO[a], IO'[a]>> \in Lifecycle!Moves

\* Every step of the client is a step of the contract: each address stays or
\* makes one of the moves its traits allow.
LEMMA StepMoves ==
  ASSUME IInv, [Next]_vars
  PROVE  \A a \in Addr : Moved(a)
  <1> SUFFICES ASSUME NEW a \in Addr PROVE Moved(a)
    OBVIOUS
  <1> USE DEF IInv, TypeOK, Lifecycle!Moves, Lifecycle!connect, Lifecycle!drop,
              Lifecycle!poll_start_io, Lifecycle!start_io, Lifecycle!poll_stop_io,
              Lifecycle!stop_io, Lifecycle!State
  <1>1. CASE servers' = servers
    BY <1>1 DEF Moved, IO
  <1>2. ASSUME NEW addr \in Addr, NEW msg \in ServerMsg, on_message(addr, msg)
        PROVE  Moved(a)
    <2>1. CASE on_server_connect_request(addr)
      <3>1. servers' = servers \/ (addr \notin DOMAIN servers /\ servers' = Put(servers, addr, "Inactive"))
        BY <2>1 DEF on_server_connect_request, Handled
      <3> QED BY <1>1, <3>1 DEF Put, Moved, IO
    <2>2. CASE on_connected_message(addr, msg)
      <3>1. CASE addr \notin DOMAIN servers
        BY <1>1, <2>2, <3>1 DEF on_connected_message, Handled
      <3>2. CASE addr \in DOMAIN servers
        <4>1. servers' = [servers EXCEPT ![addr] = on_msg(servers[addr], msg)]
          BY <2>2, <3>2 DEF on_connected_message, Handled
        <4>2. \/ on_msg(servers[addr], msg) = servers[addr]
              \/ <<servers[addr], on_msg(servers[addr], msg)>> \in
                    {<<"PendingStart", "Active">>, <<"PendingStart", "Inactive">>,
                     <<"PendingStop", "Inactive">>, <<"PendingStop", "Active">>}
          BY DEF on_msg
        <4> QED BY <3>2, <4>1, <4>2 DEF Moved, IO
      <3> QED BY <3>1, <3>2
    <2>3. CASE on_disconnect(addr)
      BY <2>3 DEF on_disconnect, Without, Moved, IO, ServerIOState
    <2> QED BY <1>2, <2>1, <2>2, <2>3 DEF on_message
  <1>3. CASE on_timeout
    <2>1. Expired \subseteq DOMAIN servers
      BY DEF Expired, DeadlinesOfServers
    <2>2. PICK asked \in SUBSET Pollable(Unexpired) : PollRequests(Unexpired, asked)
      BY <1>3, <2>1 DEF on_timeout
    <2>3. /\ DOMAIN servers' = DOMAIN servers \ Expired
          /\ \A b \in DOMAIN servers' :
               \/ servers'[b] = servers[b]
               \/ servers[b] = "Inactive" /\ servers'[b] = "PendingStart"
               \/ servers[b] = "Active" /\ servers'[b] = "PendingStop"
      BY <2>2 DEF PollRequests, Pollable, Unexpired, Without, Requested
    <2> QED BY <2>3 DEF Moved, IO, ServerIOState
  <1> QED
    BY <1>1, <1>2, <1>3 DEF Next, vars, on_unknown_message, RecvError, Restart, Tick

\* The client implements the contract the typestate traits state.
THEOREM Typestates == Spec => TypestateContract
  <1>1. Init => Lifecycle!Init
    BY DEF Init, Lifecycle!Init
  <1>2. IInv /\ IInv' /\ [Next]_vars => [Lifecycle!Next]_IO
    <2> SUFFICES ASSUME IInv, IInv', [Next]_vars PROVE Lifecycle!Next
      BY DEF IO
    <2>1. \A a \in Addr : Moved(a)
      BY StepMoves
    <2>2. IO' \in [Addr -> Lifecycle!State]
      BY DEF IO, IInv, TypeOK, ServerIOState, Lifecycle!State
    <2> QED BY <2>1, <2>2 DEF Lifecycle!Next, Moved, IO
  <1> QED
    BY <1>1, <1>2, SpecIInv, PTL DEF Spec, TypestateContract, Lifecycle!Spec, IO

=============================================================================

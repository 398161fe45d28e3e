------------------------ MODULE ClientSessionProofs ------------------------
(***************************************************************************)
(* Proofs about ClientSession: any number of servers, any number of        *)
(* network faults, and, unless a theorem says which, either send_msg.      *)
(***************************************************************************)
EXTENDS Sequences, ClientSession, GenericClientProofs

Streaming == {"Active", "PendingStop"}

\* No stop request goes out, so that no answer to one comes back: on_timeout sends
\* START_IO for it, and only a failure to stop repeats a stop request.
NoStops ==
  /\ \A a \in Addr : <<a, "StopIO">> \notin toServer
  /\ \A a \in Addr : \A m \in Replies["StopIO"] : <<a, m>> \notin toClient

\* Before a server is connected for the first time it has acknowledged nothing.
NotBeforeConnection ==
  \A a \in Addr :
    /\ phase[a] # "Idle" => sessions[a] # 0
    /\ sessions[a] = 0 \/ phase[a] = "Connecting" =>
         <<a, "StartOk">> \notin toClient /\ IOState(a) \notin Streaming

\* An acknowledgement in flight or handled is that of a server that is ready.
AckMeansReady ==
  \A a \in Addr :
    phase[a] = "Connected" /\ (<<a, "StartOk">> \in toClient \/ IOState(a) \in Streaming)
      => ioReady[a]

\* What the bounds of a session are.
Bounds == MaxFaults \in Nat /\ MaxSessions \in Nat

\* The inductive invariant.
SessionInv ==
  /\ IInv
  /\ SessionTypeOK
  /\ NoStops
  /\ NotBeforeConnection
  /\ AckMeansReady

-----------------------------------------------------------------------------
(* The wire *)

\* The variants of ClientMessageFlat that the messages are sent as.
Number == [Discovery |-> 0, ConnectionOk |-> 1, ConnectionErr |-> 3, StartIO |-> 4, StopIO |-> 5]

Named == {"Discovery", "ConnectionOk", "ConnectionErr", "StartIO", "StopIO"}

LEMMA Names == DOMAIN Encoded = Named /\ DOMAIN Number = Named
  BY DEF Encoded, Number, Named

\* A message is encoded into one byte.
LEMMA OneByte ==
  ASSUME NEW m \in Named
  PROVE  Wire!client_message_encode(Encoded[m]) = <<Number[m]>>
  <1> DEFINE enum == Wire!ClientMessageFlat
             v == Wire!client_flat(Encoded[m])
  <1>1. /\ Len(enum) = 9
        /\ \A i \in 0 .. 8, j \in 0 .. 8 : enum[i + 1] = enum[j + 1] => i = j
    BY DEF Wire!ClientMessageFlat
  <1>2. /\ Number[m] \in 0 .. 8 /\ v = <<enum[Number[m] + 1]>>
        /\ enum[Number[m] + 1] \notin {"AudioHeader", "Connect"}
    BY DEF Named, Encoded, Number, Wire!client_flat, Wire!ClientMessageFlat,
           Wire!CONN_SUCCESS, Wire!CONN_REFUSED, Wire!START_IO, Wire!STOP_IO
  <1> HIDE DEF enum, v
  <1> DEFINE tag == enum[Number[m] + 1]
  <1>3. Wire!variant(enum, tag) = Number[m]
    BY <1>1, <1>2 DEF Wire!variant
  <1> HIDE DEF tag
  <1>4. v[1] = tag /\ Wire!fields(v) = <<>>
    BY <1>2 DEF tag, Wire!fields
  <1>5. Wire!to_io(enum, v) = <<Number[m]>> \o <<>>
    BY <1>3, <1>4 DEF Wire!to_io
  <1> QED BY <1>2, <1>5 DEF Wire!client_message_encode, enum, v

\* The first byte of a datagram says what is read of it.
LEMMA FirstByte ==
  ASSUME NEW m \in Named, NEW w \in Seq(Nat), w # <<>>, w[1] = Number[m]
  PROVE  Read(w) = {m}
  <1> DEFINE enum == Wire!ClientMessageFlat
             tag == enum[w[1] + 1]
  <1>1. /\ Len(enum) = 9 /\ w[1] < 9 /\ tag \notin {"AudioHeader", "Connect"}
        /\ Wire!client_from_flat(<<tag>>) = Encoded[m]
    <2>1. CASE m = "Discovery"
      <3>1. Number[m] = 0 /\ Encoded[m] = <<"Discovery">>
        BY <2>1 DEF Number, Encoded
      <3> QED BY <3>1 DEF Wire!client_from_flat, Wire!ClientMessageFlat
    <2>2. CASE m = "ConnectionOk"
      <3>1. Number[m] = 1 /\ Encoded[m] = Wire!CONN_SUCCESS
        BY <2>2 DEF Number, Encoded
      <3> QED BY <3>1 DEF Wire!client_from_flat, Wire!ClientMessageFlat
    <2>3. CASE m = "ConnectionErr"
      <3>1. Number[m] = 3 /\ Encoded[m] = Wire!CONN_REFUSED
        BY <2>3 DEF Number, Encoded
      <3> QED BY <3>1 DEF Wire!client_from_flat, Wire!ClientMessageFlat
    <2>4. CASE m = "StartIO"
      <3>1. Number[m] = 4 /\ Encoded[m] = Wire!START_IO
        BY <2>4 DEF Number, Encoded
      <3> QED BY <3>1 DEF Wire!client_from_flat, Wire!ClientMessageFlat
    <2>5. CASE m = "StopIO"
      <3>1. Number[m] = 5 /\ Encoded[m] = Wire!STOP_IO
        BY <2>5 DEF Number, Encoded
      <3> QED BY <3>1 DEF Wire!client_from_flat, Wire!ClientMessageFlat
    <2> QED BY <2>1, <2>2, <2>3, <2>4, <2>5 DEF Named
  <1>2. Wire!deserialize(enum, w) = {<<<<tag>>, Wire!finalize(w, 1)>>}
    <2> HIDE DEF enum
    <2> QED BY <1>1 DEF Wire!deserialize
  <1> HIDE DEF tag
  <1>3. \A got \in Wire!client_message_decode(w) : got[1] = Encoded[m]
    BY <1>1, <1>2 DEF Wire!client_message_decode
  <1>4. Wire!client_message_decode(w) # {}
    BY <1>2 DEF Wire!client_message_decode
  <1>5. \A n \in Named : Encoded[n] = Encoded[m] => n = m
    BY DEF Named, Encoded, Wire!CONN_SUCCESS, Wire!CONN_REFUSED, Wire!START_IO, Wire!STOP_IO
  <1> QED BY <1>3, <1>4, <1>5, Names DEF Read

\* send_msg, as it is, has every message arrive as a Discovery: its message does not
\* fill the buffer, and what is left of it begins with 0.
LEMMA ArrivingIs ==
  ASSUME NEW m \in ClientMsg
  PROVE  Arriving[m] = IF SendsWritten THEN {m} ELSE {"Discovery"}
  <1>1. m \in Named
    BY DEF ClientMsg, Named
  <1>2. Number[m] \in Nat /\ "Discovery" \in Named /\ Number["Discovery"] = 0
    BY <1>1 DEF Number, Named
  <1> DEFINE s == <<Number[m]>>
             z == [k \in 1 .. 199 |-> 0]
  <1>3. s \in Seq(Nat) /\ s # <<>> /\ s[1] = Number[m] /\ Len(s) = 1
    BY <1>2
  <1>4. z \in Seq(Nat) /\ z # <<>> /\ z[1] = 0
    <2>1. z \in Seq(Nat) /\ Len(z) = 199 /\ z[1] = 0
      OBVIOUS
    <2> HIDE DEF z
    <2>2. z # <<>>
      <3> SUFFICES ASSUME z = <<>> PROVE FALSE
        OBVIOUS
      <3> QED BY <2>1
    <2> QED BY <2>1, <2>2
  <1>5. Wire!unwritten(s) = {z}
    BY <1>3 DEF Wire!unwritten
  <1> HIDE DEF z, s
  <1>6. send_msg(m) = IF SendsWritten THEN {s} ELSE {z}
    BY <1>1, <1>5, OneByte DEF send_msg, s
  <1>7. Read(s) = {m}
    BY <1>1, <1>3, FirstByte
  <1>8. Read(z) = {"Discovery"}
    BY <1>2, <1>4, FirstByte
  <1> QED BY <1>6, <1>7, <1>8 DEF Arriving

\* What arrives is a message the servers know; a stop request was meant as one; and
\* with send_msg as it is there are only Discoveries.
LEMMA WireMessages ==
  ASSUME NEW msgs
  PROVE  /\ OnWire(msgs) \subseteq Addr \X (ClientMsg \cup {"Discovery"})
         /\ \A b \in Addr : <<b, "StopIO">> \in OnWire(msgs) => <<b, "StopIO">> \in msgs
         /\ ~SendsWritten => OnWire(msgs) \subseteq Addr \X {"Discovery"}
  <1>1. OnWire(msgs) \subseteq Addr \X (ClientMsg \cup {"Discovery"})
    BY Names DEF OnWire, Named, ClientMsg
  <1>2. ASSUME NEW b \in Addr, <<b, "StopIO">> \in OnWire(msgs) PROVE <<b, "StopIO">> \in msgs
    <2>1. PICK out \in ClientMsg : <<b, out>> \in msgs /\ "StopIO" \in Arriving[out]
      BY <1>2 DEF OnWire
    <2>2. Arriving[out] = {out} \/ Arriving[out] = {"Discovery"}
      BY ArrivingIs
    <2> QED BY <2>1, <2>2
  <1>3. ASSUME ~SendsWritten, NEW d \in OnWire(msgs) PROVE d \in Addr \X {"Discovery"}
    <2>1. PICK m \in ClientMsg : d[2] \in Arriving[m]
      BY <1>3 DEF OnWire
    <2>2. d[2] = "Discovery"
      BY <1>3, <2>1, ArrivingIs
    <2>3. d \in Addr \X DOMAIN Encoded
      BY <1>3 DEF OnWire
    <2> QED BY <2>2, <2>3
  <1> QED BY <1>1, <1>2, <1>3

-----------------------------------------------------------------------------
\* The steps of the session that are not the client's leave it alone, and the
\* client's are steps of the client.
LEMMA ClientSteps == [SessionNext]_allVars => [Next]_vars
  BY DEF SessionNext, allVars, ClientRecv, ClientTimeout, ClientTick, Next,
         start_discovery_beacon, Server, ServerDiscovers, ServerAsksAgain, ServerStreams,
         ServerLeaves, ServerHearsResult, ServerAnswers, Lose

\* The client's invariant holds in a session.
LEMMA SessionIInv == SessionInit /\ [][SessionNext]_allVars => []IInv
  <1>1. SessionInit => IInv
    BY InitIInv DEF SessionInit
  <1>2. IInv /\ [SessionNext]_allVars => IInv'
    BY ClientSteps, NextIInv
  <1> QED BY <1>1, <1>2, PTL

\* The client in a session behaves like the client on its own, whose messages come
\* from anywhere: what GenericClientProofs shows of it holds in every session.
THEOREM SessionClient == SessionSpec => Spec
  <1>1. SessionInit => Init
    BY DEF SessionInit
  <1> QED BY <1>1, ClientSteps, PTL DEF SessionSpec, Spec

\* So a server's callbacks follow the typestates in a session too, and the client
\* stops by its own doing in none.
COROLLARY SessionTypestates ==
  SessionSpec => TypestateContract /\ []NeverStopsItself
  BY SessionClient, Typestates, CleanRun, PTL

\* What is taken from the network was there, and nothing else changes.
LEMMA TakenSubset ==
  ASSUME NEW from, NEW to, NEW d, NEW n, Taken(from, to, d, n)
  PROVE  d \in from /\ to \subseteq from
  BY DEF Taken

\* Faults are counted up to their bound.
LEMMA TakenFaults ==
  ASSUME Bounds, NEW from, NEW to, NEW d, NEW n \in 0 .. 1, Taken(from, to, d, n),
         faults \in 0 .. MaxFaults
  PROVE  faults' \in 0 .. MaxFaults
  BY DEF Bounds, Taken, Faults

\* A handler of the client sends nothing the servers do not know, no stop request
\* unless a failure to stop has come, and starts to stream to a server only on an
\* acknowledgement.
LEMMA RecvFacts ==
  ASSUME IInv, NEW a \in Addr, NEW m \in ServerMsg, on_message(a, m)
  PROVE  /\ \A b \in Addr : <<b, "StopIO">> \in sent' => <<b, m>> = <<a, "StopFailure">>
         /\ \A b \in Addr : IOState(b)' \in Streaming =>
              IOState(b) \in Streaming \/ <<b, m>> = <<a, "StartOk">>
  <1> USE DEF IOState, Streaming
  <1>1. CASE on_server_connect_request(a)
    <2>1. servers' = servers \/ servers' = Put(servers, a, "Inactive")
      BY <1>1 DEF on_server_connect_request, Handled
    <2>2. \A b \in Addr : <<b, "StopIO">> \notin sent'
      BY <1>1 DEF on_server_connect_request, Handled
    <2> QED BY <2>1, <2>2 DEF Put
  <1>2. CASE on_connected_message(a, m)
    <2>1. CASE a \notin DOMAIN servers
      BY <1>2, <2>1 DEF on_connected_message, Handled
    <2>2. CASE a \in DOMAIN servers
      <3>1. servers' = [servers EXCEPT ![a] = on_msg(servers[a], m)]
        BY <1>2, <2>2 DEF on_connected_message, Handled
      <3>2. on_msg(servers[a], m) \in Streaming => servers[a] \in Streaming \/ m = "StartOk"
        BY DEF on_msg
      <3>3. sent' \subseteq retry(a, servers[a], m)
        BY <1>2, <2>2 DEF on_connected_message, Handled
      <3>4. \A b \in Addr : <<b, "StopIO">> \in sent' => b = a /\ m = "StopFailure"
        BY <3>3 DEF retry
      <3> QED BY <2>2, <3>1, <3>2, <3>4
    <2> QED BY <2>1, <2>2
  <1>3. CASE on_disconnect(a)
    BY <1>3 DEF on_disconnect, Without
  <1> QED BY <1>1, <1>2, <1>3 DEF on_message

\* on_timeout sends no stop request and does not begin to stream.
LEMMA TimeoutFacts ==
  ASSUME IInv, on_timeout
  PROVE  /\ \A b \in Addr : <<b, "StopIO">> \notin sent'
         /\ \A b \in Addr : IOState(b)' \in Streaming => IOState(b) \in Streaming
  <1>1. Expired \subseteq DOMAIN servers
    BY DEF Expired, DeadlinesOfServers, IInv
  <1>2. PICK asked \in SUBSET Pollable(Unexpired) : PollRequests(Unexpired, asked)
    BY <1>1 DEF on_timeout
  <1>3. \A b \in Addr : <<b, "StopIO">> \notin sent'
    BY <1>2 DEF PollRequests, RequestMsg
  <1>4. /\ DOMAIN servers' = DOMAIN servers \ Expired
        /\ \A b \in DOMAIN servers' :
             servers'[b] \in Streaming => servers[b] \in Streaming
    BY <1>2 DEF PollRequests, Pollable, Unexpired, Without, Requested, Streaming
  <1> QED BY <1>3, <1>4 DEF IOState, Streaming

-----------------------------------------------------------------------------
(* Types *)

\* Every step keeps the session's variables in their types.
LEMMA SessionTypeStep ==
  ASSUME Bounds, IInv, IInv', SessionTypeOK, [SessionNext]_allVars
  PROVE  SessionTypeOK'
  <1>t. TypeOK' /\ OnWire(sent') \subseteq Addr \X (ClientMsg \cup {"Discovery"})
    BY WireMessages DEF IInv
  <1> DEFINE Net ==
        /\ toServer' \subseteq Addr \X (ClientMsg \cup {"Discovery"})
        /\ toClient' \subseteq Addr \X ServerMsg
        /\ faults' \in 0 .. MaxFaults
      Srv ==
        /\ phase' \in [Addr -> {"Idle", "Connecting", "Connected"}]
        /\ ioReady' \in [Addr -> BOOLEAN]
        /\ sessions' \in [Addr -> 0 .. MaxSessions]
  <1> SUFFICES Net /\ Srv
    BY <1>t DEF SessionTypeOK
  <1>1. ASSUME NEW a \in Addr, NEW m \in ServerMsg, ClientRecv(a, m) PROVE Net /\ Srv
    <2>1. faults' \in 0 .. MaxFaults /\ toClient' \subseteq toClient
      BY <1>1, TakenFaults, TakenSubset DEF ClientRecv, SessionTypeOK
    <2> QED BY <1>1, <1>t, <2>1 DEF ClientRecv, SessionTypeOK, srv
  <1>2. CASE ClientTimeout
    BY <1>2, <1>t DEF ClientTimeout, SessionTypeOK, srv
  <1>3. CASE ClientTick \/ UNCHANGED allVars
    BY <1>3 DEF ClientTick, SessionTypeOK, net, srv, allVars
  <1>4. CASE start_discovery_beacon
    BY <1>4 DEF start_discovery_beacon, SessionTypeOK, srv
  <1>5. ASSUME NEW a \in Addr, Server(a) PROVE Net /\ Srv
    <2>1. CASE ServerDiscovers(a)
      <3>1. faults' \in 0 .. MaxFaults /\ toServer' \subseteq toServer
        BY <2>1, TakenFaults, TakenSubset DEF ServerDiscovers, SessionTypeOK
      <3>2. toClient' \subseteq Addr \X ServerMsg
        BY <2>1 DEF ServerDiscovers, ServerSends, ServerMsg, SessionTypeOK
      <3>3. sessions' \in [Addr -> 0 .. MaxSessions]
        BY <2>1 DEF Bounds, ServerDiscovers, SessionTypeOK
      <3>4. phase' \in [Addr -> {"Idle", "Connecting", "Connected"}]
        BY <2>1 DEF ServerDiscovers, SessionTypeOK
      <3> QED BY <2>1, <3>1, <3>2, <3>3, <3>4 DEF ServerDiscovers, SessionTypeOK
    <2>2. CASE ServerAsksAgain(a)
      BY <2>2 DEF ServerAsksAgain, ServerSends, ServerMsg, SessionTypeOK, srv
    <2>3. CASE ServerStreams(a)
      BY <2>3 DEF ServerStreams, ServerSends, ServerMsg, ConnectedMsg, SessionTypeOK, srv
    <2>4. CASE ServerLeaves(a)
      <3>1. toClient' \subseteq Addr \X ServerMsg
        BY <2>4 DEF ServerLeaves, ServerSends, ServerMsg, SessionTypeOK
      <3>2. phase' \in [Addr -> {"Idle", "Connecting", "Connected"}]
        BY <2>4 DEF ServerLeaves, SessionTypeOK
      <3>3. ioReady' \in [Addr -> BOOLEAN]
        BY <2>4 DEF ServerLeaves, SessionTypeOK
      <3> QED BY <2>4, <3>1, <3>2, <3>3 DEF ServerLeaves, SessionTypeOK
    <2>5. ASSUME NEW m \in {"ConnectionOk", "ConnectionErr"}, ServerHearsResult(a, m)
          PROVE  Net /\ Srv
      <3>1. faults' \in 0 .. MaxFaults /\ toServer' \subseteq toServer
        BY <2>5, TakenFaults, TakenSubset DEF ServerHearsResult, SessionTypeOK
      <3>2. phase' \in [Addr -> {"Idle", "Connecting", "Connected"}]
        BY <2>5 DEF ServerHearsResult, SessionTypeOK
      <3> QED BY <2>5, <3>1, <3>2 DEF ServerHearsResult, SessionTypeOK
    <2>6. ASSUME NEW m \in {"StartIO", "StopIO"}, NEW reply \in Replies[m],
                 ServerAnswers(a, m, reply)
          PROVE  Net /\ Srv
      <3>1. faults' \in 0 .. MaxFaults /\ toServer' \subseteq toServer
        BY <2>6, TakenFaults, TakenSubset DEF ServerAnswers, SessionTypeOK
      <3>2. reply \in ServerMsg
        BY DEF Replies, ServerMsg, ConnectedMsg
      <3>3. toClient' \subseteq Addr \X ServerMsg
        BY <2>6, <3>2 DEF ServerAnswers, ServerSends, SessionTypeOK
      <3>4. ioReady' \in [Addr -> BOOLEAN]
        BY <2>6 DEF ServerAnswers, SessionTypeOK
      <3> QED BY <2>6, <3>1, <3>3, <3>4 DEF ServerAnswers, SessionTypeOK
    <2> QED BY <1>5, <2>1, <2>2, <2>3, <2>4, <2>5, <2>6 DEF Server
  <1>6. CASE Lose
    BY <1>6 DEF Bounds, Lose, Faults, SessionTypeOK, srv
  <1> QED BY <1>1, <1>2, <1>3, <1>4, <1>5, <1>6 DEF SessionNext

\* Every datagram in flight is one the protocol has, and the faults and the
\* connections stay within their bounds, for any number of servers.
THEOREM SessionTypes ==
  ASSUME Bounds
  PROVE  SessionSpec => []SessionTypeOK
  <1>1. SessionInit => SessionTypeOK
    BY InitIInv DEF Bounds, SessionInit, SessionTypeOK, IInv
  <1>2. IInv /\ IInv' /\ SessionTypeOK /\ [SessionNext]_allVars => SessionTypeOK'
    BY SessionTypeStep
  <1>3. SessionSpec => []IInv
    BY SessionIInv, PTL DEF SessionSpec
  <1> QED BY <1>1, <1>2, <1>3, PTL DEF SessionSpec

-----------------------------------------------------------------------------
(* Stop requests *)

\* Every step keeps the network free of stop requests and of answers to them.
LEMMA NoStopsStep ==
  ASSUME IInv, NoStops, [SessionNext]_allVars
  PROVE  NoStops'
  <1> DEFINE Stops == {"StopOk", "StopFailure", "StopRefusal"}
  <1>n. /\ \A b \in Addr : <<b, "StopIO">> \notin toServer
        /\ \A b \in Addr : \A r \in Stops : <<b, r>> \notin toClient
    BY DEF NoStops, Replies
  <1> SUFFICES /\ \A b \in Addr : <<b, "StopIO">> \notin toServer'
               /\ \A b \in Addr : \A r \in Stops : <<b, r>> \notin toClient'
    BY DEF NoStops, Replies
  <1>1. ASSUME NEW a \in Addr, NEW m \in ServerMsg, ClientRecv(a, m)
        PROVE  /\ \A b \in Addr : <<b, "StopIO">> \notin toServer'
               /\ \A b \in Addr : \A r \in Stops : <<b, r>> \notin toClient'
    <2>1. <<a, m>> \in toClient /\ toClient' \subseteq toClient
      BY <1>1, TakenSubset DEF ClientRecv
    <2>2. \A b \in Addr : <<b, "StopIO">> \notin sent'
      BY <1>1, <1>n, <2>1, RecvFacts DEF ClientRecv
    <2> QED BY <1>1, <1>n, <2>1, <2>2, WireMessages DEF ClientRecv
  <1>2. CASE ClientTimeout
    BY <1>2, <1>n, TimeoutFacts, WireMessages DEF ClientTimeout
  <1>3. CASE ClientTick \/ UNCHANGED allVars
    BY <1>3, <1>n DEF ClientTick, net, allVars
  <1>4. CASE start_discovery_beacon
    BY <1>4, <1>n DEF start_discovery_beacon
  <1>5. ASSUME NEW a \in Addr, Server(a)
        PROVE  /\ \A b \in Addr : <<b, "StopIO">> \notin toServer'
               /\ \A b \in Addr : \A r \in Stops : <<b, r>> \notin toClient'
    <2>1. CASE ServerDiscovers(a)
      <3>1. toServer' \subseteq toServer
        BY <2>1, TakenSubset DEF ServerDiscovers
      <3> QED BY <2>1, <1>n, <3>1 DEF ServerDiscovers, ServerSends
    <2>2. CASE ServerAsksAgain(a) \/ ServerStreams(a) \/ ServerLeaves(a)
      BY <2>2, <1>n DEF ServerAsksAgain, ServerStreams, ServerLeaves, ServerSends
    <2>3. ASSUME NEW m \in {"ConnectionOk", "ConnectionErr"}, ServerHearsResult(a, m)
          PROVE  toServer' \subseteq toServer /\ toClient' = toClient
      BY <2>3, TakenSubset DEF ServerHearsResult
    <2>4. ASSUME NEW m \in {"StartIO", "StopIO"}, NEW reply \in Replies[m],
                 ServerAnswers(a, m, reply)
          PROVE  /\ toServer' \subseteq toServer
                 /\ \A b \in Addr : \A r \in Stops : <<b, r>> \notin toClient'
      <3>1. <<a, m>> \in toServer /\ toServer' \subseteq toServer
        BY <2>4, TakenSubset DEF ServerAnswers
      <3>2. reply \in {"StartOk", "StartFailure", "StartRefusal"}
        BY <1>n, <3>1 DEF Replies
      <3>3. toClient' \subseteq toClient \cup {<<a, reply>>}
        BY <2>4 DEF ServerAnswers, ServerSends
      <3> QED BY <1>n, <3>1, <3>2, <3>3
    <2> QED BY <1>5, <1>n, <2>1, <2>2, <2>3, <2>4 DEF Server
  <1>6. CASE Lose
    BY <1>6, <1>n DEF Lose
  <1> QED BY <1>1, <1>2, <1>3, <1>4, <1>5, <1>6 DEF SessionNext

\* In a session no stop request is ever sent.
LEMMA SessionNoStops == SessionSpec => []NoStops
  <1>1. SessionInit => NoStops
    BY DEF SessionInit, NoStops
  <1>2. SessionSpec => []IInv
    BY SessionIInv, PTL DEF SessionSpec
  <1> QED BY <1>1, <1>2, NoStopsStep, PTL DEF SessionSpec

\* A server that is to stop leaves that state only with its connection.
StopsOnlyByLeaving ==
  \A a \in Addr :
    IOState(a) = "PendingStop" => IOState(a)' \in {"PendingStop", "Disconnected"}

LEMMA StopStep ==
  ASSUME IInv, NoStops, [SessionNext]_allVars
  PROVE  StopsOnlyByLeaving
  <1> SUFFICES ASSUME NEW a \in Addr, IOState(a) = "PendingStop"
               PROVE  IOState(a)' \in {"PendingStop", "Disconnected"}
    BY DEF StopsOnlyByLeaving
  <1>a. a \in DOMAIN servers /\ servers[a] = "PendingStop"
    BY DEF IOState
  <1>1. CASE servers' = servers
    BY <1>1, <1>a DEF IOState
  <1>2. ASSUME NEW b \in Addr, NEW m \in ServerMsg, ClientRecv(b, m)
        PROVE  IOState(a)' \in {"PendingStop", "Disconnected"}
    <2>1. <<b, m>> \in toClient
      BY <1>2, TakenSubset DEF ClientRecv
    <2>2. m \notin {"StopOk", "StopFailure", "StopRefusal"}
      BY <2>1 DEF NoStops, Replies
    <2>3. CASE on_server_connect_request(b)
      <3>1. servers' = servers \/ (b \notin DOMAIN servers /\ servers' = Put(servers, b, "Inactive"))
        BY <2>3 DEF on_server_connect_request, Handled
      <3> QED BY <1>a, <3>1 DEF Put, IOState
    <2>4. CASE on_connected_message(b, m)
      <3>1. CASE b \notin DOMAIN servers
        BY <1>1, <2>4, <3>1 DEF on_connected_message, Handled
      <3>2. CASE b \in DOMAIN servers
        <4>1. servers' = [servers EXCEPT ![b] = on_msg(servers[b], m)]
          BY <2>4, <3>2 DEF on_connected_message, Handled
        <4>2. b = a => on_msg(servers[b], m) = "PendingStop"
          BY <1>a, <2>2 DEF on_msg
        <4> QED BY <1>a, <3>2, <4>1, <4>2 DEF IOState
      <3> QED BY <3>1, <3>2
    <2>5. CASE on_disconnect(b)
      BY <1>a, <2>5 DEF on_disconnect, Without, IOState
    <2> QED BY <1>2, <2>3, <2>4, <2>5 DEF ClientRecv, on_message
  <1>3. CASE ClientTimeout
    <2>1. Expired \subseteq DOMAIN servers
      BY DEF Expired, DeadlinesOfServers, IInv
    <2>2. PICK asked \in SUBSET Pollable(Unexpired) : PollRequests(Unexpired, asked)
      BY <1>3, <2>1 DEF ClientTimeout, on_timeout
    <2>3. a \notin asked
      BY <1>a DEF Pollable, Unexpired, Without
    <2>4. a \in DOMAIN servers' => servers'[a] = "PendingStop"
      BY <1>a, <2>2, <2>3 DEF PollRequests, Unexpired, Without
    <2> QED BY <2>4 DEF IOState
  <1>4. CASE ClientTick \/ UNCHANGED allVars \/ start_discovery_beacon \/ Lose
    BY <1>1, <1>4 DEF ClientTick, Tick, allVars, vars, start_discovery_beacon, Lose
  <1>5. ASSUME NEW b \in Addr, Server(b) PROVE servers' = servers
    BY <1>5 DEF Server, ServerDiscovers, ServerAsksAgain, ServerStreams, ServerLeaves,
                ServerHearsResult, ServerAnswers, vars
  <1> QED BY <1>1, <1>2, <1>3, <1>4, <1>5 DEF SessionNext

\* No stop request succeeds: whatever the network and the servers do, a server that
\* is to stop stays so until it disconnects or is dropped for silence, because
\* on_timeout gives START_IO to send_msg for it.  It is what comes of the violation of
\* StopRequestsSent, for any number of servers, sessions and faults, and would be so
\* if send_msg sent what it has written.
THEOREM StopsNeverSettle == SessionSpec => [][StopsOnlyByLeaving]_allVars
  <1>1. SessionSpec => []IInv
    BY SessionIInv, PTL DEF SessionSpec
  <1> QED BY <1>1, SessionNoStops, StopStep, PTL DEF SessionSpec

-----------------------------------------------------------------------------
(* Acknowledgements *)

\* A step of the client begins to stream to a server only on an acknowledgement
\* that was in flight, and adds no answer to the network.
LEMMA ClientStepFacts ==
  ASSUME IInv,
         \/ \E a \in Addr, m \in ServerMsg : ClientRecv(a, m)
         \/ ClientTimeout \/ ClientTick \/ UNCHANGED allVars
  PROVE  /\ UNCHANGED srv
         /\ toClient' \subseteq toClient
         /\ \A b \in Addr : IOState(b)' \in Streaming =>
              IOState(b) \in Streaming \/ <<b, "StartOk">> \in toClient
  <1>1. ASSUME NEW a \in Addr, NEW m \in ServerMsg, ClientRecv(a, m)
        PROVE  /\ UNCHANGED srv
               /\ toClient' \subseteq toClient
               /\ \A b \in Addr : IOState(b)' \in Streaming =>
                    IOState(b) \in Streaming \/ <<b, "StartOk">> \in toClient
    <2>1. <<a, m>> \in toClient /\ toClient' \subseteq toClient
      BY <1>1, TakenSubset DEF ClientRecv
    <2>2. \A b \in Addr : IOState(b)' \in Streaming =>
            IOState(b) \in Streaming \/ <<b, m>> = <<a, "StartOk">>
      BY <1>1, RecvFacts DEF ClientRecv
    <2> QED BY <1>1, <2>1, <2>2 DEF ClientRecv
  <1>2. CASE ClientTimeout
    BY <1>2, TimeoutFacts DEF ClientTimeout
  <1>3. CASE ClientTick
    BY <1>3 DEF ClientTick, Tick, net, IOState
  <1>4. CASE UNCHANGED allVars
    BY <1>4 DEF allVars, vars, net, IOState
  <1> QED BY <1>1, <1>2, <1>3, <1>4

\* What is left of the invariant: the conjuncts about acknowledgements.
AckInv == NotBeforeConnection /\ AckMeansReady

\* A step that leaves the servers alone and, of what the invariant speaks about,
\* adds nothing to the network keeps it.
LEMMA QuietStep ==
  ASSUME AckInv,
         UNCHANGED srv,
         \A b \in Addr : <<b, "StartOk">> \in toClient' => <<b, "StartOk">> \in toClient,
         \A b \in Addr : IOState(b)' \in Streaming =>
           IOState(b) \in Streaming \/ <<b, "StartOk">> \in toClient
  PROVE  AckInv'
  <1>1. NotBeforeConnection'
    BY DEF AckInv, NotBeforeConnection, srv
  <1>2. AckMeansReady'
    BY DEF AckInv, AckMeansReady, srv
  <1> QED BY <1>1, <1>2 DEF AckInv

\* Every step of a server keeps the invariant, if it connects at most once.
LEMMA ServerStep ==
  ASSUME Bounds, MaxSessions <= 1, SessionInv, NEW a \in Addr, Server(a)
  PROVE  AckInv'
  <1> USE DEF Bounds
  <1>i. AckInv /\ SessionTypeOK /\ NoStops
    BY DEF SessionInv, AckInv
  <1>v. UNCHANGED vars /\ \A b \in Addr : IOState(b)' = IOState(b)
    BY DEF Server, ServerDiscovers, ServerAsksAgain, ServerStreams, ServerLeaves,
           ServerHearsResult, ServerAnswers, vars, IOState
  <1>1. CASE ServerDiscovers(a)
    <2>1. sessions[a] = 0 /\ toServer' \subseteq toServer
      BY <1>1, <1>i, TakenSubset DEF ServerDiscovers, SessionTypeOK
    <2>2. \A b \in Addr : \A m \in ServerMsg :
            <<b, m>> \in toClient' /\ m # "Connect" => <<b, m>> \in toClient
      BY <1>1 DEF ServerDiscovers, ServerSends
    <2>4. /\ phase'[a] = "Connecting" /\ sessions'[a] = 1
          /\ \A b \in Addr \ {a} : phase'[b] = phase[b] /\ sessions'[b] = sessions[b]
          /\ ioReady' = ioReady
      BY <1>1, <1>i, <2>1 DEF ServerDiscovers, SessionTypeOK
    <2>5. \A b \in Addr : <<b, "StartOk">> \in toClient' => <<b, "StartOk">> \in toClient
      BY <2>2 DEF ServerMsg, ConnectedMsg
    <2>6. NotBeforeConnection'
      <3> SUFFICES ASSUME NEW b \in Addr
                   PROVE  /\ phase'[b] # "Idle" => sessions'[b] # 0
                          /\ sessions'[b] = 0 \/ phase'[b] = "Connecting" =>
                               <<b, "StartOk">> \notin toClient' /\ IOState(b)' \notin Streaming
        BY DEF NotBeforeConnection
      <3>1. CASE b = a
        <4>1. <<a, "StartOk">> \notin toClient /\ IOState(a) \notin Streaming
          BY <1>i, <2>1 DEF AckInv, NotBeforeConnection
        <4> QED BY <1>v, <2>4, <2>5, <3>1, <4>1 DEF Streaming
      <3>2. CASE b # a
        <4>1. phase'[b] = phase[b] /\ sessions'[b] = sessions[b] /\ IOState(b)' = IOState(b)
          BY <1>v, <2>4, <3>2
        <4>2. /\ phase[b] # "Idle" => sessions[b] # 0
              /\ sessions[b] = 0 \/ phase[b] = "Connecting" =>
                   <<b, "StartOk">> \notin toClient /\ IOState(b) \notin Streaming
          BY <1>i DEF AckInv, NotBeforeConnection
        <4>3. IOState(b)' \in Streaming <=> IOState(b) \in Streaming
          BY <4>1 DEF Streaming
        <4> QED BY <2>5, <4>1, <4>2, <4>3
      <3> QED BY <3>1, <3>2
    <2>7. AckMeansReady'
      BY <1>i, <1>v, <2>4, <2>5 DEF AckInv, AckMeansReady
    <2> QED BY <2>6, <2>7 DEF AckInv
  <1>2. CASE ServerAsksAgain(a)
    BY <1>2, <1>i, <1>v, QuietStep DEF ServerAsksAgain, ServerSends
  <1>3. CASE ServerStreams(a)
    BY <1>3, <1>i, <1>v, QuietStep DEF ServerStreams, ServerSends
  <1>4. CASE ServerLeaves(a)
    <2>1. \A b \in Addr : \A m \in ServerMsg :
            <<b, m>> \in toClient' /\ m # "Disconnect" => <<b, m>> \in toClient
      BY <1>4 DEF ServerLeaves, ServerSends
    <2>3. /\ phase[a] = "Connected" /\ phase'[a] = "Idle"
          /\ \A b \in Addr \ {a} : phase'[b] = phase[b] /\ ioReady'[b] = ioReady[b]
          /\ sessions' = sessions
      BY <1>4, <1>i DEF ServerLeaves, SessionTypeOK
    <2>4. \A b \in Addr : <<b, "StartOk">> \in toClient' => <<b, "StartOk">> \in toClient
      BY <2>1 DEF ServerMsg, ConnectedMsg
    <2>5. NotBeforeConnection'
      BY <1>i, <1>v, <2>3, <2>4 DEF AckInv, NotBeforeConnection, SessionTypeOK
    <2>6. AckMeansReady'
      BY <1>i, <1>v, <2>3, <2>4 DEF AckInv, AckMeansReady
    <2> QED BY <2>5, <2>6 DEF AckInv
  <1>5. ASSUME NEW m \in {"ConnectionOk", "ConnectionErr"}, ServerHearsResult(a, m)
        PROVE  AckInv'
    <2>1. toServer' \subseteq toServer /\ toClient' = toClient
      BY <1>5, TakenSubset DEF ServerHearsResult
    <2>3. /\ phase'[a] = phase[a] \/ (phase[a] = "Connecting" /\ phase'[a] # "Connecting")
          /\ \A b \in Addr \ {a} : phase'[b] = phase[b]
          /\ ioReady' = ioReady /\ sessions' = sessions
      BY <1>5, <1>i DEF ServerHearsResult, SessionTypeOK
    <2>4. NotBeforeConnection'
      BY <1>i, <1>v, <2>1, <2>3 DEF AckInv, NotBeforeConnection, SessionTypeOK
    <2>5. AckMeansReady'
      BY <1>i, <1>v, <2>1, <2>3 DEF AckInv, AckMeansReady, NotBeforeConnection
    <2> QED BY <2>4, <2>5 DEF AckInv
  <1>6. ASSUME NEW m \in {"StartIO", "StopIO"}, NEW reply \in Replies[m],
               ServerAnswers(a, m, reply)
        PROVE  AckInv'
    <2>1. <<a, m>> \in toServer /\ toServer' \subseteq toServer
      BY <1>6, TakenSubset DEF ServerAnswers
    <2>2. m = "StartIO" /\ reply \in {"StartOk", "StartFailure", "StartRefusal"}
      BY <1>i, <2>1 DEF NoStops, Replies
    <2>3. CASE phase[a] # "Connected"
      <3>1. toClient' = toClient /\ UNCHANGED srv
        BY <1>6, <2>3 DEF ServerAnswers, srv
      <3> QED BY <1>i, <1>v, <3>1, QuietStep
    <2>4. CASE phase[a] = "Connected"
      <3>1. toClient' = toClient \cup {<<a, reply>>} /\ UNCHANGED <<phase, sessions>>
        BY <1>6, <2>4 DEF ServerAnswers, ServerSends
      <3>2. /\ ioReady'[a] = (ioReady[a] \/ reply = "StartOk")
            /\ \A b \in Addr \ {a} : ioReady'[b] = ioReady[b]
        BY <1>6, <1>i, <2>2, <2>4 DEF ServerAnswers, SessionTypeOK
      <3>4. NotBeforeConnection'
        BY <1>i, <1>v, <2>4, <3>1 DEF AckInv, NotBeforeConnection, SessionTypeOK
      <3>5. AckMeansReady'
        BY <1>i, <1>v, <2>2, <3>1, <3>2 DEF AckInv, AckMeansReady
      <3> QED BY <3>4, <3>5 DEF AckInv
    <2> QED BY <2>3, <2>4
  <1> QED BY <1>1, <1>2, <1>3, <1>4, <1>5, <1>6 DEF Server

\* The client streams only to servers that are ready, for any number of servers and
\* however often the network loses, repeats or reorders what it carries, as long as
\* a server connects once.
THEOREM ActiveServersReady ==
  ASSUME Bounds, MaxSessions <= 1
  PROVE  SessionSpec => []ActiveMeansServerReady
  <1>1. SessionInit => AckInv
    BY DEF SessionInit, AckInv, Init, NotBeforeConnection, AckMeansReady, IOState,
           Streaming
  <1>2. IInv /\ SessionTypeOK /\ NoStops /\ AckInv /\ [SessionNext]_allVars => AckInv'
    <2> SUFFICES ASSUME IInv, SessionTypeOK, NoStops, AckInv, [SessionNext]_allVars PROVE AckInv'
      OBVIOUS
    <2>i. SessionInv
      BY DEF SessionInv, AckInv
    <2>1. CASE \/ \E a \in Addr, m \in ServerMsg : ClientRecv(a, m)
               \/ ClientTimeout \/ ClientTick \/ UNCHANGED allVars
      BY <2>1, ClientStepFacts, QuietStep
    <2>2. CASE start_discovery_beacon
      BY <2>2, QuietStep DEF start_discovery_beacon, vars, IOState
    <2>3. CASE \E a \in Addr : Server(a)
      BY <2>3, <2>i, ServerStep
    <2>4. CASE Lose
      BY <2>4, QuietStep DEF Lose, vars, IOState
    <2> QED BY <2>1, <2>2, <2>3, <2>4 DEF SessionNext
  <1>3. AckInv => ActiveMeansServerReady
    BY DEF AckInv, AckMeansReady, ActiveMeansServerReady, Streaming
  <1>4. SessionSpec => []IInv /\ []SessionTypeOK /\ []NoStops
    BY SessionIInv, SessionTypes, SessionNoStops, PTL DEF SessionSpec
  <1> QED BY <1>1, <1>2, <1>3, <1>4, PTL DEF SessionSpec
-----------------------------------------------------------------------------
(* send_msg as it is *)

\* Nobody is connected: no server has its answer, none is ready for audio, and the
\* client streams to none.
NobodyConnected ==
  \A a \in Addr :
    phase[a] # "Connected" /\ ~ioReady[a] /\ IOState(a) \notin Streaming

\* Only Discoveries reach the servers, and only connection requests the client.
OnlyDiscoveries ==
  /\ toServer \subseteq Addr \X {"Discovery"}
  /\ toClient \subseteq Addr \X {"Connect"}
  /\ phase \in [Addr -> {"Idle", "Connecting"}]
  /\ NobodyConnected

\* A server that asks to be connected goes on asking.
KeepsAsking == \A a \in Addr : phase[a] = "Connecting" => phase'[a] = "Connecting"

LEMMA DiscoveryStep ==
  ASSUME ~SendsWritten, IInv, OnlyDiscoveries, [SessionNext]_allVars
  PROVE  OnlyDiscoveries' /\ KeepsAsking
  <1>i. /\ \A a \in Addr : \A m : <<a, m>> \in toServer => m = "Discovery"
        /\ \A a \in Addr : \A m : <<a, m>> \in toClient => m = "Connect"
        /\ \A a \in Addr : phase[a] \in {"Idle", "Connecting"}
    BY DEF OnlyDiscoveries
  <1>1. CASE \/ \E a \in Addr, m \in ServerMsg : ClientRecv(a, m)
             \/ ClientTimeout \/ ClientTick \/ UNCHANGED allVars
    <2>1. toServer' \subseteq toServer \cup OnWire(sent')
      BY <1>1 DEF ClientRecv, ClientTimeout, ClientTick, allVars, net
    <2>2. OnWire(sent') \subseteq Addr \X {"Discovery"}
      BY WireMessages
    <2>3. UNCHANGED srv /\ toClient' \subseteq toClient
      BY <1>1, ClientStepFacts
    <2>4. \A b \in Addr : IOState(b)' \notin Streaming
      BY <1>1, <1>i, ClientStepFacts DEF OnlyDiscoveries, NobodyConnected
    <2> QED BY <2>1, <2>2, <2>3, <2>4 DEF OnlyDiscoveries, NobodyConnected, KeepsAsking, srv
  <1>2. CASE start_discovery_beacon
    BY <1>2 DEF start_discovery_beacon, OnlyDiscoveries, NobodyConnected, KeepsAsking, srv, vars,
                IOState
  <1>3. ASSUME NEW a \in Addr, Server(a) PROVE OnlyDiscoveries' /\ KeepsAsking
    <2>v. \A b \in Addr : IOState(b)' = IOState(b)
      BY <1>3 DEF Server, ServerDiscovers, ServerAsksAgain, ServerStreams, ServerLeaves,
                  ServerHearsResult, ServerAnswers, vars, IOState
    <2>1. CASE ServerDiscovers(a)
      <3>1. toServer' \subseteq toServer /\ phase[a] = "Idle"
        BY <2>1, TakenSubset DEF ServerDiscovers
      <3>2. toClient' \subseteq Addr \X {"Connect"}
        BY <2>1 DEF ServerDiscovers, ServerSends, OnlyDiscoveries
      <3>3. phase' \in [Addr -> {"Idle", "Connecting"}] /\ ioReady' = ioReady /\ KeepsAsking
        BY <2>1 DEF ServerDiscovers, OnlyDiscoveries, KeepsAsking
      <3> QED BY <2>v, <3>1, <3>2, <3>3 DEF OnlyDiscoveries, NobodyConnected
    <2>2. CASE ServerAsksAgain(a)
      <3>1. toClient' \subseteq Addr \X {"Connect"}
        BY <2>2 DEF ServerAsksAgain, ServerSends, OnlyDiscoveries
      <3> QED BY <2>2, <2>v, <3>1 DEF ServerAsksAgain, OnlyDiscoveries, NobodyConnected,
                                     KeepsAsking, srv
    <2>3. ~ServerStreams(a) /\ ~ServerLeaves(a)
      BY <1>i DEF ServerStreams, ServerLeaves
    <2>4. ASSUME NEW m \in {"ConnectionOk", "ConnectionErr"}, ServerHearsResult(a, m) PROVE FALSE
      BY <1>i, <2>4, TakenSubset DEF ServerHearsResult
    <2>5. ASSUME NEW m \in {"StartIO", "StopIO"}, NEW reply, ServerAnswers(a, m, reply) PROVE FALSE
      BY <1>i, <2>5, TakenSubset DEF ServerAnswers
    <2> QED BY <1>3, <2>1, <2>2, <2>3, <2>4, <2>5 DEF Server
  <1>4. CASE Lose
    BY <1>4 DEF Lose, OnlyDiscoveries, NobodyConnected, KeepsAsking, srv, vars, IOState
  <1> QED BY <1>1, <1>2, <1>3, <1>4 DEF SessionNext

\* With send_msg as it is, whatever the network and the servers do, no server is ever
\* connected, and one that asks to be goes on asking for ever: it is what is behind the
\* violation of ConnectRequestsAnswered, for any number of servers.
THEOREM SendMsgConnectsNobody ==
  ASSUME ~SendsWritten
  PROVE  SessionSpec => []NobodyConnected /\ [][KeepsAsking]_allVars
  <1>1. SessionInit => OnlyDiscoveries
    BY DEF SessionInit, Init, OnlyDiscoveries, NobodyConnected, IOState, Streaming
  <1>2. SessionSpec => []IInv
    BY SessionIInv, PTL DEF SessionSpec
  <1>3. IInv /\ OnlyDiscoveries /\ [SessionNext]_allVars => OnlyDiscoveries' /\ KeepsAsking
    BY DiscoveryStep
  <1>4. OnlyDiscoveries => NobodyConnected
    BY DEF OnlyDiscoveries
  <1> QED BY <1>1, <1>2, <1>3, <1>4, PTL DEF SessionSpec

=============================================================================

--------------------------- MODULE ClientSession ---------------------------
(***************************************************************************)
(* The client, the network and the servers together.                       *)
(*                                                                         *)
(* The network is UDP: datagrams in flight form a set per direction, so    *)
(* they are reordered.  Up to MaxFaults times it does worse: it loses a    *)
(* datagram, delivers one again, or lets a request overtake the result of  *)
(* the connection it belongs to.                                           *)
(*                                                                         *)
(* The repository implements no server.  The one here is external: it does *)
(* what the protocol documentation (syfala_proto) and the client expect of *)
(* one, it may leave at any time, and it may be rebooted, forgetting its   *)
(* connection without a word.  Its own datagrams are well formed.          *)
(*                                                                         *)
(* What a server reads of a message that the client gives to send_msg is   *)
(* computed from WireFormat: send_msg sends the part of its buffer that it *)
(* has not written, from which a Discovery decodes.  With SendsWritten the *)
(* same session can be studied as if send_msg sent the part it has         *)
(* written, the way start_discovery_beacon does.                           *)
(***************************************************************************)
EXTENDS GenericClient

CONSTANTS
  SendsWritten,  \* FALSE for send_msg as it is, TRUE as if it sent what it has written
  MaxFaults,     \* bound: faults of the network
  MaxSessions    \* bound: how often one server asks to be connected anew

\* The clients' encode buffers have 200 bytes; neither audio nor lists are sent here.
Wire == INSTANCE WireFormat WITH Base <- 256, EncLen <- 200, Headers <- {}, FormatLists <- {}

\* The messages of syfala_proto behind their names here.
Encoded ==
  [Discovery     |-> <<"Discovery">>,
   ConnectionOk  |-> Wire!CONN_SUCCESS,
   ConnectionErr |-> Wire!CONN_REFUSED,
   StartIO       |-> Wire!START_IO,
   StopIO        |-> Wire!STOP_IO]

\* What send_msg hands to the socket, and what a server reads of it.
send_msg(m) ==
  LET s == Wire!client_message_encode(Encoded[m])
  IN IF SendsWritten THEN {s} ELSE Wire!unwritten(s)

Read(bytes) ==
  {m \in DOMAIN Encoded :
     \E got \in Wire!client_message_decode(bytes) : got[1] = Encoded[m]}

Arriving == [m \in ClientMsg |-> UNION {Read(bytes) : bytes \in send_msg(m)}]

VARIABLES
  toServer,   \* datagrams in flight to servers
  toClient,   \* datagrams in flight to the client
  faults,     \* how many faults there have been
  phase,      \* each server's view of the connection
  ioReady,    \* whether each server has its IO resources set up
  sessions    \* how many connections each server has asked for

net == <<toServer, toClient, faults>>
srv == <<phase, ioReady, sessions>>
allVars == <<vars, net, srv>>

SessionTypeOK ==
  /\ TypeOK
  /\ toServer \subseteq Addr \X (ClientMsg \cup {"Discovery"})
  /\ toClient \subseteq Addr \X ServerMsg
  /\ faults \in 0 .. MaxFaults
  /\ phase \in [Addr -> {"Idle", "Connecting", "Connected"}]
  /\ ioReady \in [Addr -> BOOLEAN]
  /\ sessions \in [Addr -> 0 .. MaxSessions]

SessionInit ==
  /\ Init
  /\ toServer = {} /\ toClient = {} /\ faults = 0
  /\ phase = [a \in Addr |-> "Idle"]
  /\ ioReady = [a \in Addr |-> FALSE]
  /\ sessions = [a \in Addr |-> 0]

-----------------------------------------------------------------------------
(* The client *)

Faults(n) == faults' = faults + n /\ faults' <= MaxFaults

\* recv_from: takes a datagram off the network, or one of its copies; n is how
\* many faults brought it here.
Taken(from, to, d, n) ==
  /\ d \in from
  /\ \/ to = from \ {d} /\ Faults(n)
     \/ to = from /\ Faults(n + 1)

\* The datagrams that a handler's messages become.
OnWire(msgs) ==
  {d \in Addr \X DOMAIN Encoded :
     \E m \in ClientMsg : <<d[1], m>> \in msgs /\ d[2] \in Arriving[m]}

ClientRecv(a, m) ==
  /\ on_message(a, m)
  /\ Taken(toClient, toClient', <<a, m>>, 0)
  /\ toServer' = toServer \cup OnWire(sent')
  /\ UNCHANGED srv

ClientTimeout ==
  /\ on_timeout
  /\ toServer' = toServer \cup OnWire(sent')
  /\ UNCHANGED <<toClient, faults, srv>>

ClientTick == Tick /\ UNCHANGED <<net, srv>>

\* start_discovery_beacon, a thread of its own: a send that times out is tried
\* again at once, which is the same action taken later.
start_discovery_beacon ==
  /\ toServer' = toServer \cup (Addr \X {"Discovery"})
  /\ UNCHANGED <<vars, toClient, faults, srv>>

-----------------------------------------------------------------------------
(* The servers *)

ServerSends(a, msgs) == toClient' = toClient \cup ({a} \X msgs)

ServerDiscovers(a) ==
  /\ phase[a] = "Idle" /\ sessions[a] < MaxSessions
  /\ Taken(toServer, toServer', <<a, "Discovery">>, 0)
  /\ phase' = [phase EXCEPT ![a] = "Connecting"]
  /\ sessions' = [sessions EXCEPT ![a] = @ + 1]
  /\ ServerSends(a, {"Connect"})
  /\ UNCHANGED <<vars, ioReady>>

ServerAsksAgain(a) ==
  /\ phase[a] = "Connecting"
  /\ ServerSends(a, {"Connect"})
  /\ UNCHANGED <<vars, toServer, faults, srv>>

ServerHearsResult(a, m) ==
  /\ Taken(toServer, toServer', <<a, m>>, 0)
  /\ phase' = [phase EXCEPT ![a] =
                 IF @ # "Connecting" THEN @
                 ELSE IF m = "ConnectionOk" THEN "Connected" ELSE "Idle"]
  /\ UNCHANGED <<vars, toClient, ioReady, sessions>>

\* "servers must perform any required initialization [...] before replying with
\* a success response"; a request outside a connection is ignored.
Replies == [StartIO |-> {"StartOk", "StartFailure", "StartRefusal"},
            StopIO  |-> {"StopOk", "StopFailure", "StopRefusal"}]

ServerAnswers(a, m, reply) ==
  /\ Taken(toServer, toServer', <<a, m>>, IF <<a, "ConnectionOk">> \in toServer THEN 1 ELSE 0)
  /\ IF phase[a] = "Connected"
     THEN /\ ServerSends(a, {reply})
          /\ ioReady' = [ioReady EXCEPT ![a] =
                           (@ \/ reply = "StartOk") /\ reply # "StopOk"]
     ELSE UNCHANGED <<toClient, ioReady>>
  /\ UNCHANGED <<vars, phase, sessions>>

ServerStreams(a) ==
  /\ phase[a] = "Connected"
  /\ ServerSends(a, {"Heartbeat"} \cup IF ioReady[a] THEN {"Audio"} ELSE {})
  /\ UNCHANGED <<vars, toServer, faults, srv>>

ServerLeaves(a) ==
  /\ phase[a] = "Connected"
  /\ phase' = [phase EXCEPT ![a] = "Idle"]
  /\ ioReady' = [ioReady EXCEPT ![a] = FALSE]
  /\ \/ ServerSends(a, {"Disconnect"})
     \/ UNCHANGED toClient              \* rebooted
  /\ UNCHANGED <<vars, toServer, faults, sessions>>

Lose ==
  /\ Faults(1)
  /\ \/ \E d \in toServer : toServer' = toServer \ {d} /\ UNCHANGED toClient
     \/ \E d \in toClient : toClient' = toClient \ {d} /\ UNCHANGED toServer
  /\ UNCHANGED <<vars, srv>>

-----------------------------------------------------------------------------
Server(a) ==
  \/ ServerDiscovers(a) \/ ServerAsksAgain(a) \/ ServerStreams(a) \/ ServerLeaves(a)
  \/ \E m \in {"ConnectionOk", "ConnectionErr"} : ServerHearsResult(a, m)
  \/ \E m \in {"StartIO", "StopIO"} : \E reply \in Replies[m] : ServerAnswers(a, m, reply)

SessionNext ==
  \/ \E a \in Addr, m \in ServerMsg : ClientRecv(a, m)
  \/ ClientTimeout
  \/ ClientTick
  \/ start_discovery_beacon
  \/ \E a \in Addr : Server(a)
  \/ Lose

SessionSpec == SessionInit /\ [][SessionNext]_allVars

\* All one may hope for: the clock and the receive loop run, what is not lost is
\* delivered, the beacon runs, a server that is asking to be connected asks again and
\* a connected one sends its heartbeat.
SessionFairness ==
  /\ WF_allVars(ClientTick)
  /\ WF_allVars(ClientTimeout)
  /\ WF_allVars(start_discovery_beacon)
  /\ \A a \in Addr :
       /\ \A m \in ServerMsg : WF_allVars(ClientRecv(a, m))
       /\ WF_allVars(ServerDiscovers(a))
       /\ WF_allVars(ServerAsksAgain(a))
       /\ WF_allVars(ServerStreams(a))
       /\ \A m \in {"ConnectionOk", "ConnectionErr"} : WF_allVars(ServerHearsResult(a, m))

FairSessionSpec == SessionSpec /\ SessionFairness

-----------------------------------------------------------------------------
(* Safety *)

IOState(a) == IF a \in DOMAIN servers THEN servers[a] ELSE "Disconnected"

\* The client streams to a server only if that server is ready for audio, as a
\* success response promises ("immediately ready to send and receive audio
\* data", syfala_proto lib.rs), whatever the network loses, repeats or reorders.
\* It holds as long as a server connects once; over several connections a start
\* acknowledgement left over from an earlier one is taken for the new one's.
ActiveMeansServerReady ==
  \A a \in Addr : IOState(a) \in {"Active", "PendingStop"} /\ phase[a] = "Connected" => ioReady[a]

(* Liveness *)

\* A connection request is answered (Client::ConnectionResult is "Sent in
\* response to a connection request"): a server that asks does not wait for ever, on
\* a network that loses nothing.  It does: the client answers with send_msg, and what
\* reaches the server is a Discovery.
ConnectRequestsAnswered ==
  [](faults = 0) => \A a \in Addr : (phase[a] = "Connecting") ~> (phase[a] # "Connecting")

=============================================================================

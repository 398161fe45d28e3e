---------------------------- MODULE UdpTransport ----------------------------
(***************************************************************************)
(* The sockets of syfala_network: the loops that send and receive          *)
(* datagrams, ServerState::start, Client::start and                        *)
(* ClientSocket::start_discovery_beacon.                                   *)
(***************************************************************************)
EXTENDS WireFormat

CONSTANTS
  Payloads,     \* the audio sent after a header
  Foreign,      \* datagrams of other programs
  BufLen,       \* bytes of a loop's receive buffer: 5000
  MaxQueue      \* bound: datagrams a socket keeps until they are received

ASSUME TransportAssumption ==
  /\ Payloads \subseteq Seq(Byte)
  /\ Foreign \subseteq Seq(Byte)
  /\ BufLen \in Nat /\ MaxQueue \in Nat

-----------------------------------------------------------------------------
(* The sockets.  A side sends its own messages and decodes those of its peer. *)

Side == {"client", "server"}
peer(side) == IF side = "client" THEN "server" ELSE "client"

encode(side, m) ==
  IF side = "client" THEN client_message_encode(m) ELSE server_message_encode(m)
decode(side, slice) ==
  IF side = "client" THEN server_message_decode(slice) ELSE client_message_decode(slice)
Messages(side) == IF side = "client" THEN Client ELSE Server

\* A datagram, and what its sender means by it: a message and the bytes after it.
Datagram(by, bytes, meant) == [by |-> by, bytes |-> bytes, meant |-> meant]
NoDatagram == Datagram("none", <<>>, {})

\* send_msg, with a buffer of zeros.
send_msg(from, m) ==
  {Datagram("send_msg", bytes, {<<m, <<>>>>}) : bytes \in unwritten(encode(from, m))}

\* What the application has encoded itself, for send_raw_packet or send_packet: a
\* message, or a header with audio after it.
packet(from, m, payload) == Datagram("packet", encode(from, m) \o payload, {<<m, payload>>})
Packets(from) ==
  {packet(from, m, <<>>) : m \in Messages(from)}
    \cup {packet(from, audio(h), payload) : h \in Headers, payload \in Payloads}

VARIABLES
  side,    \* the side whose loop runs here; its peers only send
  inbox,   \* datagrams that have reached its socket
  loop,    \* where it is
  buf,     \* its receive buffer
  taken,   \* the datagram that is being handled
  handed,  \* what on_message has been given for it
  beacon,  \* where the thread of a client's discovery beacon is
  failed   \* the errors that have ended a loop: where they came from and their kind

transport == <<side, inbox, loop, buf, taken, handed, beacon, failed>>

Init ==
  /\ side \in Side
  /\ inbox = <<>>
  /\ loop = "receiving"
  /\ buf = [k \in 1 .. BufLen |-> 0]
  /\ taken = NoDatagram /\ handed = {}
  /\ beacon = "sending"
  /\ failed = {}

\* A datagram that reaches the socket; a full socket drops it.  It is lost if it does
\* not; since every datagram may arrive at any time, any number of times, datagrams
\* are also doubled and overtake one another.
Arrives(d) == inbox' = IF Len(inbox) < MaxQueue THEN Append(inbox, d) ELSE inbox

ErrorKind == {"WouldBlock", "TimedOut", "Other"}

\* Mutant: TimedOut is an error like others.
io_err_is_timeout_posix(kind) == kind \in {"WouldBlock"}

io_err_is_timeout(kind) == kind \in {"WouldBlock", "TimedOut"}

\* The end of a callback: the loop goes on, or returns the error, whatever its kind.
Ok == loop' = "receiving" /\ UNCHANGED failed
Err(kind) == loop' = "returned" /\ failed' = failed \cup {<<"callback", kind>>}

\* A callback succeeds, or returns an error: one of its own, or that of a send, which
\* is a timeout if the socket's buffer stays full.  What it sends arrives at the loop
\* of its peer.
callback ==
  /\ Ok \/ \E kind \in ErrorKind : Err(kind)
  /\ taken' = NoDatagram /\ handed' = {}
  /\ UNCHANGED <<side, inbox, buf, beacon>>

on_message == loop = "handling" /\ callback
on_timeout == loop = "timed_out" /\ callback

\* Mutant: the whole buffer is decoded, not only what has been received.
recv_whole ==
  /\ loop = "receiving" /\ inbox # <<>>
  /\ taken' = Head(inbox) /\ inbox' = Tail(inbox)
  /\ LET bytes == taken'.bytes
         n     == IF Len(bytes) < BufLen THEN Len(bytes) ELSE BufLen
     IN /\ buf' = [k \in 1 .. BufLen |-> IF k <= n THEN bytes[k] ELSE buf[k]]
        /\ handed' = decode(side, buf')
  /\ loop' = "handling"
  /\ UNCHANGED <<side, beacon, failed>>

\* recv of a datagram, as much of it as the buffer holds.
recv ==
  /\ loop = "receiving" /\ inbox # <<>>
  /\ taken' = Head(inbox) /\ inbox' = Tail(inbox)
  /\ LET bytes == taken'.bytes
         n     == IF Len(bytes) < BufLen THEN Len(bytes) ELSE BufLen
     IN /\ buf' = [k \in 1 .. BufLen |-> IF k <= n THEN bytes[k] ELSE buf[k]]
        /\ handed' = decode(side, SubSeq(buf', 1, n))
  /\ loop' = "handling"
  /\ UNCHANGED <<side, beacon, failed>>

\* Mutant: the server's loop calls on_timeout as well.
recv_err_alike(kind) ==
  /\ loop = "receiving"
  /\ kind \in {"WouldBlock", "TimedOut"} => inbox = <<>>
  /\ loop' = IF ~io_err_is_timeout(kind) THEN "returned" ELSE "timed_out"
  /\ failed' = IF io_err_is_timeout(kind) THEN failed ELSE failed \cup {<<"recv", kind>>}
  /\ UNCHANGED <<side, inbox, buf, taken, handed, beacon>>

\* recv fails: with a timeout only if there is nothing to receive.  The server's
\* loop tries again, the client's has on_timeout called.
recv_err(kind) ==
  /\ loop = "receiving"
  /\ kind \in {"WouldBlock", "TimedOut"} => inbox = <<>>
  /\ loop' = IF ~io_err_is_timeout(kind) THEN "returned"
             ELSE IF side = "client" THEN "timed_out" ELSE "receiving"
  /\ failed' = IF io_err_is_timeout(kind) THEN failed ELSE failed \cup {<<"recv", kind>>}
  /\ UNCHANGED <<side, inbox, buf, taken, handed, beacon>>

\* The beacon sends the part of its buffer that has been written, to the servers.  It
\* tries again at once after a timeout and sleeps after a success.
beacon_send ==
  /\ beacon = "sending"
  /\ \/ side = "server" /\ Arrives(packet("client", <<"Discovery">>, <<>>))
     \/ UNCHANGED inbox
  /\ beacon' = "sleeping"
  /\ UNCHANGED <<side, loop, buf, taken, handed, failed>>

beacon_err(kind) ==
  /\ beacon = "sending"
  /\ beacon' = IF io_err_is_timeout(kind) THEN "sending" ELSE "returned"
  /\ failed' = IF io_err_is_timeout(kind) THEN failed ELSE failed \cup {<<"beacon", kind>>}
  /\ UNCHANGED <<side, inbox, loop, buf, taken, handed>>

beacon_wake ==
  /\ beacon = "sleeping"
  /\ beacon' = "sending"
  /\ UNCHANGED <<side, inbox, loop, buf, taken, handed, failed>>

\* A datagram of a peer, or of another program, reaches the socket.
arrive(d) ==
  /\ Arrives(d)
  /\ UNCHANGED <<side, loop, buf, taken, handed, beacon, failed>>

Next ==
  \/ recv \/ on_message \/ on_timeout
  \/ \E kind \in ErrorKind : recv_err(kind)
  \/ beacon_send \/ beacon_wake
  \/ \E kind \in ErrorKind : beacon_err(kind)
  \/ \E d \in Packets(peer(side)) : arrive(d)
  \/ \E m \in Messages(peer(side)) : \E d \in send_msg(peer(side), m) : arrive(d)
  \/ \E bytes \in Foreign : arrive(Datagram("foreign", bytes, {}))

Spec == Init /\ [][Next]_transport

\* The threads run, a callback returns, a sleep ends, and a send or a receive that
\* can succeed does so in the end.
Fairness ==
  /\ WF_transport(recv) /\ WF_transport(on_message) /\ WF_transport(on_timeout)
  /\ WF_transport(beacon_send) /\ WF_transport(beacon_wake)

FairSpec == Spec /\ Fairness

-----------------------------------------------------------------------------
TypeOK ==
  /\ side \in Side
  /\ Len(inbox) <= MaxQueue
  /\ buf \in [1 .. BufLen -> Byte]
  /\ loop \in {"receiving", "handling", "timed_out", "returned"}
  /\ loop = "timed_out" => side = "client"
  /\ beacon \in {"sending", "sleeping", "returned"}
  /\ failed \subseteq {"recv", "callback", "beacon"} \X ErrorKind

\* on_message is given what the datagram says, as far as it fits into the buffer, and
\* nothing of what earlier datagrams have left there.  For a datagram made by encoding
\* a message, with bytes after it, that is the message and these bytes.
HandedAsSent ==
  loop = "handling" =>
    /\ Len(taken.bytes) > BufLen => handed = decode(side, SubSeq(taken.bytes, 1, BufLen))
    /\ Len(taken.bytes) <= BufLen => handed = decode(side, taken.bytes)
    /\ taken.by = "packet" /\ Len(taken.bytes) <= BufLen => handed = taken.meant

\* A datagram that has reached the socket is handed to on_message, and discovery is
\* repeated, unless an error has ended the loop: of the socket, one that is not a
\* timeout ("only returns if a non-recoverable I/O error occurs"), but of a callback
\* any, since the loops pass it on with ? and do not look at its kind.
LoopsKeepServing ==
  /\ inbox # <<>> ~>
       \/ loop = "handling"
       \/ <<"recv", "Other">> \in failed
       \/ \E kind \in ErrorKind : <<"callback", kind>> \in failed
  /\ []<>(beacon = "sleeping" \/ <<"beacon", "Other">> \in failed)

=============================================================================

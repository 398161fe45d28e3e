----------------------------- MODULE WireFormat -----------------------------
(***************************************************************************)
(* The wire format of syfala_network: the nested messages of syfala_proto, *)
(* their flat forms, what postcard makes of those and back, and what       *)
(* send_msg passes on to the socket.                                       *)
(*                                                                         *)
(* A buffer is a sequence of bytes.  A Format, whose fields are of no      *)
(* interest here, is one byte other than 0: from zeros no SampleRate       *)
(* decodes.  Variant numbers and lengths are varints of one byte, which    *)
(* hold values below 128.                                                  *)
(***************************************************************************)
EXTENDS Naturals, Sequences

CONSTANTS
  Base,         \* values of a byte: 256
  Headers,      \* the audio headers that are sent
  FormatLists,  \* the stream lists that servers have
  EncLen        \* bytes of the buffer given to send_msg: 200 or 2000

Byte == 0 .. Base - 1
U32 == 0 .. Base * Base * Base * Base - 1
U64 == 0 .. (Base * Base * Base * Base) * (Base * Base * Base * Base) - 1

\* The values that a varint of one byte can have.
ShortVarint == {n \in Byte : n < 128}

AudioMessageHeader ==
  [stream_idx : U32, stream_msg : [byte_idx : U64, n_bytes : U32]]

ASSUME WireAssumption ==
  /\ Base \in Nat /\ Base >= 10
  /\ Headers \subseteq AudioMessageHeader
  /\ FormatLists \subseteq Seq(Byte \ {0})
  /\ \A f \in FormatLists : Len(f) \in ShortVarint
  /\ EncLen \in Nat

-----------------------------------------------------------------------------
(* The messages of syfala_proto::message, variant by variant *)

IOState == {"Start", "Stop"}
Error == {"Failure", "Refusal"}

HEARTBEAT == <<"Connected", "Control", "Heartbeat">>
START_IO == <<"Connected", "Control", "RequestIOStateChange", "Start">>
STOP_IO == <<"Connected", "Control", "RequestIOStateChange", "Stop">>
CONN_SUCCESS == <<"ConnectionResult", "Ok">>
CONN_FAILED == <<"ConnectionResult", "Err", "Failure">>
CONN_REFUSED == <<"ConnectionResult", "Err", "Refusal">>
audio(header) == <<"Connected", "Audio", header>>

START_IO_OK == <<"Connected", "Control", "IOStateChangeResult", "Start", "Ok">>
START_IO_FAILED == <<"Connected", "Control", "IOStateChangeResult", "Start", "Err", "Failure">>
START_IO_REFUSED == <<"Connected", "Control", "IOStateChangeResult", "Start", "Err", "Refusal">>
STOP_IO_OK == <<"Connected", "Control", "IOStateChangeResult", "Stop", "Ok">>
STOP_IO_FAILED == <<"Connected", "Control", "IOStateChangeResult", "Stop", "Err", "Failure">>
STOP_IO_REFUSED == <<"Connected", "Control", "IOStateChangeResult", "Stop", "Err", "Refusal">>

ClientSimple ==
  {<<"Discovery">>, <<"Disconnect">>, HEARTBEAT, <<"ConnectionResult", "Ok">>}
    \cup {<<"Connected", "Control", "RequestIOStateChange", s>> : s \in IOState}
    \cup {<<"ConnectionResult", "Err", e>> : e \in Error}
Client == ClientSimple \cup {audio(h) : h \in Headers}

ServerSimple ==
  {<<"Disconnect">>, HEARTBEAT}
    \cup {<<"Connected", "Control", "IOStateChangeResult", s, "Ok">> : s \in IOState}
    \cup {<<"Connected", "Control", "IOStateChangeResult", s, "Err", e>> :
            s \in IOState, e \in Error}
Server ==
  ServerSimple
    \cup {audio(h) : h \in Headers}
    \cup {<<"Connect", i, o>> : i \in FormatLists, o \in FormatLists}

-----------------------------------------------------------------------------
(* The flat messages, as (variant, fields), in the order of declaration *)

ClientMessageFlat ==
  <<"Discovery", "ConnectionSuccess", "ConnectionFailed", "ConnectionRefused", "StartIO",
    "StopIO", "AudioHeader", "Disconnect", "Heartbeat">>

ServerMessageFlat ==
  <<"Connect", "StartIOFailed", "StartIORefused", "StartIOSuccess", "StopIOFailed",
    "StopIORefused", "StopIOSuccess", "AudioHeader", "Disconnect", "Heartbeat">>

audio_flat(header) ==
  <<"AudioHeader", header.stream_idx, header.stream_msg.byte_idx, header.stream_msg.n_bytes>>

audio_from_flat(v) ==
  audio([stream_idx |-> v[2], stream_msg |-> [byte_idx |-> v[3], n_bytes |-> v[4]]])

\* From<Client> for ClientMessageFlat.
client_flat(v) ==
  CASE v[1] = "Discovery" -> <<"Discovery">>
    [] v[1] = "Connected" /\ v[2] = "Control" ->
         IF v[3] = "Heartbeat" THEN <<"Heartbeat">>
         ELSE IF v[4] = "Start" THEN <<"StartIO">> ELSE <<"StopIO">>
    [] v[1] = "Connected" /\ v[2] = "Audio" -> audio_flat(v[3])
    [] v[1] = "ConnectionResult" ->
         IF v[2] = "Ok" THEN <<"ConnectionSuccess">>
         ELSE IF v[3] = "Failure" THEN <<"ConnectionFailed">> ELSE <<"ConnectionRefused">>
    [] v[1] = "Disconnect" -> <<"Disconnect">>

\* From<ClientMessageFlat> for Client.
client_from_flat(v) ==
  CASE v[1] = "Discovery" -> <<"Discovery">>
    [] v[1] = "StartIO" -> START_IO
    [] v[1] = "StopIO" -> STOP_IO
    [] v[1] = "AudioHeader" -> audio_from_flat(v)
    [] v[1] = "ConnectionSuccess" -> CONN_SUCCESS
    [] v[1] = "ConnectionFailed" -> CONN_FAILED
    [] v[1] = "ConnectionRefused" -> CONN_REFUSED
    [] v[1] = "Disconnect" -> <<"Disconnect">>
    [] v[1] = "Heartbeat" -> HEARTBEAT

\* From<Server> for ServerMessageFlat.
server_flat(v) ==
  CASE v[1] = "Connect" -> v
    [] v[1] = "Connected" /\ v[2] = "Control" ->
         IF v[3] = "Heartbeat" THEN <<"Heartbeat">>
         ELSE IF v[4] = "Start"
         THEN IF v[5] = "Ok" THEN <<"StartIOSuccess">>
              ELSE IF v[6] = "Failure" THEN <<"StartIOFailed">> ELSE <<"StartIORefused">>
         ELSE IF v[5] = "Ok" THEN <<"StopIOSuccess">>
              ELSE IF v[6] = "Failure" THEN <<"StopIOFailed">> ELSE <<"StopIORefused">>
    [] v[1] = "Connected" /\ v[2] = "Audio" -> audio_flat(v[3])
    [] v[1] = "Disconnect" -> <<"Disconnect">>

\* From<ServerMessageFlat> for Server.
server_from_flat(v) ==
  CASE v[1] = "Connect" -> v
    [] v[1] = "StartIOFailed" -> START_IO_FAILED
    [] v[1] = "StartIORefused" -> START_IO_REFUSED
    [] v[1] = "StartIOSuccess" -> START_IO_OK
    [] v[1] = "StopIOFailed" -> STOP_IO_FAILED
    [] v[1] = "StopIORefused" -> STOP_IO_REFUSED
    [] v[1] = "StopIOSuccess" -> STOP_IO_OK
    [] v[1] = "AudioHeader" -> audio_from_flat(v)
    [] v[1] = "Disconnect" -> <<"Disconnect">>
    [] v[1] = "Heartbeat" -> HEARTBEAT

-----------------------------------------------------------------------------
(* postcard *)

\* fixint::le of a u32 and of a u64.
le4(n) ==
  LET n1 == n \div Base
      n2 == n1 \div Base
      n3 == n2 \div Base
  IN <<n % Base, n1 % Base, n2 % Base, n3 % Base>>
le8(n) == le4(n % (Base * Base * Base * Base)) \o le4(n \div (Base * Base * Base * Base))

from_le4(b, i) == b[i] + Base * (b[i + 1] + Base * (b[i + 2] + Base * b[i + 3]))
from_le8(b, i) == from_le4(b, i) + (Base * Base * Base * Base) * from_le4(b, i + 4)

HeaderLen == 17

variant(enum, tag) == CHOOSE i \in 0 .. Len(enum) - 1 : enum[i + 1] = tag

fields(v) ==
  CASE v[1] = "AudioHeader" -> le4(v[2]) \o le8(v[3]) \o le4(v[4])
    [] v[1] = "Connect" -> <<Len(v[2])>> \o v[2] \o <<Len(v[3])>> \o v[3]
    [] OTHER -> <<>>

to_io(enum, v) == <<variant(enum, v[1])>> \o fields(v)

\* What the bytes of a slice after the first n are.
finalize(slice, n) == SubSeq(slice, n + 1, Len(slice))

\* An AudioHeader; {} if the slice ends before it does.
header_in(slice) ==
  IF Len(slice) < HeaderLen THEN {}
  ELSE {<<"AudioHeader", from_le4(slice, 2), from_le8(slice, 6), from_le4(slice, 14)>>}

\* A list of Formats, its length at place i; {} if it is cut short or if one of
\* its sample rates is refused.  Lists of 128 and more Formats are left out.
list_at(slice, i) ==
  IF i <= Len(slice) /\ slice[i] \in ShortVarint /\ i + slice[i] <= Len(slice)
       /\ \A k \in i + 1 .. i + slice[i] : slice[k] # 0
  THEN {SubSeq(slice, i + 1, i + slice[i])}
  ELSE {}

\* deserialize: {} for an error, otherwise the flat message and the bytes after it.
deserialize(enum, slice) ==
  IF slice = <<>> \/ ~(slice[1] < Len(enum)) THEN {}
  ELSE LET tag == enum[slice[1] + 1]
       IN CASE tag = "AudioHeader" ->
                 {<<h, finalize(slice, HeaderLen)>> : h \in header_in(slice)}
            [] tag = "Connect" ->
                 UNION {{<<<<tag, ins, outs>>, finalize(slice, 3 + Len(ins) + Len(outs))>> :
                           outs \in list_at(slice, 3 + Len(ins))} :
                         ins \in list_at(slice, 2)}
            [] OTHER -> {<<<<tag>>, finalize(slice, 1)>>}

client_message_encode(m) == to_io(ClientMessageFlat, client_flat(m))
server_message_encode(m) == to_io(ServerMessageFlat, server_flat(m))

client_message_decode(slice) ==
  {<<client_from_flat(r[1]), r[2]>> : r \in deserialize(ClientMessageFlat, slice)}
server_message_decode(slice) ==
  {<<server_from_flat(r[1]), r[2]>> : r \in deserialize(ServerMessageFlat, slice)}

\* What send_msg hands to the socket for an encoded message, given a buffer of zeros;
\* {} if the message does not fit.  to_io writes into the slice it is given and returns
\* the writer, which is the part of the slice that has not been written.
unwritten(s) == IF Len(s) <= EncLen THEN {[k \in 1 .. EncLen - Len(s) |-> 0]} ELSE {}

=============================================================================

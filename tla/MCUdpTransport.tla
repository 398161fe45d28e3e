--------------------------- MODULE MCUdpTransport ---------------------------
(***************************************************************************)
(* The instance of UdpTransport that TLC checks: an audio header whose     *)
(* bytes all differ from their neighbours, lists of one stream, a header   *)
(* with and without audio after it.                                        *)
(***************************************************************************)
EXTENDS UdpTransport

MCHeaders ==
  {[stream_idx |-> 4321, stream_msg |-> [byte_idx |-> 87654321, n_bytes |-> 9876]]}
MCFormatLists == {<<1>>}
MCPayloads == {<<5, 6>>}
MCForeign == {<<9>>}

=============================================================================

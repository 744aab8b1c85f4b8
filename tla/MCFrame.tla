------------------------------- MODULE MCFrame -------------------------------
(* Segments, headers and damages for FrameLink.                            *)
EXTENDS FrameLink

CONSTANTS a, b   \* two byte values of payload

MCLocalMac == <<2, 17, 34, 51, 68, 85>>
MCGatewayMac == <<0, 80, 86, 255, 255, 1>>

Me == <<49320, 356>>        \* 192.168.1.100
Server == <<23992, 55330>>  \* 93.184.216.34
Odd == <<65535, 65535>>     \* carries everywhere

(* Every kind of segment the stack sends, with sequence numbers at both ends *)
(* of the range, payloads of no, one, two and seven bytes; the last payload  *)
(* is such that a carry makes another carry (in a segment from Me to Server  *)
(* with sequence number 0).                                                *)
Payloads == {<<>>, <<a>>, <<b, b>>, <<a, b, b, a, b, 0, b>>, <<215, 149>>}
Kinds == {<<{"SYN"}, <<>>>>, <<{"ACK"}, <<>>>>, <<{"FIN", "ACK"}, <<>>>>}
           \union {<<{"PSH", "ACK"}, payload>> : payload \in Payloads \ {<<>>}}

Segments(src, dst, sport, dport) ==
  {[src |-> src, sport |-> sport, dst |-> dst, dport |-> dport,
    flags |-> kind[1], seq |-> seq, ack |-> <<1, 65535>>, payload |-> kind[2]] :
     kind \in Kinds, seq \in {<<0, 0>>, <<65535, 65535>>}}

MCStackSegment == Segments(Me, Server, 49152, 80) \union Segments(Me, Odd, 65535, 65535)
MCPeerSegment == Segments(Server, Me, 80, 49152) \union Segments(Odd, Me, 80, 65535)

(* Without options; with the options of a SYN and DF; with IP options too.  *)
MCPeerChoices ==
  {[ip_options |-> <<>>, tcp_options |-> <<>>, id |-> 0, window |-> 65535,
    frag_off |-> 0, more_flags |-> 0],
   [ip_options |-> <<>>, tcp_options |-> <<2, 4, 5, 180>>, id |-> 7, window |-> 0,
    frag_off |-> 16384, more_flags |-> 192],
   [ip_options |-> <<1, 1, 1, 0>>, tcp_options |-> <<1, 1, 8, 10, 255, 255, 0, 0, 0, 0, 1, 2>>,
    id |-> 65535, window |-> 512, frag_off |-> 0, more_flags |-> 64]}
=============================================================================

----------------------------- MODULE MCTcpStack -----------------------------
(* TcpStack with any order of calls, two servers and a few packets.        *)
EXTENDS TcpStackService

CONSTANTS me, s1, s2, p1, p2, a, b, none,
          MaxTx,     \* segments injected on one connection
          MaxRx,     \* data segments accepted on one connection
          MaxQueue   \* chunks left in the queue

MCHost == {me, s1, s2}
MCPort == {p1, p2}
MCByte == {a, b}
MCTarget == {<<s1, p2>>, <<s2, p2>>}
(* 2^32 - 2: the SYN, a retransmitted SYN or the data wraps around.        *)
MCInitialSeq == {SeqMod - 2}
MCRequest == {<<a, b>>}

(* Packets to local port p1; a connection from p2 sees only strays.  ack is *)
(* never read by the stack.                                                *)
MCSegment(host, port, flags, seq, payload) ==
  [src |-> host, sport |-> port, dst |-> me, dport |-> p1,
   flags |-> flags, seq |-> seq, ack |-> 0, payload |-> payload]

(* s1 at port p2 is the server the interesting connection goes to.         *)
FromServer ==
  {MCSegment(s1, p2, {"SYN", "ACK"}, 0, <<>>),
   MCSegment(s1, p2, {"SYN", "ACK"}, SeqMod - 1, <<>>),
   MCSegment(s1, p2, {"ACK"}, 0, <<>>),
   MCSegment(s1, p2, {"FIN", "ACK"}, SeqMod - 1, <<>>),
   MCSegment(s1, p2, {"FIN"}, 0, <<>>),
   MCSegment(s1, p2, {"PSH", "ACK"}, 0, <<a>>),
   MCSegment(s1, p2, {"PSH", "ACK"}, SeqMod - 1, <<b, a>>),
   MCSegment(s1, p2, {"FIN", "PSH", "ACK"}, 1, <<b>>)}

(* Another service of s1, and another host: an unrelated SYN+ACK, data that *)
(* is not ours, and RSTs, one of them with data flags.                     *)
Stray ==
  {MCSegment(s1, p1, {"SYN", "ACK"}, 1, <<>>),
   MCSegment(s1, p1, {"PSH", "ACK"}, 0, <<b>>),
   MCSegment(s2, p2, {"PSH", "ACK"}, 0, <<b>>),
   MCSegment(s2, p2, {"SYN", "ACK"}, 0, <<>>),
   MCSegment(s2, p1, {"RST", "ACK"}, 0, <<>>),
   MCSegment(s2, p2, {"RST", "PSH", "ACK"}, 0, <<b>>)}

MCInbound == FromServer \union Stray

Bounds ==
  /\ Len(tx) <= MaxTx
  /\ Len(rx) <= MaxRx
  /\ Len(data_queue) <= MaxQueue
=============================================================================

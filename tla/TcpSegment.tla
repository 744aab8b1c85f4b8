----------------------------- MODULE TcpSegment -----------------------------
(***************************************************************************)
(* What travels on the wire, as the stack sees it: the fields that          *)
(* TcpParser and Ipv4Parser extract from a captured frame and that          *)
(* build_ip_header and build_tcp_header write into an injected one.         *)
(*                                                                         *)
(* A frame that a parser rejects (too short, wrong IP checksum) raises an   *)
(* exception that capture_thread_func swallows: it never reaches            *)
(* process_packet and is not a Segment here.  Windows, checksums, MAC       *)
(* addresses and the IP identifier do not influence the state machine and   *)
(* are left out.  Header lengths, the reserved bits and the flags URG, ECE  *)
(* and CWR are never tested by the stack.                                  *)
(***************************************************************************)
EXTENDS Integers, Sequences

CONSTANTS
  Host,     \* IPv4 addresses
  Port,     \* TCP ports
  Byte,     \* payload bytes
  SeqMod    \* sequence numbers are uint32_t: 2^32 in the program

ASSUME SeqModAssumption == SeqMod \in Nat /\ SeqMod > 0

Flag == {"FIN", "SYN", "RST", "PSH", "ACK"}

SeqNum == 0 .. SeqMod - 1

Segment == [src     : Host,  sport : Port,  dst : Host,  dport : Port,
            flags   : SUBSET Flag,
            seq     : SeqNum,  ack : SeqNum,
            payload : Seq(Byte)]

(* The accessors is_syn, is_ack, is_fin, is_rst and is_psh of TcpParser.    *)
is(flag, seg) == flag \in seg.flags

(* Mutant of Plus: arithmetic that does not wrap.                          *)
PlusUnbounded(n, k) == n + k

(* uint32_t addition: it wraps.                                            *)
Plus(n, k) == (n + k) % SeqMod

(* Mutant of Consumed: SYN and FIN are not counted.                        *)
ConsumedPayload(seg) == Len(seg.payload)

(* Sequence numbers a segment occupies.  send_tcp_packet adds one for SYN   *)
(* or FIN (one, not two, when both are set) and one per byte of payload.    *)
Consumed(seg) ==
  (IF is("SYN", seg) \/ is("FIN", seg) THEN 1 ELSE 0) + Len(seg.payload)

=============================================================================

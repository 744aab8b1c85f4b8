------------------------------ MODULE FrameLink ------------------------------
(***************************************************************************)
(* Frames on the way: injected by send_tcp_packet or sent by a conforming    *)
(* host, padded to the minimum of Ethernet, damaged in one byte, and handled *)
(* by the capture loop, which sees the frames of both directions.          *)
(***************************************************************************)
EXTENDS FrameBytes

CONSTANTS
  StackSegment,   \* segments send_tcp_packet is called for
  PeerSegment,    \* segments of the other hosts ...
  PeerChoices,    \* ... and what those choose freely in a header
  PadBytes,       \* what padding may consist of
  Damages,        \* what is added to a damaged byte, modulo 256
  FirstId, LastId,   \* the range of the static id that is explored; it wraps
  NoSegment

FrameSegment ==
  [src : Quad,  sport : Word,  dst : Quad,  dport : Word,
   flags : SUBSET Flag,  seq : Quad,  ack : Quad,  payload : Seq(Octet)]

(* A header is at most 15 words long, a datagram at most 65535 bytes.        *)
Options == {s \in Seq(Octet) : Len(s) % 4 = 0 /\ Len(s) <= 40}

ASSUME LinkAssumption ==
  /\ StackSegment \subseteq FrameSegment /\ PeerSegment \subseteq FrameSegment
  /\ \A seg \in StackSegment : 2 * HeaderLen + Len(seg.payload) \in Word
  /\ \A o \in PeerChoices :
       /\ o.ip_options \in Options /\ o.tcp_options \in Options
       /\ {o.id, o.window, o.frag_off} \subseteq Word
       /\ o.more_flags \in {0, 64, 128, 192}       \* ECE and CWR
       /\ \A seg \in PeerSegment :
            2 * HeaderLen + Len(o.ip_options) + Len(o.tcp_options) + Len(seg.payload)
              \in Word
  /\ PadBytes \subseteq Octet /\ Damages \subseteq 1 .. 255
  /\ FirstId \in Word /\ LastId \in Word

VARIABLES
  id,        \* the static counter of build_ip_header
  sent,      \* the segment that is meant
  origin,    \* who sent it
  frame,     \* its frame, as it is now
  damaged,   \* the position of the damaged byte, or 0
  handed     \* what process_packet got, NoSegment if it was not called

linkVars == <<id, sent, origin, frame, damaged, handed>>

LinkTypeOK ==
  /\ id \in Word
  /\ sent \in StackSegment \union PeerSegment \union {NoSegment}
  /\ origin \in {"none", "stack", "peer", "captured"}
  /\ frame \in Seq(Octet)
  /\ damaged \in 0 .. Len(frame)
  /\ handed = NoSegment \/ handed \in FrameSegment

LinkInit ==
  /\ id = FirstId
  /\ origin = "none"
  /\ sent = NoSegment /\ frame = <<>> /\ damaged = 0 /\ handed = NoSegment

-----------------------------------------------------------------------------
UnderWay == origin \in {"stack", "peer"}

(* Mutant of NextId: no wrapping.                                          *)
NextIdUnbounded(n) == n + 1

NextId(n) == (n + 1) % 65536

StackSends ==
  /\ origin = "none" /\ id # LastId
  /\ id' = NextId(id)
  /\ \E seg \in StackSegment : sent' = seg /\ frame' = FrameOf(seg, id')
  /\ origin' = "stack" /\ damaged' = 0 /\ handed' = NoSegment

(* The sum of the 16-bit words, by definition (RFC 1071).                  *)
SumOfWords(bytes) ==
  SumFunction([k \in 1 .. (Len(bytes) + 1) \div 2 |->
    256 * bytes[2 * k - 1] + (IF 2 * k <= Len(bytes) THEN bytes[2 * k] ELSE 0)])

(* The word that makes a positive sum a multiple of 65535.                 *)
Completing(sum) == IF sum % 65535 = 0 THEN 0 ELSE 65535 - (sum % 65535)

PeerIp(seg, o, tcp) ==
  LET hl == HeaderLen + Len(o.ip_options)
      h  == BytesOf(<<(4 * 16 + hl \div 4) * 256, hl + Len(tcp), o.id, o.frag_off,
                      57 * 256 + 6, 0>> \o seg.src \o seg.dst) \o o.ip_options
  IN WithWord(h, 11, Completing(SumOfWords(h))) \o tcp

PeerTcp(seg, o) ==
  LET hl == HeaderLen + Len(o.tcp_options)
      t  == BytesOf(<<seg.sport, seg.dport>> \o seg.seq \o seg.ack
                      \o <<(hl \div 4) * 4096 + FlagBits(seg.flags) + o.more_flags,
                           o.window, 0, 0>>) \o o.tcp_options \o seg.payload
      pseudo == seg.src \o seg.dst \o <<6, Len(t)>>
  IN WithWord(t, 17, Completing(SumOfWords(BytesOf(pseudo) \o t)))

PeerSends ==
  /\ origin = "none"
  /\ \E seg \in PeerSegment, o \in PeerChoices :
       /\ sent' = seg
       /\ frame' = LocalMac \o GatewayMac \o BytesOf(<<2048>>)
                     \o PeerIp(seg, o, PeerTcp(seg, o))
  /\ origin' = "peer" /\ damaged' = 0 /\ handed' = NoSegment
  /\ UNCHANGED id

(* The network card fills a short frame up to 60 bytes.                    *)
Pad ==
  /\ UnderWay /\ damaged = 0 /\ Len(frame) < 60
  /\ \E b \in PadBytes : frame' = frame \o [i \in 1 .. 60 - Len(frame) |-> b]
  /\ UNCHANGED <<id, sent, origin, damaged, handed>>

(* One byte changes, but not the first of the IP header, whose low half says *)
(* how long the header is.                                                 *)
Damage ==
  /\ UnderWay /\ damaged = 0
  /\ \E i \in DOMAIN frame \ {EthernetHeaderLen + 1}, k \in Damages :
       /\ frame' = [frame EXCEPT ![i] = (@ + k) % 256]
       /\ damaged' = i
  /\ UNCHANGED <<id, sent, origin, handed>>

(* One round of the capture loop, up to the call of process_packet.        *)
Capture ==
  /\ UnderWay
  /\ LET packet == PacketOf(frame)
     IN handed' = IF Reaches(packet) THEN SegmentIn(packet) ELSE NoSegment
  /\ origin' = "captured"
  /\ UNCHANGED <<id, sent, frame, damaged>>

(* The Packet of the round is dropped.                                     *)
RoundEnds ==
  /\ origin = "captured" /\ origin' = "none"
  /\ sent' = NoSegment /\ frame' = <<>> /\ damaged' = 0 /\ handed' = NoSegment
  /\ UNCHANGED id

LinkNext == StackSends \/ PeerSends \/ Pad \/ Damage \/ Capture \/ RoundEnds

LinkSpec == LinkInit /\ [][LinkNext]_linkVars

-----------------------------------------------------------------------------
Verifies(bytes) == SumOfWords(bytes) > 0 /\ SumOfWords(bytes) % 65535 = 0

(* What the stack injects, a conforming receiver accepts: the length fields *)
(* fit the frame, and both sums, that of the IP header and that of the TCP   *)
(* segment with its pseudo header, come out as RFC 1071 wants them, for even *)
(* and odd payloads, whatever the carries.                                 *)
InjectedVerifies ==
  origin = "stack" /\ damaged = 0 =>
    LET ip    == From(frame, 15)
        total == WordAt(ip, 3)
        tcp   == SubSeq(ip, 21, total)
        pseudo == QuadAt(ip, 13) \o QuadAt(ip, 17) \o <<6, Len(tcp)>>
    IN /\ total = 40 + Len(sent.payload) /\ total <= Len(ip)
       /\ Verifies(SubSeq(ip, 1, 20))
       /\ Verifies(BytesOf(pseudo) \o tcp)

(* What process_packet gets of an undamaged frame is what was sent: padding *)
(* is never taken for data, options are skipped, bits the stack does not     *)
(* know are ignored; a frame of its own comes back to it unchanged as well.  *)
CapturedIsSent ==
  origin = "captured" /\ damaged = 0 => handed = sent

(* A frame damaged in its IP header never gets to process_packet.          *)
BadHeaderDropped ==
  origin = "captured" /\ damaged \in 15 .. 14 + HeaderLength(From(frame, 15)) =>
    handed = NoSegment

=============================================================================

----------------------------- MODULE FrameBytes -----------------------------
(***************************************************************************)
(* Frames as bytes: the headers that send_tcp_packet builds, with their      *)
(* checksums, and the parsers that the capture loop applies to a frame.      *)
(*                                                                         *)
(* Bytes and 16-bit words have their real width; a 32-bit number is a pair   *)
(* of words.  Every multi-byte field is big-endian on the wire: htons, ntohs *)
(* and the memory order of the machine cancel out.  Offsets count from 1.    *)
(***************************************************************************)
EXTENDS Integers, Sequences, Functions

CONSTANTS
  LocalMac, GatewayMac    \* local_mac_, gateway_mac_

Octet == 0 .. 255
Word == 0 .. 65535
Quad == Word \X Word

ASSUME MacAssumption == LocalMac \in [1 .. 6 -> Octet] /\ GatewayMac \in [1 .. 6 -> Octet]

EthernetHeaderLen == 14
EtherTypeIp == 2048     \* 0x0800
HeaderLen == 20         \* sizeof(IpHeader_new), sizeof(TcpHeader_new)
ProtocolTcp == 6
WindowSize == 8192

(* The bytes of a sequence of words, and back.                             *)
BytesOf(words) ==
  [i \in 1 .. 2 * Len(words) |->
     LET w == words[(i + 1) \div 2] IN IF i % 2 = 1 THEN w \div 256 ELSE w % 256]

WordAt(bytes, i) == 256 * bytes[i] + bytes[i + 1]
QuadAt(bytes, i) == <<WordAt(bytes, i), WordAt(bytes, i + 2)>>

From(bytes, i) == SubSeq(bytes, i, Len(bytes))
WithWord(bytes, i, w) == [bytes EXCEPT ![i] = w \div 256, ![i + 1] = w % 256]

-----------------------------------------------------------------------------
(* The checksum.                                                           *)

(* The sum of the words; an odd byte at the end is the high half of one.    *)
WordSum(bytes) ==
  SumFunction([i \in DOMAIN bytes |->
                 IF i % 2 = 1 THEN 256 * bytes[i] ELSE bytes[i]])

(* The carries are added until there are none.                             *)
AddCarries[sum \in Nat] ==
  IF sum < 65536 THEN sum ELSE AddCarries[(sum % 65536) + (sum \div 65536)]

(* Mutant of Checksum: the carries are added once.                         *)
ChecksumOneCarry(sum) == (65535 - ((sum % 65536) + (sum \div 65536))) % 65536

Checksum(sum) == 65535 - AddCarries[sum]

HeaderLength(ip) == 4 * (ip[1] % 16)

(* The checksum field counts as zero.                                      *)
calculate_ip_checksum(ip) ==
  Checksum(WordSum(WithWord(SubSeq(ip, 1, HeaderLength(ip)), 11, 0)))

PseudoHeader(src, dst, tcp_len) ==
  src \o dst \o <<ProtocolTcp, tcp_len % 65536>>

calculate_tcp_checksum(src, dst, tcp, payload) ==
  LET offset == 4 * (tcp[13] \div 16)
      header_len == IF offset < HeaderLen THEN HeaderLen ELSE offset
  IN Checksum(WordSum(BytesOf(PseudoHeader(src, dst, header_len + Len(payload))))
                + WordSum(WithWord(SubSeq(tcp, 1, header_len), 17, 0))
                + WordSum(payload))

-----------------------------------------------------------------------------
(* Building.                                                               *)

Bit == [FIN |-> 1, SYN |-> 2, RST |-> 4, PSH |-> 8, ACK |-> 16]
Flag == DOMAIN Bit
FlagBits(flags) == SumFunction([f \in flags |-> Bit[f]])

build_ethernet_header(dst_mac, src_mac, ether_type) ==
  dst_mac \o src_mac \o BytesOf(<<ether_type>>)

(* id is the static counter, already advanced.                             *)
build_ip_header(src_ip, dst_ip, total_len, protocol, id) ==
  LET header == BytesOf(<<(4 * 16 + 5) * 256, total_len % 65536, id, 0,
                          64 * 256 + protocol, 0>> \o src_ip \o dst_ip)
  IN WithWord(header, 11, calculate_ip_checksum(header))

build_tcp_header(src_port, dst_port, seq_num, ack_num, flags, window_size) ==
  BytesOf(<<src_port, dst_port>> \o seq_num \o ack_num
            \o <<5 * 4096 + (FlagBits(flags) % 64), window_size, 0, 0>>)

(* The frame send_tcp_packet hands to pcap_inject for a segment.           *)
FrameOf(seg, id) ==
  LET tcp == build_tcp_header(seg.sport, seg.dport, seg.seq, seg.ack,
                              seg.flags, WindowSize)
  IN build_ethernet_header(GatewayMac, LocalMac, EtherTypeIp)
       \o build_ip_header(seg.src, seg.dst, 2 * HeaderLen + Len(seg.payload),
                          ProtocolTcp, id)
       \o WithWord(tcp, 17,
                   calculate_tcp_checksum(seg.src, seg.dst, tcp, seg.payload))
       \o seg.payload

-----------------------------------------------------------------------------
(* Parsing.  A layer is what a ProtocolLayer holds: raw_data_ and payload.   *)
(* NoLayer is the exception of a parser that rejects its data.             *)
Layer(type, raw, payload) == [type |-> type, raw |-> raw, payload |-> payload]
NoLayer == Layer("none", <<>>, <<>>)

EthernetParser(data) ==
  IF Len(data) < EthernetHeaderLen THEN NoLayer
  ELSE Layer("ETHERNET", data, From(data, EthernetHeaderLen + 1))

ether_type(eth) == WordAt(eth.raw, 13)

(* Mutant of Ipv4Payload: all that was captured.                           *)
Ipv4PayloadCaptured(data) == From(data, HeaderLength(data) + 1)

(* total_length says where the payload ends; what follows is padding.  (A   *)
(* total_length beyond the data is not modelled: the header is intact when  *)
(* this is used, and its sender had that many bytes.)                      *)
Ipv4Payload(data) == SubSeq(data, HeaderLength(data) + 1, WordAt(data, 3))

(* Mutant of Ipv4Rejects: the checksum is not compared.                    *)
Ipv4RejectsShort(data) == Len(data) < HeaderLen \/ Len(data) < HeaderLength(data)

Ipv4Rejects(data) ==
  \/ Len(data) < HeaderLen \/ Len(data) < HeaderLength(data)
  \/ calculate_ip_checksum(data) # WordAt(data, 11)

Ipv4Parser(data) ==
  IF Ipv4Rejects(data) THEN NoLayer ELSE Layer("IPv4", data, Ipv4Payload(data))

protocol(ip) == ip.raw[10]
source_ip(ip) == QuadAt(ip.raw, 13)
dest_ip(ip) == QuadAt(ip.raw, 17)

(* The TCP checksum is not looked at.                                      *)
TcpParser(data) ==
  LET header_length == 4 * (data[13] \div 16)
  IN IF Len(data) < HeaderLen \/ Len(data) < header_length THEN NoLayer
     ELSE Layer("TCP", data, From(data, header_length + 1))

source_port(tcp) == WordAt(tcp.raw, 1)
dest_port(tcp) == WordAt(tcp.raw, 3)
sequence_number(tcp) == QuadAt(tcp.raw, 5)
ack_number(tcp) == QuadAt(tcp.raw, 9)
flags_of(tcp) == {f \in Flag : (WordAt(tcp.raw, 13) \div Bit[f]) % 2 = 1}

(* The Packet the capture loop fills, layer by layer, as long as each layer *)
(* names the next one and no parser throws.  Only a packet with all three   *)
(* layers reaches process_packet.                                          *)
PacketOf(data) ==
  LET eth == EthernetParser(data)
      ip  == Ipv4Parser(eth.payload)
      tcp == TcpParser(ip.payload)
  IN CASE eth = NoLayer -> <<>>
       [] eth # NoLayer /\ (ether_type(eth) # EtherTypeIp \/ ip = NoLayer) -> <<eth>>
       [] eth # NoLayer /\ ether_type(eth) = EtherTypeIp /\ ip # NoLayer
            /\ (protocol(ip) # ProtocolTcp \/ tcp = NoLayer) -> <<eth, ip>>
       [] OTHER -> <<eth, ip, tcp>>

(* The first layer of a type, or NoLayer.                                  *)
find_layer(packet, type) ==
  LET found == {i \in DOMAIN packet : packet[i].type = type}
  IN IF found = {} THEN NoLayer
     ELSE packet[CHOOSE i \in found : \A j \in found : i <= j]

(* What process_packet reads from a packet.                                *)
SegmentIn(packet) ==
  LET ip == find_layer(packet, "IPv4")  tcp == find_layer(packet, "TCP")
  IN [src |-> source_ip(ip),  sport |-> source_port(tcp),
      dst |-> dest_ip(ip),    dport |-> dest_port(tcp),
      flags |-> flags_of(tcp),
      seq |-> sequence_number(tcp),  ack |-> ack_number(tcp),
      payload |-> tcp.payload]

Reaches(packet) == find_layer(packet, "TCP") # NoLayer

=============================================================================

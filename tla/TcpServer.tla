------------------------------ MODULE TcpServer ------------------------------
(***************************************************************************)
(* The other end of the connection: an HTTP server on a conforming TCP      *)
(* (RFC 793), as mytelnet needs it.  It is not part of the repository; the  *)
(* program's "Connection: close" request makes it answer one request with   *)
(* Response, cut into segments, and then close.                            *)
(*                                                                         *)
(* The server checks what a TCP must check: the sequence number of what it  *)
(* accepts and the acknowledgement that opens the connection.              *)
(***************************************************************************)
EXTENDS TcpSegment

CONSTANTS
  ServerIp, ServerPort,
  ServerIss,       \* initial sequence number of the server
  Response,        \* the bytes of the HTTP response
  SegmentEnds,     \* the positions in it where a segment ends
  PushChoices,     \* may a data segment that is not the last carry PSH?
  FinChoices,      \* may the FIN ride on the last data segment?
  MaxRetransmit    \* how many retransmissions of the server are explored

ASSUME ServerAssumption ==
  /\ ServerIp \in Host /\ ServerPort \in Port /\ ServerIss \in SeqNum
  /\ Response \in Seq(Byte)
  /\ SegmentEnds \subseteq 1 .. Len(Response) /\ Len(Response) \in SegmentEnds
  /\ PushChoices \subseteq BOOLEAN /\ FinChoices \subseteq BOOLEAN
  /\ MaxRetransmit \in Nat

VARIABLES
  srv,      \* the connection block of the server
  srv_tx    \* every segment the server has sent

serverVars == <<srv, srv_tx>>

Total == Len(Response)

(* Position k of the server's stream: 0 is the SYN, 1 .. Total the bytes of *)
(* the response, Total + 1 the FIN.                                        *)
ServerTypeOK ==
  /\ srv \in [st      : {"LISTEN", "SYN_RCVD", "OPEN"},
              port    : Port,            \* port of the client
              rcv_nxt : SeqNum,          \* next byte expected from it
              request : BOOLEAN,         \* the request has arrived
              fin     : BOOLEAN,         \* the client's FIN has arrived
              sent    : 0 .. Total + 1,  \* positions sent ...
              acked   : 0 .. Total + 1,  \* ... and acknowledged
              resent  : 0 .. MaxRetransmit]
  /\ srv_tx \in Seq(Segment)

ServerInit ==
  /\ srv = [st |-> "LISTEN", port |-> CHOOSE p \in Port : TRUE, rcv_nxt |-> 0,
            request |-> FALSE, fin |-> FALSE, sent |-> 0, acked |-> 0,
            resent |-> 0]
  /\ srv_tx = <<>>

-----------------------------------------------------------------------------
ServerSegment(s, host, flags, k, payload) ==
  [src |-> ServerIp, sport |-> ServerPort, dst |-> host, dport |-> s.port,
   flags |-> flags, seq |-> Plus(ServerIss, k), ack |-> s.rcv_nxt,
   payload |-> payload]

SynAck(s, host) == ServerSegment(s, host, {"SYN", "ACK"}, 0, <<>>)

(* An acknowledgement without data, from the first position not yet sent.  *)
PureAck(s, host) == ServerSegment(s, host, {"ACK"}, s.sent + 1, <<>>)

(* The last position of the segment that starts with position k.           *)
End(k) ==
  IF k = Total + 1 THEN k
  ELSE CHOOSE e \in SegmentEnds : e >= k /\ \A f \in SegmentEnds : f >= k => e <= f

(* The segment that starts with position k, and takes the FIN too if fin.   *)
StreamSegment(s, host, k, push, fin) ==
  IF k = Total + 1
  THEN ServerSegment(s, host, {"FIN", "ACK"}, k, <<>>)
  ELSE ServerSegment(s, host,
         {"ACK"} \union (IF push \/ End(k) = Total THEN {"PSH"} ELSE {})
                 \union (IF fin THEN {"FIN"} ELSE {}),
         k, SubSeq(Response, k, End(k)))

-----------------------------------------------------------------------------
(* What a segment from the client does.                                    *)

Listening(seg) ==
  /\ srv.st = "LISTEN"
  /\ seg.flags = {"SYN"}
  /\ LET s == [srv EXCEPT !.st = "SYN_RCVD", !.port = seg.sport,
                          !.rcv_nxt = Plus(seg.seq, 1)]
     IN srv' = s /\ srv_tx' = Append(srv_tx, SynAck(s, seg.src))

(* No connection for this segment: a RST, which needs no acknowledgement    *)
(* number because the segment has one.                                     *)
NotListening(seg) ==
  /\ srv.st = "LISTEN"
  /\ is("ACK", seg)
  /\ srv_tx' = Append(srv_tx,
       [ServerSegment([srv EXCEPT !.port = seg.sport], seg.src, {"RST"}, 0, <<>>)
          EXCEPT !.seq = seg.ack, !.ack = 0])
  /\ UNCHANGED srv

(* The same SYN again: the SYN+ACK was lost or is late.                    *)
DuplicateSyn(seg) ==
  /\ srv.st = "SYN_RCVD"
  /\ is("SYN", seg)
  /\ Plus(seg.seq, 1) = srv.rcv_nxt
  /\ srv_tx' = Append(srv_tx, SynAck(srv, seg.src))
  /\ UNCHANGED srv

(* A SYN in the window that is not the first one: reset, and listen again.  *)
UnexpectedSyn(seg) ==
  /\ srv.st = "SYN_RCVD"
  /\ is("SYN", seg)
  /\ Plus(seg.seq, 1) # srv.rcv_nxt
  /\ srv_tx' = Append(srv_tx,
       [ServerSegment(srv, seg.src, {"RST", "ACK"}, 0, <<>>)
          EXCEPT !.seq = 0, !.ack = Plus(seg.seq, 1)])
  /\ srv' = [srv EXCEPT !.st = "LISTEN"]

(* How many positions after the SYN an acknowledgement number covers.      *)
Covers(n) == (n - ServerIss - 1) % SeqMod

(* The connection is open, or this segment opens it.  Payload and FIN are   *)
(* taken when they are the next in sequence; whatever occupies sequence     *)
(* space is acknowledged, in sequence or not.                              *)
OnConnection(seg) ==
  /\ \/ srv.st = "OPEN"
     \/ srv.st = "SYN_RCVD" /\ ~is("SYN", seg) /\ seg.ack = Plus(ServerIss, 1)
  /\ LET inOrder == ~is("SYN", seg) /\ seg.seq = srv.rcv_nxt
         covered == Covers(seg.ack)
         s == [srv EXCEPT
                 !.st = "OPEN",
                 !.rcv_nxt = IF inOrder THEN Plus(@, Consumed(seg)) ELSE @,
                 !.request = @ \/ (inOrder /\ seg.payload # <<>>),
                 !.fin = @ \/ (inOrder /\ is("FIN", seg)),
                 !.acked = IF ~is("SYN", seg) /\ covered \in @ .. srv.sent
                           THEN covered ELSE @]
     IN /\ srv' = s
        /\ srv_tx' = IF Consumed(seg) > 0
                     THEN Append(srv_tx, PureAck(s, seg.src)) ELSE srv_tx

(* A RST of the client's host never comes: the README has the user drop it. *)
ServerReceives(seg) ==
  \/ Listening(seg) \/ NotListening(seg) \/ DuplicateSyn(seg)
  \/ UnexpectedSyn(seg) \/ OnConnection(seg)

-----------------------------------------------------------------------------
(* What the server does by itself.                                         *)

(* The next segment of the response, or the FIN.                           *)
Respond(host) ==
  /\ srv.st = "OPEN" /\ srv.request
  /\ srv.sent <= Total
  /\ \E push \in PushChoices, fin \in FinChoices :
       /\ fin => End(srv.sent + 1) = Total
       /\ srv_tx' = Append(srv_tx,
                     StreamSegment(srv, host, srv.sent + 1, push, fin))
       /\ srv' = [srv EXCEPT !.sent = IF fin THEN Total + 1 ELSE End(@ + 1)]

(* The oldest segment not acknowledged goes out again.                     *)
ServerTimer(host) ==
  /\ srv.resent < MaxRetransmit
  /\ \/ /\ srv.st = "SYN_RCVD"
        /\ srv_tx' = Append(srv_tx, SynAck(srv, host))
     \/ /\ srv.st = "OPEN"
        /\ srv.acked < srv.sent
        /\ \E push \in PushChoices :
             srv_tx' = Append(srv_tx,
                         StreamSegment(srv, host, srv.acked + 1, push, FALSE))
  /\ srv' = [srv EXCEPT !.resent = @ + 1]

=============================================================================

--------------------------- MODULE MyTelnetProofs ---------------------------
(***************************************************************************)
(* The whole program, for every command line, every response and every way   *)
(* to cut it, any number of faults of any kind, and timers that fire when    *)
(* they like: what TcpStack, the capture thread and HttpClient keep alone,   *)
(* they keep together, because each step of the program is a step of each    *)
(* of them or leaves it alone; and nothing is left open.                     *)
(***************************************************************************)
EXTENDS MyTelnet, TcpStackProofs, HttpProofs

-----------------------------------------------------------------------------
(***************************************************************************)
(* The capture thread and ~TcpStack alone, for every number of packets per   *)
(* round.                                                                  *)
(*                                                                         *)
(* NoPollAfterClose alone is not inductive: that the handle is open says     *)
(* nothing of the destructor, which might be past its join.  What is         *)
(* missing is that while the thread runs, ~TcpStack has at most asked it to   *)
(* stop.                                                                   *)
(***************************************************************************)

(* The thread runs between initialize and the join, and no longer.          *)
Running ==
  capture \in {"loop", "batch"} =>
    /\ pcap_handle = "open"
    /\ stack \in {"ready", "stopping"}

CaptureInvariant == CaptureTypeOK /\ Running

(* Before initialize there is no thread.                                   *)
LEMMA InitCapture == CaptureInit => CaptureInvariant
<1>1. 0 \in 0 .. MaxPacketsPerLoop
  BY BatchAssumption
<1> QED
  BY <1>1 DEF CaptureInit, CaptureInvariant, CaptureTypeOK, Running, StackPhase

(* The constructor's thread: initialize and ~TcpStack.                     *)
LEMMA OwnerCapture == CaptureInvariant /\ Owner => CaptureInvariant'
<1> SUFFICES ASSUME CaptureInvariant, Owner PROVE CaptureInvariant'
  OBVIOUS
<1> USE DEF CaptureInvariant, CaptureTypeOK, Running, StackPhase
<1>1. CASE InitializeSucceeds
  BY <1>1 DEF InitializeSucceeds
<1>2. CASE InitializeFails
  BY <1>2 DEF InitializeFails
<1>3. CASE StopCapture
  BY <1>3 DEF StopCapture
<1>4. CASE JoinCapture
  BY <1>4 DEF JoinCapture
<1>5. CASE CloseHandle
  BY <1>5 DEF CloseHandle
<1> QED
  BY <1>1, <1>2, <1>3, <1>4, <1>5 DEF Owner

(* The capture thread: a round handles at most MaxPacketsPerLoop packets.    *)
LEMMA PollCapture == CaptureInvariant /\ Poll => CaptureInvariant'
<1> SUFFICES ASSUME CaptureInvariant, Poll PROVE CaptureInvariant'
  OBVIOUS
<1> USE DEF CaptureInvariant, CaptureTypeOK, Running
<1>1. CASE NextPacket
  BY <1>1, BatchAssumption DEF NextPacket
<1>2. CASE BeginRound
  BY <1>2, BatchAssumption DEF BeginRound
<1>3. CASE LeaveLoop \/ NoPacket \/ RoundFull \/ CaptureError
  BY <1>3 DEF LeaveLoop, NoPacket, RoundFull, CaptureError
<1> QED
  BY <1>1, <1>2, <1>3 DEF Poll

(* No step of either thread breaks it.                                     *)
LEMMA StepCapture ==
  CaptureInvariant /\ [CaptureNext]_captureVars => CaptureInvariant'
<1>1. CaptureInvariant /\ UNCHANGED captureVars => CaptureInvariant'
  BY DEF CaptureInvariant, CaptureTypeOK, Running, captureVars
<1> QED
  BY <1>1, OwnerCapture, PollCapture DEF CaptureNext

(* The object, its handle and its thread are always in one of their states. *)
THEOREM CaptureTypeCorrect == CaptureSpec => []CaptureTypeOK
<1>1. CaptureInvariant => CaptureTypeOK
  BY DEF CaptureInvariant
<1> QED
  BY <1>1, InitCapture, StepCapture, PTL DEF CaptureSpec

(* pcap_next_ex is never called on a handle that was closed or never opened: *)
(* the destructor cannot pass its join before the thread has left its loop.  *)
THEOREM NoPollAfterCloseHolds == CaptureSpec => []NoPollAfterClose
<1>1. CaptureInvariant => NoPollAfterClose
  BY DEF CaptureInvariant, Running, NoPollAfterClose
<1> QED
  BY <1>1, InitCapture, StepCapture, PTL DEF CaptureSpec

-----------------------------------------------------------------------------
(* The server's types.                                                     *)

ServerRecord ==
  [st : {"LISTEN", "SYN_RCVD", "OPEN"}, port : Port, rcv_nxt : SeqNum,
   request : BOOLEAN, fin : BOOLEAN, sent : 0 .. Total + 1,
   acked : 0 .. Total + 1, resent : 0 .. MaxRetransmit]

LEMMA ServerTypes == ServerTypeOK <=> srv \in ServerRecord /\ srv_tx \in Seq(Segment)
  BY DEF ServerTypeOK, ServerRecord

LEMMA TotalIsEnd == Total \in Nat \ {0} /\ Total \in SegmentEnds
  BY ServerAssumption DEF Total

(* A segment starts with a position of the stream and ends at one.          *)
LEMMA EndTyped ==
  ASSUME NEW k \in 1 .. Total + 1
  PROVE  End(k) \in k .. Total + 1 /\ (k <= Total => End(k) \in k .. Total)
<1>1. CASE k = Total + 1
  BY <1>1, TotalIsEnd DEF End
<1>2. CASE k # Total + 1
  <2> DEFINE Later == {e \in SegmentEnds : e >= k}
  <2>0. /\ SegmentEnds \subseteq 1 .. Total
        /\ Total \in Nat /\ Total \in SegmentEnds /\ k \in 1 .. Total
    BY <1>2, TotalIsEnd, ServerAssumption DEF Total
  <2>1. Total \in Later /\ Later \in SUBSET Nat
    <3>1. Total >= k
      BY <2>0
    <3>2. Total \in Later
      BY <2>0, <3>1
    <3>3. SegmentEnds \subseteq Nat
      BY <2>0
    <3> QED
      BY <3>2, <3>3
  <2>2. PICK e \in Later : \A f \in Later : e <= f
    BY <2>1, LeastNumber
  <2>3. /\ End(k) \in SegmentEnds /\ End(k) >= k
    BY <1>2, <2>2 DEF End
  <2>4. End(k) \in 1 .. Total
    BY <2>0, <2>3
  <2>5. End(k) \in k .. Total
    BY <2>0, <2>3, <2>4
  <2> QED
    BY <2>0, <2>5
<1> QED
  BY <1>1, <1>2

(* What the server sends is a segment.                                     *)
LEMMA ServerSegmentTyped ==
  ASSUME NEW s \in ServerRecord, NEW host \in Host, NEW flags \in SUBSET Flag,
         NEW k \in Nat, NEW payload \in Seq(Byte)
  PROVE  ServerSegment(s, host, flags, k, payload) \in Segment
<1>1. Plus(ServerIss, k) \in SeqNum
  <2>1. ServerIss \in Nat
    BY ServerAssumption, SeqModAssumption DEF SeqNum
  <2> QED
    BY <2>1, PlusType
<1>2. s.port \in Port /\ s.rcv_nxt \in SeqNum
  BY DEF ServerRecord
<1> QED
  BY <1>1, <1>2, ServerAssumption DEF ServerSegment, Segment

LEMMA ServerFlags ==
  /\ {"SYN", "ACK"} \in SUBSET Flag /\ {"RST"} \in SUBSET Flag
  /\ {"RST", "ACK"} \in SUBSET Flag /\ <<>> \in Seq(Byte)
  BY DEF Flag

LEMMA SynAckIsSegment ==
  ASSUME NEW s \in ServerRecord, NEW host \in Host
  PROVE  SynAck(s, host) \in Segment
  BY ServerSegmentTyped, ServerFlags DEF SynAck

LEMMA PureAckIsSegment ==
  ASSUME NEW s \in ServerRecord, NEW host \in Host
  PROVE  PureAck(s, host) \in Segment
<1>1. s.sent + 1 \in Nat
  BY TotalIsEnd DEF ServerRecord
<1> QED
  BY <1>1, ServerSegmentTyped, SentFlags DEF PureAck

LEMMA StreamSegmentTyped ==
  ASSUME NEW s \in ServerRecord, NEW host \in Host, NEW k \in 1 .. Total + 1,
         NEW push \in BOOLEAN, NEW fin \in BOOLEAN
  PROVE  StreamSegment(s, host, k, push, fin) \in Segment
<1>0. k \in Nat
  BY TotalIsEnd
<1>1. CASE k = Total + 1
  BY <1>0, <1>1, ServerSegmentTyped, SentFlags DEF StreamSegment
<1>2. CASE k # Total + 1
  <2> DEFINE flags == {"ACK"} \union (IF push \/ End(k) = Total THEN {"PSH"} ELSE {})
                              \union (IF fin THEN {"FIN"} ELSE {})
  <2>1. flags \in SUBSET Flag
    BY DEF Flag
  <2>2. k <= Total /\ End(k) \in k .. Total
    BY <1>2, EndTyped, TotalIsEnd
  <2>3. SubSeq(Response, k, End(k)) \in Seq(Byte)
    <3>1. Response \in Seq(Byte) /\ End(k) \in Nat /\ k >= 1 /\ End(k) <= Len(Response)
      BY <1>0, <2>2, TotalIsEnd, ServerAssumption DEF Total
    <3> QED
      BY <1>0, <3>1
  <2> HIDE DEF flags
  <2>4. ServerSegment(s, host, flags, k, SubSeq(Response, k, End(k))) \in Segment
    BY <1>0, <2>1, <2>3, ServerSegmentTyped
  <2> QED
    BY <1>2, <2>4 DEF StreamSegment, flags
<1> QED
  BY <1>1, <1>2

-----------------------------------------------------------------------------
(* The server's steps: its types hold, and it takes nothing back.           *)

ServerGrows == Len(srv_tx) <= Len(srv_tx')

LEMMA ServerAppends ==
  ASSUME srv_tx \in Seq(Segment), NEW seg \in Segment,
         srv_tx' = Append(srv_tx, seg)
  PROVE  srv_tx' \in Seq(Segment) /\ ServerGrows
<1>1. Len(Append(srv_tx, seg)) = Len(srv_tx) + 1 /\ Len(srv_tx) \in Nat
  OBVIOUS
<1> QED
  BY <1>1 DEF ServerGrows

LEMMA InitServer == ServerInit => ServerTypeOK
<1> SUFFICES ASSUME ServerInit PROVE ServerTypeOK
  OBVIOUS
<1>1. (CHOOSE p \in Port : TRUE) \in Port
  BY ServerAssumption
<1>2. 0 \in SeqNum /\ 0 \in 0 .. Total + 1 /\ 0 \in 0 .. MaxRetransmit
  BY SeqModAssumption, TotalIsEnd, ServerAssumption DEF SeqNum
<1> QED
  BY <1>1, <1>2 DEF ServerInit, ServerTypeOK

LEMMA ReceivesTyped ==
  ASSUME ServerTypeOK, NEW seg \in Segment, ServerReceives(seg)
  PROVE  ServerTypeOK' /\ ServerGrows
<1>1. /\ srv \in ServerRecord /\ srv_tx \in Seq(Segment)
      /\ seg.src \in Host /\ seg.sport \in Port /\ seg.seq \in SeqNum
      /\ seg.ack \in SeqNum /\ Plus(seg.seq, 1) \in SeqNum
      /\ Consumed(seg) \in Nat
  BY ServerTypes, SegmentFields, ConsumedType DEF Segment
<1>2. 0 \in SeqNum
  BY SeqModAssumption DEF SeqNum
<1>3. CASE Listening(seg)
  <2> DEFINE s == [srv EXCEPT !.st = "SYN_RCVD", !.port = seg.sport,
                              !.rcv_nxt = Plus(seg.seq, 1)]
  <2>1. s \in ServerRecord
    BY <1>1 DEF ServerRecord
  <2>2. srv' = s /\ srv_tx' = Append(srv_tx, SynAck(s, seg.src))
    BY <1>3 DEF Listening
  <2> HIDE DEF s
  <2>3. SynAck(s, seg.src) \in Segment
    BY <1>1, <2>1, SynAckIsSegment
  <2> QED
    BY <1>1, <2>1, <2>2, <2>3, ServerAppends DEF ServerTypeOK, ServerRecord
<1>4. CASE NotListening(seg)
  <2> DEFINE s == [srv EXCEPT !.port = seg.sport]
             r == ServerSegment(s, seg.src, {"RST"}, 0, <<>>)
             reset == [r EXCEPT !.seq = seg.ack, !.ack = 0]
  <2>1. s \in ServerRecord
    BY <1>1 DEF ServerRecord
  <2>2. UNCHANGED srv /\ srv_tx' = Append(srv_tx, reset)
    BY <1>4 DEF NotListening
  <2> HIDE DEF s
  <2>3. r \in Segment
    BY <1>1, <2>1, ServerSegmentTyped, ServerFlags
  <2> HIDE DEF r
  <2>4. reset \in Segment
    BY <1>1, <1>2, <2>3 DEF Segment
  <2> HIDE DEF reset
  <2> QED
    BY <1>1, <2>2, <2>4, ServerAppends DEF ServerTypeOK
<1>5. CASE DuplicateSyn(seg)
  <2>1. SynAck(srv, seg.src) \in Segment
    BY <1>1, SynAckIsSegment
  <2>2. UNCHANGED srv /\ srv_tx' = Append(srv_tx, SynAck(srv, seg.src))
    BY <1>5 DEF DuplicateSyn
  <2> QED
    BY <1>1, <2>1, <2>2, ServerAppends DEF ServerTypeOK
<1>6. CASE UnexpectedSyn(seg)
  <2> DEFINE r == ServerSegment(srv, seg.src, {"RST", "ACK"}, 0, <<>>)
             reset == [r EXCEPT !.seq = 0, !.ack = Plus(seg.seq, 1)]
  <2>1. srv' = [srv EXCEPT !.st = "LISTEN"] /\ srv_tx' = Append(srv_tx, reset)
    BY <1>6 DEF UnexpectedSyn
  <2>2. r \in Segment
    BY <1>1, ServerSegmentTyped, ServerFlags
  <2> HIDE DEF r
  <2>3. reset \in Segment
    BY <1>1, <1>2, <2>2 DEF Segment
  <2> HIDE DEF reset
  <2>4. srv' \in ServerRecord
    BY <1>1, <2>1 DEF ServerRecord
  <2> QED
    BY <1>1, <2>1, <2>3, <2>4, ServerAppends DEF ServerTypeOK, ServerRecord
<1>7. CASE OnConnection(seg)
  <2> DEFINE inOrder == ~is("SYN", seg) /\ seg.seq = srv.rcv_nxt
             covered == Covers(seg.ack)
             next == IF inOrder THEN Plus(srv.rcv_nxt, Consumed(seg)) ELSE srv.rcv_nxt
             asked == srv.request \/ (inOrder /\ seg.payload # <<>>)
             ended == srv.fin \/ (inOrder /\ is("FIN", seg))
             upTo == IF ~is("SYN", seg) /\ covered \in srv.acked .. srv.sent
                     THEN covered ELSE srv.acked
             s == [srv EXCEPT !.st = "OPEN", !.rcv_nxt = next, !.request = asked,
                              !.fin = ended, !.acked = upTo]
  <2>1. /\ srv' = s
        /\ srv_tx' = IF Consumed(seg) > 0
                     THEN Append(srv_tx, PureAck(s, seg.src)) ELSE srv_tx
    BY <1>7 DEF OnConnection
  <2>2. next \in SeqNum
    <3>1. srv.rcv_nxt \in SeqNum
      BY <1>1 DEF ServerRecord
    <3>2. srv.rcv_nxt \in Nat
      BY <3>1, SeqModAssumption DEF SeqNum
    <3> QED
      BY <1>1, <3>1, <3>2, PlusType
  <2>3. upTo \in 0 .. Total + 1
    BY <1>1, TotalIsEnd DEF ServerRecord
  <2>4. asked \in BOOLEAN /\ ended \in BOOLEAN
    BY <1>1 DEF ServerRecord
  <2> HIDE DEF next, upTo, asked, ended
  <2>5. s \in ServerRecord
    BY <1>1, <2>2, <2>3, <2>4 DEF ServerRecord
  <2> HIDE DEF s
  <2>6. PureAck(s, seg.src) \in Segment
    BY <1>1, <2>5, PureAckIsSegment
  <2>7. CASE Consumed(seg) > 0
    BY <1>1, <2>1, <2>5, <2>6, <2>7, ServerAppends DEF ServerTypeOK, ServerRecord
  <2>8. CASE ~(Consumed(seg) > 0)
    BY <1>1, <2>1, <2>5, <2>8 DEF ServerTypeOK, ServerRecord, ServerGrows
  <2> QED
    BY <2>7, <2>8
<1> QED
  BY <1>3, <1>4, <1>5, <1>6, <1>7 DEF ServerReceives

LEMMA RespondTyped ==
  ASSUME ServerTypeOK, NEW host \in Host, Respond(host)
  PROVE  ServerTypeOK' /\ ServerGrows
<1>1. PICK push \in PushChoices, fin \in FinChoices :
        /\ srv_tx' = Append(srv_tx, StreamSegment(srv, host, srv.sent + 1, push, fin))
        /\ srv' = [srv EXCEPT !.sent = IF fin THEN Total + 1 ELSE End(@ + 1)]
  BY DEF Respond
<1>2. /\ srv \in ServerRecord /\ srv_tx \in Seq(Segment)
      /\ push \in BOOLEAN /\ fin \in BOOLEAN
  BY ServerTypes, ServerAssumption
<1>3. srv.sent \in 0 .. Total + 1 /\ srv.sent <= Total
  BY <1>2 DEF Respond, ServerRecord
<1>4. srv.sent + 1 \in 1 .. Total + 1
  BY <1>3, TotalIsEnd
<1> DEFINE seg == StreamSegment(srv, host, srv.sent + 1, push, fin)
           upTo == IF fin THEN Total + 1 ELSE End(srv.sent + 1)
<1>5. seg \in Segment
  BY <1>2, <1>4, StreamSegmentTyped
<1>6. upTo \in 0 .. Total + 1
  <2>1. End(srv.sent + 1) \in (srv.sent + 1) .. Total + 1
    BY <1>4, EndTyped
  <2> QED
    BY <1>3, <2>1, TotalIsEnd
<1>7. srv' = [srv EXCEPT !.sent = upTo] /\ srv_tx' = Append(srv_tx, seg)
  BY <1>1
<1> HIDE DEF upTo, seg
<1>8. srv' \in ServerRecord
  BY <1>2, <1>6, <1>7 DEF ServerRecord
<1> QED
  BY <1>2, <1>5, <1>7, <1>8, ServerAppends DEF ServerTypeOK, ServerRecord

LEMMA TimerTyped ==
  ASSUME ServerTypeOK, NEW host \in Host, ServerTimer(host)
  PROVE  ServerTypeOK' /\ ServerGrows
<1>1. srv \in ServerRecord /\ srv_tx \in Seq(Segment)
  BY ServerTypes
<1>2. srv' \in ServerRecord
  <2>1. srv.resent + 1 \in 0 .. MaxRetransmit
    BY <1>1, ServerAssumption DEF ServerTimer, ServerRecord
  <2>2. srv' = [srv EXCEPT !.resent = srv.resent + 1]
    BY DEF ServerTimer
  <2> QED
    BY <1>1, <2>1, <2>2 DEF ServerRecord
<1>3. PICK seg \in Segment : srv_tx' = Append(srv_tx, seg)
  <2>1. CASE srv.st = "SYN_RCVD"
    BY <1>1, <2>1, SynAckIsSegment DEF ServerTimer
  <2>2. CASE srv.st # "SYN_RCVD"
    <3>1. PICK push \in PushChoices :
            srv_tx' = Append(srv_tx, StreamSegment(srv, host, srv.acked + 1, push, FALSE))
      BY <2>2 DEF ServerTimer
    <3>2. srv.acked < srv.sent
      BY <2>2 DEF ServerTimer
    <3>3. srv.acked + 1 \in 1 .. Total + 1
      BY <1>1, <3>2, TotalIsEnd DEF ServerRecord
    <3>4. push \in BOOLEAN
      BY ServerAssumption
    <3>5. StreamSegment(srv, host, srv.acked + 1, push, FALSE) \in Segment
      BY <1>1, <3>3, <3>4, StreamSegmentTyped
    <3> QED
      BY <3>1, <3>5
  <2> QED
    BY <2>1, <2>2
<1> QED
  BY <1>1, <1>2, <1>3, ServerAppends DEF ServerTypeOK, ServerRecord

-----------------------------------------------------------------------------
(* The wire: once a connection is there nothing that was sent is taken back,  *)
(* and no established connection is left without a FIN, unless pcap_inject   *)
(* refuses it.                                                             *)

Keeps(w, wire) ==
  Len(wire) <= Len(w) /\ \A i \in 1 .. Len(wire) : w[i] = wire[i]

LEMMA WireAfterKeeps ==
  ASSUME NEW wire \in Seq(Segment), NEW c \in Connection,
         NEW flags \in SUBSET Flag, NEW data \in Seq(Byte), NEW ok \in BOOLEAN
  PROVE  /\ Keeps(WireAfter(wire, c, flags, data, ok), wire)
         /\ ok /\ "FIN" \in flags => HasFin(WireAfter(wire, c, flags, data, ok))
<1> DEFINE seg == SegmentOf(c, flags, data)
           w == Append(wire, seg)
<1>1. seg \in Segment /\ seg.flags = flags
  BY SegmentOfType DEF SegmentOf
<1>2. CASE ok
  <2>1. WireAfter(wire, c, flags, data, ok) = w
    BY <1>2 DEF WireAfter
  <2> HIDE DEF seg
  <2>2. /\ Len(w) = Len(wire) + 1 /\ w[Len(w)] = seg
        /\ \A i \in 1 .. Len(wire) : w[i] = wire[i]
    BY <1>1, AppendFacts
  <2>3. Len(wire) \in Nat
    OBVIOUS
  <2> HIDE DEF w
  <2>4. Keeps(w, wire) /\ Len(w) \in 1 .. Len(w)
    BY <2>2, <2>3 DEF Keeps
  <2> QED
    BY <1>1, <2>1, <2>2, <2>4 DEF HasFin, is
<1>3. CASE ~ok
  <2>1. WireAfter(wire, c, flags, data, ok) = wire /\ Len(wire) \in Nat
    BY <1>3 DEF WireAfter
  <2> QED
    BY <1>3, <2>1 DEF Keeps
<1> QED
  BY <1>2, <1>3

(* What is sent comes from the port of the connection, and its payload, if   *)
(* it has one, is in S.                                                    *)
Grows(w, wire, port, S) ==
  /\ Keeps(w, wire)
  /\ \A i \in Len(wire) + 1 .. Len(w) :
       /\ w[i].sport = port
       /\ w[i].payload # <<>> => w[i].payload \in S

LEMMA WireAfterGrows ==
  ASSUME NEW wire \in Seq(Segment), NEW c \in Connection,
         NEW flags \in SUBSET Flag, NEW data \in Seq(Byte), NEW ok \in BOOLEAN,
         NEW S, data = <<>> \/ data \in S
  PROVE  Grows(WireAfter(wire, c, flags, data, ok), wire, c.local_port, S)
<1> DEFINE seg == SegmentOf(c, flags, data)
           w == WireAfter(wire, c, flags, data, ok)
<1>1. seg \in Segment /\ seg.sport = c.local_port /\ seg.payload = data
  BY SegmentOfType DEF SegmentOf
<1>2. Keeps(w, wire)
  BY WireAfterKeeps
<1>3. ASSUME NEW i \in Len(wire) + 1 .. Len(w) PROVE w[i] = seg
  <2>0. Len(wire) \in Nat
    OBVIOUS
  <2>1. CASE ok
    <3>1. w = Append(wire, seg)
      BY <2>1 DEF WireAfter
    <3> HIDE DEF seg
    <3>2. Len(w) = Len(wire) + 1 /\ w[Len(w)] = seg
      BY <1>1, <3>1, AppendFacts
    <3> HIDE DEF w
    <3> QED
      BY <1>3, <2>0, <3>2
  <2>2. CASE ~ok
    <3>1. w = wire
      BY <2>2 DEF WireAfter
    <3> QED
      BY <1>3, <2>0, <3>1
  <2> QED
    BY <2>1, <2>2
<1> HIDE DEF seg, w
<1>4. Grows(w, wire, c.local_port, S)
  BY <1>1, <1>2, <1>3 DEF Grows
<1> QED
  BY <1>4 DEF w

LEMMA GrowsTwice ==
  ASSUME NEW a \in Seq(Segment), NEW b \in Seq(Segment), NEW c \in Seq(Segment),
         NEW port, NEW S, Grows(b, a, port, S), Grows(c, b, port, S)
  PROVE  Grows(c, a, port, S)
<1>1. Len(a) \in Nat /\ Len(b) \in Nat /\ Len(c) \in Nat
  OBVIOUS
<1>2. Keeps(c, a)
  BY <1>1 DEF Grows, Keeps
<1>3. ASSUME NEW i \in Len(a) + 1 .. Len(c)
      PROVE  c[i].sport = port /\ (c[i].payload # <<>> => c[i].payload \in S)
  <2>1. CASE i <= Len(b)
    <3>1. i \in 1 .. Len(b) /\ i \in Len(a) + 1 .. Len(b)
      BY <1>1, <2>1
    <3>2. c[i] = b[i]
      BY <3>1 DEF Grows, Keeps
    <3> QED
      BY <3>1, <3>2 DEF Grows
  <2>2. CASE ~(i <= Len(b))
    <3>1. i \in Len(b) + 1 .. Len(c)
      BY <1>1, <2>2
    <3> QED
      BY <3>1 DEF Grows
  <2> QED
    BY <2>1, <2>2
<1> QED
  BY <1>2, <1>3 DEF Grows

LEMMA GrowsNot ==
  ASSUME NEW wire \in Seq(Segment), NEW port, NEW S
  PROVE  Grows(wire, wire, port, S)
<1>1. Len(wire) \in Nat
  OBVIOUS
<1> QED
  BY <1>1 DEF Grows, Keeps

LEMMA GrowsMore ==
  ASSUME NEW w, NEW wire, NEW port, NEW S, NEW T, S \subseteq T, Grows(w, wire, port, S)
  PROVE  Grows(w, wire, port, T)
  BY DEF Grows

LEMMA KeptFin ==
  ASSUME NEW w, NEW wire \in Seq(Segment), w \in Seq(Segment), Keeps(w, wire), HasFin(wire)
  PROVE  HasFin(w)
<1>1. Len(wire) \in Nat /\ Len(w) \in Nat
  OBVIOUS
<1> QED
  BY <1>1 DEF Keeps, HasFin

(* process_packet sends no data.                                           *)
LEMMA PacketGrowsWire ==
  ASSUME TypeOK, NEW seg \in Segment, process_packet(seg)
  PROVE  Grows(tx', tx, current_connection.local_port, {})
<1> USE SentFlags
<1>0. tx \in Seq(Segment) /\ Len(tx) \in Nat
  BY DEF TypeOK
<1>1. CASE UNCHANGED tx
  BY <1>0, <1>1, GrowsNot
<1>2. CASE SynAckReceived(seg)
  <2>1. current_connection \in Connection /\ seg.sport \in Port
        /\ Plus(seg.seq, 1) \in SeqNum
    BY <1>2, MatchesConnection, SegmentFields DEF SynAckReceived, IsSynAck
  <2> DEFINE c == [current_connection EXCEPT !.remote_port = seg.sport,
                                             !.ack_num = Plus(seg.seq, 1)]
  <2>2. PICK ok \in InjectResults : tx' = WireAfter(tx, c, {"ACK"}, <<>>, ok)
    BY <1>2, Zenon DEF SynAckReceived
  <2>3. c \in Connection /\ c.local_port = current_connection.local_port
    BY <2>1 DEF Connection
  <2>4. ok \in BOOLEAN
    BY StackAssumption
  <2> HIDE DEF c
  <2> QED
    BY <1>0, <2>2, <2>3, <2>4, WireAfterGrows
<1>3. CASE DataReceived(seg)
  <2>1. current_connection \in Connection /\ DataAck(seg) \in SeqNum
    BY <1>3, MatchesConnection, SegmentFields DEF DataReceived, IsData
  <2> DEFINE c == [current_connection EXCEPT !.ack_num = DataAck(seg)]
  <2>2. PICK ok \in InjectResults : tx' = WireAfter(tx, c, {"ACK"}, <<>>, ok)
    BY <1>3 DEF DataReceived
  <2>3. c \in Connection /\ c.local_port = current_connection.local_port
    BY <2>1 DEF Connection
  <2>4. ok \in BOOLEAN
    BY StackAssumption
  <2> HIDE DEF c
  <2> QED
    BY <1>0, <2>2, <2>3, <2>4, WireAfterGrows
<1>4. CASE FinWhileClosingReceived(seg)
  <2>1. current_connection \in Connection /\ Plus(seg.seq, 1) \in SeqNum
    BY <1>4, MatchesConnection, SegmentFields
       DEF FinWhileClosingReceived, IsFinWhileClosing
  <2> DEFINE c == [current_connection EXCEPT !.ack_num = Plus(seg.seq, 1)]
  <2>2. PICK ok \in InjectResults : tx' = WireAfter(tx, c, {"ACK"}, <<>>, ok)
    BY <1>4 DEF FinWhileClosingReceived
  <2>3. c \in Connection /\ c.local_port = current_connection.local_port
    BY <2>1 DEF Connection
  <2>4. ok \in BOOLEAN
    BY StackAssumption
  <2> HIDE DEF c
  <2> QED
    BY <1>0, <2>2, <2>3, <2>4, WireAfterGrows
<1>5. CASE PeerFinReceived(seg)
  <2>1. current_connection \in Connection /\ Plus(seg.seq, 1) \in SeqNum
    BY <1>5, MatchesConnection, SegmentFields DEF PeerFinReceived, IsPeerFin
  <2> DEFINE c1 == [current_connection EXCEPT !.ack_num = Plus(seg.seq, 1)]
             c2(ok) == AfterSend(c1, {"ACK"}, <<>>, ok)
             w1(ok) == WireAfter(tx, c1, {"ACK"}, <<>>, ok)
  <2>2. PICK ack_ok \in InjectResults, fin_ok \in InjectResults :
          tx' = WireAfter(w1(ack_ok), c2(ack_ok), {"FIN", "ACK"}, <<>>, fin_ok)
    BY <1>5 DEF PeerFinReceived
  <2>3. ack_ok \in BOOLEAN /\ fin_ok \in BOOLEAN
    BY StackAssumption
  <2>4. c1 \in Connection /\ c1.local_port = current_connection.local_port
    BY <2>1 DEF Connection
  <2> HIDE DEF c1
  <2>5. c2(ack_ok) \in Connection /\ c2(ack_ok).local_port = c1.local_port
    <3>1. c2(ack_ok) \in Connection
      BY <2>3, <2>4, AfterSendType
    <3> QED
      BY <2>4, <3>1 DEF AfterSend, Connection
  <2>6. w1(ack_ok) \in Seq(Segment)
    BY <1>0, <2>3, <2>4, WireAfterType
  <2>7. Grows(w1(ack_ok), tx, c1.local_port, {})
    BY <1>0, <2>3, <2>4, WireAfterGrows
  <2> HIDE DEF c2, w1
  <2>8. tx' \in Seq(Segment) /\ Grows(tx', w1(ack_ok), c1.local_port, {})
    BY <2>2, <2>3, <2>4, <2>5, <2>6, WireAfterType, WireAfterGrows
  <2> QED
    BY <1>0, <2>4, <2>6, <2>7, <2>8, GrowsTwice
<1> QED
  BY <1>1, <1>2, <1>3, <1>4, <1>5
     DEF process_packet, FinAcknowledged, LastAckReceived, PacketIgnored, connVars

(* send_data sends the data it is given, on an established connection.      *)
LEMMA SendGrowsWire ==
  ASSUME TypeOK, NEW data \in Seq(Byte), SendData(data)
  PROVE  Grows(tx', tx, current_connection.local_port,
               IF InState({"ESTABLISHED"}) THEN {data} ELSE {})
<1> USE SentFlags
<1>0. tx \in Seq(Segment)
  BY DEF TypeOK
<1>1. CASE InState({"ESTABLISHED"})
  <2>1. PICK ok \in InjectResults :
          tx' = WireAfter(tx, current_connection, {"PSH", "ACK"}, data, ok)
    BY <1>1 DEF SendData
  <2>2. ok \in BOOLEAN /\ current_connection \in Connection
    BY <1>1, StackAssumption DEF TypeOK, InState
  <2>3. Grows(tx', tx, current_connection.local_port, {data})
    BY <1>0, <2>1, <2>2, WireAfterGrows
  <2> QED
    BY <1>1, <2>3
<1>2. CASE ~InState({"ESTABLISHED"})
  <2>1. UNCHANGED tx
    BY <1>2 DEF SendData
  <2> QED
    BY <1>0, <2>1, GrowsNot
<1> QED
  BY <1>1, <1>2

(* The other calls send no data.                                           *)
LEMMA CallGrowsWire ==
  ASSUME TypeOK,
         ConnectFilterFails \/ CloseConnection \/ Waiting \/ UNCHANGED vars
  PROVE  Grows(tx', tx, current_connection.local_port, {})
<1> USE SentFlags
<1>0. tx \in Seq(Segment)
  BY DEF TypeOK
<1>1. CASE UNCHANGED tx
  BY <1>0, <1>1, GrowsNot
<1>2. ASSUME CloseConnection, tx' # tx
      PROVE  Grows(tx', tx, current_connection.local_port, {})
  <2>1. PICK ok \in InjectResults :
          /\ current_connection # NoConnection
          /\ tx' = WireAfter(tx, current_connection, {"FIN", "ACK"}, <<>>, ok)
    BY <1>2 DEF CloseConnection, InState
  <2>2. ok \in BOOLEAN /\ current_connection \in Connection
    BY <2>1, StackAssumption DEF TypeOK
  <2> QED
    BY <1>0, <2>1, <2>2, WireAfterGrows
<1>3. CASE RetransmitSyn
  <2>1. PICK ok \in InjectResults :
          tx' = WireAfter(tx, current_connection, {"SYN"}, <<>>, ok)
    BY <1>3 DEF RetransmitSyn
  <2>2. ok \in BOOLEAN /\ current_connection \in Connection
    BY <1>3, StackAssumption DEF TypeOK, RetransmitSyn, InState
  <2> QED
    BY <1>0, <2>1, <2>2, WireAfterGrows
<1>4. ASSUME Waiting, ~RetransmitSyn PROVE UNCHANGED tx
  BY <1>4 DEF Waiting, connVars, WaitForConnection, ConnectionEstablished,
              ConnectionPending, KeepWaitingForConnection, ConnectionTimeout,
              WaitForData, TakeData, NoDataYet, KeepWaitingForData, DataTimeout
<1> QED
  BY <1>1, <1>2, <1>3, <1>4 DEF vars, ConnectFilterFails, connVars

(* Every step but connect sends data on an established connection only.     *)
Sendable == IF InState({"ESTABLISHED"}) THEN Seq(Byte) ELSE {}

LEMMA LaterGrowsWire ==
  ASSUME TypeOK, [LaterStep]_vars
  PROVE  Grows(tx', tx, current_connection.local_port, Sendable)
<1>1. {} \subseteq Sendable
  OBVIOUS
<1>2. ASSUME NEW data \in Seq(Byte), SendData(data)
      PROVE  Grows(tx', tx, current_connection.local_port, Sendable)
  <2> DEFINE S == IF InState({"ESTABLISHED"}) THEN {data} ELSE {}
  <2>1. S \subseteq Sendable
    BY <1>2 DEF Sendable
  <2>2. Grows(tx', tx, current_connection.local_port, S)
    BY <1>2, SendGrowsWire
  <2> HIDE DEF S
  <2> QED
    BY <2>1, <2>2, GrowsMore
<1> QED
  BY <1>1, <1>2, PacketGrowsWire, CallGrowsWire, GrowsMore DEF LaterStep

(* A connection leaves ESTABLISHED with a FIN of its own.                   *)
LEMMA FinGoesOut ==
  ASSUME InjectResults = {TRUE}, TypeOK, InState({"ESTABLISHED"}),
         [LaterStep]_vars, ~InState({"ESTABLISHED"})'
  PROVE  HasFin(tx')
<1> USE SentFlags
<1>0. /\ tx \in Seq(Segment)
      /\ current_connection # NoConnection /\ current_connection \in Connection
      /\ current_connection.state = "ESTABLISHED"
      /\ "ESTABLISHED" \in TcpState
  BY DEF TypeOK, InState, TcpState
<1>1. current_connection' # current_connection
  BY DEF InState
<1>2. ASSUME NEW data \in Seq(Byte) PROVE ~SendData(data)
  <2>1. SUFFICES ASSUME SendData(data) PROVE FALSE
    OBVIOUS
  <2>2. current_connection' = AfterSend(current_connection, {"PSH", "ACK"}, data, TRUE)
    BY <2>1 DEF SendData
  <2>0. {"PSH", "ACK"} \in SUBSET Flag /\ TRUE \in BOOLEAN
    BY SentFlags
  <2>3. /\ AfterSend(current_connection, {"PSH", "ACK"}, data, TRUE) \in Connection
        /\ AfterSend(current_connection, {"PSH", "ACK"}, data, TRUE).state
             = current_connection.state
    <3>1. AfterSend(current_connection, {"PSH", "ACK"}, data, TRUE) \in Connection
      BY <1>0, <2>0, AfterSendType
    <3>2. AfterSend(current_connection, {"PSH", "ACK"}, data, TRUE).state
            = current_connection.state
      BY <1>0 DEF AfterSend, Connection
    <3> QED
      BY <3>1, <3>2
  <2> QED
    BY <1>0, <2>2, <2>3, StackAssumption DEF InState
<1>3. CASE CloseConnection
  <2>1. tx' = WireAfter(tx, current_connection, {"FIN", "ACK"}, <<>>, TRUE)
    BY <1>0, <1>3 DEF CloseConnection, InState
  <2> QED
    BY <1>0, <2>1, WireAfterKeeps
<1>4. ~Waiting
  BY <1>0, <1>1 DEF Waiting, connVars, WaitForConnection, ConnectionEstablished,
        ConnectionPending, KeepWaitingForConnection, ConnectionTimeout,
        WaitForData, TakeData, NoDataYet, KeepWaitingForData, DataTimeout,
        RetransmitSyn, InState
<1>5. ASSUME NEW seg \in Segment, process_packet(seg)
      PROVE  HasFin(tx')
  <2>1. ~DataReceived(seg)
    <3>1. SUFFICES ASSUME DataReceived(seg) PROVE FALSE
      OBVIOUS
    <3> DEFINE c == [current_connection EXCEPT !.ack_num = DataAck(seg)]
    <3>2. c \in Connection /\ c.state = "ESTABLISHED"
      BY <1>0, SegmentFields DEF Connection
    <3>3. current_connection' = AfterSend(c, {"ACK"}, <<>>, TRUE)
      BY <3>1 DEF DataReceived
    <3> HIDE DEF c
    <3>0. {"ACK"} \in SUBSET Flag /\ <<>> \in Seq(Byte) /\ TRUE \in BOOLEAN
      BY SentFlags
    <3>4. /\ AfterSend(c, {"ACK"}, <<>>, TRUE) \in Connection
          /\ AfterSend(c, {"ACK"}, <<>>, TRUE).state = c.state
      <4>1. AfterSend(c, {"ACK"}, <<>>, TRUE) \in Connection
        BY <3>0, <3>2, AfterSendType
      <4>2. AfterSend(c, {"ACK"}, <<>>, TRUE).state = c.state
        BY <3>2 DEF AfterSend, Connection
      <4> QED
        BY <4>1, <4>2
    <3> QED
      BY <3>2, <3>3, <3>4, StackAssumption DEF InState
  <2>2. PeerFinReceived(seg)
    BY <1>0, <1>1, <1>5, <2>1
       DEF process_packet, SynAckReceived, IsSynAck, FinAcknowledged,
           IsFinAcknowledged, FinWhileClosingReceived, IsFinWhileClosing,
           LastAckReceived, IsLastAck, PacketIgnored, Matches, InState, connVars
  <2> DEFINE c1 == [current_connection EXCEPT !.ack_num = Plus(seg.seq, 1)]
             c2 == AfterSend(c1, {"ACK"}, <<>>, TRUE)
             w1 == WireAfter(tx, c1, {"ACK"}, <<>>, TRUE)
  <2>3. tx' = WireAfter(w1, c2, {"FIN", "ACK"}, <<>>, TRUE)
    BY <2>2 DEF PeerFinReceived
  <2>4. c1 \in Connection
    BY <1>0, SegmentFields DEF Connection
  <2> HIDE DEF c1
  <2>5. c2 \in Connection /\ w1 \in Seq(Segment)
    BY <1>0, <2>4, AfterSendType, WireAfterType
  <2> HIDE DEF c2, w1
  <2> QED
    BY <2>3, <2>5, WireAfterKeeps
<1> QED
  BY <1>1, <1>2, <1>3, <1>4, <1>5 DEF LaterStep, vars, ConnectFilterFails, connVars

(* Whoever was told of a connection still has it, or a FIN has gone out.     *)
FinOrOpen == events # <<>> => InState({"ESTABLISHED"}) \/ HasFin(tx)

LEMMA StepFinOrOpen ==
  ASSUME InjectResults = {TRUE}, TypeOK, TypeOK', Lifecycle, FinOrOpen,
         [LaterStep]_vars
  PROVE  FinOrOpen'
<1>1. CASE InState({"ESTABLISHED"})
  BY <1>1, FinGoesOut DEF FinOrOpen
<1>2. CASE ~InState({"ESTABLISHED"})
  <2>1. SUFFICES ASSUME events' # <<>>, ~InState({"ESTABLISHED"})'
                 PROVE  HasFin(tx')
    BY DEF FinOrOpen
  <2>2. events # <<>>
    <3>1. Continued(Segment)
      BY StepContinues
    <3>2. CASE UNCHANGED events
      BY <2>1, <3>2
    <3>3. CASE Confirmed
      BY <2>1, <3>3 DEF Confirmed, Goes, InState
    <3>4. CASE \E seg \in Segment : Queued(seg)
      BY <1>2, <3>4 DEF Queued, Goes, InState
    <3>5. CASE Completed
      <4>1. /\ current_connection # NoConnection
            /\ current_connection.state \in Synchronized
        BY <3>5 DEF Completed, Goes, AtEnd, Synchronized
      <4>2. Len(events) = Len(rx) + 1 /\ Len(rx) \in Nat
        BY <4>1 DEF Lifecycle, TypeOK
      <4> QED
        BY <4>2
    <3> QED
      BY <3>1, <3>2, <3>3, <3>4, <3>5
         DEF Continued, Unaffected, Removed, Sending, Closing, GivenUp, Silent, connVars
  <2>3. HasFin(tx) /\ tx \in Seq(Segment) /\ tx' \in Seq(Segment)
    BY <1>2, <2>2 DEF FinOrOpen, TypeOK
  <2> QED
    BY <2>3, LaterGrowsWire, KeptFin DEF Grows
<1> QED
  BY <1>1, <1>2

(* A connection that is not open is not opened but by connect.              *)
Unopened == ~InState({"SYN_SENT", "ESTABLISHED"})

LEMMA StepUnopened ==
  ASSUME TypeOK, Lifecycle, Unopened, [LaterStep]_vars
  PROVE  Unopened'
<1>1. Continued(Segment)
  BY StepContinues
<1>2. CASE Unaffected \/ Removed
  BY <1>2 DEF Unaffected, Removed, connVars, Unopened, InState
<1>3. ~Sending /\ ~Confirmed /\ \A seg \in Segment : ~Queued(seg)
  BY DEF Sending, Confirmed, Queued, Goes, Unopened, InState
<1>4. CASE Closing \/ Completed \/ GivenUp
  BY <1>4 DEF Closing, Completed, GivenUp, AtEnd, Goes, Unopened, InState
<1> QED
  BY <1>1, <1>2, <1>3, <1>4 DEF Continued

-----------------------------------------------------------------------------
(* The program: what its parts keep, and that connect is called on a fresh    *)
(* stack, so that the network has not yet dealt with any of its segments.    *)

Unconnected ==
  pc \in {"arguments", "initialize", "create_file", "connect"} =>
    current_connection = NoConnection

NetworkTypeOK ==
  /\ to_server \in 0 .. Len(tx)
  /\ to_client \subseteq 1 .. Len(srv_tx)
  /\ faults \in 0 .. MaxFaults

ProgramInvariant ==
  /\ TypeOK /\ WireInvariant /\ DeliveryInvariant
  /\ CaptureInvariant /\ AppInvariant /\ ServerTypeOK /\ NetworkTypeOK
  /\ Unconnected

LEMMA InitProgram == ProgramInit => ProgramInvariant
<1> SUFFICES ASSUME ProgramInit PROVE ProgramInvariant
  OBVIOUS
<1>1. NetworkTypeOK
  <2>1. tx = <<>> /\ Len(tx) = 0 /\ to_server = 0 /\ to_client = {} /\ faults = 0
    BY DEF ProgramInit, Init
  <2> QED
    BY <2>1, ProgramAssumption DEF NetworkTypeOK
<1>2. Unconnected
  BY DEF ProgramInit, Init, Unconnected
<1> QED
  BY <1>1, <1>2, InitTyped, InitWire, InitDelivery, InitCapture, InitServer, InitApp
     DEF ProgramInit, ProgramInvariant

(* Each step of the program is one of the stack: connect once, on a fresh    *)
(* stack ...                                                               *)
LEMMA ConnectIsAny ==
  ASSUME ProgramInvariant, ConnectCall
  PROVE  /\ [AnyStep]_vars
         /\ current_connection = NoConnection
<1>1. current_connection = NoConnection
  BY DEF ProgramInvariant, Unconnected, ConnectCall
<1>2. /\ <<ServerIp, ServerPort>> \in Host \X Port /\ LocalPort \in Port
      /\ InitialSeq \subseteq SeqNum
  BY ServerAssumption, ProgramAssumption, StackAssumption
<1>3. CASE \E iss \in InitialSeq : Connect(<<ServerIp, ServerPort>>, LocalPort, iss)
  BY <1>1, <1>2, <1>3 DEF AnyStep
<1>4. CASE ConnectFilterFails
  BY <1>1, <1>4 DEF AnyStep, LaterStep
<1> QED
  BY <1>3, <1>4 DEF ConnectCall

(* ... and then only what leaves the connection in place.                   *)
LEMMA ProgramIsLater ==
  ASSUME ProgramInvariant, ProgramNext, ~ConnectCall
  PROVE  [LaterStep]_vars
<1>1. CASE SendDataCall
  <2>1. TheRequest \in Seq(Byte)
    BY RequestTyped, ProgramAssumption
       DEF TheRequest, ProgramInvariant, AppInvariant, ClientTypeOK
  <2> QED
    BY <1>1, <2>1 DEF SendDataCall, LaterStep
<1>2. CASE WaitForConnectionCall
  BY <1>2 DEF WaitForConnectionCall, LaterStep, Waiting
<1>3. CASE WaitForDataCall
  BY <1>3 DEF WaitForDataCall, LaterStep, Waiting
<1>4. CASE CloseCall
  BY <1>4 DEF CloseCall, LaterStep
<1>5. CASE CapturePacket
  <2>1. PICK i \in to_client : process_packet(srv_tx[i])
    BY <1>5 DEF CapturePacket
  <2>2. srv_tx[i] \in Segment
    BY DEF ProgramInvariant, ServerTypeOK, NetworkTypeOK
  <2> QED
    BY <2>1, <2>2 DEF LaterStep
<1>6. CASE PrepareCall \/ DestroyStack \/ CaptureStep \/ ServerStep \/ ServerTimeout \/ Lose
  BY <1>6 DEF PrepareCall, DestroyStack, CaptureStep, ServerStep, ServerTimeout, Lose
<1> QED
  BY <1>1, <1>2, <1>3, <1>4, <1>5, <1>6 DEF ProgramNext, Main

(* It is one of the capture thread and ~TcpStack ...                        *)
LEMMA ProgramIsCapture == ProgramNext => [CaptureNext]_captureVars
<1> SUFFICES ASSUME ProgramNext PROVE [CaptureNext]_captureVars
  OBVIOUS
<1>1. CASE Main
  <2>1. CASE PrepareCall
    BY <2>1 DEF PrepareCall, CaptureNext, Owner
  <2>2. CASE DestroyStack
    BY <2>2 DEF DestroyStack, CaptureNext, Owner
  <2> QED
    BY <1>1, <2>1, <2>2 DEF Main, ConnectCall, WaitForConnectionCall,
       SendDataCall, WaitForDataCall, CloseCall, Unseen
<1>2. CASE CapturePacket
  BY <1>2 DEF CapturePacket, CaptureNext, Poll
<1>3. CASE CaptureStep
  BY <1>3 DEF CaptureStep, CaptureNext, Poll
<1>4. CASE ServerStep \/ ServerTimeout \/ Lose
  BY <1>4 DEF ServerStep, ServerTimeout, Lose
<1> QED
  BY <1>1, <1>2, <1>3, <1>4 DEF ProgramNext

(* ... and one of main and HttpClient.                                     *)
LEMMA ProgramIsApp ==
  ASSUME ProgramInvariant, TypeOK', ProgramNext
  PROVE  [AppStep]_appVars
<1>0. retval' \in BOOLEAN
  BY DEF TypeOK
<1>1. CASE PrepareCall
  BY <1>1, ProgramAssumption DEF PrepareCall, AppStep
<1>2. CASE ConnectCall \/ WaitForConnectionCall \/ SendDataCall
  BY <1>0, <1>2 DEF ConnectCall, WaitForConnectionCall, SendDataCall, AppStep
<1>3. CASE WaitForDataCall
  <2>1. CASE TakeData /\ ChunkReceived(Head(data_queue))
    <3>1. data_queue \in Seq(Seq(Char)) /\ data_queue # <<>>
      BY <2>1, ProgramAssumption DEF TakeData, ProgramInvariant, TypeOK
    <3>2. Head(data_queue) \in Seq(Char)
      BY <3>1
    <3> QED
      BY <2>1, <3>2 DEF AppStep
  <2> QED
    BY <1>3, <2>1 DEF WaitForDataCall, AppStep
<1>4. CASE CloseCall \/ DestroyStack
  BY <1>4 DEF CloseCall, DestroyStack, AppStep
<1>5. CASE CapturePacket \/ CaptureStep \/ ServerStep \/ ServerTimeout \/ Lose
  BY <1>5 DEF CapturePacket, CaptureStep, ServerStep, ServerTimeout, Lose
<1> QED
  BY <1>1, <1>2, <1>3, <1>4, <1>5 DEF ProgramNext, Main

(* The server is another party: its steps are its own.                     *)
LEMMA ProgramServer ==
  ASSUME ProgramInvariant, ProgramNext
  PROVE  ServerTypeOK' /\ ServerGrows
<1>0. ServerTypeOK /\ LocalIp \in Host /\ Len(srv_tx) \in Nat
  BY StackAssumption DEF ProgramInvariant, ServerTypeOK
<1>1. CASE ServerStep
  <2>1. CASE Respond(LocalIp)
    BY <1>0, <2>1, RespondTyped
  <2>2. CASE to_server < Len(tx) /\ ServerReceives(tx[to_server + 1])
    <3>1. tx \in Seq(Segment) /\ to_server \in 0 .. Len(tx)
      BY DEF ProgramInvariant, TypeOK, NetworkTypeOK
    <3>2. to_server + 1 \in 1 .. Len(tx)
      BY <2>2, <3>1
    <3>3. tx[to_server + 1] \in Segment
      BY <3>1, <3>2
    <3> QED
      BY <1>0, <2>2, <3>3, ReceivesTyped
  <2> QED
    BY <1>1, <2>1, <2>2 DEF ServerStep
<1>2. CASE ServerTimeout
  BY <1>0, <1>2, TimerTyped DEF ServerTimeout
<1>3. CASE ~ServerStep /\ ~ServerTimeout
  <2>1. UNCHANGED serverVars
    BY <1>3 DEF ProgramNext, Main, PrepareCall, ConnectCall, WaitForConnectionCall,
       SendDataCall, WaitForDataCall, CloseCall, DestroyStack, Unseen,
       CapturePacket, CaptureStep, Lose
  <2> QED
    BY <1>0, <2>1 DEF serverVars, ServerTypeOK, ServerGrows
<1> QED
  BY <1>1, <1>2, <1>3

(* The network deals only with what was sent.                              *)
LEMMA ProgramNetwork ==
  ASSUME ProgramInvariant, TypeOK', ServerTypeOK', ServerGrows, ProgramNext
  PROVE  NetworkTypeOK'
<1>0. /\ Len(tx) \in Nat /\ Len(tx') \in Nat
      /\ Len(srv_tx) \in Nat /\ Len(srv_tx') \in Nat
      /\ to_server \in 0 .. Len(tx) /\ to_client \subseteq 1 .. Len(srv_tx)
      /\ faults \in 0 .. MaxFaults
  <2>1. tx \in Seq(Segment) /\ tx' \in Seq(Segment)
    BY DEF ProgramInvariant, TypeOK
  <2>2. srv_tx \in Seq(Segment) /\ srv_tx' \in Seq(Segment)
    BY DEF ProgramInvariant, ServerTypeOK
  <2> QED
    BY <2>1, <2>2 DEF ProgramInvariant, NetworkTypeOK
<1>1. to_server' \in 0 .. Len(tx')
  <2>1. CASE ConnectCall
    <3>1. tx = <<>>
      BY <2>1, ConnectIsAny DEF ProgramInvariant, WireInvariant, Lifecycle
    <3>2. to_server = 0 /\ to_server' = to_server
      BY <1>0, <2>1, <3>1 DEF ConnectCall, Unseen, netVars
    <3> QED
      BY <1>0, <3>2
  <2>2. CASE ~ConnectCall
    <3>1. Len(tx) <= Len(tx')
      BY <2>2, ProgramIsLater, LaterGrowsWire DEF ProgramInvariant, Grows, Keeps
    <3>2. to_server' = to_server \/ (to_server < Len(tx) /\ to_server' = to_server + 1)
      BY <2>2 DEF ProgramNext, Main, PrepareCall, WaitForConnectionCall, SendDataCall,
         WaitForDataCall, CloseCall, DestroyStack, Unseen, netVars,
         CapturePacket, CaptureStep, ServerStep, ServerTimeout, Lose
    <3> QED
      BY <1>0, <3>1, <3>2
  <2> QED
    BY <2>1, <2>2
<1>2. to_client' \subseteq 1 .. Len(srv_tx')
  <2>1. CASE Launch
    <3>1. 1 .. Len(srv_tx) \subseteq 1 .. Len(srv_tx')
      BY <1>0 DEF ServerGrows
    <3>2. (Len(srv_tx) + 1 .. Len(srv_tx')) \subseteq 1 .. Len(srv_tx')
      BY <1>0
    <3> QED
      BY <1>0, <2>1, <3>1, <3>2, Zenon DEF Launch
  <2>2. CASE to_client' \subseteq to_client
    BY <1>0, <2>2 DEF ServerGrows
  <2>3. Launch \/ to_client' \subseteq to_client
    BY DEF ProgramNext, Main, PrepareCall, ConnectCall, WaitForConnectionCall,
       SendDataCall, WaitForDataCall, CloseCall, DestroyStack, Unseen, netVars,
       CapturePacket, CaptureStep, ServerStep, ServerTimeout, Lose
  <2> QED
    BY <2>1, <2>2, <2>3
<1>3. faults' \in 0 .. MaxFaults
  <2>1. faults' = faults \/ (faults < MaxFaults /\ faults' = faults + 1)
    BY DEF ProgramNext, Main, PrepareCall, ConnectCall, WaitForConnectionCall,
       SendDataCall, WaitForDataCall, CloseCall, DestroyStack, Unseen, netVars,
       CapturePacket, CaptureStep, ServerStep, ServerTimeout, Lose, Fault
  <2> QED
    BY <1>0, <2>1, ProgramAssumption
<1> QED
  BY <1>1, <1>2, <1>3 DEF NetworkTypeOK

(* Until connect is called there is no connection for a packet to find.      *)
LEMMA ProgramUnconnected ==
  ASSUME ProgramInvariant, ProgramNext
  PROVE  Unconnected'
<1>1. SUFFICES ASSUME pc' \in {"arguments", "initialize", "create_file", "connect"}
               PROVE  current_connection' = NoConnection
  BY DEF Unconnected
<1>2. ~ConnectCall
  BY <1>1 DEF ConnectCall, Connected, Goto
<1>3. pc \in {"arguments", "initialize", "create_file", "connect"}
  <2>1. CASE PrepareCall
    BY <2>1 DEF PrepareCall, ArgumentsGiven, Initialized, FileCreated
  <2>2. CASE UNCHANGED pc
    BY <1>1, <2>2
  <2>3. CASE Main /\ ~PrepareCall /\ pc' # pc
    <3>1. CASE WaitForConnectionCall
      BY <1>1, <2>3, <3>1 DEF WaitForConnectionCall, ConnectionAwaited, Goto, appVars
    <3>3. CASE SendDataCall
      BY <1>1, <3>3 DEF SendDataCall, RequestSent, Goto
    <3>4. CASE CloseCall
      BY <1>1, <3>4 DEF CloseCall, Closed, Goto
    <3>5. CASE DestroyStack
      BY <1>1, <2>3, <3>5 DEF DestroyStack, StackStopped, Goto, appVars
    <3>2. CASE WaitForDataCall
      BY <1>1, <2>3, <3>2 DEF WaitForDataCall, ReceiveTimedOut, ChunkReceived, Goto, appVars
    <3> QED
      BY <1>2, <2>3, <3>1, <3>2, <3>3, <3>4, <3>5 DEF Main
  <2> QED
    BY <2>1, <2>2, <2>3 DEF ProgramNext, CapturePacket, CaptureStep, ServerStep,
       ServerTimeout, Lose, appVars
<1>4. current_connection = NoConnection
  BY <1>3 DEF ProgramInvariant, Unconnected
<1>5. TypeOK /\ Lifecycle /\ [LaterStep]_vars
  BY <1>2, ProgramIsLater DEF ProgramInvariant, WireInvariant
<1>6. Continued(Segment)
  BY <1>5, StepContinues
<1>7. CASE Unaffected \/ Removed
  BY <1>4, <1>7 DEF Unaffected, Removed, connVars
<1> QED
  BY <1>4, <1>6, <1>7 DEF Continued, Sending, Confirmed, Closing, Completed, GivenUp,
     Queued, Goes

(* The invariant is inductive.                                             *)
LEMMA StepProgram == ProgramInvariant /\ [ProgramNext]_programVars => ProgramInvariant'
<1>1. ASSUME ProgramInvariant, ProgramNext PROVE ProgramInvariant'
  <2>1. [AnyStep]_vars
    BY <1>1, ConnectIsAny, ProgramIsLater DEF AnyStep
  <2>2. TypeOK'
    BY <1>1, <2>1, StepTyped DEF ProgramInvariant
  <2>3. WireInvariant' /\ DeliveryInvariant'
    BY <1>1, <2>1, StepWire, StepDelivery DEF ProgramInvariant, WireInvariant
  <2>4. CaptureInvariant'
    BY <1>1, ProgramIsCapture, StepCapture DEF ProgramInvariant
  <2>5. AppInvariant'
    BY <1>1, <2>2, ProgramIsApp, StepApp DEF ProgramInvariant
  <2>6. ServerTypeOK' /\ ServerGrows
    BY <1>1, ProgramServer
  <2>7. NetworkTypeOK' /\ Unconnected'
    BY <1>1, <2>2, <2>6, ProgramNetwork, ProgramUnconnected
  <2> QED
    BY <2>2, <2>3, <2>4, <2>5, <2>6, <2>7 DEF ProgramInvariant
<1>2. ASSUME ProgramInvariant, UNCHANGED programVars PROVE ProgramInvariant'
  <2>1. UNCHANGED <<vars, captureVars, serverVars, appVars, netVars>>
    BY <1>2 DEF programVars
  <2>2. TypeOK' /\ WireInvariant' /\ DeliveryInvariant'
    BY <1>2, <2>1, StepTyped, StepWire, StepDelivery DEF ProgramInvariant, WireInvariant
  <2>3. CaptureInvariant' /\ AppInvariant'
    BY <1>2, <2>1, StepCapture, StepApp DEF ProgramInvariant
  <2>4. ServerTypeOK' /\ NetworkTypeOK' /\ Unconnected'
    BY <1>2, <2>1 DEF ProgramInvariant, ServerTypeOK, NetworkTypeOK, Unconnected,
       serverVars, netVars, vars, appVars
  <2> QED
    BY <2>2, <2>3, <2>4 DEF ProgramInvariant
<1> QED
  BY <1>1, <1>2

LEMMA ProgramInvariantHolds == ProgramSpec => []ProgramInvariant
  BY InitProgram, StepProgram, PTL DEF ProgramSpec

(* Whatever the network, the server's segments and the timers do, the state  *)
(* of the whole program keeps its types.                                   *)
THEOREM ProgramTypeCorrect == ProgramSpec => []ProgramTypeOK
<1>1. ProgramInvariant => ProgramTypeOK
  BY DEF ProgramInvariant, ProgramTypeOK, CaptureInvariant, AppInvariant, NetworkTypeOK
<1> QED
  BY <1>1, ProgramInvariantHolds, PTL

(* What TcpStack and the capture thread promise for calls in any order and     *)
(* any packets, they keep in the program: the wire is one TCP conversation    *)
(* without gaps, the connection's state agrees with its history, the payloads *)
(* and callbacks are in order, and no closed handle is polled.               *)
THEOREM PartsInProgram ==
  ProgramSpec => [](/\ Lifecycle /\ WireOrder /\ WireContiguous
                    /\ DataFromPeer /\ QueueOrder /\ CallbackOrder
                    /\ NoPollAfterClose)
<1>1. ProgramInvariant => /\ Lifecycle /\ WireOrder /\ WireContiguous
                          /\ DataFromPeer /\ QueueOrder /\ CallbackOrder
                          /\ NoPollAfterClose
  BY DEF ProgramInvariant, WireInvariant, DeliveryInvariant, CaptureInvariant,
         Running, NoPollAfterClose
<1> QED
  BY <1>1, ProgramInvariantHolds, PTL

-----------------------------------------------------------------------------
(* What is left when the program ends.                                     *)

(* The inductive invariant: ~TcpStack's close leaves nothing open, and from   *)
(* the callback on_connected to that close a connection is either open or    *)
(* has sent its FIN.                                                       *)
Resting == pc \in {"stop", "exited"} => Unopened

ClosingInvariant == FinOrOpen /\ Resting

LEMMA InitClosing == ProgramInit => ClosingInvariant
  BY DEF ProgramInit, Init, ClientInit, ClosingInvariant, FinOrOpen, Resting

(* close_connection that is not refused.                                   *)
LEMMA CloseUnopens ==
  ASSUME InjectResults = {TRUE}, TypeOK, CloseConnection
  PROVE  Unopened'
<1>1. CASE ~InState(TcpState \ {"CLOSED"})
  <2>1. current_connection' = current_connection
    BY <1>1 DEF CloseConnection, InState, TcpState
  <2> QED
    BY <1>1, <2>1 DEF Unopened, InState, TcpState
<1>2. CASE InState({"ESTABLISHED"})
  <2> DEFINE d == AfterSend(current_connection, {"FIN", "ACK"}, <<>>, TRUE)
  <2>1. current_connection' = [d EXCEPT !.state = IF TRUE THEN "FIN_WAIT_1" ELSE @]
    BY <1>2 DEF CloseConnection, InState, TcpState
  <2>2. d \in Connection
    BY <1>2, SentFlags, AfterSendType DEF TypeOK, InState
  <2> HIDE DEF d
  <2>3. current_connection'.state = "FIN_WAIT_1"
    BY <2>1, <2>2 DEF Connection
  <2> QED
    BY <2>3 DEF Unopened, InState
<1>3. CASE InState(TcpState \ {"CLOSED", "ESTABLISHED"})
  <2>1. /\ current_connection' = [current_connection EXCEPT !.state = "CLOSED"]
        /\ current_connection \in Connection
    BY <1>3 DEF CloseConnection, InState, TypeOK
  <2> QED
    BY <2>1 DEF Unopened, InState, Connection
<1> QED
  BY <1>1, <1>2, <1>3 DEF CloseConnection

LEMMA StepClosing ==
  ASSUME InjectResults = {TRUE}, ProgramInvariant, ProgramInvariant',
         ClosingInvariant, [ProgramNext]_programVars
  PROVE  ClosingInvariant'
<1>0. TypeOK /\ TypeOK' /\ Lifecycle
  BY DEF ProgramInvariant, WireInvariant
<1>1. CASE UNCHANGED programVars
  BY <1>1 DEF programVars, vars, appVars, ClosingInvariant, FinOrOpen, Resting,
     Unopened, InState
<1>2. CASE ConnectCall
  <2>1. events' = <<>>
    <3>1. events = <<>>
      BY <1>0, <1>2, ConnectIsAny DEF Lifecycle
    <3> QED
      BY <1>2, <3>1 DEF ConnectCall, Connect, ConnectFilterFails, connVars
  <2>2. pc' \notin {"stop", "exited"}
    BY <1>2 DEF ConnectCall, Connected, Goto
  <2> QED
    BY <2>1, <2>2 DEF ClosingInvariant, FinOrOpen, Resting
<1>3. CASE ProgramNext /\ ~ConnectCall
  <2>1. [LaterStep]_vars
    BY <1>3, ProgramIsLater
  <2>2. FinOrOpen'
    BY <1>0, <2>1, StepFinOrOpen DEF ClosingInvariant
  <2>3. ASSUME pc' \in {"stop", "exited"} PROVE Unopened'
    <3>1. CASE pc \in {"stop", "exited"}
      BY <1>0, <2>1, <3>1, StepUnopened DEF ClosingInvariant, Resting
    <3>2. CASE CloseCall
      BY <1>0, <3>2, CloseUnopens DEF CloseCall
    <3>3. CASE PrepareCall
      <4>1. UNCHANGED vars /\ pc \in {"arguments", "initialize", "create_file"}
        BY <3>3 DEF PrepareCall, ArgumentsGiven, Initialized, FileCreated
      <4>2. current_connection = NoConnection
        BY <4>1 DEF ProgramInvariant, Unconnected
      <4> QED
        BY <4>1, <4>2 DEF vars, Unopened, InState
    <3>4. CASE WaitForConnectionCall
      BY <2>3, <3>1, <3>4 DEF WaitForConnectionCall, ConnectionAwaited, Goto, appVars
    <3>5. CASE SendDataCall
      BY <2>3, <3>5 DEF SendDataCall, RequestSent, Goto
    <3>6. CASE WaitForDataCall
      BY <2>3, <3>1, <3>6 DEF WaitForDataCall, ReceiveTimedOut, ChunkReceived, Goto, appVars
    <3>7. CASE DestroyStack
      BY <3>1, <3>7 DEF DestroyStack
    <3>8. CASE CapturePacket \/ CaptureStep \/ ServerStep \/ ServerTimeout \/ Lose
      BY <2>3, <3>1, <3>8 DEF CapturePacket, CaptureStep, ServerStep, ServerTimeout,
         Lose, appVars
    <3> QED
      BY <1>3, <3>2, <3>3, <3>4, <3>5, <3>6, <3>7, <3>8 DEF ProgramNext, Main
  <2> QED
    BY <2>2, <2>3 DEF ClosingInvariant, Resting
<1> QED
  BY <1>1, <1>2, <1>3

(* If pcap_inject accepts what it is given, no connection is left open when   *)
(* ~TcpStack has closed, whatever was lost, repeated, reordered or timed     *)
(* out: whoever was told of the connection gets a FIN.                      *)
THEOREM NothingLeftOpenHolds ==
  ASSUME InjectResults = {TRUE}
  PROVE  ProgramSpec => []NothingLeftOpen
<1>1. ProgramInvariant /\ ClosingInvariant => NothingLeftOpen
  BY SentFin DEF ClosingInvariant, FinOrOpen, Resting, Unopened, NothingLeftOpen, InState
<1>2. ProgramInvariant /\ ProgramInvariant' /\ ClosingInvariant
        /\ [ProgramNext]_programVars => ClosingInvariant'
  BY StepClosing
<1> QED
  BY <1>1, <1>2, InitClosing, ProgramInvariantHolds, PTL DEF ProgramSpec
=============================================================================

---------------------------- MODULE TcpStackProofs ----------------------------
(***************************************************************************)
(* TcpStack for every value of the constants.                              *)
(*                                                                         *)
(* Its types: TypeOK is inductive; one lemma per operation that sends, one   *)
(* for the waits and one for process_packet.                               *)
(*                                                                         *)
(* What it puts on the wire: WireOrder and WireContiguous are not inductive. *)
(* Whether a segment may follow the ones already sent depends on the state   *)
(* of the connection, and Lifecycle says what the state knows about them.    *)
(* WireInvariant is their conjunction.                                     *)
(*                                                                         *)
(* What it hands to the application: the order of the queue, whose data it   *)
(* holds, the order of the callbacks, that a connection only moves forward,  *)
(* and that the stack implements TcpService.  None of this cares about       *)
(* sequence numbers or about which thread took the step.  So every operation *)
(* is first shown to be one of a few kinds of step (StepKinds), and the      *)
(* properties are proved from those.                                       *)
(***************************************************************************)
EXTENDS TcpStackService, SequenceTheorems, TLAPS

-----------------------------------------------------------------------------
(* Types.                                                                  *)

(* Addition wraps into the sequence space.                                *)
LEMMA PlusType == ASSUME NEW n \in Nat, NEW k \in Nat PROVE Plus(n, k) \in SeqNum
  BY SeqModAssumption DEF Plus, SeqNum

(* A segment occupies a natural number of sequence numbers.               *)
LEMMA ConsumedType == ASSUME NEW seg \in Segment PROVE Consumed(seg) \in Nat
  BY DEF Consumed, Segment

(* What send_tcp_packet builds is a segment.                              *)
LEMMA SegmentOfType ==
  ASSUME NEW c \in Connection, NEW flags \in SUBSET Flag, NEW data \in Seq(Byte)
  PROVE  SegmentOf(c, flags, data) \in Segment
  BY StackAssumption DEF SegmentOf, Connection, Segment

(* Sending, or failing to, leaves a connection.                           *)
LEMMA AfterSendType ==
  ASSUME NEW c \in Connection, NEW flags \in SUBSET Flag, NEW data \in Seq(Byte), NEW ok \in BOOLEAN
  PROVE  AfterSend(c, flags, data, ok) \in Connection
<1>1. SegmentOf(c, flags, data) \in Segment
  BY SegmentOfType
<1>2. Consumed(SegmentOf(c, flags, data)) \in Nat
  BY <1>1, ConsumedType
<1>3. Plus(c.seq_num, Consumed(SegmentOf(c, flags, data))) \in SeqNum
  BY <1>2, PlusType DEF Connection, SeqNum
<1> QED BY <1>3 DEF AfterSend, Connection

(* Sending, or failing to, leaves a sequence of segments.                 *)
LEMMA WireAfterType ==
  ASSUME NEW wire \in Seq(Segment), NEW c \in Connection, NEW flags \in SUBSET Flag, NEW data \in Seq(Byte), NEW ok \in BOOLEAN
  PROVE  WireAfter(wire, c, flags, data, ok) \in Seq(Segment)
  BY SegmentOfType DEF WireAfter

(* The flags and the empty payload the stack sends.                        *)
LEMMA SentFlags ==
  /\ {"SYN"} \in SUBSET Flag
  /\ {"ACK"} \in SUBSET Flag
  /\ {"PSH", "ACK"} \in SUBSET Flag
  /\ {"FIN", "ACK"} \in SUBSET Flag
  /\ <<>> \in Seq(Byte)
  BY DEF Flag

-----------------------------------------------------------------------------
(* The constructor establishes the type invariant.                        *)
LEMMA InitTyped == Init => TypeOK
<1> SUFFICES ASSUME Init PROVE TypeOK
  OBVIOUS
<1>1. 0 \in 0 .. MaxSynRetries
  BY StackAssumption
<1>2. /\ data_queue \in Seq(Seq(Byte))
      /\ tx \in Seq(Segment)
      /\ rx \in Seq(Segment)
      /\ events \in Seq({"connected", "data", "closed"})
  BY DEF Init
<1> QED
  BY <1>1, <1>2 DEF Init, TypeOK, Call

(* connect: a new connection, or none.                                    *)
LEMMA ConnectTyped ==
  ASSUME TypeOK, NEW target \in Host \X Port, NEW local_port \in Port,
         NEW iss \in SeqNum, Connect(target, local_port, iss)
  PROVE  TypeOK'
<1> DEFINE c == [local_port |-> local_port,  remote_ip |-> target[1],
                 remote_port |-> target[2],  seq_num |-> iss,  ack_num |-> 0,
                 state |-> "CLOSED"]
<1>1. c \in Connection
  BY StackAssumption, SeqModAssumption DEF Connection, TcpState, SeqNum
<1>2. PICK ok \in InjectResults :
        /\ current_connection' =
             IF ok
             THEN [AfterSend(c, {"SYN"}, <<>>, ok) EXCEPT !.state = "SYN_SENT"]
             ELSE NoConnection
        /\ tx' = WireAfter(<<>>, c, {"SYN"}, <<>>, ok)
        /\ retval' = ok
  BY DEF Connect
<1>3. ok \in BOOLEAN
  BY StackAssumption
<1> HIDE DEF c
<1>4. AfterSend(c, {"SYN"}, <<>>, ok) \in Connection
  BY <1>1, <1>3, AfterSendType, SentFlags
<1>5. current_connection' \in Connection \union {NoConnection}
  BY <1>2, <1>4 DEF Connection, TcpState
<1>6. tx' \in Seq(Segment)
  <2>1. <<>> \in Seq(Segment)
    OBVIOUS
  <2> QED
    BY <1>1, <1>2, <1>3, <2>1, WireAfterType, SentFlags
<1> QED
  BY <1>2, <1>3, <1>5, <1>6 DEF TypeOK, Connect

(* The SYN retransmission keeps the retry counter in its bound.           *)
LEMMA SynRetransmitTyped == TypeOK /\ RetransmitSyn => TypeOK'
<1> SUFFICES ASSUME TypeOK, RetransmitSyn PROVE TypeOK'
  OBVIOUS
<1>1. PICK ok \in InjectResults :
        /\ current_connection' =
             AfterSend(current_connection, {"SYN"}, <<>>, ok)
        /\ tx' = WireAfter(tx, current_connection, {"SYN"}, <<>>, ok)
        /\ syn_retries' = IF ok THEN syn_retries + 1 ELSE syn_retries
  BY DEF RetransmitSyn
<1>2. ok \in BOOLEAN /\ current_connection \in Connection
  BY StackAssumption DEF RetransmitSyn, InState, TypeOK
<1>3. current_connection' \in Connection /\ tx' \in Seq(Segment)
  BY <1>1, <1>2, AfterSendType, WireAfterType, SentFlags DEF TypeOK
<1>4. syn_retries' \in 0 .. MaxSynRetries
  BY <1>1, StackAssumption DEF TypeOK, RetransmitSyn
<1> QED
  BY <1>3, <1>4 DEF TypeOK, RetransmitSyn, Call

(* send_data.                                                             *)
LEMMA SendDataTyped ==
  ASSUME TypeOK, NEW data \in Seq(Byte), SendData(data)
  PROVE  TypeOK'
<1>1. data \in Seq(Byte) /\ {"PSH", "ACK"} \in SUBSET Flag
  BY StackAssumption DEF Flag
<1>2. CASE InState({"ESTABLISHED"})
  <2>1. PICK ok \in InjectResults :
          /\ current_connection' =
               AfterSend(current_connection, {"PSH", "ACK"}, data, ok)
          /\ tx' = WireAfter(tx, current_connection, {"PSH", "ACK"}, data, ok)
          /\ retval' = ok
    BY <1>2 DEF SendData
  <2>2. ok \in BOOLEAN /\ current_connection \in Connection
    BY <1>2, StackAssumption DEF InState, TypeOK
  <2>3. current_connection' \in Connection /\ tx' \in Seq(Segment)
    BY <1>1, <2>1, <2>2, AfterSendType, WireAfterType DEF TypeOK
  <2> QED
    BY <2>1, <2>2, <2>3 DEF TypeOK, SendData
<1>3. CASE ~InState({"ESTABLISHED"})
  BY <1>3 DEF TypeOK, SendData
<1> QED
  BY <1>2, <1>3

(* close_connection, in each of its three cases.                          *)
LEMMA CloseTyped == TypeOK /\ CloseConnection => TypeOK'
<1> SUFFICES ASSUME TypeOK, CloseConnection PROVE TypeOK'
  OBVIOUS
<1>1. /\ current_connection' \in Connection \union {NoConnection}
      /\ tx' \in Seq(Segment)
      /\ retval' \in BOOLEAN
  <2>1. CASE ~InState(TcpState \ {"CLOSED"}) /\ retval' = TRUE
             /\ UNCHANGED <<current_connection, tx>>
    BY <2>1 DEF TypeOK
  <2>2. ASSUME InState({"ESTABLISHED"}),
               NEW ok \in InjectResults,
               current_connection' =
                 [AfterSend(current_connection, {"FIN", "ACK"}, <<>>, ok)
                    EXCEPT !.state = IF ok THEN "FIN_WAIT_1" ELSE @],
               tx' = WireAfter(tx, current_connection, {"FIN", "ACK"}, <<>>, ok),
               retval' = ok
        PROVE  <1>1
    <3>1. ok \in BOOLEAN /\ current_connection \in Connection
      BY <2>2, StackAssumption DEF InState, TypeOK
    <3>2. /\ AfterSend(current_connection, {"FIN", "ACK"}, <<>>, ok) \in Connection
          /\ tx' \in Seq(Segment)
      BY <2>2, <3>1, AfterSendType, WireAfterType, SentFlags DEF TypeOK
    <3> QED
      BY <2>2, <3>1, <3>2 DEF Connection, TcpState
  <2>3. CASE InState(TcpState \ {"CLOSED", "ESTABLISHED"}) /\ retval' = TRUE
             /\ current_connection' = [current_connection EXCEPT !.state = "CLOSED"]
             /\ UNCHANGED tx
    BY <2>3 DEF TypeOK, InState, Connection, TcpState
  <2> QED
    BY <2>1, <2>2, <2>3 DEF CloseConnection
<1> QED
  BY <1>1 DEF TypeOK, CloseConnection

(* The calls that wait and change nothing but the place of the caller.      *)
LEMMA WaitTyped == TypeOK /\ Waiting => TypeOK'
<1> SUFFICES ASSUME TypeOK, Waiting PROVE TypeOK'
  OBVIOUS
<1>1. CASE RetransmitSyn
  BY <1>1, SynRetransmitTyped
<1>2. CASE TakeData
  <2>1. Tail(data_queue) \in Seq(Seq(Byte))
    BY <1>2 DEF TakeData, TypeOK
  <2> QED
    BY <1>2, <2>1 DEF TakeData, TypeOK, Call, connVars
<1>3. CASE \/ WaitForConnection \/ ConnectionPending \/ KeepWaitingForConnection
           \/ WaitForData \/ NoDataYet \/ KeepWaitingForData \/ DataTimeout
  BY <1>3 DEF TypeOK, Call, connVars, WaitForConnection, ConnectionPending,
              KeepWaitingForConnection, WaitForData, NoDataYet,
              KeepWaitingForData, DataTimeout
<1>4. CASE ConnectionEstablished \/ ConnectionTimeout
  <2>1. 0 \in 0 .. MaxSynRetries
    BY StackAssumption
  <2> QED
    BY <1>4, <2>1 DEF TypeOK, Call, connVars, ConnectionEstablished,
                      ConnectionTimeout
<1> QED
  BY <1>1, <1>2, <1>3, <1>4 DEF Waiting

-----------------------------------------------------------------------------
(* The capture thread.                                                     *)

(* Every branch of process_packet has a connection to work on.             *)
LEMMA MatchesConnection ==
  ASSUME TypeOK, NEW seg, NEW S, Matches(seg, S)
  PROVE  current_connection \in Connection /\ current_connection.state \in S
  BY DEF TypeOK, Matches, InState

(* The connection that acknowledges n, and what sending that ACK does.     *)
LEMMA AckTyped ==
  ASSUME NEW c \in Connection, NEW n \in SeqNum, NEW wire \in Seq(Segment),
         NEW ok \in BOOLEAN
  PROVE  LET acked == [c EXCEPT !.ack_num = n]
         IN /\ acked \in Connection
            /\ AfterSend(acked, {"ACK"}, <<>>, ok) \in Connection
            /\ WireAfter(wire, acked, {"ACK"}, <<>>, ok) \in Seq(Segment)
<1> DEFINE acked == [c EXCEPT !.ack_num = n]
<1>1. acked \in Connection
  BY DEF Connection
<1> HIDE DEF acked
<1>2. /\ AfterSend(acked, {"ACK"}, <<>>, ok) \in Connection
      /\ WireAfter(wire, acked, {"ACK"}, <<>>, ok) \in Seq(Segment)
  BY <1>1, AfterSendType, WireAfterType, SentFlags
<1> QED
  BY <1>1, <1>2 DEF acked

(* The fields of a segment the branches of process_packet read.           *)
LEMMA SegmentFields ==
  ASSUME NEW seg \in Segment
  PROVE  /\ seg.sport \in Port
         /\ seg.payload \in Seq(Byte)
         /\ Plus(seg.seq, 1) \in SeqNum
         /\ DataAck(seg) \in SeqNum
<1>1. seg.seq \in Nat /\ seg.payload \in Seq(Byte) /\ seg.sport \in Port
  BY DEF Segment, SeqNum
<1>2. Len(seg.payload) \in Nat
  BY <1>1
<1> QED
  BY <1>1, <1>2, PlusType DEF DataAck

(* SYN+ACK in SYN_SENT.                                                   *)
LEMMA SynAckTyped ==
  ASSUME TypeOK, NEW seg \in Segment, SynAckReceived(seg), UNCHANGED callVars
  PROVE  TypeOK'
<1> DEFINE named == [current_connection EXCEPT !.remote_port = seg.sport]
           c == [named EXCEPT !.ack_num = Plus(seg.seq, 1)]
<1>1. current_connection \in Connection
  BY MatchesConnection DEF SynAckReceived, IsSynAck
<1>2. /\ named \in Connection
      /\ c = [current_connection EXCEPT !.remote_port = seg.sport,
                                        !.ack_num = Plus(seg.seq, 1)]
  BY <1>1, SegmentFields DEF Connection
<1>3. PICK ok \in InjectResults :
        /\ current_connection' =
             [AfterSend(c, {"ACK"}, <<>>, ok)
                EXCEPT !.state = IF ok THEN "ESTABLISHED" ELSE @]
        /\ tx' = WireAfter(tx, c, {"ACK"}, <<>>, ok)
        /\ events' = IF ok THEN Append(events, "connected") ELSE events
  BY <1>2, Zenon DEF SynAckReceived
<1>4. ok \in BOOLEAN /\ tx \in Seq(Segment)
  BY StackAssumption DEF TypeOK
<1>5. /\ AfterSend(c, {"ACK"}, <<>>, ok) \in Connection
      /\ WireAfter(tx, c, {"ACK"}, <<>>, ok) \in Seq(Segment)
  BY <1>2, <1>4, AckTyped, SegmentFields
<1> HIDE DEF c
<1>6. current_connection' \in Connection
  BY <1>3, <1>5 DEF Connection, TcpState
<1>7. events' \in Seq({"connected", "data", "closed"})
  BY <1>3, <1>4 DEF TypeOK
<1> QED
  BY <1>3, <1>5, <1>6, <1>7 DEF TypeOK, SynAckReceived, callVars

(* Data in ESTABLISHED.                                                   *)
LEMMA DataTyped ==
  ASSUME TypeOK, NEW seg \in Segment, DataReceived(seg), UNCHANGED callVars
  PROVE  TypeOK'
<1> DEFINE c == [current_connection EXCEPT !.ack_num = DataAck(seg)]
<1>1. current_connection \in Connection
  BY MatchesConnection DEF DataReceived, IsData
<1>2. PICK ok \in InjectResults :
        /\ current_connection' = AfterSend(c, {"ACK"}, <<>>, ok)
        /\ tx' = WireAfter(tx, c, {"ACK"}, <<>>, ok)
  BY DEF DataReceived
<1>3. ok \in BOOLEAN /\ tx \in Seq(Segment)
  BY StackAssumption DEF TypeOK
<1>4. current_connection' \in Connection /\ tx' \in Seq(Segment)
  BY <1>1, <1>2, <1>3, AckTyped, SegmentFields
<1>5. /\ data_queue' \in Seq(Seq(Byte))
      /\ rx' \in Seq(Segment)
      /\ events' \in Seq({"connected", "data", "closed"})
  BY SegmentFields DEF DataReceived, TypeOK
<1> QED
  BY <1>4, <1>5 DEF TypeOK, callVars

(* The FIN of the peer in ESTABLISHED, with the two segments it sends.    *)
LEMMA PeerFinTyped ==
  ASSUME TypeOK, NEW seg \in Segment, PeerFinReceived(seg), UNCHANGED callVars
  PROVE  TypeOK'
<1> DEFINE c1 == [current_connection EXCEPT !.ack_num = Plus(seg.seq, 1)]
           c2(ok) == AfterSend(c1, {"ACK"}, <<>>, ok)
<1>1. current_connection \in Connection
  BY MatchesConnection DEF PeerFinReceived, IsPeerFin
<1>2. PICK ack_ok \in InjectResults, fin_ok \in InjectResults :
        /\ current_connection' =
             [AfterSend(c2(ack_ok), {"FIN", "ACK"}, <<>>, fin_ok)
                EXCEPT !.state = "LAST_ACK"]
        /\ tx' = WireAfter(WireAfter(tx, c1, {"ACK"}, <<>>, ack_ok),
                           c2(ack_ok), {"FIN", "ACK"}, <<>>, fin_ok)
  BY DEF PeerFinReceived
<1>3. ack_ok \in BOOLEAN /\ fin_ok \in BOOLEAN /\ tx \in Seq(Segment)
  BY StackAssumption DEF TypeOK
<1>4. /\ c2(ack_ok) \in Connection
      /\ WireAfter(tx, c1, {"ACK"}, <<>>, ack_ok) \in Seq(Segment)
  BY <1>1, <1>3, AckTyped, SegmentFields
<1> HIDE DEF c1, c2
<1>5. /\ AfterSend(c2(ack_ok), {"FIN", "ACK"}, <<>>, fin_ok) \in Connection
      /\ tx' \in Seq(Segment)
  BY <1>2, <1>3, <1>4, AfterSendType, WireAfterType, SentFlags
<1>6. current_connection' \in Connection
  BY <1>2, <1>5 DEF Connection, TcpState
<1> QED
  BY <1>5, <1>6 DEF TypeOK, PeerFinReceived, callVars

(* A FIN in FIN_WAIT_1 or FIN_WAIT_2.                                     *)
LEMMA FinWhileClosingTyped ==
  ASSUME TypeOK, NEW seg \in Segment, FinWhileClosingReceived(seg),
         UNCHANGED callVars
  PROVE  TypeOK'
<1> DEFINE c == [current_connection EXCEPT !.ack_num = Plus(seg.seq, 1)]
<1>1. current_connection \in Connection
  BY MatchesConnection DEF FinWhileClosingReceived, IsFinWhileClosing
<1>2. PICK ok \in InjectResults :
        /\ current_connection' =
             [AfterSend(c, {"ACK"}, <<>>, ok) EXCEPT !.state = "CLOSED"]
        /\ tx' = WireAfter(tx, c, {"ACK"}, <<>>, ok)
  BY DEF FinWhileClosingReceived
<1>3. ok \in BOOLEAN /\ tx \in Seq(Segment)
  BY StackAssumption DEF TypeOK
<1>4. AfterSend(c, {"ACK"}, <<>>, ok) \in Connection /\ tx' \in Seq(Segment)
  BY <1>1, <1>2, <1>3, AckTyped, SegmentFields
<1> HIDE DEF c
<1>5. current_connection' \in Connection
  BY <1>2, <1>4 DEF Connection, TcpState
<1> QED
  BY <1>4, <1>5 DEF TypeOK, FinWhileClosingReceived, callVars

(* process_packet, all branches.                                          *)
LEMMA ProcessPacketTyped ==
  ASSUME TypeOK, NEW seg \in Segment, process_packet(seg)
  PROVE  TypeOK'
<1> USE DEF process_packet
<1>1. CASE SynAckReceived(seg)
  BY <1>1, SynAckTyped
<1>2. CASE DataReceived(seg)
  BY <1>2, DataTyped
<1>3. CASE PeerFinReceived(seg)
  BY <1>3, PeerFinTyped
<1>4. CASE FinAcknowledged(seg)
  <2>1. current_connection \in Connection
    BY <1>4, MatchesConnection DEF FinAcknowledged, IsFinAcknowledged
  <2>2. current_connection' \in Connection
    BY <1>4, <2>1 DEF FinAcknowledged, Connection, TcpState
  <2> QED
    BY <1>4, <2>2 DEF FinAcknowledged, TypeOK, callVars
<1>5. CASE FinWhileClosingReceived(seg)
  BY <1>5, FinWhileClosingTyped
<1>6. CASE LastAckReceived(seg)
  <2>1. current_connection \in Connection
    BY <1>6, MatchesConnection DEF LastAckReceived, IsLastAck
  <2>2. current_connection' \in Connection
    BY <1>6, <2>1 DEF LastAckReceived, Connection, TcpState
  <2> QED
    BY <1>6, <2>2 DEF LastAckReceived, TypeOK, callVars
<1>7. CASE PacketIgnored(seg)
  BY <1>7 DEF PacketIgnored, TypeOK, connVars, callVars
<1> QED
  BY <1>1, <1>2, <1>3, <1>4, <1>5, <1>6, <1>7

-----------------------------------------------------------------------------
(* A step of the stack on whatever arguments have the right types: those of  *)
(* Next, and those a program that calls the stack comes up with.           *)
LaterStep ==
  \/ ConnectFilterFails
  \/ \E data \in Seq(Byte) : SendData(data)
  \/ CloseConnection
  \/ Waiting
  \/ \E seg \in Segment : process_packet(seg)

AnyStep ==
  \/ \E target \in Host \X Port, local_port \in Port, iss \in SeqNum :
       Connect(target, local_port, iss)
  \/ LaterStep

(* What Next does other than connecting is one of these ...               *)
LEMMA NextIsLater ==
  ASSUME Next
  PROVE  \/ \E target \in Target, local_port \in Port, iss \in InitialSeq :
              Connect(target, local_port, iss)
         \/ LaterStep
<1>1. CASE \E data \in Request : SendData(data)
  <2>1. PICK data \in Request : SendData(data)
    BY <1>1
  <2> QED
    BY <2>1, StackAssumption DEF LaterStep
<1>2. CASE Capture
  <2>1. PICK seg \in Inbound : process_packet(seg)
    BY <1>2 DEF Capture
  <2> QED
    BY <2>1, StackAssumption DEF LaterStep
<1> QED
  BY <1>1, <1>2 DEF Next, Application, LaterStep

(* ... and so is connecting.                                              *)
LEMMA NextIsAny == Next => AnyStep
<1>1. ASSUME NEW target \in Target, NEW local_port \in Port, NEW iss \in InitialSeq,
             Connect(target, local_port, iss)
      PROVE  AnyStep
  <2>1. target \in Host \X Port /\ iss \in SeqNum
    BY StackAssumption
  <2> QED
    BY <1>1, <2>1 DEF AnyStep
<1> QED
  BY <1>1, NextIsLater DEF AnyStep

(* The type invariant is inductive.                                       *)
LEMMA StepTyped == TypeOK /\ [AnyStep]_vars => TypeOK'
<1>1. CASE ConnectFilterFails
  BY <1>1 DEF ConnectFilterFails, TypeOK, connVars
<1>2. CASE UNCHANGED vars
  BY <1>2 DEF vars, TypeOK
<1> QED
  BY <1>1, <1>2, ConnectTyped, SendDataTyped, CloseTyped, WaitTyped,
     ProcessPacketTyped DEF AnyStep, LaterStep

(* Every reachable state is well typed: sequence numbers stay below 2^32,   *)
(* what is queued, injected and reported has the right shape, and the       *)
(* retries of wait_for_connection stay within max_syn_retries.             *)
THEOREM TypeCorrect == Spec => []TypeOK
  BY InitTyped, NextIsAny, StepTyped, PTL DEF Spec

-----------------------------------------------------------------------------
(***************************************************************************)
(* The wire.                                                               *)
(***************************************************************************)

WireInvariant == Lifecycle /\ WireOrder /\ WireContiguous

(* Appending to a wire.                                                    *)

(* The wire with one more segment: its length, its last, the others.       *)
LEMMA AppendFacts ==
  ASSUME NEW wire \in Seq(Segment), NEW seg \in Segment
  PROVE  LET w == Append(wire, seg)
         IN /\ w \in Seq(Segment) /\ w # <<>>
            /\ Len(w) = Len(wire) + 1
            /\ w[Len(w)] = seg
            /\ \A i \in 1 .. Len(wire) : w[i] = wire[i]
  OBVIOUS

(* When a segment may follow the ones on a wire.                           *)
MayFollow(wire, seg) ==
  /\ wire = <<>> => is("SYN", seg)
  /\ wire # <<>> =>
       /\ is("SYN", seg) => is("SYN", wire[Len(wire)])
       /\ is("SYN", wire[Len(wire)]) => is("SYN", seg) \/ BareAck(seg)
  /\ (\E i \in 1 .. Len(wire) : is("FIN", wire[i])) => BareAck(seg)

(* A segment that may follow keeps the wire in order.                     *)
LEMMA OrderedAppend ==
  ASSUME NEW wire \in Seq(Segment), NEW seg \in Segment,
         Ordered(wire), MayFollow(wire, seg)
  PROVE  Ordered(Append(wire, seg))
<1> DEFINE w == Append(wire, seg)
<1>0. /\ w \in Seq(Segment) /\ w # <<>>
      /\ Len(wire) \in Nat /\ Len(w) = Len(wire) + 1
      /\ w[Len(w)] = seg
      /\ \A i \in 1 .. Len(wire) : w[i] = wire[i]
  BY AppendFacts
<1> HIDE DEF w
<1>1. is("SYN", w[1])
  <2>1. CASE wire = <<>>
    BY <2>1, <1>0 DEF MayFollow
  <2>2. CASE wire # <<>>
    BY <2>2, <1>0 DEF Ordered
  <2> QED
    BY <2>1, <2>2
<1>2. ASSUME NEW i \in 1 .. Len(w) - 1
      PROVE  /\ is("SYN", w[i + 1]) => is("SYN", w[i])
             /\ is("SYN", w[i]) => is("SYN", w[i + 1]) \/ BareAck(w[i + 1])
  <2>1. CASE i = Len(wire)
    BY <2>1, <1>0 DEF MayFollow
  <2>2. CASE i # Len(wire)
    <3>1. i \in 1 .. Len(wire) - 1 /\ w[i] = wire[i] /\ w[i + 1] = wire[i + 1]
      BY <2>2, <1>0
    <3> QED
      BY <3>1 DEF Ordered
  <2> QED
    BY <2>1, <2>2
<1>3. ASSUME NEW i \in 1 .. Len(w), NEW j \in 1 .. Len(w), i < j, is("FIN", w[i])
      PROVE  BareAck(w[j])
  <2>1. i \in 1 .. Len(wire) /\ w[i] = wire[i]
    BY <1>3, <1>0
  <2>2. CASE j = Len(w)
    BY <2>1, <2>2, <1>0, <1>3 DEF MayFollow
  <2>3. CASE j # Len(w)
    <3>1. j \in 1 .. Len(wire) /\ w[j] = wire[j]
      BY <2>3, <1>0
    <3> QED
      BY <1>3, <2>1, <3>1 DEF Ordered
  <2> QED
    BY <2>2, <2>3
<1> QED
  BY <1>1, <1>2, <1>3 DEF Ordered, w

(* A segment that starts where the wire ends keeps it contiguous.         *)
LEMMA ContiguousAppend ==
  ASSUME NEW c \in Connection, NEW wire \in Seq(Segment),
         NEW flags \in SUBSET Flag, NEW data \in Seq(Byte),
         Contiguous(wire), wire # <<>> => EndsAt(wire, c.seq_num)
  PROVE  LET w == Append(wire, SegmentOf(c, flags, data))
         IN /\ Contiguous(w)
            /\ EndsAt(w, AfterSend(c, flags, data, TRUE).seq_num)
<1> DEFINE seg == SegmentOf(c, flags, data)
           w == Append(wire, seg)
<1>0. seg \in Segment /\ seg.seq = c.seq_num
  BY SegmentOfType DEF SegmentOf
<1>1. /\ Len(wire) \in Nat /\ Len(w) = Len(wire) + 1
      /\ w[Len(w)] = seg
      /\ \A i \in 1 .. Len(wire) : w[i] = wire[i]
  BY <1>0, AppendFacts
<1>2. AfterSend(c, flags, data, TRUE).seq_num = Plus(c.seq_num, Consumed(seg))
  BY DEF AfterSend, Connection
<1> HIDE DEF w, seg
<1>3. EndsAt(w, AfterSend(c, flags, data, TRUE).seq_num)
  BY <1>0, <1>1, <1>2 DEF EndsAt
<1>4. ASSUME NEW i \in 1 .. Len(w) - 1
      PROVE  w[i + 1].seq = Plus(w[i].seq, Consumed(w[i]))
  <2>1. CASE i = Len(wire)
    <3>1. wire # <<>> /\ w[i] = wire[Len(wire)] /\ w[i + 1] = seg
      BY <2>1, <1>1
    <3> QED
      BY <2>1, <3>1, <1>0 DEF EndsAt
  <2>2. CASE i # Len(wire)
    <3>1. i \in 1 .. Len(wire) - 1 /\ w[i] = wire[i] /\ w[i + 1] = wire[i + 1]
      BY <2>2, <1>1
    <3> QED
      BY <3>1 DEF Contiguous
  <2> QED
    BY <2>1, <2>2
<1> QED
  BY <1>3, <1>4 DEF Contiguous, w, seg

(* A connection and its wire fit: the connection is where the wire ends.    *)
Fits(c, wire) ==
  /\ c \in Connection
  /\ wire \in Seq(Segment) /\ wire # <<>>
  /\ Ordered(wire) /\ Contiguous(wire) /\ EndsAt(wire, c.seq_num)

(* w is wire, with one more segment that carries flags if ok.              *)
Extends(w, wire, flags, ok) ==
  /\ ~ok => w = wire
  /\ ok => /\ Len(w) = Len(wire) + 1
           /\ w[Len(w)].flags = flags
           /\ \A i \in 1 .. Len(wire) : w[i] = wire[i]

(* One call of send_tcp_packet.                                            *)
LEMMA SendStep ==
  ASSUME NEW c, NEW wire, Fits(c, wire),
         NEW flags \in SUBSET Flag, NEW data \in Seq(Byte), NEW ok \in BOOLEAN,
         MayFollow(wire, SegmentOf(c, flags, data))
  PROVE  /\ Fits(AfterSend(c, flags, data, ok), WireAfter(wire, c, flags, data, ok))
         /\ AfterSend(c, flags, data, ok).state = c.state
         /\ Extends(WireAfter(wire, c, flags, data, ok), wire, flags, ok)
<1>0. c \in Connection /\ wire \in Seq(Segment)
  BY DEF Fits
<1>1. AfterSend(c, flags, data, ok) \in Connection
  BY <1>0, AfterSendType
<1>2. WireAfter(wire, c, flags, data, ok) \in Seq(Segment)
  BY <1>0, WireAfterType
<1>3. AfterSend(c, flags, data, ok).state = c.state
  BY <1>0 DEF AfterSend, Connection
<1>4. CASE ok
  <2> DEFINE seg == SegmentOf(c, flags, data)
             w == Append(wire, seg)
  <2>1. seg \in Segment /\ seg.flags = flags
    BY <1>0, SegmentOfType DEF SegmentOf
  <2>2. Ordered(w) /\ w # <<>>
    BY <1>0, <2>1, OrderedAppend, AppendFacts DEF Fits
  <2>3. Contiguous(w) /\ EndsAt(w, AfterSend(c, flags, data, TRUE).seq_num)
    BY <1>0, ContiguousAppend DEF Fits
  <2>4. Extends(w, wire, flags, ok)
    BY <1>0, <1>4, <2>1, AppendFacts DEF Extends
  <2>5. w = WireAfter(wire, c, flags, data, ok)
    BY <1>4 DEF WireAfter
  <2>6. AfterSend(c, flags, data, ok) = AfterSend(c, flags, data, TRUE)
    BY <1>4 DEF AfterSend
  <2> HIDE DEF w
  <2> QED
    BY <1>1, <1>2, <1>3, <2>2, <2>3, <2>4, <2>5, <2>6 DEF Fits
<1>5. CASE ~ok
  BY <1>1, <1>2, <1>3, <1>5 DEF WireAfter, AfterSend, Fits, Extends
<1> QED
  BY <1>4, <1>5

(* A bare ACK may always follow.                                           *)
LEMMA AckMayFollow ==
  ASSUME NEW c \in Connection, NEW wire \in Seq(Segment), wire # <<>>
  PROVE  MayFollow(wire, SegmentOf(c, {"ACK"}, <<>>))
  BY DEF MayFollow, SegmentOf, BareAck, is

-----------------------------------------------------------------------------
(* The steps.                                                              *)

(* What a connection and its wire are to each other.                       *)
LEMMA ConnectionFits ==
  ASSUME TypeOK, WireInvariant, current_connection # NoConnection
  PROVE  Fits(current_connection, tx)
  BY DEF TypeOK, WireInvariant, Lifecycle, WireOrder, WireContiguous, Fits

(* The constructor establishes the invariant.                             *)
LEMMA InitWire == Init => WireInvariant
  BY DEF Init, WireInvariant, Lifecycle, WireOrder, WireContiguous, Ordered,
         Contiguous

(* Steps that leave the connection alone keep it.                         *)
LEMMA UnchangedWire == WireInvariant /\ UNCHANGED connVars => WireInvariant'
  BY DEF WireInvariant, connVars, Lifecycle, WireOrder, WireContiguous, Sent

(* connect starts a wire with a SYN, or leaves none.                      *)
LEMMA ConnectWire ==
  ASSUME NEW target \in Host \X Port, NEW local_port \in Port, NEW iss \in SeqNum,
         Connect(target, local_port, iss)
  PROVE  WireInvariant'
<1> DEFINE c == [local_port |-> local_port,  remote_ip |-> target[1],
                 remote_port |-> target[2],  seq_num |-> iss,  ack_num |-> 0,
                 state |-> "CLOSED"]
           syn == SegmentOf(c, {"SYN"}, <<>>)
<1>1. c \in Connection
  BY StackAssumption, SeqModAssumption DEF Connection, TcpState, SeqNum
<1>2. PICK ok \in InjectResults :
        /\ current_connection' =
             IF ok
             THEN [AfterSend(c, {"SYN"}, <<>>, ok) EXCEPT !.state = "SYN_SENT"]
             ELSE NoConnection
        /\ tx' = WireAfter(<<>>, c, {"SYN"}, <<>>, ok)
        /\ retval' = ok
  BY DEF Connect
<1>3. rx' = <<>> /\ events' = <<>>
  BY DEF Connect
<1>4. ok \in BOOLEAN
  BY StackAssumption
<1> HIDE DEF c
<1>5. CASE ~ok
  <2>1. current_connection' = NoConnection /\ tx' = <<>>
    BY <1>2, <1>5 DEF WireAfter
  <2> QED
    BY <2>1, <1>3 DEF WireInvariant, Lifecycle, WireOrder, WireContiguous,
                      Ordered, Contiguous
<1>6. CASE ok
  <2>1. syn \in Segment /\ is("SYN", syn) /\ ~is("FIN", syn)
    BY <1>1, SegmentOfType, SentFlags DEF SegmentOf, is
  <2>2. tx' = Append(<<>>, syn)
    BY <1>2, <1>6 DEF WireAfter
  <2>3. /\ tx' \in Seq(Segment) /\ tx' # <<>> /\ Len(tx') = 1
        /\ tx'[1] = syn
    <3>1. <<>> \in Seq(Segment) /\ Len(<<>>) = 0
      OBVIOUS
    <3> QED
      BY <2>1, <2>2, <3>1, AppendFacts
  <2>4. AfterSend(c, {"SYN"}, <<>>, TRUE) \in Connection
    BY <1>1, AfterSendType, SentFlags
  <2>5. /\ current_connection' \in Connection
        /\ current_connection'.state = "SYN_SENT"
        /\ current_connection'.seq_num = AfterSend(c, {"SYN"}, <<>>, TRUE).seq_num
    BY <1>2, <1>6, <2>4 DEF Connection, TcpState
  <2>6. current_connection' # NoConnection
    BY <2>5, StackAssumption
  <2>7. Ordered(tx')
    BY <2>1, <2>3 DEF Ordered
  <2>8. Contiguous(tx') /\ EndsAt(tx', current_connection'.seq_num)
    <3>1. <<>> \in Seq(Segment) /\ Contiguous(<<>>)
      BY DEF Contiguous
    <3> QED
      BY <1>1, <2>2, <2>5, <3>1, ContiguousAppend, SentFlags
  <2>9. Lifecycle'
    BY <1>3, <2>1, <2>3, <2>5, <2>6 DEF Lifecycle, Synchronized, Sent
  <2> QED
    BY <2>7, <2>8, <2>9 DEF WireInvariant, WireOrder, WireContiguous
<1> QED
  BY <1>4, <1>5, <1>6

(* A retransmitted SYN follows SYNs only.                                 *)
LEMMA RetransmitWire ==
  ASSUME TypeOK, WireInvariant, RetransmitSyn
  PROVE  WireInvariant'
<1> DEFINE c == current_connection
<1>1. PICK ok \in InjectResults :
        /\ current_connection' = AfterSend(c, {"SYN"}, <<>>, ok)
        /\ tx' = WireAfter(tx, c, {"SYN"}, <<>>, ok)
  BY DEF RetransmitSyn
<1>2. c # NoConnection /\ c.state = "SYN_SENT" /\ UNCHANGED <<rx, events>>
  BY DEF RetransmitSyn, InState
<1>3. ok \in BOOLEAN
  BY StackAssumption
<1>4. /\ \A i \in 1 .. Len(tx) : is("SYN", tx[i]) /\ ~is("FIN", tx[i])
      /\ rx = <<>> /\ events = <<>>
  BY <1>2 DEF WireInvariant, Lifecycle, Sent
<1>5. Fits(c, tx) /\ tx \in Seq(Segment) /\ tx # <<>>
  BY <1>2, ConnectionFits DEF Fits
<1>6. MayFollow(tx, SegmentOf(c, {"SYN"}, <<>>))
  BY <1>4, <1>5 DEF MayFollow, SegmentOf, is
<1> HIDE DEF c
<1>7. /\ Fits(current_connection', tx')
      /\ current_connection'.state = "SYN_SENT"
      /\ Extends(tx', tx, {"SYN"}, ok)
  <2>1. /\ Fits(AfterSend(c, {"SYN"}, <<>>, ok), WireAfter(tx, c, {"SYN"}, <<>>, ok))
        /\ AfterSend(c, {"SYN"}, <<>>, ok).state = c.state
        /\ Extends(WireAfter(tx, c, {"SYN"}, <<>>, ok), tx, {"SYN"}, ok)
    BY <1>3, <1>5, <1>6, SendStep, SentFlags
  <2> QED
    BY <1>1, <1>2, <2>1
<1>8. \A i \in 1 .. Len(tx') : is("SYN", tx'[i]) /\ ~is("FIN", tx'[i])
  <2> SUFFICES ASSUME NEW i \in 1 .. Len(tx')
               PROVE  is("SYN", tx'[i]) /\ ~is("FIN", tx'[i])
    OBVIOUS
  <2>1. CASE ok /\ i = Len(tx')
    BY <2>1, <1>7 DEF Extends, is
  <2>2. CASE ~ok \/ i # Len(tx')
    BY <2>2, <1>4, <1>5, <1>7 DEF Extends
  <2> QED
    BY <2>1, <2>2
<1>9. current_connection' # NoConnection
  BY <1>7, StackAssumption DEF Fits
<1>10. Lifecycle'
  BY <1>2, <1>4, <1>7, <1>8, <1>9 DEF Lifecycle, Synchronized, Sent, Fits
<1> QED
  BY <1>7, <1>10 DEF WireInvariant, WireOrder, WireContiguous, Fits

(* What one more segment changes and what it keeps.                        *)
HasFin(wire) == \E i \in 1 .. Len(wire) : is("FIN", wire[i])

LastIsSyn(wire) == is("SYN", wire[Len(wire)])

(* A FIN that was sent stays sent.                                        *)
LEMMA KeepsFin ==
  ASSUME NEW w, NEW wire, NEW flags, NEW ok \in BOOLEAN,
         wire \in Seq(Segment), Extends(w, wire, flags, ok), HasFin(wire)
  PROVE  HasFin(w)
  BY DEF Extends, HasFin

(* A segment without FIN adds none.                                       *)
LEMMA KeepsNoFin ==
  ASSUME NEW w, NEW wire, NEW flags, NEW ok \in BOOLEAN,
         wire \in Seq(Segment), Extends(w, wire, flags, ok), ~HasFin(wire),
         "FIN" \notin flags
  PROVE  ~HasFin(w)
<1> SUFFICES ASSUME NEW i \in 1 .. Len(w), is("FIN", w[i])
             PROVE  FALSE
  BY DEF HasFin
<1>1. CASE ok /\ i = Len(w)
  BY <1>1 DEF Extends, is
<1>2. CASE ~ok \/ i # Len(w)
  BY <1>2 DEF Extends, HasFin
<1> QED
  BY <1>1, <1>2

(* A FIN that is sent is there.                                           *)
LEMMA AddsFin ==
  ASSUME NEW w, NEW wire, NEW flags,
         wire \in Seq(Segment), Extends(w, wire, flags, TRUE), "FIN" \in flags
  PROVE  HasFin(w)
<1>1. Len(w) \in 1 .. Len(w) /\ is("FIN", w[Len(w)])
  BY DEF Extends, is
<1> QED
  BY <1>1 DEF HasFin

(* With no SYN at the end, sending anything but a SYN leaves none there.    *)
LEMMA KeepsLast ==
  ASSUME NEW w, NEW wire, NEW flags, NEW ok \in BOOLEAN,
         Extends(w, wire, flags, ok), ~LastIsSyn(wire), "SYN" \notin flags
  PROVE  ~LastIsSyn(w)
  BY DEF Extends, LastIsSyn, is

(* A segment without SYN that is sent is the last one.                     *)
LEMMA AddsLast ==
  ASSUME NEW w, NEW wire, NEW flags,
         Extends(w, wire, flags, TRUE), "SYN" \notin flags
  PROVE  ~LastIsSyn(w)
  BY DEF Extends, LastIsSyn, is

(* Sent, as a statement about the wire alone ...                          *)
LEMMA SentFin == Sent("FIN") <=> HasFin(tx)
  BY DEF Sent, HasFin

(* ... before and after a step.                                           *)
LEMMA SentFinNext == Sent("FIN")' <=> HasFin(tx')
  BY DEF Sent, HasFin

(* What the invariant says of an established connection.                   *)
LEMMA Established ==
  ASSUME TypeOK, WireInvariant, current_connection # NoConnection,
         current_connection.state = "ESTABLISHED"
  PROVE  /\ Fits(current_connection, tx)
         /\ ~HasFin(tx) /\ ~LastIsSyn(tx)
         /\ Len(events) = Len(rx) + 1
         /\ \A i \in 1 .. Len(events) : events[i] # "closed"
  BY ConnectionFits, SentFin DEF WireInvariant, Lifecycle, Synchronized, LastIsSyn

(* Any segment but a SYN may be the next one of an established connection.  *)
LEMMA EstablishedMaySend ==
  ASSUME TypeOK, WireInvariant, current_connection # NoConnection,
         current_connection.state = "ESTABLISHED",
         NEW seg, ~is("SYN", seg)
  PROVE  MayFollow(tx, seg)
  BY Established DEF MayFollow, HasFin, LastIsSyn, Fits

(* send_data.                                                             *)
LEMMA SendDataWire ==
  ASSUME TypeOK, WireInvariant, NEW data \in Seq(Byte), SendData(data)
  PROVE  WireInvariant'
<1> DEFINE c == current_connection
<1>1. CASE InState({"ESTABLISHED"})
  <2>1. PICK ok \in InjectResults :
          /\ current_connection' = AfterSend(c, {"PSH", "ACK"}, data, ok)
          /\ tx' = WireAfter(tx, c, {"PSH", "ACK"}, data, ok)
    BY <1>1 DEF SendData
  <2>2. /\ c # NoConnection /\ c.state = "ESTABLISHED"
        /\ UNCHANGED <<rx, events>>
    BY <1>1 DEF SendData, InState
  <2>3. /\ ok \in BOOLEAN /\ data \in Seq(Byte)
        /\ tx \in Seq(Segment) /\ tx # <<>> /\ Fits(c, tx)
    BY <2>2, StackAssumption, Established DEF Fits
  <2>4. MayFollow(tx, SegmentOf(c, {"PSH", "ACK"}, data))
    BY <2>2, EstablishedMaySend DEF SegmentOf, is
  <2> HIDE DEF c
  <2>5. /\ Fits(current_connection', tx')
        /\ current_connection'.state = "ESTABLISHED"
        /\ Extends(tx', tx, {"PSH", "ACK"}, ok)
    BY <2>1, <2>2, <2>3, <2>4, SendStep, SentFlags
  <2>6. ~HasFin(tx') /\ ~LastIsSyn(tx')
    BY <2>2, <2>3, <2>5, Established, KeepsNoFin, KeepsLast DEF c
  <2>7. current_connection' # NoConnection
    BY <2>5, StackAssumption DEF Fits
  <2>8. Lifecycle'
    BY <2>2, <2>5, <2>6, <2>7, Established, SentFinNext
       DEF Lifecycle, Synchronized, Fits, LastIsSyn, c
  <2> QED
    BY <2>5, <2>8 DEF WireInvariant, WireOrder, WireContiguous, Fits
<1>2. CASE ~InState({"ESTABLISHED"})
  BY <1>2, UnchangedWire DEF SendData, connVars
<1> QED
  BY <1>1, <1>2

(* close_connection, in each of its three cases.                          *)
LEMMA CloseWire ==
  ASSUME TypeOK, WireInvariant, CloseConnection
  PROVE  WireInvariant'
<1> DEFINE c == current_connection
<1>0. UNCHANGED <<rx, events>>
  BY DEF CloseConnection
<1>1. CASE UNCHANGED <<current_connection, tx>>
  BY <1>0, <1>1, UnchangedWire DEF connVars
<1>2. ASSUME InState({"ESTABLISHED"}),
             NEW ok \in InjectResults,
             current_connection' =
               [AfterSend(c, {"FIN", "ACK"}, <<>>, ok)
                  EXCEPT !.state = IF ok THEN "FIN_WAIT_1" ELSE @],
             tx' = WireAfter(tx, c, {"FIN", "ACK"}, <<>>, ok)
      PROVE  WireInvariant'
  <2> DEFINE d == AfterSend(c, {"FIN", "ACK"}, <<>>, ok)
  <2>1. c # NoConnection /\ c.state = "ESTABLISHED"
    BY <1>2 DEF InState
  <2>2. ok \in BOOLEAN /\ tx \in Seq(Segment) /\ tx # <<>> /\ Fits(c, tx)
    BY <2>1, StackAssumption, Established DEF Fits
  <2>3. MayFollow(tx, SegmentOf(c, {"FIN", "ACK"}, <<>>))
    BY <2>1, EstablishedMaySend DEF SegmentOf, is
  <2> HIDE DEF c
  <2>4. /\ Fits(d, tx') /\ d.state = "ESTABLISHED"
        /\ Extends(tx', tx, {"FIN", "ACK"}, ok)
    <3> DEFINE flags == {"FIN", "ACK"}
               data == <<>>
    <3>1. flags \in SUBSET Flag /\ data \in Seq(Byte)
      BY SentFlags
    <3>2. c.state = "ESTABLISHED"
      BY <2>1 DEF c
    <3> HIDE DEF flags, data, d
    <3>3. d = AfterSend(c, flags, data, ok) /\ tx' = WireAfter(tx, c, flags, data, ok)
      BY <1>2, Zenon DEF c, d, flags, data
    <3>4. MayFollow(tx, SegmentOf(c, flags, data))
      BY <2>3, Zenon DEF c, flags, data
    <3>5. /\ Fits(d, tx') /\ d.state = c.state
          /\ Extends(tx', tx, flags, ok)
      BY <2>2, <3>1, <3>3, <3>4, SendStep
    <3> QED
      BY <3>2, <3>5 DEF flags
  <2> HIDE DEF d
  <2>5. current_connection' = [d EXCEPT !.state = IF ok THEN "FIN_WAIT_1" ELSE @]
    BY <1>2 DEF d
  <2>6. /\ current_connection' \in Connection
        /\ current_connection'.seq_num = d.seq_num
        /\ current_connection'.state = IF ok THEN "FIN_WAIT_1" ELSE "ESTABLISHED"
    BY <2>4, <2>5 DEF Fits, Connection, TcpState
  <2>7. ~LastIsSyn(tx')
    BY <2>1, <2>2, <2>4, Established, KeepsLast DEF c
  <2>8. ok => HasFin(tx')
    <3>1. CASE ok
      <4>1. Extends(tx', tx, {"FIN", "ACK"}, TRUE)
        BY <2>4, <3>1 DEF Extends
      <4> QED
        BY <2>2, <4>1, AddsFin
    <3> QED
      BY <3>1
  <2>9. ~ok => ~HasFin(tx')
    BY <2>1, <2>4, Established DEF Extends, c
  <2>10. current_connection' # NoConnection
    BY <2>6, StackAssumption
  <2>11. Lifecycle'
    BY <1>0, <2>1, <2>4, <2>6, <2>7, <2>8, <2>9, <2>10, Established, SentFinNext
       DEF Lifecycle, Synchronized, Fits, LastIsSyn, c
  <2> QED
    BY <2>4, <2>6, <2>11 DEF WireInvariant, WireOrder, WireContiguous, Fits
<1>3. ASSUME InState(TcpState \ {"CLOSED", "ESTABLISHED"}),
             current_connection' = [c EXCEPT !.state = "CLOSED"],
             UNCHANGED tx
      PROVE  WireInvariant'
  <2>1. c # NoConnection /\ Fits(c, tx)
    BY <1>3, ConnectionFits DEF InState
  <2>2. /\ current_connection' \in Connection
        /\ current_connection'.seq_num = c.seq_num
        /\ current_connection'.state = "CLOSED"
    BY <1>3, <2>1 DEF Fits, Connection, TcpState
  <2>3. current_connection' # NoConnection
    BY <2>2, StackAssumption
  <2>4. Lifecycle'
    BY <1>3, <2>1, <2>2, <2>3 DEF Lifecycle, Synchronized, Fits
  <2> QED
    BY <1>3, <2>1, <2>2, <2>4 DEF WireInvariant, WireOrder, WireContiguous, Fits
<1> QED
  BY <1>1, <1>2, <1>3 DEF CloseConnection

-----------------------------------------------------------------------------
(* The capture thread.                                                     *)

(* Before a segment is sent the connection's acknowledgement number, and in *)
(* the handshake its remote port, change: it still fits.                   *)
LEMMA AckFits ==
  ASSUME NEW c, NEW wire, Fits(c, wire), NEW n \in SeqNum
  PROVE  /\ Fits([c EXCEPT !.ack_num = n], wire)
         /\ [c EXCEPT !.ack_num = n].state = c.state
  BY DEF Fits, Connection

(* An ACK sent on a connection that fits.                                  *)
LEMMA AckStep ==
  ASSUME NEW c, NEW wire, Fits(c, wire), NEW n \in SeqNum, NEW ok \in BOOLEAN
  PROVE  LET acked == [c EXCEPT !.ack_num = n]
             d == AfterSend(acked, {"ACK"}, <<>>, ok)
             w == WireAfter(wire, acked, {"ACK"}, <<>>, ok)
         IN Fits(d, w) /\ d.state = c.state /\ Extends(w, wire, {"ACK"}, ok)
<1> DEFINE acked == [c EXCEPT !.ack_num = n]
<1>1. Fits(acked, wire) /\ acked.state = c.state
  BY AckFits
<1> HIDE DEF acked
<1>2. MayFollow(wire, SegmentOf(acked, {"ACK"}, <<>>))
  BY <1>1, AckMayFollow DEF Fits
<1>3. /\ Fits(AfterSend(acked, {"ACK"}, <<>>, ok),
              WireAfter(wire, acked, {"ACK"}, <<>>, ok))
      /\ AfterSend(acked, {"ACK"}, <<>>, ok).state = acked.state
      /\ Extends(WireAfter(wire, acked, {"ACK"}, <<>>, ok), wire, {"ACK"}, ok)
  BY <1>1, <1>2, SendStep, SentFlags
<1> QED
  BY <1>1, <1>3 DEF acked

(* SYN+ACK in SYN_SENT.                                                   *)
LEMMA SynAckWire ==
  ASSUME TypeOK, WireInvariant, NEW seg \in Segment, SynAckReceived(seg)
  PROVE  WireInvariant'
<1> DEFINE named == [current_connection EXCEPT !.remote_port = seg.sport]
           c == [named EXCEPT !.ack_num = Plus(seg.seq, 1)]
<1>1. /\ current_connection # NoConnection
      /\ current_connection.state = "SYN_SENT"
      /\ UNCHANGED rx
  BY DEF SynAckReceived, IsSynAck, Matches, InState
<1>2. /\ Fits(current_connection, tx)
      /\ rx = <<>> /\ events = <<>> /\ ~HasFin(tx)
      /\ \A i \in 1 .. Len(tx) : is("SYN", tx[i])
  BY <1>1, ConnectionFits, SentFin DEF WireInvariant, Lifecycle
<1>3. /\ Fits(named, tx) /\ named.state = "SYN_SENT"
      /\ c = [current_connection EXCEPT !.remote_port = seg.sport,
                                        !.ack_num = Plus(seg.seq, 1)]
  BY <1>1, <1>2, SegmentFields DEF Fits, Connection
<1>4. PICK ok \in InjectResults :
        /\ current_connection' =
             [AfterSend(c, {"ACK"}, <<>>, ok)
                EXCEPT !.state = IF ok THEN "ESTABLISHED" ELSE @]
        /\ tx' = WireAfter(tx, c, {"ACK"}, <<>>, ok)
        /\ events' = IF ok THEN Append(events, "connected") ELSE events
  BY <1>3, Zenon DEF SynAckReceived
<1> DEFINE d == AfterSend(c, {"ACK"}, <<>>, ok)
<1>5. ok \in BOOLEAN /\ Plus(seg.seq, 1) \in SeqNum
  BY StackAssumption, SegmentFields
<1> HIDE DEF named
<1>6. Fits(d, tx') /\ d.state = "SYN_SENT" /\ Extends(tx', tx, {"ACK"}, ok)
  <2>1. /\ Fits(d, WireAfter(tx, c, {"ACK"}, <<>>, ok))
        /\ d.state = named.state
        /\ Extends(WireAfter(tx, c, {"ACK"}, <<>>, ok), tx, {"ACK"}, ok)
    BY <1>3, <1>5, AckStep
  <2> HIDE DEF d, c
  <2> QED
    BY <1>3, <1>4, <2>1
<1> HIDE DEF d, c
<1>7. current_connection' = [d EXCEPT !.state = IF ok THEN "ESTABLISHED" ELSE @]
  BY <1>4 DEF d
<1>8. /\ current_connection' \in Connection
      /\ current_connection'.seq_num = d.seq_num
      /\ current_connection'.state = IF ok THEN "ESTABLISHED" ELSE "SYN_SENT"
  BY <1>6, <1>7 DEF Fits, Connection, TcpState
<1>9. current_connection' # NoConnection
  BY <1>8, StackAssumption
<1>10. ~HasFin(tx')
  BY <1>2, <1>5, <1>6, KeepsNoFin DEF Fits
<1>11. CASE ok
  <2>1. Extends(tx', tx, {"ACK"}, TRUE)
    BY <1>6, <1>11 DEF Extends
  <2>2. ~LastIsSyn(tx')
    BY <2>1, AddsLast
  <2>3. events' = <<"connected">>
    BY <1>2, <1>4, <1>11
  <2>4. Lifecycle'
    BY <1>1, <1>2, <1>6, <1>8, <1>9, <1>10, <1>11, <2>2, <2>3, SentFinNext
       DEF Lifecycle, Synchronized, Fits, LastIsSyn
  <2> QED
    BY <1>6, <1>8, <2>4 DEF WireInvariant, WireOrder, WireContiguous, Fits
<1>12. CASE ~ok
  <2>1. tx' = tx /\ events' = events
    BY <1>4, <1>6, <1>12 DEF Extends
  <2>2. Lifecycle'
    BY <1>1, <1>2, <1>6, <1>8, <1>9, <1>10, <1>12, <2>1, SentFinNext
       DEF Lifecycle, Synchronized, Fits
  <2> QED
    BY <1>6, <1>8, <2>2 DEF WireInvariant, WireOrder, WireContiguous, Fits
<1> QED
  BY <1>11, <1>12

(* Data in ESTABLISHED.                                                   *)
LEMMA DataWire ==
  ASSUME TypeOK, WireInvariant, NEW seg \in Segment, DataReceived(seg)
  PROVE  WireInvariant'
<1> DEFINE c == [current_connection EXCEPT !.ack_num = DataAck(seg)]
<1>1. /\ current_connection # NoConnection
      /\ current_connection.state = "ESTABLISHED"
  BY DEF DataReceived, IsData, Matches, InState
<1>2. /\ Fits(current_connection, tx)
      /\ ~HasFin(tx) /\ ~LastIsSyn(tx)
      /\ Len(events) = Len(rx) + 1
      /\ \A i \in 1 .. Len(events) : events[i] # "closed"
  BY <1>1, Established
<1>3. PICK ok \in InjectResults :
        /\ current_connection' = AfterSend(c, {"ACK"}, <<>>, ok)
        /\ tx' = WireAfter(tx, c, {"ACK"}, <<>>, ok)
  BY DEF DataReceived
<1>4. ok \in BOOLEAN /\ DataAck(seg) \in SeqNum /\ tx \in Seq(Segment)
  BY <1>2, StackAssumption, SegmentFields DEF Fits
<1>5. /\ Fits(AfterSend(c, {"ACK"}, <<>>, ok), WireAfter(tx, c, {"ACK"}, <<>>, ok))
      /\ AfterSend(c, {"ACK"}, <<>>, ok).state = current_connection.state
      /\ Extends(WireAfter(tx, c, {"ACK"}, <<>>, ok), tx, {"ACK"}, ok)
  BY <1>2, <1>4, AckStep
<1> HIDE DEF c
<1>6. /\ Fits(current_connection', tx')
      /\ current_connection'.state = "ESTABLISHED"
      /\ Extends(tx', tx, {"ACK"}, ok)
  BY <1>1, <1>3, <1>5
<1>7. ~HasFin(tx') /\ ~LastIsSyn(tx')
  BY <1>2, <1>4, <1>6, KeepsNoFin, KeepsLast
<1>8. current_connection' # NoConnection
  BY <1>6, StackAssumption DEF Fits
<1>9. /\ Len(events') = Len(rx') + 1
      /\ \A i \in 1 .. Len(events') : events'[i] # "closed"
  BY <1>2 DEF DataReceived, TypeOK
<1>10. Lifecycle'
  BY <1>6, <1>7, <1>8, <1>9, SentFinNext
     DEF Lifecycle, Synchronized, Fits, LastIsSyn
<1> QED
  BY <1>6, <1>10 DEF WireInvariant, WireOrder, WireContiguous, Fits

(* The FIN of the peer: an ACK and a FIN, either of which may fail.       *)
LEMMA PeerFinWire ==
  ASSUME TypeOK, WireInvariant, NEW seg \in Segment, PeerFinReceived(seg)
  PROVE  WireInvariant'
<1> DEFINE c1 == [current_connection EXCEPT !.ack_num = Plus(seg.seq, 1)]
           c2(ok) == AfterSend(c1, {"ACK"}, <<>>, ok)
           w2(ok) == WireAfter(tx, c1, {"ACK"}, <<>>, ok)
<1>1. /\ current_connection # NoConnection
      /\ current_connection.state = "ESTABLISHED"
      /\ UNCHANGED <<rx, events>>
  BY DEF PeerFinReceived, IsPeerFin, Matches, InState
<1>2. /\ Fits(current_connection, tx) /\ tx \in Seq(Segment)
      /\ ~HasFin(tx) /\ ~LastIsSyn(tx)
      /\ Len(events) = Len(rx) + 1
      /\ \A i \in 1 .. Len(events) : events[i] # "closed"
  BY <1>1, Established DEF Fits
<1>3. PICK ack_ok \in InjectResults, fin_ok \in InjectResults :
        /\ current_connection' =
             [AfterSend(c2(ack_ok), {"FIN", "ACK"}, <<>>, fin_ok)
                EXCEPT !.state = "LAST_ACK"]
        /\ tx' = WireAfter(w2(ack_ok), c2(ack_ok), {"FIN", "ACK"}, <<>>, fin_ok)
  BY DEF PeerFinReceived
<1>4. /\ ack_ok \in BOOLEAN /\ fin_ok \in BOOLEAN
      /\ Plus(seg.seq, 1) \in SeqNum
  BY StackAssumption, SegmentFields
<1>5. /\ Fits(c2(ack_ok), w2(ack_ok))
      /\ Extends(w2(ack_ok), tx, {"ACK"}, ack_ok)
  BY <1>2, <1>4, AckStep
<1> HIDE DEF c2, w2, c1
<1>6. ~HasFin(w2(ack_ok)) /\ ~LastIsSyn(w2(ack_ok))
  BY <1>2, <1>4, <1>5, KeepsNoFin, KeepsLast
<1>7. MayFollow(w2(ack_ok), SegmentOf(c2(ack_ok), {"FIN", "ACK"}, <<>>))
  BY <1>5, <1>6 DEF MayFollow, SegmentOf, is, HasFin, LastIsSyn, Fits
<1> DEFINE d == AfterSend(c2(ack_ok), {"FIN", "ACK"}, <<>>, fin_ok)
<1>8. Fits(d, tx') /\ Extends(tx', w2(ack_ok), {"FIN", "ACK"}, fin_ok)
  BY <1>3, <1>4, <1>5, <1>7, SendStep, SentFlags
<1> HIDE DEF d
<1>9. current_connection' = [d EXCEPT !.state = "LAST_ACK"]
  BY <1>3 DEF d
<1>10. /\ current_connection' \in Connection
       /\ current_connection'.seq_num = d.seq_num
       /\ current_connection'.state = "LAST_ACK"
  BY <1>8, <1>9 DEF Fits, Connection, TcpState
<1>11. ~LastIsSyn(tx')
  BY <1>4, <1>6, <1>8, KeepsLast
<1>12. current_connection' # NoConnection
  BY <1>10, StackAssumption
<1>13. Lifecycle'
  BY <1>1, <1>2, <1>8, <1>10, <1>11, <1>12
     DEF Lifecycle, Synchronized, Fits, LastIsSyn
<1> QED
  BY <1>8, <1>10, <1>13 DEF WireInvariant, WireOrder, WireContiguous, Fits

(* An ACK in FIN_WAIT_1.                                                  *)
LEMMA FinAcknowledgedWire ==
  ASSUME TypeOK, WireInvariant, NEW seg \in Segment, FinAcknowledged(seg)
  PROVE  WireInvariant'
<1>1. /\ current_connection # NoConnection
      /\ current_connection.state = "FIN_WAIT_1"
      /\ current_connection' = [current_connection EXCEPT !.state = "FIN_WAIT_2"]
      /\ UNCHANGED <<tx, rx, events>>
  BY DEF FinAcknowledged, IsFinAcknowledged, Matches, InState
<1>2. Fits(current_connection, tx)
  BY <1>1, ConnectionFits
<1>3. /\ current_connection' \in Connection
      /\ current_connection'.seq_num = current_connection.seq_num
      /\ current_connection'.state = "FIN_WAIT_2"
  BY <1>1, <1>2 DEF Fits, Connection, TcpState
<1>4. current_connection' # NoConnection
  BY <1>3, StackAssumption
<1>5. Lifecycle'
  BY <1>1, <1>3, <1>4 DEF WireInvariant, Lifecycle, Synchronized, Sent
<1> QED
  BY <1>1, <1>2, <1>3, <1>5 DEF WireInvariant, WireOrder, WireContiguous, Fits

(* A FIN in FIN_WAIT_1 or FIN_WAIT_2.                                     *)
LEMMA FinWhileClosingWire ==
  ASSUME TypeOK, WireInvariant, NEW seg \in Segment, FinWhileClosingReceived(seg)
  PROVE  WireInvariant'
<1> DEFINE c == [current_connection EXCEPT !.ack_num = Plus(seg.seq, 1)]
           d(ok) == AfterSend(c, {"ACK"}, <<>>, ok)
<1>1. current_connection # NoConnection
  BY DEF FinWhileClosingReceived, IsFinWhileClosing, Matches, InState
<1>2. Fits(current_connection, tx)
  BY <1>1, ConnectionFits
<1>3. PICK ok \in InjectResults :
        /\ current_connection' = [d(ok) EXCEPT !.state = "CLOSED"]
        /\ tx' = WireAfter(tx, c, {"ACK"}, <<>>, ok)
  BY DEF FinWhileClosingReceived
<1>4. ok \in BOOLEAN /\ Plus(seg.seq, 1) \in SeqNum
  BY StackAssumption, SegmentFields
<1>5. Fits(d(ok), WireAfter(tx, c, {"ACK"}, <<>>, ok))
  BY <1>2, <1>4, AckStep
<1> HIDE DEF c, d
<1>6. Fits(d(ok), tx')
  BY <1>3, <1>5
<1>7. /\ current_connection' \in Connection
      /\ current_connection'.seq_num = d(ok).seq_num
      /\ current_connection'.state = "CLOSED"
  BY <1>3, <1>6 DEF Fits, Connection, TcpState
<1>8. current_connection' # NoConnection
  BY <1>7, StackAssumption
<1>9. Lifecycle'
  BY <1>6, <1>7, <1>8 DEF Lifecycle, Synchronized, Fits
<1> QED
  BY <1>6, <1>7, <1>9 DEF WireInvariant, WireOrder, WireContiguous, Fits

(* An ACK in LAST_ACK.                                                    *)
LEMMA LastAckWire ==
  ASSUME TypeOK, WireInvariant, NEW seg \in Segment, LastAckReceived(seg)
  PROVE  WireInvariant'
<1>1. /\ current_connection # NoConnection
      /\ current_connection' = [current_connection EXCEPT !.state = "CLOSED"]
      /\ UNCHANGED tx
  BY DEF LastAckReceived, IsLastAck, Matches, InState
<1>2. Fits(current_connection, tx)
  BY <1>1, ConnectionFits
<1>3. /\ current_connection' \in Connection
      /\ current_connection'.seq_num = current_connection.seq_num
      /\ current_connection'.state = "CLOSED"
  BY <1>1, <1>2 DEF Fits, Connection, TcpState
<1>4. current_connection' # NoConnection
  BY <1>3, StackAssumption
<1>5. Lifecycle'
  BY <1>1, <1>2, <1>3, <1>4 DEF Lifecycle, Synchronized, Fits
<1> QED
  BY <1>1, <1>2, <1>3, <1>5 DEF WireInvariant, WireOrder, WireContiguous, Fits

(* process_packet, all branches.                                          *)
LEMMA ProcessPacketWire ==
  ASSUME TypeOK, WireInvariant, NEW seg \in Segment, process_packet(seg)
  PROVE  WireInvariant'
<1>1. CASE PacketIgnored(seg)
  BY <1>1, UnchangedWire DEF PacketIgnored
<1> QED
  BY <1>1, SynAckWire, DataWire, PeerFinWire, FinAcknowledgedWire,
     FinWhileClosingWire, LastAckWire DEF process_packet

-----------------------------------------------------------------------------
(* The two waits, every step of their loops.                              *)
LEMMA WaitingWire ==
  ASSUME TypeOK, WireInvariant, Waiting
  PROVE  WireInvariant'
<1>1. CASE RetransmitSyn
  BY <1>1, RetransmitWire
<1>2. CASE ~RetransmitSyn
  <2>1. UNCHANGED connVars
    BY <1>2 DEF Waiting, connVars, WaitForConnection, ConnectionEstablished,
                ConnectionPending, KeepWaitingForConnection, ConnectionTimeout,
                WaitForData, TakeData, NoDataYet, KeepWaitingForData, DataTimeout
  <2> QED
    BY <2>1, UnchangedWire
<1> QED
  BY <1>1, <1>2

(* The invariant is inductive, given the types.                           *)
LEMMA StepWire == TypeOK /\ WireInvariant /\ [AnyStep]_vars => WireInvariant'
<1>1. CASE ConnectFilterFails \/ UNCHANGED vars
  BY <1>1, UnchangedWire DEF ConnectFilterFails, vars, connVars
<1> QED
  BY <1>1, ConnectWire, SendDataWire, CloseWire, WaitingWire,
     ProcessPacketWire DEF AnyStep, LaterStep

(* The state of the connection never disagrees with what was sent, accepted  *)
(* and reported, whichever thread did it, whichever injection failed.       *)
THEOREM LifecycleHolds == Spec => []Lifecycle
<1>1. WireInvariant => Lifecycle
  BY DEF WireInvariant
<1> QED
  BY <1>1, TypeCorrect, InitWire, NextIsAny, StepWire, PTL DEF Spec

(* The segments the two threads inject form one TCP conversation: SYNs, the  *)
(* ACK of the handshake, data, at most one FIN, and nothing but ACKs after.  *)
THEOREM WireOrderHolds == Spec => []WireOrder
<1>1. WireInvariant => WireOrder
  BY DEF WireInvariant
<1> QED
  BY <1>1, TypeCorrect, InitWire, NextIsAny, StepWire, PTL DEF Spec

(* Their sequence numbers are contiguous, modulo 2^32.                     *)
THEOREM WireContiguousHolds == Spec => []WireContiguous
<1>1. WireInvariant => WireContiguous
  BY DEF WireInvariant
<1> QED
  BY <1>1, TypeCorrect, InitWire, NextIsAny, StepWire, PTL DEF Spec

-----------------------------------------------------------------------------
(* The kinds of steps.                                                     *)

(* The connection stays, between the same ends, and goes from state s to t.  *)
(* Only the SYN+ACK, before any data, may change the port of the other end. *)
Goes(s, t) ==
  /\ current_connection # NoConnection /\ current_connection' # NoConnection
  /\ current_connection.state = s /\ current_connection'.state = t
  /\ current_connection'.local_port = current_connection.local_port
  /\ current_connection'.remote_ip = current_connection.remote_ip
  /\ \/ current_connection'.remote_port = current_connection.remote_port
     \/ s = "SYN_SENT" /\ rx = <<>>

Silent == UNCHANGED <<data_queue, rx, events>>

Reported(event) == events' = Append(events, event)

Unaffected == UNCHANGED connVars /\ UNCHANGED data_queue

Removed ==
  /\ data_queue # <<>> /\ data_queue' = Tail(data_queue)
  /\ UNCHANGED connVars

Renewed ==
  /\ rx' = <<>> /\ events' = <<>>
  /\ UNCHANGED data_queue
  /\ \/ current_connection' = NoConnection
     \/ current_connection' # NoConnection /\ current_connection'.state = "SYN_SENT"

Sending == Silent /\ \E s \in {"SYN_SENT", "ESTABLISHED"} : Goes(s, s)

Confirmed ==
  /\ Goes("SYN_SENT", "ESTABLISHED") /\ Reported("connected")
  /\ UNCHANGED <<data_queue, rx>>

Queued(seg) ==
  /\ Goes("ESTABLISHED", "ESTABLISHED") /\ Reported("data")
  /\ IsData(seg)
  /\ data_queue' = Append(data_queue, seg.payload)
  /\ rx' = Append(rx, seg)

Closing ==
  /\ Silent
  /\ \/ Goes("ESTABLISHED", "FIN_WAIT_1")
     \/ Goes("ESTABLISHED", "LAST_ACK")
     \/ Goes("FIN_WAIT_1", "FIN_WAIT_2")

AtEnd == {"FIN_WAIT_1", "FIN_WAIT_2", "LAST_ACK"}

Completed ==
  /\ \E s \in AtEnd : Goes(s, "CLOSED")
  /\ Reported("closed")
  /\ UNCHANGED <<data_queue, rx>>

GivenUp == Silent /\ \E s \in AtEnd \union {"SYN_SENT"} : Goes(s, "CLOSED")

(* What a step does to a connection that is there.                         *)
Continued(S) ==
  \/ Unaffected \/ Removed \/ Sending \/ Confirmed \/ Closing \/ Completed
  \/ GivenUp \/ \E seg \in S : Queued(seg)

-----------------------------------------------------------------------------
(* The operations.                                                         *)


SameEnds(c, d) ==
  /\ d.local_port = c.local_port
  /\ d.remote_ip = c.remote_ip
  /\ d.remote_port = c.remote_port

(* send_tcp_packet changes nothing but seq_num.                            *)
LEMMA SendKeepsEnds ==
  ASSUME NEW c \in Connection, NEW flags, NEW data, NEW ok
  PROVE  /\ SameEnds(c, AfterSend(c, flags, data, ok))
         /\ AfterSend(c, flags, data, ok).state = c.state
  BY DEF AfterSend, Connection, SameEnds

(* Nor does an acknowledgement number or a change of state move the ends.  *)
LEMMA MarkKeepsEnds ==
  ASSUME NEW c \in Connection, NEW n \in SeqNum, NEW s \in TcpState
  PROVE  /\ SameEnds(c, [c EXCEPT !.ack_num = n])
         /\ [c EXCEPT !.ack_num = n].state = c.state
         /\ SameEnds(c, [c EXCEPT !.state = s])
         /\ [c EXCEPT !.state = s].state = s
  BY DEF Connection, SameEnds

(* From the connection to its successor.                                   *)
LEMMA GoesByEnds ==
  ASSUME NEW s, NEW t, InState({s}), current_connection' \in Connection,
         SameEnds(current_connection, current_connection'),
         current_connection'.state = t
  PROVE  Goes(s, t)
  BY StackAssumption DEF Goes, InState, SameEnds

(* connect replaces the connection and empties the history.                *)
LEMMA ConnectKind ==
  ASSUME NEW target \in Host \X Port, NEW local_port \in Port,
         NEW iss \in SeqNum, Connect(target, local_port, iss)
  PROVE  Renewed
<1> DEFINE c == [local_port |-> local_port,  remote_ip |-> target[1],
                 remote_port |-> target[2],  seq_num |-> iss,  ack_num |-> 0,
                 state |-> "CLOSED"]
<1>1. PICK ok \in InjectResults :
        current_connection' =
          IF ok
          THEN [AfterSend(c, {"SYN"}, <<>>, ok) EXCEPT !.state = "SYN_SENT"]
          ELSE NoConnection
  BY DEF Connect
<1>2. c \in Connection
  BY StackAssumption, SeqModAssumption DEF Connection, TcpState, SeqNum
<1>3. ok \in BOOLEAN
  BY StackAssumption
<1> HIDE DEF c
<1>4. CASE ok
  <2>1. AfterSend(c, {"SYN"}, <<>>, ok) \in Connection
    BY <1>2, <1>3, AfterSendType, SentFlags
  <2>2. current_connection' \in Connection /\ current_connection'.state = "SYN_SENT"
    BY <1>1, <1>4, <2>1 DEF Connection, TcpState
  <2> QED
    BY <2>2, StackAssumption DEF Renewed, Connect
<1>5. CASE ~ok
  BY <1>1, <1>5 DEF Renewed, Connect
<1> QED
  BY <1>3, <1>4, <1>5

(* A segment sent in a state that stays.                                   *)
LEMMA SendKind ==
  ASSUME TypeOK, Silent, NEW s \in {"SYN_SENT", "ESTABLISHED"}, InState({s}),
         NEW flags \in SUBSET Flag, NEW data \in Seq(Byte), NEW ok \in BOOLEAN,
         current_connection' = AfterSend(current_connection, flags, data, ok)
  PROVE  Sending
<1>1. current_connection \in Connection /\ current_connection.state = s
  BY DEF TypeOK, InState
<1>2. current_connection' \in Connection
  BY <1>1, AfterSendType
<1>3. SameEnds(current_connection, current_connection') /\ current_connection'.state = s
  BY <1>1, SendKeepsEnds
<1>4. Goes(s, s)
  BY <1>2, <1>3, GoesByEnds
<1> QED
  BY <1>4 DEF Sending

(* wait_for_connection and wait_for_data.                                  *)
LEMMA WaitingKind ==
  ASSUME TypeOK, Waiting
  PROVE  Unaffected \/ Removed \/ Sending
<1>1. CASE RetransmitSyn
  <2>1. PICK ok \in InjectResults :
          current_connection' = AfterSend(current_connection, {"SYN"}, <<>>, ok)
    BY <1>1 DEF RetransmitSyn
  <2>2. ok \in BOOLEAN /\ Silent /\ InState({"SYN_SENT"})
    BY <1>1, StackAssumption DEF RetransmitSyn, Silent
  <2> QED
    BY <2>1, <2>2, SendKind, SentFlags
<1>2. CASE TakeData
  BY <1>2 DEF TakeData, Removed
<1>3. CASE \/ WaitForConnection \/ ConnectionEstablished \/ ConnectionPending
           \/ KeepWaitingForConnection \/ ConnectionTimeout
           \/ WaitForData \/ NoDataYet \/ KeepWaitingForData \/ DataTimeout
  BY <1>3 DEF Unaffected, connVars, WaitForConnection, ConnectionEstablished,
              ConnectionPending, KeepWaitingForConnection, ConnectionTimeout,
              WaitForData, NoDataYet, KeepWaitingForData, DataTimeout
<1> QED
  BY <1>1, <1>2, <1>3 DEF Waiting

(* send_data.                                                              *)
LEMMA SendDataKind ==
  ASSUME TypeOK, NEW data \in Seq(Byte), SendData(data)
  PROVE  Unaffected \/ Sending
<1>1. Silent
  BY DEF SendData, Silent
<1>2. CASE InState({"ESTABLISHED"})
  <2>1. PICK ok \in InjectResults :
          current_connection' =
            AfterSend(current_connection, {"PSH", "ACK"}, data, ok)
    BY <1>2 DEF SendData
  <2> QED
    BY <1>1, <1>2, <2>1, SendKind, SentFlags, StackAssumption
<1>3. CASE ~InState({"ESTABLISHED"})
  BY <1>3 DEF SendData, Unaffected, connVars
<1> QED
  BY <1>2, <1>3

(* close_connection, in each of its three cases.                           *)
LEMMA CloseKind ==
  ASSUME TypeOK, Lifecycle, CloseConnection
  PROVE  Unaffected \/ Sending \/ Closing \/ GivenUp
<1> DEFINE c == current_connection
<1>1. Silent
  BY DEF CloseConnection, Silent
<1>2. CASE UNCHANGED <<current_connection, tx>>
  BY <1>1, <1>2 DEF Unaffected, connVars, Silent
<1>3. ASSUME InState({"ESTABLISHED"}), NEW ok \in InjectResults,
             c' = [AfterSend(c, {"FIN", "ACK"}, <<>>, ok)
                     EXCEPT !.state = IF ok THEN "FIN_WAIT_1" ELSE @]
      PROVE  Sending \/ Closing
  <2> DEFINE d == AfterSend(c, {"FIN", "ACK"}, <<>>, ok)
  <2>1. c \in Connection /\ c.state = "ESTABLISHED" /\ ok \in BOOLEAN
    BY <1>3, StackAssumption DEF TypeOK, InState
  <2>2. d \in Connection /\ SameEnds(c, d) /\ d.state = "ESTABLISHED"
    <3>1. {"FIN", "ACK"} \in SUBSET Flag /\ <<>> \in Seq(Byte)
      BY SentFlags
    <3>2. d \in Connection
      BY <2>1, <3>1, AfterSendType
    <3>3. SameEnds(c, d) /\ d.state = c.state
      BY <2>1 DEF AfterSend, Connection, SameEnds
    <3> HIDE DEF c, d
    <3>4. c.state = "ESTABLISHED"
      BY <2>1 DEF c
    <3> QED
      BY <3>2, <3>3, <3>4
  <2> HIDE DEF d
  <2>3. c' = [d EXCEPT !.state = IF ok THEN "FIN_WAIT_1" ELSE @]
    BY <1>3 DEF d
  <2> DEFINE s == IF ok THEN "FIN_WAIT_1" ELSE "ESTABLISHED"
  <2>4. s \in TcpState
    BY DEF TcpState
  <2>5. c' = [d EXCEPT !.state = s]
    BY <2>2, <2>3
  <2> HIDE DEF s
  <2>6. c' \in Connection
    BY <2>2, <2>4, <2>5 DEF Connection
  <2>7. SameEnds(d, c') /\ c'.state = s
    BY <2>2, <2>4, <2>5 DEF Connection, SameEnds
  <2>8. SameEnds(c, c')
    BY <2>2, <2>7 DEF SameEnds
  <2>9. Goes("ESTABLISHED", s)
    BY <1>3, <2>1, <2>6, <2>7, <2>8, GoesByEnds
  <2>10. \/ Goes("ESTABLISHED", "FIN_WAIT_1")
         \/ Goes("ESTABLISHED", "ESTABLISHED")
    BY <2>9 DEF s
  <2> QED
    BY <1>1, <2>10 DEF Sending, Closing
<1>4. ASSUME InState(TcpState \ {"CLOSED", "ESTABLISHED"}),
             c' = [c EXCEPT !.state = "CLOSED"]
      PROVE  GivenUp
  <2>1. c \in Connection /\ c.state \in AtEnd \union {"SYN_SENT"}
    BY <1>4 DEF TypeOK, InState, Lifecycle, Synchronized, AtEnd
  <2>2. c' \in Connection /\ SameEnds(c, c') /\ c'.state = "CLOSED"
    BY <1>4, <2>1 DEF Connection, TcpState, SameEnds
  <2>3. Goes(c.state, "CLOSED")
    BY <1>4, <2>2, GoesByEnds DEF InState
  <2> QED
    BY <1>1, <2>1, <2>3 DEF GivenUp
<1> QED
  BY <1>2, <1>3, <1>4 DEF CloseConnection


-----------------------------------------------------------------------------
(* The capture thread.                                                     *)

(* SYN+ACK in SYN_SENT: the port may change, nothing has been accepted yet. *)
LEMMA SynAckKind ==
  ASSUME TypeOK, Lifecycle, NEW seg \in Segment, SynAckReceived(seg)
  PROVE  Sending \/ Confirmed
<1> DEFINE named == [current_connection EXCEPT !.remote_port = seg.sport]
           c == [named EXCEPT !.ack_num = Plus(seg.seq, 1)]
           d(ok) == AfterSend(c, {"ACK"}, <<>>, ok)
<1>1. /\ current_connection \in Connection
      /\ InState({"SYN_SENT"})
      /\ UNCHANGED <<data_queue, rx>>
  BY MatchesConnection DEF SynAckReceived, IsSynAck, Matches
<1>2. rx = <<>>
  BY <1>1 DEF Lifecycle, InState
<1>3. /\ named \in Connection
      /\ c \in Connection
      /\ c = [current_connection EXCEPT !.remote_port = seg.sport,
                                        !.ack_num = Plus(seg.seq, 1)]
      /\ c.local_port = current_connection.local_port
      /\ c.remote_ip = current_connection.remote_ip
      /\ c.state = "SYN_SENT"
  BY <1>1, SegmentFields DEF Connection, InState
<1>4. PICK ok \in InjectResults :
        /\ current_connection' =
             [d(ok) EXCEPT !.state = IF ok THEN "ESTABLISHED" ELSE @]
        /\ events' = IF ok THEN Append(events, "connected") ELSE events
  BY <1>3, Zenon DEF SynAckReceived
<1>5. ok \in BOOLEAN
  BY StackAssumption
<1> HIDE DEF c, named
<1>6. d(ok) \in Connection /\ SameEnds(c, d(ok)) /\ d(ok).state = "SYN_SENT"
  <2>0. c \in Connection
    BY <1>3
  <2>1. d(ok) \in Connection
    BY <2>0, <1>5, AfterSendType, SentFlags
  <2>2. SameEnds(c, d(ok)) /\ d(ok).state = c.state
    BY <2>0, SendKeepsEnds
  <2> QED
    BY <1>3, <2>1, <2>2
<1> HIDE DEF d
<1>7. /\ current_connection' \in Connection
      /\ current_connection'.local_port = current_connection.local_port
      /\ current_connection'.remote_ip = current_connection.remote_ip
      /\ current_connection'.state = IF ok THEN "ESTABLISHED" ELSE "SYN_SENT"
  BY <1>3, <1>4, <1>5, <1>6 DEF Connection, TcpState, SameEnds
<1>8. Goes("SYN_SENT", IF ok THEN "ESTABLISHED" ELSE "SYN_SENT")
  BY <1>1, <1>2, <1>7, StackAssumption DEF Goes, InState
<1> QED
  BY <1>1, <1>4, <1>5, <1>8 DEF Sending, Confirmed, Silent, Reported

(* The connection after an ACK: the ends and the state are the same.       *)
LEMMA AckKeepsEnds ==
  ASSUME NEW c \in Connection, NEW n \in SeqNum, NEW ok \in BOOLEAN
  PROVE  LET d == AfterSend([c EXCEPT !.ack_num = n], {"ACK"}, <<>>, ok)
         IN d \in Connection /\ SameEnds(c, d) /\ d.state = c.state
<1> DEFINE acked == [c EXCEPT !.ack_num = n]
<1>1. acked \in Connection /\ SameEnds(c, acked) /\ acked.state = c.state
  BY DEF Connection, SameEnds
<1> HIDE DEF acked
<1>2. AfterSend(acked, {"ACK"}, <<>>, ok) \in Connection
  BY <1>1, AfterSendType, SentFlags
<1>3. /\ SameEnds(acked, AfterSend(acked, {"ACK"}, <<>>, ok))
      /\ AfterSend(acked, {"ACK"}, <<>>, ok).state = acked.state
  BY <1>1, SendKeepsEnds
<1>4. SameEnds(c, AfterSend(acked, {"ACK"}, <<>>, ok))
  BY <1>1, <1>3 DEF SameEnds
<1> QED
  BY <1>1, <1>2, <1>3, <1>4 DEF acked

(* Data in ESTABLISHED.                                                    *)
LEMMA DataKind ==
  ASSUME TypeOK, NEW seg \in Segment, DataReceived(seg)
  PROVE  Queued(seg)
<1>1. current_connection \in Connection /\ InState({"ESTABLISHED"})
  BY MatchesConnection DEF DataReceived, IsData, Matches
<1>2. PICK ok \in InjectResults :
        current_connection' =
          AfterSend([current_connection EXCEPT !.ack_num = DataAck(seg)],
                    {"ACK"}, <<>>, ok)
  BY DEF DataReceived
<1>3. ok \in BOOLEAN /\ DataAck(seg) \in SeqNum
  BY StackAssumption, SegmentFields
<1>4. /\ current_connection' \in Connection
      /\ SameEnds(current_connection, current_connection')
      /\ current_connection'.state = current_connection.state
  BY <1>1, <1>2, <1>3, AckKeepsEnds
<1>5. Goes("ESTABLISHED", "ESTABLISHED")
  BY <1>1, <1>4, GoesByEnds DEF InState
<1> QED
  BY <1>5 DEF Queued, DataReceived, Reported

(* The FIN of the peer.                                                    *)
LEMMA PeerFinKind ==
  ASSUME TypeOK, NEW seg \in Segment, PeerFinReceived(seg)
  PROVE  Closing
<1> DEFINE c == current_connection
           c1 == [c EXCEPT !.ack_num = Plus(seg.seq, 1)]
           c2(ok) == AfterSend(c1, {"ACK"}, <<>>, ok)
           d(ack_ok, fin_ok) == AfterSend(c2(ack_ok), {"FIN", "ACK"}, <<>>, fin_ok)
<1>1. c \in Connection /\ InState({"ESTABLISHED"}) /\ Silent
  BY MatchesConnection DEF PeerFinReceived, IsPeerFin, Matches, Silent
<1>2. PICK ack_ok \in InjectResults, fin_ok \in InjectResults :
        c' = [d(ack_ok, fin_ok) EXCEPT !.state = "LAST_ACK"]
  BY DEF PeerFinReceived
<1>3. ack_ok \in BOOLEAN /\ fin_ok \in BOOLEAN /\ Plus(seg.seq, 1) \in SeqNum
  BY StackAssumption, SegmentFields
<1>4. c2(ack_ok) \in Connection /\ SameEnds(c, c2(ack_ok))
  BY <1>1, <1>3, AckKeepsEnds
<1> HIDE DEF c2
<1>5. d(ack_ok, fin_ok) \in Connection /\ SameEnds(c, d(ack_ok, fin_ok))
  <2>1. d(ack_ok, fin_ok) \in Connection
    BY <1>3, <1>4, AfterSendType, SentFlags
  <2>2. SameEnds(c2(ack_ok), d(ack_ok, fin_ok))
    BY <1>4, SendKeepsEnds
  <2> QED
    BY <1>4, <2>1, <2>2 DEF SameEnds
<1> HIDE DEF d
<1>6. c' \in Connection /\ SameEnds(c, c') /\ c'.state = "LAST_ACK"
  BY <1>2, <1>5 DEF Connection, TcpState, SameEnds
<1> QED
  BY <1>1, <1>6, GoesByEnds DEF Closing

(* A change of state and nothing else.                                     *)
LEMMA RemarkedGoes ==
  ASSUME TypeOK, NEW s, NEW t \in TcpState, InState({s}),
         current_connection' = [current_connection EXCEPT !.state = t]
  PROVE  Goes(s, t)
<1>1. current_connection \in Connection
  BY DEF TypeOK, InState
<1>2. /\ current_connection' \in Connection
      /\ SameEnds(current_connection, current_connection')
      /\ current_connection'.state = t
  BY <1>1 DEF Connection, SameEnds
<1> QED
  BY <1>2, GoesByEnds

(* An ACK in FIN_WAIT_1.                                                   *)
LEMMA FinAcknowledgedKind ==
  ASSUME TypeOK, NEW seg, FinAcknowledged(seg)
  PROVE  Closing
<1>1. Goes("FIN_WAIT_1", "FIN_WAIT_2")
  BY RemarkedGoes DEF FinAcknowledged, IsFinAcknowledged, Matches, TcpState
<1> QED
  BY <1>1 DEF Closing, Silent, FinAcknowledged

(* An ACK in LAST_ACK.                                                     *)
LEMMA LastAckKind ==
  ASSUME TypeOK, NEW seg, LastAckReceived(seg)
  PROVE  Completed
<1>1. Goes("LAST_ACK", "CLOSED")
  BY RemarkedGoes DEF LastAckReceived, IsLastAck, Matches, TcpState
<1> QED
  BY <1>1 DEF Completed, AtEnd, Reported, LastAckReceived

(* A FIN in FIN_WAIT_1 or FIN_WAIT_2.                                      *)
LEMMA FinWhileClosingKind ==
  ASSUME TypeOK, NEW seg \in Segment, FinWhileClosingReceived(seg)
  PROVE  Completed
<1> DEFINE c == current_connection
           d(ok) == AfterSend([c EXCEPT !.ack_num = Plus(seg.seq, 1)], {"ACK"}, <<>>, ok)
<1>1. PICK s \in AtEnd : InState({s})
  BY DEF FinWhileClosingReceived, IsFinWhileClosing, Matches, InState, AtEnd
<1>2. c \in Connection
  BY <1>1 DEF InState, TypeOK
<1>3. PICK ok \in InjectResults : c' = [d(ok) EXCEPT !.state = "CLOSED"]
  BY DEF FinWhileClosingReceived
<1>4. ok \in BOOLEAN /\ Plus(seg.seq, 1) \in SeqNum
  BY StackAssumption, SegmentFields
<1>5. d(ok) \in Connection /\ SameEnds(c, d(ok))
  BY <1>2, <1>4, AckKeepsEnds
<1> HIDE DEF d
<1>6. c' \in Connection /\ SameEnds(c, c') /\ c'.state = "CLOSED"
  BY <1>3, <1>5 DEF Connection, TcpState, SameEnds
<1>7. Goes(s, "CLOSED")
  BY <1>1, <1>6, GoesByEnds
<1> QED
  BY <1>7 DEF Completed, Reported, FinWhileClosingReceived

(* process_packet, all branches.                                           *)
LEMMA ProcessPacketKind ==
  ASSUME TypeOK, Lifecycle, NEW seg \in Segment, process_packet(seg)
  PROVE  \/ Unaffected \/ Sending \/ Confirmed \/ Queued(seg)
         \/ Closing \/ Completed
<1>1. CASE PacketIgnored(seg)
  BY <1>1 DEF PacketIgnored, Unaffected
<1> QED
  BY <1>1, SynAckKind, DataKind, PeerFinKind, FinAcknowledgedKind,
     FinWhileClosingKind, LastAckKind DEF process_packet

(* The application's calls, connect apart.                                 *)
LEMMA CallKind ==
  ASSUME TypeOK, Lifecycle,
         \/ ConnectFilterFails \/ CloseConnection \/ Waiting \/ UNCHANGED vars
         \/ \E data \in Seq(Byte) : SendData(data)
  PROVE  Unaffected \/ Removed \/ Sending \/ Closing \/ GivenUp
<1>1. CASE ConnectFilterFails \/ UNCHANGED vars
  BY <1>1 DEF ConnectFilterFails, vars, connVars, Unaffected
<1> QED
  BY <1>1, SendDataKind, CloseKind, WaitingKind

(* Every step but connect does one of these to the connection.             *)
LEMMA StepContinues ==
  ASSUME TypeOK, Lifecycle, [LaterStep]_vars
  PROVE  Continued(Segment)
<1>1. ASSUME NEW seg \in Segment, process_packet(seg)
      PROVE  Continued(Segment)
  BY <1>1, ProcessPacketKind DEF Continued
<1> QED
  BY <1>1, CallKind DEF LaterStep, Continued

(* Every step is of one of the kinds.                                      *)
LEMMA StepKinds ==
  ASSUME TypeOK, Lifecycle, [AnyStep]_vars
  PROVE  Renewed \/ Continued(Segment)
  BY ConnectKind, StepContinues DEF AnyStep

-----------------------------------------------------------------------------
(* Whose data is queued.                                                   *)

(* A kept connection, with nothing accepted: the data is still its peer's.  *)
LEMMA GoesDataFromPeer ==
  ASSUME DataFromPeer, NEW s, NEW t, Goes(s, t), rx \in Seq(Segment), UNCHANGED rx
  PROVE  DataFromPeer'
  BY DEF DataFromPeer, Goes, NormalDirection

(* A step of any kind keeps it.                                            *)
LEMMA KindDataFromPeer ==
  ASSUME TypeOK, DataFromPeer, Renewed \/ Continued(Segment)
  PROVE  DataFromPeer'
<1>0. rx \in Seq(Segment)
  BY DEF TypeOK
<1>1. CASE Unaffected \/ Removed
  BY <1>1 DEF Unaffected, Removed, connVars, DataFromPeer
<1>2. CASE Renewed
  BY <1>2 DEF Renewed, DataFromPeer
<1>3. CASE Sending \/ Confirmed \/ Closing \/ Completed \/ GivenUp
  <2>1. UNCHANGED rx /\ \E s, t \in TcpState : Goes(s, t)
    BY <1>3 DEF Sending, Confirmed, Closing, Completed, GivenUp, Silent, AtEnd, TcpState
  <2> QED
    BY <1>0, <2>1, GoesDataFromPeer
<1>4. ASSUME NEW seg \in Segment, Queued(seg)
      PROVE  DataFromPeer'
  <2>1. \/ NormalDirection(current_connection, seg)
        \/ is("SYN", seg) \/ is("RST", seg)
    BY <1>4 DEF Queued, IsData, Matches, is_packet_for_connection
  <2>2. ASSUME NEW other, NormalDirection(current_connection, other)
        PROVE  NormalDirection(current_connection', other)
    BY <1>4, <2>2 DEF Queued, Goes, NormalDirection
  <2>3. ASSUME NEW i \in 1 .. Len(rx')
        PROVE  \/ NormalDirection(current_connection', rx'[i])
               \/ is("SYN", rx'[i]) \/ is("RST", rx'[i])
    <3>1. rx' = Append(rx, seg)
      BY <1>4 DEF Queued
    <3>2. CASE i \in 1 .. Len(rx)
      <4>1. rx'[i] = rx[i]
        BY <1>0, <3>1, <3>2
      <4> QED
        BY <2>2, <3>2, <4>1 DEF DataFromPeer
    <3>3. CASE i \notin 1 .. Len(rx)
      <4>1. rx'[i] = seg
        BY <1>0, <3>1, <3>3
      <4> QED
        BY <2>1, <2>2, <4>1
    <3> QED
      BY <3>2, <3>3
  <2> QED
    BY <2>3 DEF DataFromPeer
<1> QED
  BY <1>1, <1>2, <1>3, <1>4 DEF Continued

-----------------------------------------------------------------------------
(* The order of the queue.                                                 *)

(* A step of any kind keeps it.  Counted from the newest, one more payload   *)
(* moves both sequences by one, and taking the oldest moves neither.       *)
LEMMA KindQueueOrder ==
  ASSUME TypeOK, QueueOrder, Renewed \/ Continued(Segment)
  PROVE  QueueOrder'
<1>0. /\ rx \in Seq(Segment) /\ data_queue \in Seq(Seq(Byte))
      /\ Len(rx) \in Nat /\ Len(data_queue) \in Nat
  BY DEF TypeOK
<1>1. CASE UNCHANGED <<data_queue, rx>>
  BY <1>1 DEF QueueOrder
<1>2. CASE Renewed
  <2>1. Len(rx') = 0
    BY <1>2 DEF Renewed
  <2> QED
    BY <2>1 DEF QueueOrder
<1>3. CASE Removed
  <2>1. /\ UNCHANGED rx /\ Len(data_queue') = Len(data_queue) - 1
        /\ \A i \in 1 .. Len(data_queue') : data_queue'[i] = data_queue[i + 1]
    BY <1>0, <1>3 DEF Removed, connVars
  <2> SUFFICES ASSUME NEW k \in 0 .. Len(data_queue') - 1, k < Len(rx')
               PROVE  data_queue'[Len(data_queue') - k] = rx'[Len(rx') - k].payload
    BY DEF QueueOrder
  <2>2. /\ data_queue'[Len(data_queue') - k] = data_queue[Len(data_queue) - k]
        /\ k \in 0 .. Len(data_queue) - 1
    <3>0. Len(data_queue') = Len(data_queue) - 1 /\ Len(data_queue) \in Nat
      BY <1>0, <2>1
    <3>1. /\ Len(data_queue') - k \in 1 .. Len(data_queue')
          /\ (Len(data_queue') - k) + 1 = Len(data_queue) - k
          /\ k \in 0 .. Len(data_queue) - 1
      BY <3>0
    <3> QED
      BY <2>1, <3>1
  <2> QED
    BY <2>1, <2>2 DEF QueueOrder
<1>4. ASSUME NEW seg \in Segment, Queued(seg)
      PROVE  QueueOrder'
  <2>1. /\ rx' = Append(rx, seg)
        /\ data_queue' = Append(data_queue, seg.payload)
    BY <1>4 DEF Queued
  <2>2. /\ Len(rx') = Len(rx) + 1 /\ rx'[Len(rx) + 1] = seg
        /\ \A i \in 1 .. Len(rx) : rx'[i] = rx[i]
    BY <1>0, <2>1
  <2>3. /\ Len(data_queue') = Len(data_queue) + 1
        /\ data_queue'[Len(data_queue) + 1] = seg.payload
        /\ \A i \in 1 .. Len(data_queue) : data_queue'[i] = data_queue[i]
    BY <1>0, <2>1, SegmentFields
  <2> SUFFICES ASSUME NEW k \in 0 .. Len(data_queue') - 1, k < Len(rx')
               PROVE  data_queue'[Len(data_queue') - k] = rx'[Len(rx') - k].payload
    BY DEF QueueOrder
  <2>4. CASE k = 0
    BY <1>0, <2>2, <2>3, <2>4
  <2>5. CASE k # 0
    <3>1. k - 1 \in 0 .. Len(data_queue) - 1 /\ k - 1 < Len(rx)
      BY <1>0, <2>2, <2>3, <2>5
    <3>2. data_queue[Len(data_queue) - (k - 1)] = rx[Len(rx) - (k - 1)].payload
      BY <3>1 DEF QueueOrder
    <3>3. /\ data_queue'[Len(data_queue') - k] = data_queue[Len(data_queue) - (k - 1)]
          /\ rx'[Len(rx') - k] = rx[Len(rx) - (k - 1)]
      <4>0. Len(data_queue) \in Nat /\ Len(rx) \in Nat /\ k \in Int
        BY <1>0, <2>3
      <4>1. /\ Len(data_queue) - (k - 1) \in 1 .. Len(data_queue)
            /\ Len(data_queue') - k = Len(data_queue) - (k - 1)
        <5>1. Len(data_queue') = Len(data_queue) + 1
          BY <2>3
        <5> QED
          BY <3>1, <4>0, <5>1
      <4>2. /\ Len(rx) - (k - 1) \in 1 .. Len(rx)
            /\ Len(rx') - k = Len(rx) - (k - 1)
        <5>1. Len(rx') = Len(rx) + 1
          BY <2>2
        <5> QED
          BY <3>1, <4>0, <5>1
      <4> QED
        BY <2>2, <2>3, <4>1, <4>2
    <3> QED
      BY <3>2, <3>3
  <2> QED
    BY <2>4, <2>5
<1>5. CASE \/ Unaffected \/ Sending \/ Confirmed \/ Closing \/ Completed \/ GivenUp
  BY <1>1, <1>5 DEF Unaffected, connVars, Sending, Confirmed, Closing,
                    Completed, GivenUp, Silent
<1> QED
  BY <1>2, <1>3, <1>4, <1>5 DEF Continued

-----------------------------------------------------------------------------
(* The order of the callbacks.                                             *)

(* One more report after a history that is in order and not closed.        *)
LEMMA ReportAppended ==
  ASSUME TypeOK, Lifecycle, CallbackOrder, current_connection # NoConnection,
         current_connection.state \in Synchronized,
         NEW event \in {"data", "closed"}, Reported(event)
  PROVE  /\ \A i \in 1 .. Len(events') :
              /\ (events'[i] = "connected") <=> (i = 1)
              /\ (events'[i] = "closed") => (i = Len(events'))
         /\ Len(events') = Len(rx) + 2
<1>1. /\ events \in Seq({"connected", "data", "closed"}) /\ rx \in Seq(Segment)
      /\ Len(events) = Len(rx) + 1 /\ Len(rx) \in Nat
      /\ \A i \in 1 .. Len(events) : events[i] # "closed"
  BY DEF TypeOK, Lifecycle
<1>2. /\ Len(events') = Len(events) + 1
      /\ events'[Len(events) + 1] = event
      /\ \A i \in 1 .. Len(events) : events'[i] = events[i]
  BY <1>1 DEF Reported
<1>3. ASSUME NEW i \in 1 .. Len(events')
      PROVE  /\ (events'[i] = "connected") <=> (i = 1)
             /\ (events'[i] = "closed") => (i = Len(events'))
  <2>1. CASE i \in 1 .. Len(events)
    BY <1>1, <1>2, <2>1 DEF CallbackOrder
  <2>2. CASE i \notin 1 .. Len(events)
    <3>1. i = Len(events) + 1 /\ i # 1
      BY <1>1, <1>2, <2>2
    <3> QED
      BY <1>2, <3>1
  <2> QED
    BY <2>1, <2>2
<1> QED
  BY <1>1, <1>2, <1>3

(* A step of any kind keeps it.                                            *)
LEMMA KindCallbackOrder ==
  ASSUME TypeOK, Lifecycle, CallbackOrder, Renewed \/ Continued(Segment)
  PROVE  CallbackOrder'
<1>0. rx \in Seq(Segment) /\ Len(rx) \in Nat
  BY DEF TypeOK
<1>1. CASE UNCHANGED <<rx, events>>
  BY <1>1 DEF CallbackOrder
<1>2. CASE Renewed
  BY <1>2 DEF Renewed, CallbackOrder
<1>3. CASE Confirmed
  <2>1. events' = <<"connected">> /\ rx' = <<>>
    BY <1>3 DEF Confirmed, Goes, Lifecycle, Reported
  <2> QED
    BY <2>1 DEF CallbackOrder
<1>4. ASSUME NEW seg \in Segment, Queued(seg)
      PROVE  CallbackOrder'
  <2>1. /\ current_connection # NoConnection
        /\ current_connection.state \in Synchronized
        /\ Reported("data") /\ rx' = Append(rx, seg)
    BY <1>4 DEF Queued, Goes, Synchronized
  <2>2. Len(rx') = Len(rx) + 1
    BY <1>0, <2>1
  <2> QED
    BY <1>0, <2>1, <2>2, ReportAppended DEF CallbackOrder
<1>5. CASE Completed
  <2>1. /\ current_connection # NoConnection
        /\ current_connection.state \in Synchronized
        /\ Reported("closed") /\ rx' = rx
    BY <1>5 DEF Completed, Goes, AtEnd, Synchronized
  <2> QED
    BY <1>0, <2>1, ReportAppended DEF CallbackOrder
<1>6. CASE \/ Unaffected \/ Removed \/ Sending \/ Closing \/ GivenUp
  BY <1>1, <1>6 DEF Unaffected, Removed, connVars, Sending, Closing, GivenUp, Silent
<1> QED
  BY <1>2, <1>3, <1>4, <1>5, <1>6 DEF Continued

-----------------------------------------------------------------------------
(* Only forward.                                                           *)

Onward ==
  /\ current_connection' # NoConnection
  /\ Progress(current_connection'.state) >= Progress(current_connection.state)

(* A connection that is there is kept, and its state does not go back.      *)
LEMMA KindForward ==
  ASSUME Lifecycle, Continued(Segment), current_connection # NoConnection
  PROVE  Onward
<1>1. CASE Unaffected \/ Removed
  <2>1. current_connection.state \in Synchronized \union {"SYN_SENT", "CLOSED"}
    BY DEF Lifecycle
  <2> QED
    BY <1>1, <2>1 DEF Unaffected, Removed, connVars, Onward, Progress, Synchronized
<1>2. CASE ~(Unaffected \/ Removed)
  <2>1. /\ current_connection' # NoConnection
        /\ <<current_connection.state, current_connection'.state>> \in
             {<<"SYN_SENT", "SYN_SENT">>, <<"ESTABLISHED", "ESTABLISHED">>,
              <<"SYN_SENT", "ESTABLISHED">>, <<"SYN_SENT", "CLOSED">>,
              <<"ESTABLISHED", "FIN_WAIT_1">>, <<"ESTABLISHED", "LAST_ACK">>,
              <<"FIN_WAIT_1", "FIN_WAIT_2">>, <<"FIN_WAIT_1", "CLOSED">>,
              <<"FIN_WAIT_2", "CLOSED">>, <<"LAST_ACK", "CLOSED">>}
    BY <1>2 DEF Continued, Sending, Confirmed, Queued, Closing, Completed,
                GivenUp, AtEnd, Goes
  <2> QED
    BY <2>1 DEF Onward, Progress
<1> QED
  BY <1>1, <1>2

-----------------------------------------------------------------------------
(* The theorems.                                                           *)

DeliveryInvariant == DataFromPeer /\ QueueOrder /\ CallbackOrder

(* A fresh stack has nothing queued and nothing reported.                  *)
LEMMA InitDelivery == Init => DeliveryInvariant
  BY DEF Init, DeliveryInvariant, DataFromPeer, QueueOrder, CallbackOrder

(* The three invariants are inductive, given the types and the lifecycle.   *)
LEMMA StepDelivery ==
  TypeOK /\ Lifecycle /\ DeliveryInvariant /\ [AnyStep]_vars => DeliveryInvariant'
  BY StepKinds, KindDataFromPeer, KindQueueOrder, KindCallbackOrder
     DEF DeliveryInvariant

(* The application reads only what the peer of the connection sent, whatever *)
(* else is_packet_for_connection lets through; RST and SYN apart.           *)
THEOREM DataFromPeerHolds == Spec => []DataFromPeer
<1>1. DeliveryInvariant => DataFromPeer
  BY DEF DeliveryInvariant
<1> QED
  BY <1>1, TypeCorrect, LifecycleHolds, InitDelivery, NextIsAny,
     StepDelivery, PTL DEF Spec

(* data_queue_ is first in, first out.                                     *)
THEOREM QueueOrderHolds == Spec => []QueueOrder
<1>1. DeliveryInvariant => QueueOrder
  BY DEF DeliveryInvariant
<1> QED
  BY <1>1, TypeCorrect, LifecycleHolds, InitDelivery, NextIsAny,
     StepDelivery, PTL DEF Spec

(* Connected first and once, one report per payload, closed last and once.  *)
THEOREM CallbackOrderHolds == Spec => []CallbackOrder
<1>1. DeliveryInvariant => CallbackOrder
  BY DEF DeliveryInvariant
<1> QED
  BY <1>1, TypeCorrect, LifecycleHolds, InitDelivery, NextIsAny,
     StepDelivery, PTL DEF Spec

(* No packet and no call revives a connection that is closing or closed.    *)
THEOREM OnlyForward == Spec => Forward
<1>1. TypeOK /\ Lifecycle /\ [Next]_vars =>
        [ \/ current_connection = NoConnection
          \/ /\ current_connection' # NoConnection
             /\ Progress(current_connection'.state) >= Progress(current_connection.state)
          \/ \E target \in Target, local_port \in Port, iss \in InitialSeq :
               Connect(target, local_port, iss)
        ]_vars
  <2> SUFFICES ASSUME TypeOK, Lifecycle, [Next]_vars,
                      current_connection # NoConnection,
                      ~ \E target \in Target, local_port \in Port, iss \in InitialSeq :
                          Connect(target, local_port, iss)
               PROVE  Onward
    BY DEF Onward
  <2>1. Continued(Segment)
    BY NextIsLater, StepContinues
  <2> QED
    BY <2>1, KindForward
<1> QED
  BY <1>1, TypeCorrect, LifecycleHolds, PTL DEF Spec, Forward

-----------------------------------------------------------------------------
(* TcpStack implements TcpService: each kind of step is one step of the       *)
(* service, or one that the service does not see.  That the kinds exhaust    *)
(* what the stack does rests on its types and on Lifecycle.                *)

ServiceStep == [Service!ServiceNext]_(Service!serviceVars)

(* The phase of a connection whose state is known, before a step ...       *)
LEMMA PhaseNow ==
  ASSUME NEW s, current_connection # NoConnection, current_connection.state = s
  PROVE  PhaseOf(current_connection) = PhaseOfState(s)
  BY DEF PhaseOf

(* ... and after it.                                                       *)
LEMMA PhaseNext ==
  ASSUME NEW s, current_connection' # NoConnection, current_connection'.state = s
  PROVE  PhaseOf(current_connection)' = PhaseOfState(s)
  BY DEF PhaseOf

(* The phases of the states a connection can be in.                        *)
LEMMA PhasesOfStates ==
  /\ PhaseOfState("SYN_SENT") = "opening"
  /\ PhaseOfState("ESTABLISHED") = "open"
  /\ \A s \in AtEnd : PhaseOfState(s) = "closing"
  /\ PhaseOfState("CLOSED") = "closed"
  BY DEF PhaseOfState, AtEnd

(* A kept connection moves from phase to phase with its state.             *)
LEMMA GoesPhases ==
  ASSUME NEW s, NEW t, Goes(s, t)
  PROVE  /\ PhaseOf(current_connection) = PhaseOfState(s)
         /\ PhaseOf(current_connection)' = PhaseOfState(t)
  BY PhaseNow, PhaseNext DEF Goes

(* The constructor.                                                        *)
LEMMA InitServes == Init => Service!ServiceInit
  BY DEF Init, Service!ServiceInit, PhaseOf

(* connect: the service opens, or fails to.                                *)
LEMMA RenewedServes ==
  ASSUME Renewed PROVE Service!Open
<1>1. PhaseOf(current_connection)' \in {"none", "opening"}
  BY PhaseNext, PhasesOfStates DEF Renewed, PhaseOf
<1> QED
  BY <1>1 DEF Renewed, Service!Open

(* What the service does not see: waits, retries, sends, dropped packets.   *)
LEMMA UnseenServes ==
  ASSUME Unaffected \/ Sending
  PROVE  UNCHANGED Service!serviceVars
<1>1. CASE Unaffected
  BY <1>1 DEF Unaffected, connVars, Service!serviceVars, PhaseOf
<1>2. CASE Sending
  BY <1>2, GoesPhases DEF Sending, Silent, Service!serviceVars
<1> QED
  BY <1>1, <1>2

(* The oldest chunk is taken.                                              *)
LEMMA RemovedServes ==
  ASSUME Removed PROVE Service!Take
  BY DEF Removed, connVars, Service!Take, PhaseOf

(* The handshake completes.                                                *)
LEMMA ConfirmedServes ==
  ASSUME Confirmed PROVE Service!Establish
  BY GoesPhases, PhasesOfStates DEF Confirmed, Reported, Service!Establish

(* A chunk arrives, and it is not empty.                                   *)
LEMMA QueuedServes ==
  ASSUME NEW seg \in Inbound, Queued(seg)
  PROVE  \E chunk \in Payloads : Service!Receive(chunk)
<1>1. seg.payload \in Payloads
  BY DEF Queued, IsData, Payloads
<1>2. Service!Receive(seg.payload)
  BY GoesPhases, PhasesOfStates DEF Queued, Reported, Service!Receive
<1> QED
  BY <1>1, <1>2

(* Either side closes; the second half of the handshake that follows is not *)
(* seen.                                                                   *)
LEMMA ClosingServes ==
  ASSUME Closing PROVE Service!Shut \/ UNCHANGED Service!serviceVars
<1>1. CASE Goes("ESTABLISHED", "FIN_WAIT_1") \/ Goes("ESTABLISHED", "LAST_ACK")
  BY <1>1, GoesPhases, PhasesOfStates DEF Closing, Silent, Service!Shut, AtEnd
<1>2. CASE Goes("FIN_WAIT_1", "FIN_WAIT_2")
  BY <1>2, GoesPhases, PhasesOfStates DEF Closing, Silent, Service!serviceVars, AtEnd
<1> QED
  BY <1>1, <1>2 DEF Closing

(* The close has gone through.                                             *)
LEMMA CompletedServes ==
  ASSUME Completed PROVE Service!Finish
  BY GoesPhases, PhasesOfStates DEF Completed, Reported, Service!Finish

(* close_connection gives a connection up.                                 *)
LEMMA GivenUpServes ==
  ASSUME GivenUp PROVE Service!Abandon
  BY GoesPhases, PhasesOfStates DEF GivenUp, Silent, Service!Abandon

(* Each step is a step of the service, or none.                            *)
LEMMA NextServes ==
  ASSUME TypeOK, Lifecycle, [Next]_vars PROVE ServiceStep
<1> USE DEF ServiceStep, Service!ServiceNext
<1>1. CASE \E target \in Target, local_port \in Port, iss \in InitialSeq :
             Connect(target, local_port, iss)
  <2>1. PICK target \in Target, local_port \in Port, iss \in InitialSeq :
          Connect(target, local_port, iss)
    BY <1>1
  <2>2. target \in Host \X Port /\ iss \in SeqNum
    BY StackAssumption
  <2> QED
    BY <2>1, <2>2, ConnectKind, RenewedServes
<1>2. CASE \/ ConnectFilterFails \/ CloseConnection \/ Waiting \/ UNCHANGED vars
           \/ \E data \in Seq(Byte) : SendData(data)
  BY <1>2, CallKind, UnseenServes, RemovedServes, ClosingServes, GivenUpServes
<1>3. CASE Capture
  <2>1. PICK seg \in Inbound : process_packet(seg)
    BY <1>3 DEF Capture
  <2>2. seg \in Segment
    BY StackAssumption
  <2> QED
    BY <2>1, <2>2, ProcessPacketKind, UnseenServes, ConfirmedServes,
       QueuedServes, ClosingServes, CompletedServes
<1>4. CASE \E data \in Request : SendData(data)
  <2>1. PICK data \in Request : SendData(data)
    BY <1>4
  <2>2. data \in Seq(Byte)
    BY StackAssumption
  <2> QED
    BY <1>2, <2>1, <2>2
<1> QED
  BY <1>1, <1>2, <1>3, <1>4 DEF Next, Application

(* Whatever calls, packets, failed injections and expired timers do, in      *)
(* whatever order: what the code above TcpStack sees of it is TcpService.    *)
THEOREM Implementation == Spec => ImplementsService
<1>1. TypeOK /\ Lifecycle /\ [Next]_vars => [Service!ServiceNext]_(Service!serviceVars)
  BY NextServes DEF ServiceStep
<1> QED
  BY <1>1, TypeCorrect, LifecycleHolds, InitServes, PTL
     DEF Spec, ImplementsService, Service!ServiceSpec
=============================================================================

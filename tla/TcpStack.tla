------------------------------ MODULE TcpStack ------------------------------
(***************************************************************************)
(* The class TcpStack of tcp_stack.cpp: one TCP connection shared by the    *)
(* application thread, which calls connect, wait_for_connection, send_data, *)
(* wait_for_data and close_connection, and the capture thread, which calls  *)
(* process_packet for every TCP frame it captures.                         *)
(*                                                                         *)
(* Every public operation takes mutex_ for the whole of its critical        *)
(* section, so one critical section is one action.  The two waits release   *)
(* the mutex between looking at the shared state and looking at the clock:  *)
(* they are two actions each, and the capture thread may run in between.    *)
(* Clocks are abstract: an interval may have elapsed or not.               *)
(*                                                                         *)
(* The application calls the operations in any order, and captured packets  *)
(* are arbitrary members of Inbound.  MyTelnet conjoins the same actions    *)
(* with the program's own order of calls and with a server.                *)
(*                                                                         *)
(* Not state here: remote_seq_num, window_size, last_activity, rx_buffer    *)
(* and tx_buffer, which the code sets and never reads back (window_size is  *)
(* a constant it writes into each header).                                 *)
(***************************************************************************)
EXTENDS TcpSegment

CONSTANTS
  LocalIp,        \* local_ip_, the address of the interface
  NoConnection,   \* current_connection_ == nullptr
  MaxSynRetries,  \* max_syn_retries: 3 in the program
  InjectResults,  \* outcomes of pcap_inject: TRUE accepted, FALSE error
  Target,         \* <<address, port>> pairs the application connects to
  InitialSeq,     \* what generate_random_seq may draw
  Inbound,        \* segments the capture thread may see
  Request         \* what the application may pass to send_data

TcpState == {"CLOSED", "SYN_SENT", "ESTABLISHED", "FIN_WAIT_1", "FIN_WAIT_2",
             "CLOSE_WAIT", "LAST_ACK", "TIME_WAIT", "CLOSING"}

Connection == [local_port : Port,  remote_ip : Host,  remote_port : Port,
               seq_num : SeqNum,  ack_num : SeqNum,  state : TcpState]

ASSUME StackAssumption ==
  /\ LocalIp \in Host
  /\ NoConnection \notin Connection
  /\ MaxSynRetries \in Nat
  /\ InjectResults \subseteq BOOLEAN
  /\ Target \subseteq Host \X Port
  /\ InitialSeq \subseteq SeqNum
  /\ Inbound \subseteq Segment
  /\ Request \subseteq Seq(Byte)

VARIABLES
  current_connection,  \* current_connection_
  data_queue,          \* data_queue_: payloads not yet taken by the application
  call,                \* where the application thread is inside TcpStack
  syn_retries,         \* local to wait_for_connection, 0 outside it
  retval,              \* what the last completed call returned
  tx,                  \* segments injected since the last connect()
  rx,                  \* data segments accepted since the last connect()
  events               \* callbacks invoked since the last connect()

connVars == <<current_connection, tx, rx, events>>
callVars == <<call, syn_retries, retval>>
vars     == <<current_connection, data_queue, call, syn_retries, retval,
              tx, rx, events>>

Call == {"idle", "connection_check", "connection_timer",
         "data_check", "data_timer"}

TypeOK ==
  /\ current_connection \in Connection \union {NoConnection}
  /\ data_queue \in Seq(Seq(Byte))
  /\ call \in Call
  /\ syn_retries \in 0 .. MaxSynRetries
  /\ retval \in BOOLEAN
  /\ tx \in Seq(Segment)
  /\ rx \in Seq(Segment)
  /\ events \in Seq({"connected", "data", "closed"})

Init ==
  /\ current_connection = NoConnection
  /\ data_queue = <<>>
  /\ call = "idle"
  /\ syn_retries = 0
  /\ retval = FALSE
  /\ tx = <<>>
  /\ rx = <<>>
  /\ events = <<>>

-----------------------------------------------------------------------------
(***************************************************************************)
(* send_tcp_packet builds one segment from the connection and injects it.   *)
(* When pcap_inject reports an error nothing is sent and seq_num stays; a   *)
(* short count is only a warning and counts as sent.                       *)
(***************************************************************************)
SegmentOf(c, flags, data) ==
  [src |-> LocalIp,  sport |-> c.local_port,
   dst |-> c.remote_ip,  dport |-> c.remote_port,
   flags |-> flags,  seq |-> c.seq_num,  ack |-> c.ack_num,  payload |-> data]

(* Mutant of AfterSend: the result of pcap_inject is not looked at.         *)
AfterSendUnchecked(c, flags, data, ok) ==
  [c EXCEPT !.seq_num = Plus(@, Consumed(SegmentOf(c, flags, data)))]

(* Mutant of AfterSend: every segment takes a number, a bare ACK as well.   *)
AfterSendCountsAck(c, flags, data, ok) ==
  IF ok THEN [c EXCEPT !.seq_num = Plus(@, 1 + Len(data))] ELSE c

(* The connection after trying to send, and the wire after it.             *)
AfterSend(c, flags, data, ok) ==
  IF ok
  THEN [c EXCEPT !.seq_num = Plus(@, Consumed(SegmentOf(c, flags, data)))]
  ELSE c

WireAfter(wire, c, flags, data, ok) ==
  IF ok THEN Append(wire, SegmentOf(c, flags, data)) ELSE wire

-----------------------------------------------------------------------------
(* The application thread.                                                 *)

(* connect: a fresh connection object replaces the previous one, the SYN is *)
(* sent, and the state becomes SYN_SENT before the mutex is released.  If   *)
(* the SYN cannot be sent the pointer is reset to nullptr.  data_queue_ is  *)
(* left as it is.                                                          *)
Connect(target, local_port, iss) ==
  LET c == [local_port |-> local_port,  remote_ip |-> target[1],
            remote_port |-> target[2],  seq_num |-> iss,  ack_num |-> 0,
            state |-> "CLOSED"]
  IN /\ call = "idle"
     /\ \E ok \in InjectResults :
          /\ current_connection' =
               IF ok
               THEN [AfterSend(c, {"SYN"}, <<>>, ok) EXCEPT !.state = "SYN_SENT"]
               ELSE NoConnection
          /\ tx' = WireAfter(<<>>, c, {"SYN"}, <<>>, ok)
          /\ retval' = ok
     /\ rx' = <<>>
     /\ events' = <<>>
     /\ UNCHANGED <<data_queue, call, syn_retries>>

(* connect returns before it touches the shared state when the BPF filter   *)
(* of the new connection cannot be compiled or installed.                  *)
ConnectFilterFails ==
  /\ call = "idle"
  /\ retval' = FALSE
  /\ UNCHANGED <<connVars, data_queue, call, syn_retries>>

WaitForConnection ==
  /\ call = "idle"
  /\ call' = "connection_check"
  /\ UNCHANGED <<connVars, data_queue, syn_retries, retval>>

InState(S) ==
  current_connection # NoConnection /\ current_connection.state \in S

ConnectionEstablished ==
  /\ call = "connection_check"
  /\ InState({"ESTABLISHED"})
  /\ call' = "idle"
  /\ syn_retries' = 0
  /\ retval' = TRUE
  /\ UNCHANGED <<connVars, data_queue>>

(* Nothing to retransmit, or the retry interval has not elapsed.           *)
ConnectionPending ==
  /\ call = "connection_check"
  /\ ~InState({"ESTABLISHED"})
  /\ call' = "connection_timer"
  /\ UNCHANGED <<connVars, data_queue, syn_retries, retval>>

(* Mutant of RetransmitSyn: any connection that is not established.         *)
RetransmitSynAnyState ==
  /\ call = "connection_check"
  /\ InState(TcpState \ {"ESTABLISHED"})
  /\ syn_retries < MaxSynRetries
  /\ current_connection' = AfterSend(current_connection, {"SYN"}, <<>>, TRUE)
  /\ tx' = WireAfter(tx, current_connection, {"SYN"}, <<>>, TRUE)
  /\ syn_retries' = syn_retries + 1
  /\ call' = "connection_timer"
  /\ UNCHANGED <<data_queue, rx, events, retval>>

(* Mutant of RetransmitSyn: the retry is counted, the SYN is not sent.      *)
RetransmitSynUnsent ==
  /\ call = "connection_check"
  /\ InState({"SYN_SENT"})
  /\ syn_retries < MaxSynRetries
  /\ syn_retries' = syn_retries + 1
  /\ call' = "connection_timer"
  /\ UNCHANGED <<connVars, data_queue, retval>>

(* The retry interval has elapsed: the SYN goes out again through           *)
(* send_tcp_packet.  A failed send is not counted as a retry.              *)
RetransmitSyn ==
  /\ call = "connection_check"
  /\ InState({"SYN_SENT"})
  /\ syn_retries < MaxSynRetries
  /\ \E ok \in InjectResults :
       /\ current_connection' =
            AfterSend(current_connection, {"SYN"}, <<>>, ok)
       /\ tx' = WireAfter(tx, current_connection, {"SYN"}, <<>>, ok)
       /\ syn_retries' = IF ok THEN syn_retries + 1 ELSE syn_retries
  /\ call' = "connection_timer"
  /\ UNCHANGED <<data_queue, rx, events, retval>>

KeepWaitingForConnection ==
  /\ call = "connection_timer"
  /\ call' = "connection_check"
  /\ UNCHANGED <<connVars, data_queue, syn_retries, retval>>

(* The timeout is decided without looking at the connection again.         *)
ConnectionTimeout ==
  /\ call = "connection_timer"
  /\ call' = "idle"
  /\ syn_retries' = 0
  /\ retval' = FALSE
  /\ UNCHANGED <<connVars, data_queue>>

SendData(data) ==
  /\ call = "idle"
  /\ IF InState({"ESTABLISHED"})
     THEN \E ok \in InjectResults :
            /\ current_connection' =
                 AfterSend(current_connection, {"PSH", "ACK"}, data, ok)
            /\ tx' = WireAfter(tx, current_connection, {"PSH", "ACK"}, data, ok)
            /\ retval' = ok
     ELSE retval' = FALSE /\ UNCHANGED <<current_connection, tx>>
  /\ UNCHANGED <<data_queue, call, syn_retries, rx, events>>

WaitForData ==
  /\ call = "idle"
  /\ call' = "data_check"
  /\ UNCHANGED <<connVars, data_queue, syn_retries, retval>>

(* Mutant of TakeData: the newest chunk is removed instead of the oldest.   *)
TakeNewest ==
  /\ call = "data_check"
  /\ data_queue # <<>>
  /\ data_queue' = SubSeq(data_queue, 1, Len(data_queue) - 1)
  /\ call' = "idle"
  /\ retval' = TRUE
  /\ UNCHANGED <<connVars, syn_retries>>

(* The oldest chunk, Head(data_queue), is handed to the caller.            *)
TakeData ==
  /\ call = "data_check"
  /\ data_queue # <<>>
  /\ data_queue' = Tail(data_queue)
  /\ call' = "idle"
  /\ retval' = TRUE
  /\ UNCHANGED <<connVars, syn_retries>>

NoDataYet ==
  /\ call = "data_check"
  /\ data_queue = <<>>
  /\ call' = "data_timer"
  /\ UNCHANGED <<connVars, data_queue, syn_retries, retval>>

KeepWaitingForData ==
  /\ call = "data_timer"
  /\ call' = "data_check"
  /\ UNCHANGED <<connVars, data_queue, syn_retries, retval>>

(* The timeout is decided without looking at the queue again.              *)
DataTimeout ==
  /\ call = "data_timer"
  /\ call' = "idle"
  /\ retval' = FALSE
  /\ UNCHANGED <<connVars, data_queue, syn_retries>>

(* Mutant of CloseConnection: every open connection is marked CLOSED.       *)
CloseWithoutFin ==
  /\ call = "idle"
  /\ current_connection' = IF current_connection = NoConnection
                           THEN NoConnection
                           ELSE [current_connection EXCEPT !.state = "CLOSED"]
  /\ retval' = TRUE
  /\ UNCHANGED <<data_queue, call, syn_retries, tx, rx, events>>

(* close_connection: FIN from ESTABLISHED only; from any other open state   *)
(* the connection is simply marked CLOSED.  A FIN that cannot be sent       *)
(* leaves the connection ESTABLISHED.  No callback is invoked.             *)
CloseConnection ==
  /\ call = "idle"
  /\ \/ /\ ~InState(TcpState \ {"CLOSED"})
        /\ retval' = TRUE
        /\ UNCHANGED <<current_connection, tx>>
     \/ /\ InState({"ESTABLISHED"})
        /\ \E ok \in InjectResults :
             /\ current_connection' =
                  [AfterSend(current_connection, {"FIN", "ACK"}, <<>>, ok)
                     EXCEPT !.state = IF ok THEN "FIN_WAIT_1" ELSE @]
             /\ tx' = WireAfter(tx, current_connection, {"FIN", "ACK"}, <<>>, ok)
             /\ retval' = ok
     \/ /\ InState(TcpState \ {"CLOSED", "ESTABLISHED"})
        /\ current_connection' = [current_connection EXCEPT !.state = "CLOSED"]
        /\ retval' = TRUE
        /\ UNCHANGED tx
  /\ UNCHANGED <<data_queue, call, syn_retries, rx, events>>

-----------------------------------------------------------------------------
(* The capture thread.                                                     *)

(* The frame comes from the peer of the connection and is addressed to it. *)
NormalDirection(c, seg) ==
  /\ seg.src = c.remote_ip /\ seg.dst = LocalIp
  /\ seg.sport = c.remote_port /\ seg.dport = c.local_port

(* Mutant of is_packet_for_connection: the sender is not looked at.         *)
is_packet_for_port(seg) ==
  seg.dst = LocalIp /\ seg.dport = current_connection.local_port

(* Besides the exact four-tuple, any SYN+ACK between the two hosts and any  *)
(* RST to the local address and port are let through.                      *)
is_packet_for_connection(seg) ==
  LET c == current_connection
  IN \/ NormalDirection(c, seg)
     \/ /\ seg.src = c.remote_ip /\ seg.dst = LocalIp
        /\ is("SYN", seg) /\ is("ACK", seg)
     \/ /\ seg.dst = LocalIp /\ seg.dport = c.local_port
        /\ is("RST", seg)

Matches(seg, S) == InState(S) /\ is_packet_for_connection(seg)

(* Mutant of IsSynAck: in any state but ESTABLISHED.                        *)
IsSynAckAnyState(seg) ==
  /\ Matches(seg, TcpState \ {"ESTABLISHED"})
  /\ is("SYN", seg) /\ is("ACK", seg)

(* Which branch of process_packet a segment takes, if any.                 *)
IsSynAck(seg) ==
  Matches(seg, {"SYN_SENT"}) /\ is("SYN", seg) /\ is("ACK", seg)

IsData(seg) ==
  /\ Matches(seg, {"ESTABLISHED"}) /\ is("PSH", seg) /\ is("ACK", seg)
  /\ seg.payload # <<>>

IsPeerFin(seg) ==
  /\ Matches(seg, {"ESTABLISHED"}) /\ is("FIN", seg) /\ is("ACK", seg)
  /\ ~is("PSH", seg)

IsFinAcknowledged(seg) ==
  Matches(seg, {"FIN_WAIT_1"}) /\ is("ACK", seg) /\ ~is("FIN", seg)

IsFinWhileClosing(seg) ==
  /\ is("FIN", seg)
  /\ \/ Matches(seg, {"FIN_WAIT_1"}) /\ is("ACK", seg)
     \/ Matches(seg, {"FIN_WAIT_2"})

IsLastAck(seg) == Matches(seg, {"LAST_ACK"}) /\ is("ACK", seg)

(* Neither the acknowledgement number nor the source port of the SYN+ACK is *)
(* checked; the port is adopted.  If the ACK cannot be sent the connection  *)
(* stays in SYN_SENT, with the new port and acknowledgement number.        *)
SynAckReceived(seg) ==
  /\ IsSynAck(seg)
  /\ \E ok \in InjectResults :
       LET c == [current_connection EXCEPT !.remote_port = seg.sport,
                                           !.ack_num = Plus(seg.seq, 1)]
       IN /\ current_connection' =
               [AfterSend(c, {"ACK"}, <<>>, ok)
                  EXCEPT !.state = IF ok THEN "ESTABLISHED" ELSE @]
          /\ tx' = WireAfter(tx, c, {"ACK"}, <<>>, ok)
          /\ events' = IF ok THEN Append(events, "connected") ELSE events
  /\ UNCHANGED <<data_queue, rx>>

(* Mutant of DataAck: one byte too many.                                   *)
DataAckTooFar(seg) == Plus(seg.seq, Len(seg.payload) + 1)

(* The acknowledgement number that covers a data segment.                  *)
DataAck(seg) == Plus(seg.seq, Len(seg.payload))

(* The sequence number of the segment is not compared with ack_num: the     *)
(* payload is queued wherever it belongs in the stream.                    *)
DataReceived(seg) ==
  /\ IsData(seg)
  /\ \E ok \in InjectResults :
       LET c == [current_connection EXCEPT !.ack_num = DataAck(seg)]
       IN /\ current_connection' = AfterSend(c, {"ACK"}, <<>>, ok)
          /\ tx' = WireAfter(tx, c, {"ACK"}, <<>>, ok)
  /\ data_queue' = Append(data_queue, seg.payload)
  /\ rx' = Append(rx, seg)
  /\ events' = Append(events, "data")

(* Mutant of PeerFinReceived: the state is left at CLOSE_WAIT.              *)
PeerFinCloseWait(seg) ==
  /\ IsPeerFin(seg)
  /\ current_connection' = [current_connection EXCEPT
                              !.ack_num = Plus(seg.seq, 1),
                              !.state = "CLOSE_WAIT"]
  /\ tx' = WireAfter(tx, current_connection', {"ACK"}, <<>>, TRUE)
  /\ UNCHANGED <<data_queue, rx, events>>

(* ESTABLISHED -> CLOSE_WAIT -> LAST_ACK under one lock; neither the ACK nor *)
(* the FIN is checked for having been sent.                                *)
PeerFinReceived(seg) ==
  /\ IsPeerFin(seg)
  /\ \E ack_ok, fin_ok \in InjectResults :
       LET c1 == [current_connection EXCEPT !.ack_num = Plus(seg.seq, 1)]
           c2 == AfterSend(c1, {"ACK"}, <<>>, ack_ok)
       IN /\ current_connection' =
               [AfterSend(c2, {"FIN", "ACK"}, <<>>, fin_ok)
                  EXCEPT !.state = "LAST_ACK"]
          /\ tx' = WireAfter(WireAfter(tx, c1, {"ACK"}, <<>>, ack_ok),
                             c2, {"FIN", "ACK"}, <<>>, fin_ok)
  /\ UNCHANGED <<data_queue, rx, events>>

FinAcknowledged(seg) ==
  /\ IsFinAcknowledged(seg)
  /\ current_connection' = [current_connection EXCEPT !.state = "FIN_WAIT_2"]
  /\ UNCHANGED <<data_queue, tx, rx, events>>

(* Mutant of FinWhileClosingReceived: the state is not changed.            *)
FinWhileClosingStays(seg) ==
  /\ IsFinWhileClosing(seg)
  /\ tx' = WireAfter(tx, current_connection, {"ACK"}, <<>>, TRUE)
  /\ events' = Append(events, "closed")
  /\ UNCHANGED <<current_connection, data_queue, rx>>

(* TIME_WAIT is left for CLOSED under the same lock.                       *)
FinWhileClosingReceived(seg) ==
  /\ IsFinWhileClosing(seg)
  /\ \E ok \in InjectResults :
       LET c == [current_connection EXCEPT !.ack_num = Plus(seg.seq, 1)]
       IN /\ current_connection' =
               [AfterSend(c, {"ACK"}, <<>>, ok) EXCEPT !.state = "CLOSED"]
          /\ tx' = WireAfter(tx, c, {"ACK"}, <<>>, ok)
  /\ events' = Append(events, "closed")
  /\ UNCHANGED <<data_queue, rx>>

LastAckReceived(seg) ==
  /\ IsLastAck(seg)
  /\ current_connection' = [current_connection EXCEPT !.state = "CLOSED"]
  /\ events' = Append(events, "closed")
  /\ UNCHANGED <<data_queue, tx, rx>>

(* Everything else is dropped: no connection, another connection's packet,  *)
(* or nothing to do in this state.                                         *)
PacketIgnored(seg) ==
  /\ ~ \/ IsSynAck(seg) \/ IsData(seg) \/ IsPeerFin(seg)
       \/ IsFinAcknowledged(seg) \/ IsFinWhileClosing(seg) \/ IsLastAck(seg)
  /\ UNCHANGED <<connVars, data_queue>>

process_packet(seg) ==
  /\ \/ SynAckReceived(seg)
     \/ DataReceived(seg)
     \/ PeerFinReceived(seg)
     \/ FinAcknowledged(seg)
     \/ FinWhileClosingReceived(seg)
     \/ LastAckReceived(seg)
     \/ PacketIgnored(seg)
  /\ UNCHANGED callVars

-----------------------------------------------------------------------------
(* The calls that wait, and their loops.                                   *)
Waiting ==
  \/ WaitForConnection \/ ConnectionEstablished \/ ConnectionPending
  \/ RetransmitSyn \/ KeepWaitingForConnection \/ ConnectionTimeout
  \/ WaitForData \/ TakeData \/ NoDataYet \/ KeepWaitingForData \/ DataTimeout

Application ==
  \/ \E target \in Target, local_port \in Port, iss \in InitialSeq :
       Connect(target, local_port, iss)
  \/ ConnectFilterFails
  \/ \E data \in Request : SendData(data)
  \/ CloseConnection
  \/ Waiting

Capture == \E seg \in Inbound : process_packet(seg)

Next == Application \/ Capture

Spec == Init /\ [][Next]_vars

-----------------------------------------------------------------------------
(***************************************************************************)
(* Properties.                                                             *)
(***************************************************************************)

BareAck(seg) == seg.flags = {"ACK"} /\ seg.payload = <<>>

(* What the two threads put on the wire is one well-formed TCP conversation: *)
(* it opens with one or more SYNs; the first segment after them is the bare *)
(* ACK of the handshake, so neither a retransmitted SYN (application        *)
(* thread) follows the ACK (capture thread) nor data precedes it; and after *)
(* a FIN, whichever thread sent it, only bare ACKs follow, so there is at   *)
(* most one FIN and no data after it.                                      *)
Ordered(wire) ==
  /\ wire # <<>> => is("SYN", wire[1])
  /\ \A i \in 1 .. Len(wire) - 1 :
       /\ is("SYN", wire[i + 1]) => is("SYN", wire[i])
       /\ is("SYN", wire[i]) => is("SYN", wire[i + 1]) \/ BareAck(wire[i + 1])
  /\ \A i, j \in 1 .. Len(wire) :
       i < j /\ is("FIN", wire[i]) => BareAck(wire[j])

WireOrder == Ordered(tx)

(* The sequence numbers of the segments sent leave no gap and never         *)
(* overlap, across both threads, failed injections and wrap-around: every   *)
(* segment starts where the one before it ended, and seq_num is where the   *)
(* next one will start.  (A retransmitted SYN is no exception in this code: *)
(* it takes a sequence number of its own.)                                 *)
Contiguous(wire) ==
  \A i \in 1 .. Len(wire) - 1 :
    wire[i + 1].seq = Plus(wire[i].seq, Consumed(wire[i]))

EndsAt(wire, n) ==
  n = Plus(wire[Len(wire)].seq, Consumed(wire[Len(wire)]))

WireContiguous ==
  /\ Contiguous(tx)
  /\ tx # <<>> => EndsAt(tx, current_connection.seq_num)

(* data_queue_ hands the payloads accepted by the capture thread to the     *)
(* application first in, first out: counted from the newest, the queue and  *)
(* the accepted segments agree, whatever a timed-out wait or a packet that  *)
(* arrives in the middle of one did.                                       *)
QueueOrder ==
  \A k \in 0 .. Len(data_queue) - 1 :
    k < Len(rx) => data_queue[Len(data_queue) - k] = rx[Len(rx) - k].payload

(* A payload is accepted only from the peer of the connection that is       *)
(* current, although is_packet_for_connection lets SYN+ACKs from other      *)
(* ports and RSTs from other hosts through and a new connect replaces the   *)
(* connection under the capture thread: whatever else is accepted carries   *)
(* SYN or RST.                                                             *)
DataFromPeer ==
  \A i \in 1 .. Len(rx) :
    \/ NormalDirection(current_connection, rx[i])
    \/ is("SYN", rx[i]) \/ is("RST", rx[i])

(* The callbacks of one connection: on_connected first and once, then one   *)
(* on_data_received per accepted payload, on_connection_closed at most once *)
(* and nothing after it.                                                   *)
CallbackOrder ==
  /\ \A i \in 1 .. Len(events) :
       /\ (events[i] = "connected") <=> (i = 1)
       /\ (events[i] = "closed") => (i = Len(events))
  /\ Len(rx) > 0 => Len(events) \in {Len(rx) + 1, Len(rx) + 2}

(* What the state of the connection says about its history, at every point  *)
(* at which the mutex is free:                                             *)
(*  - nothing but SYNs has been sent, and nothing accepted or reported,     *)
(*    while the state is SYN_SENT;                                          *)
(*  - on_connected has been called, once per accepted payload               *)
(*    on_data_received, and nothing else, while it is ESTABLISHED or a       *)
(*    closing state, and a FIN has gone out in FIN_WAIT_1 and FIN_WAIT_2 and *)
(*    in no state before them;                                              *)
(*  - on_connection_closed leaves the state CLOSED for good;                *)
(*  - CLOSE_WAIT, TIME_WAIT and CLOSING are never left behind, although the  *)
(*    code assigns the first two in passing.                                *)
Synchronized == {"ESTABLISHED", "FIN_WAIT_1", "FIN_WAIT_2", "LAST_ACK"}

Sent(flag) == \E i \in 1 .. Len(tx) : is(flag, tx[i])

Lifecycle ==
  IF current_connection = NoConnection
  THEN tx = <<>> /\ rx = <<>> /\ events = <<>>
  ELSE LET state == current_connection.state
       IN /\ tx # <<>>
          /\ state \in Synchronized \union {"SYN_SENT", "CLOSED"}
          /\ state = "SYN_SENT" =>
               /\ \A i \in 1 .. Len(tx) : is("SYN", tx[i])
               /\ rx = <<>> /\ events = <<>>
          /\ state \in Synchronized =>
               /\ ~is("SYN", tx[Len(tx)])
               /\ Len(events) = Len(rx) + 1
               /\ \A i \in 1 .. Len(events) : events[i] # "closed"
          /\ state \in {"FIN_WAIT_1", "FIN_WAIT_2"} => Sent("FIN")
          /\ state \in {"SYN_SENT", "ESTABLISHED"} => ~Sent("FIN")

(* How far a connection has got.                                           *)
Progress(state) ==
  CASE state = "SYN_SENT"                   -> 1
    [] state = "ESTABLISHED"                -> 2
    [] state \in {"FIN_WAIT_1", "LAST_ACK"} -> 3
    [] state = "FIN_WAIT_2"                 -> 4
    [] state = "CLOSED"                     -> 5
    [] OTHER                                -> 0

(* A connection only moves forward: no packet, however late, and no call    *)
(* revives a connection that is closing or closed, unless connect replaces  *)
(* it by a new one.                                                        *)
Forward ==
  [][ \/ current_connection = NoConnection
      \/ /\ current_connection' # NoConnection
         /\ Progress(current_connection'.state) >= Progress(current_connection.state)
      \/ \E target \in Target, local_port \in Port, iss \in InitialSeq :
           Connect(target, local_port, iss)
    ]_vars

=============================================================================

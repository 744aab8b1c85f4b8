------------------------------ MODULE MyTelnet ------------------------------
(***************************************************************************)
(* The whole program: main of mytelnet.cpp and HttpClient on the            *)
(* application thread, TcpStack under it, the capture thread, and a server  *)
(* behind a network that may lose, duplicate or reorder.                    *)
(*                                                                         *)
(* The actions of HttpClient, TcpStack, CaptureThread and TcpServer are      *)
(* conjoined here: each call of the application with what the stack does on  *)
(* it, each captured packet with what the network delivers.                *)
(***************************************************************************)
EXTENDS TcpStack, CaptureThread, TcpServer, HttpClient
SeqX == INSTANCE SequencesExt

CONSTANTS
  Argv,         \* the command line
  LocalPort,    \* the port generate_random_port draws
  Faults,       \* what goes wrong in the network and in pcap
  MaxFaults,    \* how many times
  Timely        \* the timers are long against the network and the scheduler

(* A byte of a payload is a character of HttpMessage.                      *)
ASSUME ProgramAssumption ==
  /\ Byte = Char
  /\ Argv \in Seq(Seq(Char))
  /\ LocalPort \in Port
  /\ Faults \subseteq {"lose", "duplicate", "reorder", "pcap_error"}
  /\ MaxFaults \in Nat
  /\ Timely \in BOOLEAN

VARIABLES
  to_server,          \* how many of tx the network has dealt with
  to_client,          \* which of srv_tx are still under way
  faults              \* faults so far

netVars == <<to_server, to_client, faults>>
programVars == <<vars, captureVars, serverVars, appVars, netVars>>

ProgramTypeOK ==
  /\ TypeOK /\ CaptureTypeOK /\ ServerTypeOK /\ ClientTypeOK
  /\ to_server \in 0 .. Len(tx)
  /\ to_client \subseteq 1 .. Len(srv_tx)
  /\ faults \in 0 .. MaxFaults

ProgramInit ==
  /\ Init /\ CaptureInit /\ ServerInit /\ ClientInit
  /\ to_server = 0
  /\ to_client = {}
  /\ faults = 0

-----------------------------------------------------------------------------
(* When may a timer fire?  If Timely, only when waiting longer is pointless: *)
(* nothing is under way, the server has nothing to say, and the calling      *)
(* thread has seen everything there is.                                     *)
Quiet ==
  /\ to_server = Len(tx) /\ to_client = {}
  /\ ~(srv.st = "OPEN" /\ srv.request /\ srv.sent <= Total)

Elapsed(nothingSeen) == Timely => Quiet /\ nothingSeen

-----------------------------------------------------------------------------
(* The application thread: main, HttpClient::download_file and get.  A call *)
(* into the stack goes on until the stack has a result for it.             *)

(* The pieces of state the application's calls never touch.                *)
Unseen == UNCHANGED <<captureVars, serverVars, netVars>>

(* Before there is a connection.                                           *)
PrepareCall ==
  /\ \/ ArgumentsGiven(Argv) /\ UNCHANGED captureVars
     \/ InitializeSucceeds /\ Initialized(TRUE)
     \/ InitializeFails /\ Initialized(FALSE)
     \/ (\E ok \in BOOLEAN : FileCreated(ok)) /\ UNCHANGED captureVars
  /\ UNCHANGED <<vars, serverVars, netVars>>

ConnectCall ==
  /\ pc = "connect"
  /\ \/ \E iss \in InitialSeq :
          Connect(<<ServerIp, ServerPort>>, LocalPort, iss)
     \/ ConnectFilterFails
  /\ Connected(retval')
  /\ Unseen

WaitForConnectionCall ==
  /\ pc = "wait_for_connection"
  /\ \/ /\ \/ WaitForConnection \/ ConnectionPending \/ KeepWaitingForConnection
           \/ RetransmitSyn /\ Elapsed(TRUE)
        /\ UNCHANGED appVars
     \/ ConnectionEstablished /\ ConnectionAwaited(TRUE)
     \/ /\ ConnectionTimeout /\ ConnectionAwaited(FALSE)
        /\ Elapsed(~InState({"ESTABLISHED"}) /\ syn_retries = MaxSynRetries)
  /\ Unseen

SendDataCall ==
  pc = "send_data" /\ SendData(TheRequest) /\ RequestSent(retval') /\ Unseen

WaitForDataCall ==
  /\ pc = "wait_for_data"
  /\ \/ (WaitForData \/ NoDataYet \/ KeepWaitingForData) /\ UNCHANGED appVars
     \/ TakeData /\ ChunkReceived(Head(data_queue))
     \/ DataTimeout /\ Elapsed(data_queue = <<>>) /\ ReceiveTimedOut
  /\ Unseen

CloseCall == Closed /\ CloseConnection /\ Unseen

(* The rest of ~TcpStack.                                                  *)
DestroyStack ==
  /\ pc = "stop"
  /\ \/ (StopCapture \/ JoinCapture) /\ UNCHANGED appVars
     \/ CloseHandle /\ StackStopped
  /\ UNCHANGED <<vars, serverVars, netVars>>

Main ==
  \/ PrepareCall \/ ConnectCall \/ WaitForConnectionCall \/ SendDataCall
  \/ WaitForDataCall \/ CloseCall \/ DestroyStack

-----------------------------------------------------------------------------
(* The capture thread and the network.  An exception that nobody catches     *)
(* ends the capture thread as well.                                        *)

(* The server's new segments are under way.                                *)
Launch == to_client' = to_client \union (Len(srv_tx) + 1 .. Len(srv_tx'))

Fault(kind) == kind \in Faults /\ faults < MaxFaults /\ faults' = faults + 1

Oldest == CHOOSE i \in to_client : \A j \in to_client : i <= j

(* pcap_next_ex returns a segment and process_packet handles it.  It is the *)
(* oldest one under way, unless the network reorders, and it is gone then,  *)
(* unless the network duplicates.                                          *)
CapturePacket ==
  /\ NextPacket /\ pc # "aborted"
  /\ \E i \in to_client :
       /\ process_packet(srv_tx[i])
       /\ \/ i = Oldest /\ to_client' = to_client \ {i} /\ UNCHANGED faults
          \/ i # Oldest /\ to_client' = to_client \ {i} /\ Fault("reorder")
          \/ i = Oldest /\ UNCHANGED to_client /\ Fault("duplicate")
  /\ UNCHANGED <<serverVars, appVars, to_server>>

(* A segment under way may not have arrived when pcap_next_ex looks.        *)
CaptureStep ==
  /\ pc # "aborted"
  /\ \/ (BeginRound \/ LeaveLoop \/ NoPacket \/ RoundFull) /\ UNCHANGED faults
     \/ CaptureError /\ Fault("pcap_error")
  /\ UNCHANGED <<vars, serverVars, appVars, to_server, to_client>>

ServerStep ==
  /\ \/ /\ to_server < Len(tx)
        /\ ServerReceives(tx[to_server + 1])
        /\ \/ to_server' = to_server + 1 /\ UNCHANGED faults
           \/ UNCHANGED to_server /\ Fault("duplicate")
     \/ Respond(LocalIp) /\ UNCHANGED <<to_server, faults>>
  /\ Launch
  /\ UNCHANGED <<vars, captureVars, appVars>>

ServerTimeout ==
  /\ ServerTimer(LocalIp)
  /\ Elapsed(TRUE)
  /\ Launch
  /\ UNCHANGED <<vars, captureVars, appVars, to_server, faults>>

Lose ==
  /\ Fault("lose")
  /\ \/ to_server < Len(tx) /\ to_server' = to_server + 1 /\ UNCHANGED to_client
     \/ \E i \in to_client : to_client' = to_client \ {i} /\ UNCHANGED to_server
  /\ UNCHANGED <<vars, captureVars, serverVars, appVars>>

ProgramNext ==
  \/ Main \/ CapturePacket \/ CaptureStep
  \/ ServerStep \/ ServerTimeout \/ Lose

(***************************************************************************)
(* Fairness.  Both threads keep running (their loops sleep, they do not      *)
(* block), and the clock advances, so that a wait that keeps looking at it   *)
(* finds the timeout reached: strong fairness, because the wait alternates   *)
(* between looking at the shared state and looking at the clock.            *)
(***************************************************************************)
TimersFire ==
  /\ SF_programVars(RetransmitSyn /\ WaitForConnectionCall)
  /\ SF_programVars(ConnectionTimeout /\ WaitForConnectionCall)
  /\ SF_programVars(DataTimeout /\ WaitForDataCall)

ThreadsRun ==
  WF_programVars(Main) /\ WF_programVars(CaptureStep \/ CapturePacket)

ProgramSpec ==
  ProgramInit /\ [][ProgramNext]_programVars /\ ThreadsRun /\ TimersFire

(* Segments that are not lost arrive, and the server answers.              *)
ConnectedSpec ==
  ProgramSpec /\ SF_programVars(CapturePacket) /\ WF_programVars(ServerStep)

-----------------------------------------------------------------------------
(***************************************************************************)
(* Properties of every run, whatever the network does.                     *)
(***************************************************************************)

(* The program always ends: no timeout, lost or repeated segment, stopped   *)
(* capture thread or silent server keeps a wait or ~TcpStack's join from     *)
(* returning.  Nothing is assumed of the server or the network.             *)
Terminates == <>Ended

(* Once ~TcpStack has closed, no connection is left behind: whichever call   *)
(* timed out and whichever packet came in between, the connection is not     *)
(* SYN_SENT or ESTABLISHED any more, and if it was ever reported as          *)
(* connected a FIN has gone out.                                           *)
NothingLeftOpen ==
  pc \in {"stop", "exited"} =>
    /\ ~InState({"SYN_SENT", "ESTABLISHED"})
    /\ events # <<>> => Sent("FIN")

(* A retransmitted SYN is the SYN again (tcp_stack.cpp:471): whatever the    *)
(* handshake went through, once the client calls the connection established *)
(* and the wire is quiet, the server has a connection and expects the       *)
(* sequence number the request is going to have.  RetransmitSyn takes a new  *)
(* sequence number, so a single loss ends in a reset of the half-open        *)
(* connection and a handshake that agrees; when the new SYN is lost as well, *)
(* the SYN+ACK that answers the old one is taken for its answer.            *)
HandshakeAgrees ==
  Quiet /\ InState({"ESTABLISHED"}) /\ pc \in {"wait_for_connection", "send_data"} =>
    srv.st # "LISTEN" /\ srv.rcv_nxt = current_connection.seq_num

(* The ACK that completes the close is the one for our FIN: when a packet    *)
(* takes the connection from LAST_ACK to CLOSED, the server has the FIN.     *)
FinalAckCoversFin ==
  [][ InState({"LAST_ACK"}) /\ Len(events') > Len(events) => srv.fin ]_programVars

(* One lost segment does not keep a connection from being established: the  *)
(* SYN goes out again until the handshake is through, also when the server   *)
(* resets the half-open connection because the new SYN is not the old one.   *)
HandshakeRecovers ==
  tx # <<>> ~> events # <<>>

-----------------------------------------------------------------------------
(***************************************************************************)
(* Properties of runs on a link that neither loses, duplicates nor reorders, *)
(* with timers that are long against it.                                   *)
(***************************************************************************)

(* What the application has read, followed by what waits for it, is a        *)
(* prefix of what the server sent: nothing lost, repeated or out of order    *)
(* between the wire and response_buffer_.                                   *)
InOrderDelivery ==
  SeqX!IsPrefix(response_buffer \o SeqX!FlattenSeq(data_queue), Response)

(* The bytes accepted on the connection, taken or not.                     *)
Accepted == SeqX!FlattenSeq([i \in DOMAIN rx |-> rx[i].payload])

(* Nothing is acknowledged before it is in the hands of the application or   *)
(* in its queue, as long as the application has not closed: the bytes of    *)
(* the response the server knows acknowledged are among those accepted.     *)
AcknowledgedIsQueued ==
  InState({"ESTABLISHED", "LAST_ACK"}) =>
    srv.acked <= Len(Accepted) \/ (srv.acked > Total /\ Len(Accepted) = Total)

(* Whenever the wire is quiet, both ends agree on both sequence numbers. (A *)
(* FIN that rides on data is not seen by the client.)                      *)
InStep ==
  Quiet /\ InState({"ESTABLISHED"}) =>
    /\ current_connection.seq_num = srv.rcv_nxt
    /\ LET bytes == IF srv.sent <= Total THEN srv.sent ELSE Total
       IN current_connection.ack_num = Plus(ServerIss, bytes + 1)

(* Once the SYN is out the download succeeds: the header of the response     *)
(* arrives, the program ends, and the connection is closed on both sides.   *)
Succeeds ==
  tx # <<>> ~>
    Success /\ report.status_code = 200 /\ InState({"CLOSED"}) /\ srv.fin

(* "Download complete! File saved as" (mytelnet.cpp:149): when the program    *)
(* says so of an answer with status 200, the file holds the answer's body.  *)
DownloadComplete ==
  Success /\ report.status_code = 200 => file = Body(Response)

=============================================================================

---------------------------- MODULE CaptureThread ----------------------------
(***************************************************************************)
(* The life of a TcpStack object: its pcap handle, the capture thread that  *)
(* initialize() starts and that polls the handle, and ~TcpStack, which       *)
(* stops and joins the thread and then closes the handle.                  *)
(*                                                                         *)
(* What the thread does with a packet is process_packet of TcpStack:        *)
(* MyTelnet conjoins it with NextPacket.  should_stop_ is a plain bool that *)
(* both threads write; the loop calls pcap_next_ex between two reads, so    *)
(* the compiler reloads it and a read sees the old or the new value, which  *)
(* is what interleaving the actions gives.                                 *)
(***************************************************************************)
EXTENDS Naturals

CONSTANT MaxPacketsPerLoop   \* max_packets_per_loop: 10 in the program

ASSUME BatchAssumption == MaxPacketsPerLoop \in Nat \ {0}

VARIABLES
  stack,              \* the TcpStack object: constructed .. destroyed
  pcap_handle,        \* "null" or "open"
  should_stop,        \* should_stop_
  capture,            \* where the capture thread is
  packets_processed   \* packets handled in the current round

captureVars == <<stack, pcap_handle, should_stop, capture, packets_processed>>

StackPhase == {"constructed", "ready", "unusable", "stopping", "joined",
               "destroyed"}

CaptureTypeOK ==
  /\ stack \in StackPhase
  /\ pcap_handle \in {"null", "open"}
  /\ should_stop \in BOOLEAN
  /\ capture \in {"not_started", "loop", "batch", "terminated"}
  /\ packets_processed \in 0 .. MaxPacketsPerLoop

CaptureInit ==
  /\ stack = "constructed"
  /\ pcap_handle = "null"
  /\ should_stop = FALSE
  /\ capture = "not_started"
  /\ packets_processed = 0

-----------------------------------------------------------------------------
(* initialize(): the thread starts only when the handle is open and every   *)
(* step before it succeeded.                                               *)
InitializeSucceeds ==
  /\ stack = "constructed"
  /\ stack' = "ready"
  /\ pcap_handle' = "open"
  /\ should_stop' = FALSE
  /\ capture' = "loop"
  /\ UNCHANGED packets_processed

(* pcap_open_live fails, or a later step fails and the handle is closed and *)
(* reset before returning.                                                 *)
InitializeFails ==
  /\ stack = "constructed"
  /\ stack' = "unusable"
  /\ UNCHANGED <<pcap_handle, should_stop, capture, packets_processed>>

(* Mutant of StopCapture: should_stop_ is not set.                         *)
StopUnasked ==
  /\ stack \in {"ready", "unusable"}
  /\ stack' = "stopping"
  /\ UNCHANGED <<pcap_handle, should_stop, capture, packets_processed>>

(* ~TcpStack, after its close_connection(): ask the thread to stop ...     *)
StopCapture ==
  /\ stack \in {"ready", "unusable"}
  /\ stack' = "stopping"
  /\ should_stop' = TRUE
  /\ UNCHANGED <<pcap_handle, capture, packets_processed>>

(* Mutant of JoinCapture: the destructor does not wait.                    *)
JoinNothing ==
  /\ stack = "stopping"
  /\ stack' = "joined"
  /\ UNCHANGED <<pcap_handle, should_stop, capture, packets_processed>>

(* ... wait for it if it was ever started ...                              *)
JoinCapture ==
  /\ stack = "stopping"
  /\ capture \in {"not_started", "terminated"}
  /\ stack' = "joined"
  /\ UNCHANGED <<pcap_handle, should_stop, capture, packets_processed>>

(* ... and close the handle.                                               *)
CloseHandle ==
  /\ stack = "joined"
  /\ stack' = "destroyed"
  /\ pcap_handle' = "null"
  /\ UNCHANGED <<should_stop, capture, packets_processed>>

-----------------------------------------------------------------------------
(* capture_thread_func: should_stop_ is read between rounds only, and a     *)
(* round handles at most max_packets_per_loop packets.                     *)
BeginRound ==
  /\ capture = "loop"
  /\ ~should_stop
  /\ capture' = "batch"
  /\ packets_processed' = 0
  /\ UNCHANGED <<stack, pcap_handle, should_stop>>

LeaveLoop ==
  /\ capture = "loop"
  /\ should_stop
  /\ capture' = "terminated"
  /\ UNCHANGED <<stack, pcap_handle, should_stop, packets_processed>>

(* Mutant of NextPacket: no limit to the packets of a round.               *)
NextPacketUnlimited ==
  /\ capture = "batch"
  /\ packets_processed' = packets_processed + 1
  /\ UNCHANGED <<stack, pcap_handle, should_stop, capture>>

(* pcap_next_ex returns 1: one packet, which also counts when a parser      *)
(* throws or process_packet ignores it.                                    *)
NextPacket ==
  /\ capture = "batch"
  /\ packets_processed < MaxPacketsPerLoop
  /\ packets_processed' = packets_processed + 1
  /\ UNCHANGED <<stack, pcap_handle, should_stop, capture>>

(* pcap_next_ex returns 0: nothing to read in non-blocking mode.           *)
NoPacket ==
  /\ capture = "batch"
  /\ packets_processed < MaxPacketsPerLoop
  /\ capture' = "loop"
  /\ UNCHANGED <<stack, pcap_handle, should_stop, packets_processed>>

RoundFull ==
  /\ capture = "batch"
  /\ packets_processed = MaxPacketsPerLoop
  /\ capture' = "loop"
  /\ UNCHANGED <<stack, pcap_handle, should_stop, packets_processed>>

(* pcap_next_ex returns -1 or -2: the thread stops itself; the application  *)
(* is not told.                                                            *)
CaptureError ==
  /\ capture = "batch"
  /\ packets_processed < MaxPacketsPerLoop
  /\ should_stop' = TRUE
  /\ capture' = "loop"
  /\ UNCHANGED <<stack, pcap_handle, packets_processed>>

-----------------------------------------------------------------------------
Owner == InitializeSucceeds \/ InitializeFails \/ StopCapture \/ JoinCapture
         \/ CloseHandle

Poll == BeginRound \/ LeaveLoop \/ NextPacket \/ NoPacket \/ RoundFull
        \/ CaptureError

CaptureNext == Owner \/ Poll

CaptureSpec == CaptureInit /\ [][CaptureNext]_captureVars
               /\ WF_captureVars(Poll)
               /\ WF_captureVars(JoinCapture \/ CloseHandle)

-----------------------------------------------------------------------------
(* The capture thread only ever polls an open handle, and the handle is     *)
(* closed only when no thread is left: ~TcpStack joins before it closes,    *)
(* also when the thread stopped itself after a pcap error.                 *)
NoPollAfterClose ==
  capture \in {"loop", "batch"} => pcap_handle = "open"

(* Destruction ends even if packets never stop arriving: the thread looks   *)
(* at should_stop_ after at most max_packets_per_loop packets.             *)
DestructionEnds == (stack = "stopping") ~> (stack = "destroyed")
=============================================================================

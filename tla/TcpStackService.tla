--------------------------- MODULE TcpStackService ---------------------------
(***************************************************************************)
(* TcpStack implements TcpService.                                         *)
(***************************************************************************)
EXTENDS TcpStack

PhaseOfState(state) ==
  CASE state = "SYN_SENT"    -> "opening"
    [] state = "ESTABLISHED" -> "open"
    [] state = "CLOSED"      -> "closed"
    [] OTHER                 -> "closing"

PhaseOf(connection) ==
  IF connection = NoConnection THEN "none" ELSE PhaseOfState(connection.state)

(* The payloads that may be queued: an empty one never is.                 *)
Payloads == {seg.payload : seg \in Inbound} \ {<<>>}

Service == INSTANCE TcpService WITH
             Chunk <- Payloads,
             phase <- PhaseOf(current_connection),
             queue <- data_queue,
             reports <- events

(* Whatever order of calls, packets, failed injections and expired timers:   *)
(* a connection opens, is open, closes and is closed in this order, chunks   *)
(* are queued while it is open and taken from the front, and each callback   *)
(* is made with the change it reports and for no other.  Waits, retries,     *)
(* dropped packets and sends are steps the service does not see.            *)
ImplementsService == Service!ServiceSpec

=============================================================================

------------------------------ MODULE TcpService ------------------------------
(***************************************************************************)
(* What TcpStack promises the code above it, without segments, sequence      *)
(* numbers, retries or threads: the life of one connection after another,   *)
(* the chunks received and not yet taken, and the callbacks made.           *)
(*                                                                         *)
(* TcpStack implements this (TcpStackService), HttpClient relies on it       *)
(* (HttpOverTcp).                                                          *)
(***************************************************************************)
EXTENDS Naturals, Sequences

CONSTANT Chunk   \* what may arrive at once

VARIABLES
  phase,     \* of the current connection
  queue,     \* chunks received and not yet taken
  reports    \* the callbacks made for the current connection

serviceVars == <<phase, queue, reports>>

Phase == {"none", "opening", "open", "closing", "closed"}

ServiceInit == phase = "none" /\ queue = <<>> /\ reports = <<>>

(* connect: the previous connection, whatever became of it, is forgotten;   *)
(* what it received is still there to be taken.                            *)
Open ==
  /\ phase' \in {"none", "opening"}
  /\ reports' = <<>>
  /\ UNCHANGED queue

Establish ==
  /\ phase = "opening"
  /\ phase' = "open"
  /\ reports' = Append(reports, "connected")
  /\ UNCHANGED queue

(* Data arrives only while the connection is open, and is reported once.    *)
Receive(chunk) ==
  /\ phase = "open"
  /\ queue' = Append(queue, chunk)
  /\ reports' = Append(reports, "data")
  /\ UNCHANGED phase

Take ==
  /\ queue # <<>>
  /\ queue' = Tail(queue)
  /\ UNCHANGED <<phase, reports>>

(* Either side closes an open connection.                                  *)
Shut ==
  /\ phase = "open"
  /\ phase' = "closing"
  /\ UNCHANGED <<queue, reports>>

(* The close has gone through: it is reported.                             *)
Finish ==
  /\ phase = "closing"
  /\ phase' = "closed"
  /\ reports' = Append(reports, "closed")
  /\ UNCHANGED queue

(* close_connection on a connection that is not open: no report.           *)
Abandon ==
  /\ phase \in {"opening", "closing"}
  /\ phase' = "closed"
  /\ UNCHANGED <<queue, reports>>

ServiceNext ==
  \/ Open \/ Establish \/ Take \/ Shut \/ Finish \/ Abandon
  \/ \E chunk \in Chunk : Receive(chunk)

ServiceSpec == ServiceInit /\ [][ServiceNext]_serviceVars

=============================================================================

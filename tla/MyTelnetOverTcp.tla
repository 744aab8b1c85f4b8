--------------------------- MODULE MyTelnetOverTcp ---------------------------
(***************************************************************************)
(* MyTelnet implements HttpOverTcp on a link without faults: with segments,  *)
(* sequence numbers, both threads, retries and the server's TCP hidden, what *)
(* is left is the application above TcpService and a server whose answer      *)
(* arrives in order, in chunks.                                            *)
(***************************************************************************)
EXTENDS MyTelnet, TcpStackService

CONSTANT ServerAnswer   \* Response, as status line, fields and body

Requested == \E i \in DOMAIN tx : tx[i].payload # <<>>

Over == INSTANCE HttpOverTcp WITH
          Argv     <- {Argv},
          Answer   <- {ServerAnswer},
          MaxQueue <- Len(Response),
          Chunk    <- Seq(Char) \ {<<>>},
          phase    <- PhaseOf(current_connection),
          queue    <- data_queue,
          reports  <- events,
          answer   <- ServerAnswer,
          asked    <- Requested,
          sent     <- Len(Accepted)

ASSUME AnswerAssumption == Over!Serialize(ServerAnswer) = Response

(* Every step of either thread, of the network or of the server is one step  *)
(* of HttpOverTcp or none: the queue grows by the next characters of the     *)
(* answer, the request goes out once and before any of them, a wait returns  *)
(* true only on an open connection, and the connection closes in one of the *)
(* ways TcpService knows, in whichever order the two FINs cross.            *)
ImplementsHttpOverTcp == Over!HttpInit /\ [][Over!HttpNext]_(Over!httpVars)

=============================================================================

------------------------------ MODULE HttpClient ------------------------------
(***************************************************************************)
(* The application thread above TcpStack: main of mytelnet.cpp and the       *)
(* class HttpClient.  Each action is one call into the stack, or into the    *)
(* operating system, together with everything the code does with its        *)
(* result before the next call; the result is the action's parameter.       *)
(*                                                                         *)
(* The actions change the variables of this module only.  HttpOverTcp        *)
(* conjoins them with what TcpStack promises, MyTelnet with TcpStack itself. *)
(***************************************************************************)
EXTENDS CommandLine

CONSTANT OldContent   \* what the local file holds before the program runs

VARIABLES
  pc,                 \* the next call
  target,             \* what main took from the command line
  response_buffer,    \* response_buffer_
  received_complete,  \* of get: its result, and that of download_file
  report,             \* what get printed and passed to the callback
  file                \* the content of the local file

appVars == <<pc, target, response_buffer, received_complete, report, file>>

(* In program order; "aborted" is the end by an exception nobody catches.   *)
Calls == {"arguments", "initialize", "create_file", "connect",
          "wait_for_connection", "send_data", "wait_for_data", "get_close",
          "main_close", "client_close", "stack_close", "stop", "exited",
          "aborted"}

Target0 == ParseArguments(<<>>)
Nothing == Unparsed("incomplete")

ClientTypeOK ==
  /\ pc \in Calls
  /\ target \in [run : BOOLEAN, host : Seq(Char), port : 0 .. PortModulus - 1,
                 path : Seq(Char), local_file : Seq(Char)]
  /\ response_buffer \in Seq(Char)
  /\ received_complete \in BOOLEAN
  /\ received_complete <=> report # Nothing
  /\ file = OldContent \/ file \in Seq(Char)

ClientInit ==
  /\ pc = "arguments"
  /\ target = Target0
  /\ response_buffer = <<>>
  /\ received_complete = FALSE
  /\ report = Nothing
  /\ file = OldContent

Goto(label) == pc' = label

(* Nothing but pc changes.                                                 *)
OnlyPc == UNCHANGED <<target, response_buffer, received_complete, report, file>>

-----------------------------------------------------------------------------
(* Help, a bad port or a missing host end main before it has made a client. *)
ArgumentsGiven(argv) ==
  /\ pc = "arguments"
  /\ target' = ParseArguments(argv)
  /\ Goto(IF target'.run THEN "initialize" ELSE "exited")
  /\ UNCHANGED <<response_buffer, received_complete, report, file>>

Initialized(ok) ==
  /\ pc = "initialize"
  /\ Goto(IF ok THEN "create_file" ELSE "client_close")
  /\ OnlyPc

(* download_file opens the local file, which empties it, before it knows    *)
(* whether there will be anything to put in it.                            *)
FileCreated(ok) ==
  /\ pc = "create_file"
  /\ Goto(IF ok THEN "connect" ELSE "client_close")
  /\ file' = IF ok THEN <<>> ELSE file
  /\ UNCHANGED <<target, response_buffer, received_complete, report>>

(* get.  A failed connect, wait or send ends it without a close of its own. *)
Connected(ok) ==
  /\ pc = "connect"
  /\ Goto(IF ok THEN "wait_for_connection" ELSE "client_close")
  /\ response_buffer' = <<>>
  /\ UNCHANGED <<target, received_complete, report, file>>

ConnectionAwaited(ok) ==
  /\ pc = "wait_for_connection"
  /\ Goto(IF ok THEN "send_data" ELSE "client_close")
  /\ OnlyPc

TheRequest == build_http_request(target.host, target.path)

RequestSent(ok) ==
  /\ pc = "send_data"
  /\ Goto(IF ok THEN "wait_for_data" ELSE "client_close")
  /\ OnlyPc

(* Mutant of FileAfter: the status is not looked at.                       *)
FileAfterAny(response) == file \o response.body

(* The callback of download_file writes the body of a 200 to the file.      *)
FileAfter(response) ==
  IF response.status_code = 200 THEN file \o response.body ELSE file

(* Mutant of BufferAfter: the chunk replaces what was received before.      *)
BufferReplaced(chunk) == chunk

BufferAfter(chunk) == response_buffer \o chunk

(* A chunk arrives: all of the buffer is parsed again.  What the parser     *)
(* accepts is printed and given to the callback, once.                     *)
ChunkReceived(chunk) ==
  /\ pc = "wait_for_data"
  /\ response_buffer' = BufferAfter(chunk)
  /\ \E response \in {parse_http_response[BufferAfter(chunk)]} :
       CASE response.outcome = "parsed" ->
              /\ received_complete' = TRUE
              /\ report' = response
              /\ file' = FileAfter(response)
              /\ Goto("get_close")
         [] response.outcome = "throws" ->
              Goto("aborted") /\ UNCHANGED <<received_complete, report, file>>
         [] OTHER ->
              UNCHANGED <<pc, received_complete, report, file>>
  /\ UNCHANGED target

(* Mutant of ReceiveTimedOut: the loop waits again.                        *)
ReceiveAgain ==
  /\ pc = "wait_for_data"
  /\ Goto("wait_for_data")
  /\ OnlyPc

(* Nothing came within the timeout: the loop ends.                         *)
ReceiveTimedOut ==
  /\ pc = "wait_for_data"
  /\ Goto("get_close")
  /\ OnlyPc

(* get closes; main closes again after a success; ~HttpClient closes, and   *)
(* so does ~TcpStack.  The results are ignored.                            *)
Closed ==
  /\ \E step \in {<<"get_close", IF received_complete THEN "main_close"
                                                     ELSE "client_close">>,
                  <<"main_close", "client_close">>,
                  <<"client_close", "stack_close">>,
                  <<"stack_close", "stop">>} :
       pc = step[1] /\ Goto(step[2])
  /\ OnlyPc

(* The rest of ~TcpStack is done.                                          *)
StackStopped == pc = "stop" /\ Goto("exited") /\ OnlyPc

(* The program ends; main returns 0 for a success.                         *)
Ended == pc \in {"exited", "aborted"}
Success == pc = "exited" /\ received_complete

=============================================================================

-------------------------- MODULE MyTelnetRefinement --------------------------
(***************************************************************************)
(* MyTelnet implements HttpOverTcp, for every response, every way to cut it, *)
(* refused injections and pcap errors, on an orderly link: each step of      *)
(* either thread, of the network or of the server is one step of HttpOverTcp *)
(* or none.                                                                *)
(*                                                                         *)
(* TcpStackProofs says what each operation is to TcpService.  What is left   *)
(* is the data: that the request goes out once, before anything is accepted, *)
(* and that what is accepted next is what the response goes on with, which   *)
(* is in the ledger of MyTelnetDelivery.                                   *)
(***************************************************************************)
EXTENDS MyTelnetDelivery, MyTelnetOverTcp
LOCAL INSTANCE SequenceTheorems
LOCAL INSTANCE FirstOrderInduction

-----------------------------------------------------------------------------
(* The abstract program computes what the program computes.                 *)

LEMMA SameStatus == Over!ParseStatusLine = ParseStatusLine
  BY DEF Over!Found, Found, Over!Before, Before, Over!From, From,
     Over!ParseStatusLine, ParseStatusLine, Over!StoiThrows, StoiThrows,
     Over!Numeral, Numeral, Over!stoi, stoi, Over!Unparsed, Unparsed,
     Cardinality, Over!Cardinality, Over!Min, Min

LEMMA SameHeaders == Over!HeaderMap = HeaderMap
  BY Zenon DEF Over!Found, Found, Over!EOL, EOL, Over!Before, Before, Over!From, From,
     Over!HeaderMap, HeaderMap, Over!FieldLines, FieldLines,
     Over!LowerCase, LowerCase, Over!Trim, Trim, Over!Min, Min, Over!Max, Max

LEMMA SameParser ==
  ASSUME NEW data
  PROVE  Over!parse_http_response[data] = parse_http_response[data]
  BY SameStatus, SameHeaders
     DEF Over!parse_http_response, parse_http_response, Over!HeadersEnd, HeadersEnd,
     Over!Found, Found, Over!EOL, EOL, Over!Unparsed, Unparsed, Over!Before, Before,
     Over!Body, Body, Over!From, From, Over!Min, Min, Over!StatusLine, StatusLine

LEMMA SameWord ==
  ASSUME NEW s, NEW arg
  PROVE  Over!TakeWord(s, arg) = TakeWord(s, arg)
  BY DEF Over!TakeWord, TakeWord, Over!StoiThrows, StoiThrows, Over!Numeral, Numeral,
     Over!stoi, stoi, Over!PortNumber, PortNumber, Over!Rooted, Rooted

LEMMA SameArgument ==
  ASSUME NEW s, NEW arg, NEW isLast
  PROVE  Over!TakeArgument(s, arg, isLast) = TakeArgument(s, arg, isLast)
  BY SameWord DEF Over!TakeArgument, TakeArgument

LEMMA SameName ==
  ASSUME NEW path
  PROVE  Over!LocalName(path) = LocalName(path)
  BY DEF Over!LocalName, LocalName, Over!Found, Found, Over!From, From, Over!Max, Max

LEMMA SameArguments ==
  ASSUME NEW argv
  PROVE  Over!ParseArguments(argv) = ParseArguments(argv)
<1>1. Over!Defaults = Defaults
  BY DEF Over!Defaults, Defaults, Over!DefaultPort, DefaultPort
<1>2. Over!ArgumentsRead(argv) = ArgumentsRead(argv)
  BY <1>1, SameArgument DEF Over!ArgumentsRead, ArgumentsRead
<1> QED
  BY <1>2, SameName DEF Over!ParseArguments, ParseArguments

(* Its steps of main and HttpClient are the program's.                      *)
LEMMA SameCalls ==
  /\ Over!ArgumentsGiven(Argv) <=> ArgumentsGiven(Argv)
  /\ \A ok \in BOOLEAN :
       /\ Over!Initialized(ok) <=> Initialized(ok)
       /\ Over!FileCreated(ok) <=> FileCreated(ok)
       /\ Over!Connected(ok) <=> Connected(ok)
       /\ Over!ConnectionAwaited(ok) <=> ConnectionAwaited(ok)
       /\ Over!RequestSent(ok) <=> RequestSent(ok)
  /\ Over!ReceiveTimedOut <=> ReceiveTimedOut
  /\ Over!Closed <=> Closed
  /\ Over!StackStopped <=> StackStopped
<1>1. Over!ArgumentsGiven(Argv) <=> ArgumentsGiven(Argv)
  BY SameArguments DEF Over!ArgumentsGiven, ArgumentsGiven, Over!Goto, Goto
<1>2. ASSUME NEW ok \in BOOLEAN
      PROVE  /\ Over!Initialized(ok) <=> Initialized(ok)
             /\ Over!FileCreated(ok) <=> FileCreated(ok)
             /\ Over!Connected(ok) <=> Connected(ok)
             /\ Over!ConnectionAwaited(ok) <=> ConnectionAwaited(ok)
             /\ Over!RequestSent(ok) <=> RequestSent(ok)
  BY DEF Over!Initialized, Initialized, Over!FileCreated, FileCreated,
     Over!Connected, Connected, Over!ConnectionAwaited, ConnectionAwaited,
     Over!RequestSent, RequestSent, Over!Goto, Goto, Over!OnlyPc, OnlyPc
<1>3. Over!ReceiveTimedOut <=> ReceiveTimedOut
  BY DEF Over!ReceiveTimedOut, ReceiveTimedOut, Over!Goto, Goto, Over!OnlyPc, OnlyPc
<1>4. Over!Closed <=> Closed
  BY DEF Over!Closed, Closed, Over!Goto, Goto, Over!OnlyPc, OnlyPc
<1>5. Over!StackStopped <=> StackStopped
  BY DEF Over!StackStopped, StackStopped, Over!Goto, Goto, Over!OnlyPc, OnlyPc
<1> QED
  BY <1>1, <1>2, <1>3, <1>4, <1>5

LEMMA SameChunk ==
  ASSUME NEW chunk
  PROVE  Over!ChunkReceived(chunk) <=> ChunkReceived(chunk)
<1>1. Over!BufferAfter(chunk) = BufferAfter(chunk)
  BY DEF Over!BufferAfter, BufferAfter
<1>2. \A response : Over!FileAfter(response) = FileAfter(response)
  BY DEF Over!FileAfter, FileAfter
<1> QED
  BY <1>1, <1>2, SameParser DEF Over!ChunkReceived, ChunkReceived, Over!Goto, Goto

(* Its TCP is the one TcpStack implements, but for the chunks.              *)
LEMMA SameService ==
  /\ Service!Open => Over!Open
  /\ Service!Establish => Over!Establish
  /\ Service!Take => Over!Take
  /\ Service!Shut => Over!Shut
  /\ Service!Finish => Over!Finish
  /\ Service!Abandon => Over!Abandon
  /\ UNCHANGED Service!serviceVars => UNCHANGED Over!serviceVars
  BY DEF Service!Open, Over!Open, Service!Establish, Over!Establish,
     Service!Take, Over!Take, Service!Shut, Over!Shut, Service!Finish, Over!Finish,
     Service!Abandon, Over!Abandon, Service!serviceVars, Over!serviceVars

LEMMA TextIsResponse == Over!Text = Response
  BY AnswerAssumption DEF Over!Text, Over!TextOf

-----------------------------------------------------------------------------
(* The request.                                                            *)

LEMMA JoinsToText ==
  ASSUME NEW s \in Seq(Char), s # <<>>, NEW u \in Seq(Char)
  PROVE  s \o u \in Seq(Char) /\ s \o u # <<>>
<1>1. Len(s) \in Nat \ {0} /\ Len(u) \in Nat
  OBVIOUS
<1>2. s \o u \in Seq(Char) /\ Len(s \o u) = Len(s) + Len(u)
  OBVIOUS
<1> QED
  BY <1>1, <1>2

(* There is always something in it.                                        *)
LEMMA RequestNotEmpty ==
  ASSUME ProgramInvariant
  PROVE  TheRequest \in Seq(Byte) /\ TheRequest # <<>>
<1>1. target.host \in Seq(Char) /\ target.path \in Seq(Char)
  BY DEF ProgramInvariant, AppInvariant, ClientTypeOK
<1> DEFINE path == IF target.path = <<>> THEN <<SLASH>> ELSE target.path
<1>2. <<GET, SP>> \in Seq(Char) /\ <<GET, SP>> # <<>> /\ path \in Seq(Char)
      /\ <<SP, HTTP11>> \in Seq(Char) /\ EOL \in Seq(Char)
      /\ <<HOST, COLON, SP>> \in Seq(Char) /\ FixedHeaders \in Seq(Char)
  BY <1>1, CharAssumption DEF EOL
<1> DEFINE first == <<GET, SP>>
           last == FixedHeaders
<1>3. TheRequest = first \o path \o <<SP, HTTP11>> \o EOL \o <<HOST, COLON, SP>>
                     \o target.host \o EOL \o last \o EOL
  BY DEF TheRequest, build_http_request
<1>4. first \in Seq(Char) /\ first # <<>>
  BY <1>2
<1> HIDE DEF path, first, last
<1> DEFINE t1 == first \o path
           t2 == t1 \o <<SP, HTTP11>>
           t3 == t2 \o EOL
           t4 == t3 \o <<HOST, COLON, SP>>
           t5 == t4 \o target.host
           t6 == t5 \o EOL
           t7 == t6 \o last
           t8 == t7 \o EOL
<1>5. t1 \in Seq(Char) /\ t1 # <<>>
  BY <1>2, <1>4, JoinsToText
<1>6. TheRequest = t8
  BY <1>3
<1> HIDE DEF t1
<1>7. t2 \in Seq(Char) /\ t2 # <<>>
  BY <1>2, <1>5, JoinsToText
<1> HIDE DEF t2
<1>8. t3 \in Seq(Char) /\ t3 # <<>>
  BY <1>2, <1>7, JoinsToText
<1> HIDE DEF t3
<1>9. t4 \in Seq(Char) /\ t4 # <<>>
  BY <1>2, <1>8, JoinsToText
<1> HIDE DEF t4
<1>10. t5 \in Seq(Char) /\ t5 # <<>>
  BY <1>1, <1>9, JoinsToText
<1> HIDE DEF t5
<1>11. t6 \in Seq(Char) /\ t6 # <<>>
  BY <1>2, <1>10, JoinsToText
<1> HIDE DEF t6
<1>12. t7 \in Seq(Char) /\ t7 # <<>>
  BY <1>2, <1>11, JoinsToText DEF last
<1> HIDE DEF t7
<1>13. t8 \in Seq(Char) /\ t8 # <<>>
  BY <1>2, <1>12, JoinsToText
<1> QED
  BY <1>6, <1>13, ProgramAssumption

(* The payloads of a wire.                                                 *)
LEMMA RequestedGrows ==
  ASSUME TypeOK, NEW port, Grows(tx', tx, port, {}), TypeOK'
  PROVE  Requested' <=> Requested
<1>1. tx \in Seq(Segment) /\ tx' \in Seq(Segment) /\ Len(tx) \in Nat /\ Len(tx') \in Nat
      /\ DOMAIN tx = 1 .. Len(tx) /\ DOMAIN tx' = 1 .. Len(tx')
  BY DEF TypeOK
<1>2. Requested => Requested'
  BY <1>1 DEF Requested, Grows, Keeps
<1>3. ASSUME NEW i \in 1 .. Len(tx'), tx'[i].payload # <<>> PROVE Requested
  <2>1. ~(i \in Len(tx) + 1 .. Len(tx'))
    BY <1>3 DEF Grows
  <2>2. i \in 1 .. Len(tx)
    BY <1>1, <2>1
  <2>3. tx'[i] = tx[i]
    BY <2>2 DEF Grows, Keeps
  <2> QED
    BY <1>1, <1>3, <2>2, <2>3 DEF Requested
<1> QED
  BY <1>1, <1>2, <1>3 DEF Requested

(* connect starts an empty wire ...                                        *)
LEMMA ConnectRequests ==
  ASSUME ProgramInvariant, TypeOK', ConnectCall
  PROVE  ~Requested /\ ~Requested'
<1>1. tx = <<>> /\ DOMAIN tx = 1 .. Len(tx)
  BY ConnectIsAny DEF ProgramInvariant, WireInvariant, Lifecycle
<1>2. DOMAIN tx' = 1 .. Len(tx')
  BY DEF TypeOK
<1> QED
  BY <1>1, <1>2, ConnectEnds DEF Requested

(* ... send_data puts the request on it ...                                *)
LEMMA SendRequests ==
  ASSUME ProgramInvariant, TypeOK', SendDataCall
  PROVE  /\ retval' => InState({"ESTABLISHED"}) /\ Requested'
         /\ ~retval' => (Requested' <=> Requested)
         /\ Requested => Requested'
<1>0. tx \in Seq(Segment) /\ tx' \in Seq(Segment) /\ Len(tx) \in Nat /\ DOMAIN tx = 1 .. Len(tx)
      /\ DOMAIN tx' = 1 .. Len(tx')
  BY DEF ProgramInvariant, TypeOK
<1>1. SendData(TheRequest) /\ TheRequest \in Seq(Byte) /\ TheRequest # <<>>
  BY RequestNotEmpty DEF SendDataCall
<1>2. CASE InState({"ESTABLISHED"})
  <2>1. PICK ok \in InjectResults :
          /\ tx' = WireAfter(tx, current_connection, {"PSH", "ACK"}, TheRequest, ok)
          /\ retval' = ok
    BY <1>1, <1>2 DEF SendData
  <2>2. ok \in BOOLEAN /\ current_connection \in Connection
    BY <1>2, StackAssumption DEF ProgramInvariant, TypeOK, InState
  <2>3. CASE ok
    <3> DEFINE seg == SegmentOf(current_connection, {"PSH", "ACK"}, TheRequest)
    <3>1. tx' = Append(tx, seg) /\ seg.payload = TheRequest
      BY <2>1, <2>3 DEF WireAfter, SegmentOf
    <3>2. seg \in Segment
      BY <1>1, <2>2, SentFlags, SegmentOfType
    <3> HIDE DEF seg
    <3>3. /\ Len(tx') = Len(tx) + 1 /\ tx'[Len(tx')] = seg
          /\ \A i \in 1 .. Len(tx) : tx'[i] = tx[i]
      BY <1>0, <3>1, <3>2, AppendFacts
    <3>4. Requested'
      BY <1>0, <1>1, <3>1, <3>3 DEF Requested
    <3> QED
      BY <1>2, <2>1, <2>3, <3>4
  <2>4. CASE ~ok
    <3>1. UNCHANGED tx
      BY <2>1, <2>4 DEF WireAfter
    <3>2. Requested' <=> Requested
      BY <3>1 DEF Requested
    <3> QED
      BY <2>1, <2>4, <3>2
  <2> QED
    BY <2>2, <2>3, <2>4
<1>3. CASE ~InState({"ESTABLISHED"})
  <2>1. retval' = FALSE /\ UNCHANGED tx
    BY <1>1, <1>3 DEF SendData
  <2> QED
    BY <2>1 DEF Requested
<1> QED
  BY <1>2, <1>3

(* ... and nothing else puts data on it.                                   *)
LEMMA NothingRequests ==
  ASSUME ProgramInvariant, TypeOK', ProgramNext, ~ConnectCall, ~SendDataCall
  PROVE  Requested' <=> Requested
<1>0. TypeOK
  BY DEF ProgramInvariant
<1>1. CASE WaitForConnectionCall \/ WaitForDataCall
  <2>1. Waiting
    BY <1>1 DEF WaitForConnectionCall, WaitForDataCall, Waiting
  <2> QED
    BY <1>0, <2>1, CallGrowsWire, RequestedGrows
<1>2. CASE CloseCall
  BY <1>0, <1>2, CallGrowsWire, RequestedGrows DEF CloseCall
<1>3. CASE CapturePacket
  <2>1. PICK i \in to_client : process_packet(srv_tx[i])
    BY <1>3 DEF CapturePacket
  <2>2. srv_tx[i] \in Segment
    BY DEF ProgramInvariant, ServerTypeOK, NetworkTypeOK
  <2> QED
    BY <1>0, <2>1, <2>2, PacketGrowsWire, RequestedGrows
<1>4. CASE UNCHANGED vars
  BY <1>4 DEF vars, Requested
<1>5. CASE PrepareCall \/ DestroyStack \/ CaptureStep \/ ServerStep \/ ServerTimeout \/ Lose
  BY <1>4, <1>5 DEF PrepareCall, DestroyStack, CaptureStep, ServerStep, ServerTimeout, Lose
<1> QED
  BY <1>1, <1>2, <1>3, <1>5 DEF ProgramNext, Main

-----------------------------------------------------------------------------
(* The invariant.                                                          *)

(* The server knows the request only if it was sent, which happens in one    *)
(* place of the program; no chunk is empty; and the capture thread is gone   *)
(* when main has returned.                                                 *)
AfterRequest == {"wait_for_data", "get_close", "main_close", "client_close",
                 "stack_close", "stop", "exited", "aborted"}

RequestOnce ==
  /\ srv.request => Requested
  /\ Requested => pc \in AfterRequest

NoEmptyChunk == \A i \in 1 .. Len(data_queue) : data_queue[i] # <<>>

StackOfMain ==
  /\ pc \in {"arguments", "initialize"} => stack = "constructed"
  /\ pc = "exited" => stack \in {"constructed", "destroyed"}

RunInvariant == RequestOnce /\ NoEmptyChunk /\ StackOfMain

LEMMA InitRun == ProgramInit => RunInvariant
<1> SUFFICES ASSUME ProgramInit PROVE RunInvariant
  OBVIOUS
<1>1. /\ tx = <<>> /\ data_queue = <<>> /\ Len(data_queue) = 0 /\ DOMAIN tx = {}
      /\ pc = "arguments" /\ stack = "constructed" /\ ~srv.request
  BY DEF ProgramInit, Init, ClientInit, CaptureInit, ServerInit
<1> QED
  BY <1>1 DEF RunInvariant, RequestOnce, NoEmptyChunk, StackOfMain, Requested

(* After the request main only goes on to the end.                          *)
LEMMA AppGoesOn ==
  ASSUME [AppStep]_appVars, pc \in AfterRequest
  PROVE  pc' \in AfterRequest
<1>1. CASE \E chunk \in Seq(Char) : ChunkReceived(chunk)
  <2>1. PICK chunk \in Seq(Char) : ChunkReceived(chunk)
    BY <1>1
  <2>2. pc' \in {"get_close", "aborted"} \/ pc' = pc
    BY <2>1 DEF ChunkReceived, Goto
  <2> QED
    BY <2>2 DEF AfterRequest
<1>2. CASE Closed
  BY <1>2 DEF Closed, Goto, AfterRequest
<1> QED
  BY <1>1, <1>2 DEF AppStep, appVars, AfterRequest, ArgumentsGiven, Initialized,
     FileCreated, Connected, ConnectionAwaited, RequestSent, ReceiveTimedOut,
     StackStopped, Goto

LEMMA StepRequestOnce ==
  ASSUME OrderlyLink, ProgramInvariant, TypeOK', OrderInvariant, RequestOnce,
         [ProgramNext]_programVars
  PROVE  RequestOnce'
<1>0. Asked /\ Ends
  BY DEF OrderInvariant
<1>1. CASE UNCHANGED programVars
  BY <1>1 DEF programVars, vars, serverVars, appVars, RequestOnce, Requested
<1>2. CASE ConnectCall
  <2>1. ~Requested' /\ current_connection = NoConnection /\ UNCHANGED srv
    BY <1>2, ConnectRequests, ConnectIsAny DEF ConnectCall, Unseen, serverVars
  <2>2. ~srv.request
    BY <1>0, <2>1 DEF Asked, Begun
  <2> QED
    BY <2>1, <2>2 DEF RequestOnce
<1>3. CASE SendDataCall
  <2>1. UNCHANGED srv /\ pc' \in AfterRequest
    BY <1>3 DEF SendDataCall, Unseen, serverVars, RequestSent, Goto, AfterRequest
  <2>2. Requested => Requested'
    BY <1>3, SendRequests
  <2> QED
    BY <2>1, <2>2 DEF RequestOnce
<1>4. CASE ProgramNext /\ ~ConnectCall /\ ~SendDataCall
  <2>1. Requested' <=> Requested
    BY <1>4, NothingRequests
  <2>2. srv'.request => srv.request \/ Requested'
    <3>1. CASE ServerStep
      <4>1. srv'.request => srv.request \/ \E i \in 1 .. Len(tx) : tx[i].payload # <<>>
        BY <1>0, <3>1, ServerTurn
      <4>2. DOMAIN tx = 1 .. Len(tx)
        BY DEF ProgramInvariant, TypeOK
      <4> QED
        BY <2>1, <4>1, <4>2 DEF Requested
    <3>2. CASE ~ServerStep
      BY <1>4, <3>2, ServerSilent DEF serverVars
    <3> QED
      BY <3>1, <3>2
  <2>3. pc \in AfterRequest => pc' \in AfterRequest
    BY <1>4, ProgramIsApp, AppGoesOn
  <2> QED
    BY <2>1, <2>2, <2>3 DEF RequestOnce
<1> QED
  BY <1>1, <1>2, <1>3, <1>4

LEMMA StepNoEmptyChunk ==
  ASSUME ProgramInvariant, NoEmptyChunk, [ProgramNext]_programVars
  PROVE  NoEmptyChunk'
<1>0. data_queue \in Seq(Seq(Byte)) /\ TypeOK /\ Lifecycle
  BY DEF ProgramInvariant, TypeOK, WireInvariant
<1>1. CASE UNCHANGED data_queue
  BY <1>1 DEF NoEmptyChunk
<1>2. CASE ConnectCall
  <2>1. UNCHANGED data_queue
    BY <1>2 DEF ConnectCall, Connect, ConnectFilterFails
  <2> QED
    BY <1>1, <2>1
<1>3. CASE ProgramNext /\ ~ConnectCall
  <2>1. Continued(Segment)
    BY <1>0, <1>3, ProgramIsLater, StepContinues
  <2>2. CASE Removed
    <3>1. data_queue # <<>> /\ data_queue' = Tail(data_queue)
      BY <2>2 DEF Removed
    <3>2. /\ Len(data_queue') = Len(data_queue) - 1 /\ Len(data_queue) \in Nat
          /\ \A i \in 1 .. Len(data_queue) - 1 : data_queue'[i] = data_queue[i + 1]
      BY <1>0, <3>1
    <3>3. \A i \in 1 .. Len(data_queue) - 1 : i + 1 \in 1 .. Len(data_queue)
      BY <3>2
    <3> QED
      BY <3>2, <3>3 DEF NoEmptyChunk
  <2>3. CASE \E seg \in Segment : Queued(seg)
    <3>1. PICK seg \in Segment : Queued(seg)
      BY <2>3
    <3>2. /\ data_queue' = Append(data_queue, seg.payload) /\ seg.payload # <<>>
          /\ seg.payload \in Seq(Byte)
      BY <3>1, SegmentFields DEF Queued, IsData
    <3>3. /\ Len(data_queue') = Len(data_queue) + 1 /\ Len(data_queue) \in Nat
          /\ data_queue'[Len(data_queue) + 1] = seg.payload
          /\ \A i \in 1 .. Len(data_queue) : data_queue'[i] = data_queue[i]
      BY <1>0, <3>2, AppendProperties
    <3>4. ASSUME NEW i \in 1 .. Len(data_queue') PROVE data_queue'[i] # <<>>
      <4>1. i \in 1 .. Len(data_queue) \/ i = Len(data_queue) + 1
        BY <3>3
      <4> QED
        BY <3>2, <3>3, <4>1 DEF NoEmptyChunk
    <3> QED
      BY <3>4 DEF NoEmptyChunk
  <2>4. ~Removed /\ ~(\E seg \in Segment : Queued(seg)) => UNCHANGED data_queue
    BY <2>1 DEF Continued, Unaffected, Sending, Confirmed, Closing, Completed,
       GivenUp, Silent
  <2> QED
    BY <1>1, <2>2, <2>3, <2>4
<1> QED
  BY <1>1, <1>2, <1>3 DEF programVars, vars

LEMMA StepStackOfMain ==
  ASSUME StackOfMain, [ProgramNext]_programVars
  PROVE  StackOfMain'
<1>1. ASSUME UNCHANGED stack,
             pc' = pc \/ pc' \notin {"arguments", "initialize", "exited"}
      PROVE  StackOfMain'
  BY <1>1 DEF StackOfMain
<1>2. CASE PrepareCall
  <2>1. CASE ArgumentsGiven(Argv) /\ UNCHANGED captureVars
    BY <2>1 DEF ArgumentsGiven, Goto, captureVars, StackOfMain
  <2>2. CASE Initialized(TRUE) \/ Initialized(FALSE)
    BY <2>2 DEF Initialized, Goto, StackOfMain
  <2>3. CASE \E ok \in BOOLEAN : FileCreated(ok)
    BY <2>3 DEF FileCreated, Goto, StackOfMain
  <2> QED
    BY <1>2, <2>1, <2>2, <2>3 DEF PrepareCall
<1>3. CASE DestroyStack
  <2>1. pc = "stop"
    BY <1>3 DEF DestroyStack
  <2>2. pc' = pc \/ (pc' = "exited" /\ stack' = "destroyed")
    BY <1>3 DEF DestroyStack, appVars, CloseHandle, StackStopped, Goto
  <2> QED
    BY <2>1, <2>2 DEF StackOfMain
<1>4. CASE ConnectCall \/ WaitForConnectionCall \/ SendDataCall \/ WaitForDataCall \/ CloseCall
  <2>1. UNCHANGED stack
    BY <1>4 DEF ConnectCall, WaitForConnectionCall, SendDataCall, WaitForDataCall,
       CloseCall, Unseen, captureVars
  <2>2. CASE ConnectCall
    BY <1>1, <2>1, <2>2 DEF ConnectCall, Connected, Goto
  <2>3. CASE WaitForConnectionCall
    BY <1>1, <2>1, <2>3 DEF WaitForConnectionCall, ConnectionAwaited, Goto, appVars
  <2>4. CASE SendDataCall
    BY <1>1, <2>1, <2>4 DEF SendDataCall, RequestSent, Goto
  <2>5. CASE WaitForDataCall
    <3>1. CASE ChunkReceived(Head(data_queue))
      <4>1. pc' \in {"get_close", "aborted"} \/ pc' = pc
        BY <3>1 DEF ChunkReceived, Goto
      <4> QED
        BY <1>1, <2>1, <4>1
    <3> QED
      BY <1>1, <2>1, <2>5, <3>1 DEF WaitForDataCall, ReceiveTimedOut, Goto, appVars
  <2>6. CASE CloseCall
    BY <1>1, <2>1, <2>6 DEF CloseCall, Closed, Goto
  <2> QED
    BY <1>4, <2>2, <2>3, <2>4, <2>5, <2>6
<1>5. CASE CapturePacket \/ CaptureStep \/ ServerStep \/ ServerTimeout \/ Lose
  <2>1. UNCHANGED <<pc, stack>>
    BY <1>5 DEF CapturePacket, NextPacket, CaptureStep, BeginRound, LeaveLoop,
       NoPacket, RoundFull, CaptureError, ServerStep, ServerTimeout, Lose,
       appVars, captureVars
  <2> QED
    BY <1>1, <2>1
<1>6. CASE UNCHANGED programVars
  BY <1>1, <1>6 DEF programVars, appVars, captureVars
<1> QED
  BY <1>2, <1>3, <1>4, <1>5, <1>6 DEF ProgramNext, Main

LEMMA StepRun ==
  ASSUME OrderlyLink, ProgramInvariant, TypeOK', OrderInvariant, RunInvariant,
         [ProgramNext]_programVars
  PROVE  RunInvariant'
  BY StepRequestOnce, StepNoEmptyChunk, StepStackOfMain DEF RunInvariant

-----------------------------------------------------------------------------
(* What has been accepted.                                                 *)

LEMMA LengthOfPieces ==
  ASSUME NEW s \in Seq(Seq(Byte)), NEW b \in 0 .. Total, Pieces(s, 0, b)
  PROVE  Len(SeqX!FlattenSeq(s)) = b
<1>1. SeqX!FlattenSeq(s) = SubSeq(Response, 0 + 1, b)
  BY PiecesFlatten
<1>2. 0 \in 0 .. Total /\ b \in 0 .. Total /\ Total \in Nat
  BY TotalIsEnd
<1>3. Len(SubSeq(Response, 0 + 1, b)) = b - 0
  BY <1>2, TextPart
<1> QED
  BY <1>1, <1>2, <1>3

(* As many pieces as there are, at least, when none is empty.               *)
LEMMA ManyPieces ==
  ASSUME NEW s \in Seq(Seq(Byte)), NEW a \in 0 .. Total, NEW b \in 0 .. Total,
         Pieces(s, a, b), \A i \in 1 .. Len(s) : s[i] # <<>>
  PROVE  Len(s) <= Total
<1> DEFINE n == Len(s)
<1>0. n \in Nat /\ Total \in Nat
  BY TotalIsEnd
<1>1. PICK p \in [0 .. n -> 0 .. Total] :
        /\ p[0] = a /\ p[n] = b
        /\ \A i \in 1 .. n : /\ p[i - 1] <= p[i]
                             /\ s[i] = SubSeq(Response, p[i - 1] + 1, p[i])
  BY DEF Pieces
<1> DEFINE Far == {i \in 0 .. n : p[i] >= i}
<1> HIDE DEF n
<1>2. 0 \in Far
  BY <1>0, <1>1
<1>3. ASSUME NEW i \in 0 .. n - 1, i \in Far PROVE i + 1 \in Far
  <2>1. i + 1 \in 1 .. n /\ (i + 1) - 1 = i /\ i \in 0 .. n /\ i + 1 \in 0 .. n
    BY <1>0
  <2>2. p[i] <= p[i + 1] /\ s[i + 1] = SubSeq(Response, p[i] + 1, p[i + 1])
    BY <1>1, <2>1
  <2>3. p[i] \in 0 .. Total /\ p[i + 1] \in 0 .. Total
    BY <1>1, <2>1
  <2>4. p[i] # p[i + 1]
    <3>1. SUFFICES ASSUME p[i] = p[i + 1] PROVE FALSE
      OBVIOUS
    <3>2. p[i] \in p[i] .. Total
      BY <1>0, <2>3
    <3>3. SubSeq(Response, p[i] + 1, p[i]) = <<>>
      BY <2>3, <3>2, TextPart
    <3> QED
      BY <2>1, <2>2, <3>1, <3>3 DEF n
  <2>5. p[i] >= i
    BY <1>3
  <2>6. p[i + 1] >= i + 1
    <3>1. \A x, y, j \in Int : j <= x /\ x <= y /\ x # y => y >= j + 1
      OBVIOUS
    <3>2. p[i] \in Int /\ p[i + 1] \in Int /\ i \in Int /\ i <= p[i]
      BY <1>0, <2>3, <2>5
    <3> QED
      BY <2>2, <2>4, <3>1, <3>2
  <2> QED
    BY <2>1, <2>6
<1> HIDE DEF Far
<1>4. 0 .. n \subseteq Far
  BY <1>0, <1>2, <1>3, Induction
<1>5. n \in 0 .. n /\ p[n] \in 0 .. Total
  BY <1>0, <1>1
<1>6. p[n] >= n
  BY <1>4, <1>5 DEF Far
<1> QED
  BY <1>0, <1>5, <1>6 DEF n

(* There are fewer chunks than characters, in the queue as well.            *)
LEMMA QueueShort ==
  ASSUME TypeOK', OrderInvariant', RunInvariant'
  PROVE  Len(data_queue') <= Total
<1>1. PICK a \in 0 .. Total, b \in 0 .. Total : Pieces(data_queue', a, b)
  <2>1. PICK k \in 0 .. Len(srv_tx'), a \in 0 .. Total, b \in 0 .. Total :
          StreamAt(k, a, b)'
    BY DEF OrderInvariant, Stream, Total
  <2>2. Pieces(data_queue, a, b)'
    BY <2>1 DEF StreamAt
  <2> QED
    BY <2>2 DEF Pieces, Total
<1>2. data_queue' \in Seq(Seq(Byte))
  BY DEF TypeOK
<1>3. \A i \in 1 .. Len(data_queue') : data_queue'[i] # <<>>
  BY DEF RunInvariant, NoEmptyChunk
<1> QED
  BY <1>1, <1>2, <1>3, ManyPieces

-----------------------------------------------------------------------------
(* The steps.                                                              *)

(* What the server's side of HttpOverTcp sees is kept.                      *)
LEMMA OriginKept ==
  ASSUME UNCHANGED rx, Requested' <=> Requested
  PROVE  UNCHANGED Over!originVars
<1>1. UNCHANGED Accepted
  BY DEF Accepted
<1>2. UNCHANGED Requested
  BY DEF Requested
<1> QED
  BY <1>1, <1>2 DEF Over!originVars

LEMMA ServiceKept ==
  ASSUME UNCHANGED <<current_connection, data_queue, events>>
  PROVE  UNCHANGED Over!serviceVars
  BY DEF Over!serviceVars, PhaseOf

LEMMA AppKept == UNCHANGED appVars <=> UNCHANGED Over!appVars
  BY DEF appVars, Over!appVars

(* Steps that HttpOverTcp does not see.                                    *)
LEMMA NotSeen ==
  ASSUME UNCHANGED appVars, UNCHANGED Over!serviceVars, UNCHANGED Over!originVars
  PROVE  UNCHANGED Over!httpVars
  BY AppKept DEF Over!httpVars

LEMMA StackUntouched ==
  ASSUME UNCHANGED vars
  PROVE  UNCHANGED Over!serviceVars /\ UNCHANGED Over!originVars
<1>1. Requested' <=> Requested
  BY DEF vars, Requested
<1> QED
  BY <1>1, ServiceKept, OriginKept DEF vars

(* The phase tells an established connection.                               *)
LEMMA OpenIsEstablished ==
  InState({"ESTABLISHED"}) => PhaseOf(current_connection) = "open"
  BY PhaseNow, PhasesOfStates DEF InState

LEMMA InitRefines == ProgramInit => Over!HttpInit
<1> SUFFICES ASSUME ProgramInit PROVE Over!HttpInit
  OBVIOUS
<1>0. /\ tx = <<>> /\ rx = <<>> /\ DOMAIN tx = {} /\ 0 \in 0 .. Total
      /\ Chunks = <<>> /\ <<>> \in Seq(Seq(Byte))
  BY TotalIsEnd DEF ProgramInit, Init, Chunks
<1>1. Over!ClientInit
  BY SameArguments DEF ProgramInit, ClientInit, Over!ClientInit, Over!Target0, Target0,
     Over!Nothing, Nothing, Over!Unparsed, Unparsed
<1>2. Over!ServiceInit
  BY DEF ProgramInit, Init, Over!ServiceInit, PhaseOf
<1>3. Requested = FALSE
  BY <1>0 DEF Requested
<1>4. Len(Accepted) = 0
  <2>1. Len(SeqX!FlattenSeq(Chunks)) = 0
    BY <1>0, NoPieces, LengthOfPieces
  <2> QED
    BY <2>1 DEF Accepted, Chunks
<1> QED
  BY <1>1, <1>2, <1>3, <1>4 DEF Over!HttpInit

(* Before there is a connection.                                           *)
LEMMA PrepareRefines ==
  ASSUME PrepareCall
  PROVE  Over!HttpNext
<1>1. UNCHANGED Over!serviceVars /\ UNCHANGED Over!originVars
  BY StackUntouched DEF PrepareCall
<1>2. CASE ArgumentsGiven(Argv)
  BY <1>1, <1>2, SameCalls DEF Over!HttpNext, Over!Main, Over!ArgumentsCall
<1>3. CASE Initialized(TRUE) \/ Initialized(FALSE)
  BY <1>1, <1>3, SameCalls DEF Over!HttpNext, Over!Main, Over!InitializeCall
<1>4. CASE \E ok \in BOOLEAN : FileCreated(ok)
  BY <1>1, <1>4, SameCalls DEF Over!HttpNext, Over!Main, Over!CreateFileCall
<1> QED
  BY <1>2, <1>3, <1>4 DEF PrepareCall

LEMMA ConnectRefines ==
  ASSUME ProgramInvariant, TypeOK', ConnectCall
  PROVE  Over!HttpNext
<1>1. current_connection = NoConnection /\ rx = <<>>
  BY ConnectIsAny DEF ProgramInvariant, WireInvariant, Lifecycle
<1>2. ~Requested /\ ~Requested' /\ retval' \in BOOLEAN /\ Connected(retval')
  BY ConnectRequests DEF TypeOK, ConnectCall
<1>3. CASE ConnectFilterFails
  <2>1. UNCHANGED connVars /\ UNCHANGED data_queue /\ retval' = FALSE
    BY <1>3 DEF ConnectFilterFails
  <2>2. UNCHANGED Over!serviceVars /\ UNCHANGED Over!originVars
    BY <1>2, <2>1, ServiceKept, OriginKept DEF connVars
  <2>3. (PhaseOf(current_connection)' = "opening") = FALSE
    BY <1>1, <2>1 DEF connVars, PhaseOf
  <2>4. Over!Connected(FALSE)
    BY <1>2, <2>1, SameCalls
  <2>5. Over!ConnectCall
    BY <2>2, <2>3, <2>4 DEF Over!ConnectCall
  <2> QED
    BY <2>5 DEF Over!HttpNext, Over!Main
<1>4. ASSUME NEW iss \in InitialSeq, Connect(<<ServerIp, ServerPort>>, LocalPort, iss)
      PROVE  Over!HttpNext
  <2>1. Renewed
    BY <1>4, ConnectKind, ServerAssumption, ProgramAssumption, StackAssumption
  <2>2. Over!Open
    BY <2>1, RenewedServes, SameService
  <2>3. UNCHANGED Over!originVars
    BY <1>1, <1>2, <2>1, OriginKept DEF Renewed
  <2>4. PICK ok \in InjectResults :
          /\ current_connection' = NoConnection <=> ~ok
          /\ retval' = ok
    <3> DEFINE c == [local_port |-> LocalPort,  remote_ip |-> ServerIp,
                     remote_port |-> ServerPort,  seq_num |-> iss,  ack_num |-> 0,
                     state |-> "CLOSED"]
               d == [AfterSend(c, {"SYN"}, <<>>, TRUE) EXCEPT !.state = "SYN_SENT"]
    <3>1. PICK ok \in InjectResults :
            /\ current_connection' =
                 IF ok
                 THEN [AfterSend(c, {"SYN"}, <<>>, ok) EXCEPT !.state = "SYN_SENT"]
                 ELSE NoConnection
            /\ retval' = ok
      BY <1>4 DEF Connect
    <3>2. ok \in BOOLEAN
      BY StackAssumption
    <3>3. d # NoConnection
      <4>1. iss \in SeqNum /\ 0 \in SeqNum /\ "CLOSED" \in TcpState /\ "SYN_SENT" \in TcpState
        BY StackAssumption, SeqModAssumption DEF SeqNum, TcpState
      <4>2. c \in Connection
        BY <4>1, ServerAssumption, ProgramAssumption DEF Connection
      <4> HIDE DEF c
      <4>3. AfterSend(c, {"SYN"}, <<>>, TRUE) \in Connection
        BY <4>2, SentFlags, AfterSendType
      <4>4. d \in Connection
        BY <4>1, <4>3 DEF Connection
      <4> QED
        BY <4>4, StackAssumption
    <3> HIDE DEF c
    <3>4. ok => current_connection' = d
      BY <3>1, <3>2
    <3> HIDE DEF d
    <3> QED
      BY <3>1, <3>2, <3>3, <3>4
  <2>5. (PhaseOf(current_connection)' = "opening") = retval'
    <3>1. CASE current_connection' = NoConnection
      BY <1>2, <2>4, <3>1 DEF PhaseOf
    <3>2. CASE current_connection' # NoConnection
      <4>1. PhaseOf(current_connection)' = "opening"
        BY <2>1, <3>2, PhaseNext, PhasesOfStates DEF Renewed
      <4> QED
        BY <1>2, <2>4, <3>2, <4>1
    <3> QED
      BY <3>1, <3>2
  <2>6. Over!Connected(retval')
    BY <1>2, SameCalls
  <2>7. Over!ConnectCall
    BY <2>2, <2>3, <2>5, <2>6 DEF Over!ConnectCall
  <2> QED
    BY <2>7 DEF Over!HttpNext, Over!Main
<1> QED
  BY <1>3, <1>4 DEF ConnectCall

(* The calls into a connection keep the server's side ...                  *)
LEMMA CallOrigin ==
  ASSUME ProgramInvariant, TypeOK',
         WaitForConnectionCall \/ WaitForDataCall \/ CloseCall
  PROVE  UNCHANGED Over!originVars
<1>1. ProgramNext /\ ~ConnectCall /\ ~SendDataCall
  <2>1. Closed => pc \notin {"connect", "send_data"}
    <3>1. SUFFICES ASSUME Closed PROVE pc \notin {"connect", "send_data"}
      OBVIOUS
    <3>2. PICK step \in {<<"get_close", IF received_complete THEN "main_close"
                                                            ELSE "client_close">>,
                         <<"main_close", "client_close">>,
                         <<"client_close", "stack_close">>,
                         <<"stack_close", "stop">>} : pc = step[1]
      BY <3>1 DEF Closed
    <3> QED
      BY <3>2
  <2>2. pc \notin {"connect", "send_data"}
    BY <2>1 DEF WaitForConnectionCall, WaitForDataCall, CloseCall
  <2> QED
    BY <2>2 DEF ProgramNext, Main, ConnectCall, SendDataCall
<1>2. Requested' <=> Requested
  BY <1>1, NothingRequests
<1>3. CloseConnection \/ Waiting
  BY DEF WaitForConnectionCall, WaitForDataCall, CloseCall, Waiting
<1>4. UNCHANGED rx
  BY <1>3, CallAcknowledges DEF ProgramInvariant
<1> QED
  BY <1>2, <1>4, OriginKept

(* ... and the service, as long as nothing is taken.                        *)
LEMMA CallUnseen ==
  ASSUME Unaffected \/ Removed \/ Sending, UNCHANGED data_queue
  PROVE  UNCHANGED Over!serviceVars
<1>1. CASE Unaffected \/ Sending
  BY <1>1, UnseenServes, SameService
<1>2. CASE Removed
  BY <1>2, ServiceKept DEF Removed, connVars
<1> QED
  BY <1>1, <1>2

(* wait_for_connection returns true only on an open connection.             *)
LEMMA WaitForConnectionRefines ==
  ASSUME ProgramInvariant, TypeOK', WaitForConnectionCall
  PROVE  [Over!HttpNext]_(Over!httpVars)
<1>1. UNCHANGED Over!originVars
  BY CallOrigin
<1>2. UNCHANGED Over!serviceVars
  <2>1. Waiting /\ UNCHANGED data_queue
    BY DEF WaitForConnectionCall, Waiting, WaitForConnection, ConnectionPending,
       KeepWaitingForConnection, RetransmitSyn, ConnectionEstablished, ConnectionTimeout
  <2>2. Unaffected \/ Removed \/ Sending
    BY <2>1, WaitingKind DEF ProgramInvariant
  <2> QED
    BY <2>1, <2>2, CallUnseen
<1>3. CASE UNCHANGED appVars
  BY <1>1, <1>2, <1>3, NotSeen
<1>4. CASE ConnectionEstablished /\ ConnectionAwaited(TRUE)
  <2>1. PhaseOf(current_connection) = "open"
    BY <1>4, OpenIsEstablished DEF ConnectionEstablished
  <2>2. Over!ConnectionAwaited(TRUE)
    BY <1>4, SameCalls
  <2>3. Over!WaitForConnectionCall
    BY <1>1, <1>2, <2>1, <2>2 DEF Over!WaitForConnectionCall
  <2> QED
    BY <2>3 DEF Over!HttpNext, Over!Main
<1>5. CASE ConnectionTimeout /\ ConnectionAwaited(FALSE)
  <2>1. Over!ConnectionAwaited(FALSE)
    BY <1>5, SameCalls
  <2>2. Over!WaitForConnectionCall
    BY <1>1, <1>2, <2>1 DEF Over!WaitForConnectionCall
  <2> QED
    BY <2>2 DEF Over!HttpNext, Over!Main
<1> QED
  BY <1>3, <1>4, <1>5 DEF WaitForConnectionCall

(* send_data asks if it returns true.                                      *)
LEMMA SendDataRefines ==
  ASSUME ProgramInvariant, TypeOK', RequestOnce, SendDataCall
  PROVE  Over!HttpNext
<1>1. /\ pc = "send_data" /\ SendData(TheRequest) /\ RequestSent(retval')
      /\ TheRequest \in Seq(Byte) /\ TypeOK /\ retval' \in BOOLEAN
  BY RequestNotEmpty DEF SendDataCall, ProgramInvariant, TypeOK
<1>2. UNCHANGED Over!serviceVars
  BY <1>1, SendDataKind, CallUnseen DEF SendData
<1>3. UNCHANGED Len(Accepted)
  <2>1. UNCHANGED rx
    BY <1>1 DEF SendData
  <2> QED
    BY <2>1 DEF Accepted
<1>4. ~Requested
  BY <1>1 DEF RequestOnce, AfterRequest
<1>5. retval' => PhaseOf(current_connection) = "open"
  BY SendRequests, OpenIsEstablished
<1>6. Requested' = retval'
  <2>1. Requested' \in BOOLEAN /\ (Requested' <=> retval')
    BY <1>4, SendRequests DEF Requested
  <2> QED
    BY <1>1, <2>1
<1>7. Over!RequestSent(retval')
  BY <1>1, SameCalls
<1>8. Over!SendDataCall
  BY <1>1, <1>2, <1>3, <1>5, <1>6, <1>7 DEF Over!SendDataCall
<1> QED
  BY <1>8 DEF Over!HttpNext, Over!Main

(* wait_for_data takes a chunk, the oldest one, or times out.               *)
LEMMA WaitForDataRefines ==
  ASSUME ProgramInvariant, TypeOK', WaitForDataCall
  PROVE  [Over!HttpNext]_(Over!httpVars)
<1>1. UNCHANGED Over!originVars
  BY CallOrigin
<1>2. Waiting
  BY DEF WaitForDataCall, Waiting
<1>3. ASSUME UNCHANGED data_queue PROVE UNCHANGED Over!serviceVars
  BY <1>2, <1>3, WaitingKind, CallUnseen DEF ProgramInvariant
<1>4. CASE (WaitForData \/ NoDataYet \/ KeepWaitingForData) /\ UNCHANGED appVars
  <2>1. UNCHANGED Over!serviceVars
    BY <1>3, <1>4 DEF WaitForData, NoDataYet, KeepWaitingForData
  <2> QED
    BY <1>1, <1>4, <2>1, NotSeen
<1>5. CASE TakeData /\ ChunkReceived(Head(data_queue))
  <2>1. Removed
    BY <1>5 DEF TakeData, Removed
  <2>2. Over!Take /\ Over!ChunkReceived(Head(data_queue))
    BY <1>5, <2>1, RemovedServes, SameService, SameChunk
  <2>3. Over!WaitForDataCall
    BY <1>1, <2>2 DEF Over!WaitForDataCall
  <2> QED
    BY <2>3 DEF Over!HttpNext, Over!Main
<1>6. CASE DataTimeout /\ ReceiveTimedOut
  <2>1. UNCHANGED Over!serviceVars
    BY <1>3, <1>6 DEF DataTimeout
  <2>2. Over!ReceiveTimedOut
    BY <1>6, SameCalls
  <2>3. Over!WaitForDataCall
    BY <1>1, <2>1, <2>2 DEF Over!WaitForDataCall
  <2> QED
    BY <2>3 DEF Over!HttpNext, Over!Main
<1> QED
  BY <1>4, <1>5, <1>6 DEF WaitForDataCall

(* close_connection shuts an open connection, if its FIN goes out, and gives *)
(* one up that is opening or closing.                                      *)
LEMMA CloseRefines ==
  ASSUME ProgramInvariant, TypeOK', CloseCall
  PROVE  Over!HttpNext
<1> DEFINE c == current_connection
<1>0. /\ TypeOK /\ Lifecycle /\ CloseConnection /\ Over!Closed
      /\ UNCHANGED <<data_queue, events>>
  BY SameCalls DEF ProgramInvariant, WireInvariant, CloseCall, CloseConnection
<1>1. UNCHANGED Over!originVars
  BY CallOrigin
<1>2. CASE ~InState(TcpState \ {"CLOSED"}) /\ UNCHANGED <<current_connection, tx>>
  <2>1. PhaseOf(c) \in {"none", "closed"}
    <3>1. CASE c = NoConnection
      BY <3>1 DEF PhaseOf
    <3>2. CASE c # NoConnection
      <4>1. c.state \in TcpState
        BY <1>0, <3>2 DEF TypeOK, Connection
      <4>2. c.state = "CLOSED"
        BY <1>2, <3>2, <4>1 DEF InState
      <4> QED
        BY <3>2, <4>2, PhaseNow, PhasesOfStates
    <3> QED
      BY <3>1, <3>2
  <2>2. UNCHANGED Over!serviceVars
    BY <1>0, <1>2, ServiceKept
  <2> QED
    BY <1>0, <1>1, <2>1, <2>2 DEF Over!CloseCall, Over!HttpNext, Over!Main
<1>3. CASE InState({"ESTABLISHED"})
  <2>1. PhaseOf(c) = "open"
    BY <1>3, OpenIsEstablished
  <2>2. ~GivenUp
    BY <1>3 DEF GivenUp, Goes, InState, AtEnd
  <2>3. Over!Shut \/ UNCHANGED Over!serviceVars
    BY <1>0, <2>2, CloseKind, ClosingServes, UnseenServes, SameService
  <2> QED
    BY <1>0, <1>1, <2>1, <2>3 DEF Over!CloseCall, Over!HttpNext, Over!Main
<1>4. CASE /\ InState(TcpState \ {"CLOSED", "ESTABLISHED"})
           /\ current_connection' = [current_connection EXCEPT !.state = "CLOSED"]
  <2>1. c \in Connection /\ c.state \notin {"CLOSED", "ESTABLISHED"} /\ c # NoConnection
    BY <1>0, <1>4 DEF InState, TypeOK
  <2>2. c'.state = "CLOSED" /\ c' # c
    BY <1>4, <2>1 DEF Connection
  <2>3. GivenUp
    BY <1>0, <2>1, <2>2, CloseKind DEF Unaffected, connVars, Sending, Closing, Goes
  <2>4. Over!Abandon
    BY <2>3, GivenUpServes, SameService
  <2>5. PhaseOf(c) \in {"opening", "closing"}
    BY <2>4 DEF Over!Abandon
  <2> QED
    BY <1>0, <1>1, <2>4, <2>5 DEF Over!CloseCall, Over!HttpNext, Over!Main
<1> QED
  BY <1>0, <1>2, <1>3, <1>4 DEF CloseConnection

(* ~TcpStack: only its end is seen.                                        *)
LEMMA DestroyRefines ==
  ASSUME DestroyStack
  PROVE  [Over!HttpNext]_(Over!httpVars)
<1>1. UNCHANGED Over!serviceVars /\ UNCHANGED Over!originVars
  BY StackUntouched DEF DestroyStack
<1>2. CASE UNCHANGED appVars
  BY <1>1, <1>2, NotSeen
<1>3. CASE StackStopped
  BY <1>1, <1>3, SameCalls DEF Over!HttpNext, Over!Main, Over!StopCall
<1> QED
  BY <1>2, <1>3 DEF DestroyStack

(* Who has been sent something has been asked.                             *)
LEMMA LedgerRequested ==
  ASSUME srv_tx \in Seq(Segment), ServerTypeOK, Asked, RequestOnce,
         NEW P, Ledger(P), NEW i \in 0 .. Len(srv_tx), P[i] # 0
  PROVE  Requested
<1>1. Position # 0
  BY LedgerEmpty
<1>2. srv.sent \in Nat
  BY TotalIsEnd DEF ServerTypeOK
<1>3. srv.sent > 0
  BY <1>1, <1>2, TotalIsEnd DEF Position
<1> QED
  BY <1>3 DEF Asked, RequestOnce

(* Pieces of the response up to b have been accepted.                       *)
LEMMA AcceptedLength ==
  ASSUME rx \in Seq(Segment), NEW b \in 0 .. Total, Pieces(Chunks, 0, b)
  PROVE  Len(Accepted) = b
<1>1. Chunks \in Seq(Seq(Byte))
  BY ChunksTyped
<1>2. Len(SeqX!FlattenSeq(Chunks)) = b
  BY <1>1, LengthOfPieces
<1> QED
  BY <1>2 DEF Accepted, Chunks

(* What the capture thread does in HttpOverTcp: nothing once main is done,   *)
(* and it is not there any more by then.                                   *)
LEMMA NetworkGoes ==
  ASSUME ProgramInvariant, StackOfMain, CapturePacket,
         \/ Over!HandshakeCompletes \/ Over!ChunkArrives
         \/ Over!ServerCloses \/ Over!CloseCompletes
  PROVE  Over!HttpNext
<1>1. capture = "batch" /\ pc # "aborted"
  BY DEF CapturePacket, NextPacket
<1>2. stack \in {"ready", "stopping"}
  BY <1>1 DEF ProgramInvariant, CaptureInvariant, Running
<1>3. pc # "exited"
  BY <1>2 DEF StackOfMain
<1> QED
  BY <1>1, <1>3 DEF Over!HttpNext, Over!Network, Over!Ended

(* A packet: the next of the response, or of the handshakes.                *)
LEMMA CaptureRefines ==
  ASSUME OrderlyLink, ProgramInvariant, ProgramInvariant', OrderInvariant,
         OrderInvariant', AcksInvariant, RunInvariant, RunInvariant', CapturePacket
  PROVE  [Over!HttpNext]_(Over!httpVars)
<1>0. /\ TypeOK /\ TypeOK' /\ Lifecycle /\ ServerTypeOK /\ Ends /\ Asked
      /\ RequestOnce /\ StackOfMain /\ Total \in Nat \ {0}
      /\ srv_tx \in Seq(Segment) /\ Len(srv_tx) \in Nat
      /\ rx \in Seq(Segment) /\ rx' \in Seq(Segment)
  BY TotalIsEnd DEF ProgramInvariant, OrderInvariant, RunInvariant, WireInvariant,
     ServerTypeOK, TypeOK
<1>1. PICK k \in 0 .. Len(srv_tx), P \in [0 .. Len(srv_tx) -> 0 .. Total] :
        Ledger(P) /\ Arrived(P, k)
  BY DEF AcksInvariant
<1> DEFINE seg == srv_tx[k + 1]
           b == P[k]
           c == P[k + 1]
<1>2. k + 1 \in 1 .. Len(srv_tx) /\ seg \in Segment /\ Addressed(seg) /\ process_packet(seg)
  BY <1>0, <1>1, OldestCaptured DEF Arrived
<1>3. /\ seg \in Segment /\ Addressed(seg) /\ process_packet(seg)
      /\ Marked(seg, b, c) /\ b \in 0 .. Total /\ c \in b .. Total /\ c \in 0 .. Total
      /\ b # 0 \/ c # 0 => Requested
      /\ InState({"ESTABLISHED"}) => UpTo(b)
  <2>1. (k + 1) - 1 = k /\ k + 1 \in 0 .. Len(srv_tx)
    BY <1>0, <1>2
  <2>2. Marked(seg, b, c) /\ b <= c
    BY <1>1, <1>2, <2>1 DEF Ledger
  <2>3. b \in 0 .. Total /\ c \in 0 .. Total
    BY <1>1, <2>1
  <2>4. c \in b .. Total
    BY <1>0, <2>2, <2>3
  <2>5. b # 0 \/ c # 0 => Requested
    BY <1>0, <1>1, <2>1, LedgerRequested
  <2> QED
    BY <1>1, <1>2, <2>2, <2>3, <2>4, <2>5 DEF Arrived
<1> HIDE DEF seg, b, c
<1>4. UNCHANGED appVars /\ (Requested' <=> Requested)
  <2>1. ProgramNext /\ ~ConnectCall /\ ~SendDataCall
    BY DEF CapturePacket, ProgramNext, ConnectCall, SendDataCall, appVars, Connected,
       RequestSent, Goto
  <2> QED
    BY <1>0, <2>1, NothingRequests DEF CapturePacket, Requested
<1>5. UNCHANGED Over!appVars
  BY <1>4, AppKept
<1>6. ASSUME UNCHANGED rx PROVE UNCHANGED Over!originVars
  BY <1>4, <1>6, OriginKept
<1>7. ASSUME UNCHANGED rx, UNCHANGED Over!serviceVars PROVE UNCHANGED Over!httpVars
  BY <1>4, <1>6, <1>7, NotSeen
<1>8. CASE Sending \/ Unaffected
  BY <1>7, <1>8, UnseenServes, SameService DEF Sending, Silent, Unaffected, connVars
<1>9. CASE Confirmed
  <2>1. Over!HandshakeCompletes
    BY <1>5, <1>6, <1>9, ConfirmedServes, SameService DEF Over!HandshakeCompletes, Confirmed
  <2> QED
    BY <1>0, <2>1, NetworkGoes
<1>10. CASE Completed
  <2>1. Over!CloseCompletes
    BY <1>5, <1>6, <1>10, CompletedServes, SameService DEF Over!CloseCompletes, Completed
  <2> QED
    BY <1>0, <2>1, NetworkGoes
<1>11. CASE PeerFinReceived(seg)
  <2>1. /\ InState({"ESTABLISHED"}) /\ is("FIN", seg) /\ ~is("PSH", seg) /\ Closing
        /\ UNCHANGED rx
    BY <1>0, <1>3, <1>11, PeerFinKind DEF PeerFinReceived, IsPeerFin, Matches
  <2>2. b = Total
    <3>1. seg.payload = <<>> /\ c = Total
      BY <1>3, <2>1 DEF Addressed, Marked
    <3> QED
      BY <1>3, <3>1, TextPart DEF Marked
  <2>3. Requested
    BY <1>0, <1>3, <2>2
  <2>4. Len(Accepted) = Len(Over!Text)
    BY <1>0, <1>3, <2>1, <2>2, AcceptedLength, TextIsResponse DEF UpTo, Total
  <2>5. CASE Service!Shut
    <3>1. Over!ServerCloses
      BY <1>5, <1>6, <2>1, <2>3, <2>4, <2>5, SameService DEF Over!ServerCloses
    <3> QED
      BY <1>0, <3>1, NetworkGoes
  <2>6. CASE UNCHANGED Service!serviceVars
    BY <1>7, <2>1, <2>6, SameService
  <2> QED
    BY <2>1, <2>5, <2>6, ClosingServes
<1>12. CASE DataReceived(seg)
  <2>1. Queued(seg) /\ InState({"ESTABLISHED"})
    BY <1>0, <1>3, <1>12, DataKind DEF DataReceived, IsData, Matches
  <2>2. /\ seg.payload = SubSeq(Response, b + 1, c) /\ seg.payload # <<>>
        /\ rx' = Append(rx, seg) /\ data_queue' = Append(data_queue, seg.payload)
    BY <1>3, <2>1 DEF Queued, IsData, Marked
  <2>3. c \in b + 1 .. Total /\ c # 0
    <3>1. b # c
      BY <1>3, <2>2, TextPart
    <3> QED
      BY <1>0, <1>3, <3>1
  <2>4. Pieces(Chunks, 0, b) /\ Len(Accepted) = b
    BY <1>0, <1>3, <2>1, AcceptedLength DEF UpTo
  <2>5. Len(Accepted)' = c
    <3>1. Chunks' = Append(Chunks, SubSeq(Response, b + 1, c)) /\ Chunks \in Seq(Seq(Byte))
      BY <1>0, <1>3, <2>2, ChunksGrow, ChunksTyped
    <3>2. Pieces(Chunks', 0, c)
      BY <1>3, <2>4, <3>1, PiecesAppend
    <3>3. c \in 0 .. Total /\ SubSeq(Response, b + 1, c) \in Seq(Byte)
      BY <1>3, TextPart
    <3>4. Chunks' \in Seq(Seq(Byte))
      BY <3>1, <3>3
    <3>5. Len(SeqX!FlattenSeq(Chunks')) = c
      BY <3>2, <3>3, <3>4, LengthOfPieces
    <3> QED
      BY <3>5 DEF Accepted, Chunks
  <2>6. Len(data_queue) < Len(Response)
    <3>1. data_queue \in Seq(Seq(Byte)) /\ seg.payload \in Seq(Byte)
      BY <1>0, <1>3, SegmentFields DEF TypeOK
    <3>2. Len(data_queue') = Len(data_queue) + 1 /\ Len(data_queue) \in Nat
      BY <2>2, <3>1, AppendProperties
    <3>3. Len(data_queue') <= Total
      BY <1>0, QueueShort
    <3> QED
      BY <1>0, <3>2, <3>3 DEF Total
  <2>7. Requested
    BY <1>3, <2>3
  <2>8. Over!Receive(seg.payload)
    BY <2>1, GoesPhases, PhasesOfStates DEF Queued, Reported, Over!Receive
  <2>9. UNCHANGED Requested
    BY <1>4 DEF Requested
  <2>10. Over!ChunkArrives
    BY <1>5, <2>2, <2>3, <2>4, <2>5, <2>6, <2>7, <2>8, <2>9, TextIsResponse
       DEF Over!ChunkArrives, Total
  <2> QED
    BY <1>0, <2>10, NetworkGoes
<1>13. CASE FinAcknowledged(seg)
  <2>1. Closing /\ UNCHANGED rx /\ ~InState({"ESTABLISHED"})
    BY <1>0, <1>13, FinAcknowledgedKind
       DEF FinAcknowledged, IsFinAcknowledged, Matches, InState
  <2>2. UNCHANGED Service!serviceVars
    BY <2>1, GoesPhases, PhasesOfStates
       DEF Closing, Silent, Service!serviceVars, AtEnd, Goes, InState
  <2> QED
    BY <1>7, <2>1, <2>2, SameService
<1> QED
  BY <1>0, <1>3, <1>8, <1>9, <1>10, <1>11, <1>12, <1>13, SynAckKind,
     FinWhileClosingKind, LastAckKind DEF process_packet, PacketIgnored, Unaffected

(* Each step is a step of HttpOverTcp, or none.                             *)
LEMMA StepRefines ==
  ASSUME OrderlyLink, ProgramInvariant, ProgramInvariant', OrderInvariant,
         OrderInvariant', AcksInvariant, RunInvariant, RunInvariant',
         [ProgramNext]_programVars
  PROVE  [Over!HttpNext]_(Over!httpVars)
<1>0. TypeOK' /\ RequestOnce
  BY DEF ProgramInvariant, RunInvariant
<1>1. ASSUME UNCHANGED appVars, UNCHANGED vars PROVE UNCHANGED Over!httpVars
  BY <1>1, StackUntouched, NotSeen
<1>2. CASE CaptureStep \/ ServerStep \/ ServerTimeout \/ Lose \/ UNCHANGED programVars
  BY <1>1, <1>2 DEF CaptureStep, ServerStep, ServerTimeout, Lose, programVars
<1> QED
  BY <1>0, <1>2, PrepareRefines, ConnectRefines, WaitForConnectionRefines,
     SendDataRefines, WaitForDataRefines, CloseRefines, DestroyRefines,
     CaptureRefines DEF ProgramNext, Main

(* Two threads, a wire, sequence numbers and a server behave, on an orderly   *)
(* link, as a program that reads an answer in order, in chunks: whatever     *)
(* timer fires and whichever injection is refused, the request goes out once *)
(* and before any of the answer, the queue is appended the next characters    *)
(* of it and only while the connection is open, and the server's close is     *)
(* seen only when all of the answer has been accepted.                      *)
THEOREM ImplementsHttpOverTcpHolds ==
  ASSUME OrderlyLink
  PROVE  ProgramSpec => ImplementsHttpOverTcp
<1>1. ProgramInvariant /\ OrderInvariant /\ [ProgramNext]_programVars => OrderInvariant'
  BY StepOrder
<1>2. /\ ProgramInvariant /\ ProgramInvariant' /\ OrderInvariant /\ AcksInvariant
      /\ [ProgramNext]_programVars
      => AcksInvariant'
  BY StepAcks DEF ProgramInvariant, OrderInvariant
<1>3. /\ ProgramInvariant /\ ProgramInvariant' /\ OrderInvariant /\ RunInvariant
      /\ [ProgramNext]_programVars
      => RunInvariant'
  BY StepRun DEF ProgramInvariant
<1>4. /\ ProgramInvariant /\ ProgramInvariant' /\ OrderInvariant /\ OrderInvariant'
      /\ AcksInvariant /\ RunInvariant /\ RunInvariant' /\ [ProgramNext]_programVars
      => [Over!HttpNext]_(Over!httpVars)
  BY StepRefines
<1> QED
  BY <1>1, <1>2, <1>3, <1>4, InitProgram, StepProgram, InitOrder, InitAcks, InitRun,
     InitRefines, PTL DEF ProgramSpec, ImplementsHttpOverTcp
=============================================================================

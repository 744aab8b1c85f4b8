------------------------------ MODULE HttpOverTcp ------------------------------
(***************************************************************************)
(* The program above TCP: main and HttpClient over what TcpService promises, *)
(* with a server that sends any answer of Answer, cut into chunks anywhere.  *)
(* Chunks arrive in order: that TcpStack delivers them so on a link without  *)
(* faults is what MyTelnet's InOrderDelivery says.                         *)
(***************************************************************************)
EXTENDS HttpClient, TcpService
LOCAL INSTANCE SequencesExt

CONSTANTS
  Argv,        \* the command lines
  Answer,      \* what the server may answer
  MaxQueue     \* how many chunks may wait

(* An answer: the status line, the lines of the header fields, the body.    *)
ASSUME AnswerAssumption ==
  /\ Answer \subseteq [line : Seq(Char), fields : Seq(Seq(Char)), body : Seq(Char)]
  /\ MaxQueue \in Nat \ {0}
  /\ Argv \subseteq Seq(Seq(Char))

VARIABLES
  answer,     \* the server's answer to the request
  asked,      \* the request has been sent
  sent        \* how much of the answer has been sent

originVars == <<answer, asked, sent>>
httpVars == <<appVars, serviceVars, originVars>>

Serialize(a) ==
  a.line \o EOL \o FlattenSeq([i \in DOMAIN a.fields |-> a.fields[i] \o EOL])
    \o EOL \o a.body

TextOf == [a \in Answer |-> Serialize(a)]
Text == TextOf[answer]

(* Any piece of an answer may arrive at once.                              *)
ASSUME ChunkAssumption ==
  \A a \in Answer : \A i, j \in 1 .. Len(TextOf[a]) :
    i <= j => SubSeq(TextOf[a], i, j) \in Chunk

HttpTypeOK ==
  /\ ClientTypeOK
  /\ phase \in Phase
  /\ queue \in Seq(Chunk)
  /\ answer \in Answer /\ asked \in BOOLEAN /\ sent \in 0 .. Len(Text)

HttpInit ==
  /\ ClientInit /\ ServiceInit
  /\ answer \in Answer
  /\ asked = FALSE
  /\ sent = 0

-----------------------------------------------------------------------------
(* The application thread.  Any call may fail.                             *)

ArgumentsCall ==
  /\ \E argv \in Argv : ArgumentsGiven(argv)
  /\ UNCHANGED <<serviceVars, originVars>>

InitializeCall ==
  /\ \E ok \in BOOLEAN : Initialized(ok)
  /\ UNCHANGED <<serviceVars, originVars>>

CreateFileCall ==
  /\ \E ok \in BOOLEAN : FileCreated(ok)
  /\ UNCHANGED <<serviceVars, originVars>>

ConnectCall ==
  /\ Open \/ UNCHANGED serviceVars
  /\ Connected(phase' = "opening")
  /\ UNCHANGED originVars

WaitForConnectionCall ==
  /\ \E ok \in BOOLEAN : (ok => phase = "open") /\ ConnectionAwaited(ok)
  /\ UNCHANGED <<serviceVars, originVars>>

SendDataCall ==
  /\ \E ok \in BOOLEAN : (ok => phase = "open") /\ RequestSent(ok) /\ asked' = ok
  /\ UNCHANGED <<serviceVars, answer, sent>>

(* The timeout may come at any moment, also when data is waiting.          *)
WaitForDataCall ==
  /\ \/ UNCHANGED serviceVars /\ ReceiveTimedOut
     \/ Take /\ ChunkReceived(Head(queue))
  /\ UNCHANGED originVars

(* A FIN that cannot be sent leaves the connection open.                   *)
CloseCall ==
  /\ Closed
  /\ CASE phase = "open"                    -> Shut \/ UNCHANGED serviceVars
       [] phase \in {"opening", "closing"}  -> Abandon
       [] OTHER                             -> UNCHANGED serviceVars
  /\ UNCHANGED originVars

StopCall == StackStopped /\ UNCHANGED <<serviceVars, originVars>>

Main ==
  \/ ArgumentsCall \/ InitializeCall \/ CreateFileCall \/ ConnectCall
  \/ WaitForConnectionCall \/ SendDataCall \/ WaitForDataCall \/ CloseCall
  \/ StopCall

-----------------------------------------------------------------------------
(* The capture thread, the network and the server.                         *)

HandshakeCompletes == Establish /\ UNCHANGED <<appVars, originVars>>

(* The next characters of the answer arrive, any number of them at once.    *)
ChunkArrives ==
  /\ asked /\ Len(queue) < MaxQueue
  /\ \E upTo \in sent + 1 .. Len(Text) :
       Receive(SubSeq(Text, sent + 1, upTo)) /\ sent' = upTo
  /\ UNCHANGED <<appVars, answer, asked>>

(* "Connection: close": the server closes when it has sent everything.     *)
ServerCloses ==
  asked /\ sent = Len(Text) /\ Shut /\ UNCHANGED <<appVars, originVars>>

CloseCompletes == Finish /\ UNCHANGED <<appVars, originVars>>

Network ==
  /\ ~Ended
  /\ HandshakeCompletes \/ ChunkArrives \/ ServerCloses \/ CloseCompletes

HttpNext == Main \/ Network

(* main and HttpClient run on: every call returns.                         *)
HttpSpec == HttpInit /\ [][HttpNext]_httpVars /\ WF_httpVars(Main)

-----------------------------------------------------------------------------
(***************************************************************************)
(* Properties.                                                             *)
(***************************************************************************)

(* A status line of version, status code n and message.                    *)
IsStatusLine(line, n, message) == line = <<HTTP11, SP, n, SP>> \o message

(* The lines that hold a header field, its name and its value.             *)
Fields(a) == {f \in Range(a.fields) : Found(<<COLON>>, f) # {}}
Colon(f) == CHOOSE c \in Found(<<COLON>>, f) : COLON \notin Range(Before(f, c))
FieldName(f) == LowerCase(Before(f, Colon(f)))
FieldValue(f) == Trim(From(f, Colon(f) + 1))

(* What is printed and handed to the callback is what the server sent,       *)
(* wherever the answer was cut and whenever a timeout struck: the code and   *)
(* message of its status line, only header fields it has, with their values, *)
(* and the beginning of its body.                                          *)
ReportIsAnswer ==
  report # Nothing =>
    /\ \E n \in Numeral :
         /\ report.status_code = ValueOf[n]
         /\ IsStatusLine(answer.line, n, report.status_message)
    /\ \A name \in DOMAIN report.headers : \E f \in Fields(answer) :
         FieldName(f) = name /\ FieldValue(f) = report.headers[name]
    /\ IsPrefix(report.body, answer.body)

(* How the reception ends is the answer's doing, not that of the cuts: the   *)
(* exception comes only from an answer whose status code is not a number,   *)
(* and an answer is taken for complete only when all of its header has come. *)
OutcomeIsAnswers ==
  /\ pc = "aborted" =>
       \A n \in Numeral, message \in {From(answer.line, 5)} :
         ~IsStatusLine(answer.line, n, message)
  /\ received_complete => sent >= Len(Text) - Len(answer.body)

(* The local file never holds anything but what it held before, nothing, or  *)
(* the beginning of the body of an answer with status 200, and it keeps its  *)
(* old content only if no connection was tried.                            *)
FileIsAnswer ==
  IF file = OldContent THEN phase = "none"
  ELSE /\ IsPrefix(file, answer.body)
       /\ file # <<>> => \E n \in Numeral :
            ValueOf[n] = 200 /\ IsStatusLine(answer.line, n, From(answer.line, 5))

(* The file is made in the current directory: its name is not empty and has *)
(* no slash, whatever path was asked for.                                  *)
SavedHere ==
  target.run =>
    /\ target.local_file # <<>>
    /\ \A i \in DOMAIN target.local_file : target.local_file[i] # SLASH

(* The program ends, by main's return or by the exception, whatever is       *)
(* answered and wherever a call fails.                                     *)
DownloadEnds == <>Ended

(* "Parse the header fields" (http_client.cpp:192): each field of the answer *)
(* is among those reported.                                                *)
AllHeadersReported ==
  report # Nothing =>
    \A f \in Fields(answer) : FieldName(f) \in DOMAIN report.headers

=============================================================================

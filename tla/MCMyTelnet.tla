----------------------------- MODULE MCMyTelnet -----------------------------
(* One download: mytelnet ip, and a response with a body of one character.  *)
(* A character is a string here, also where it is a word (see HttpMessage). *)
EXTENDS MyTelnetOverTcp
LOCAL INSTANCE TLC

CONSTANTS me, server, p1, p2, none

MCHost == {me, server}
MCPort == {p1, p2}
MCTarget == {<<server, p2>>}
NoSegment == {}
NoRequest == {}

MCChar == {"CR", "LF", "SP", ":", "/", "GET", "HTTP/1.1", "Host", "200", "ok",
           "b", "ip", "-i", "file", "dir"}
MCToLower == [c \in MCChar |-> c]
MCValueOf == "200" :> 200
MCFixedHeaders == <<>>
MCDashI == <<"-i">>
MCHelp == {}
MCIndexHtml == <<"file">>
MCDownloadDat == <<"dir">>
MCArgv == <<<<"ip">>>>

MCResponse == <<"HTTP/1.1", "SP", "200", "SP", "ok", "CR", "LF", "CR", "LF", "b">>
MCAnswer == [line   |-> SubSeq(MCResponse, 1, 5), fields |-> <<>>, body |-> <<"b">>]
(* Three segments: one cut is inside the empty line, one before the body.   *)
CutInEmptyLine == {6, 9, 10}
(* The first cut is inside the status line.                                *)
CutInStatusLine == {2, 9, 10}
(* Two segments: nothing but the body comes later, or two pieces of header. *)
CutBeforeBody == {9, 10}

(* The client's request and the server's first data wrap around.           *)
MCInitialSeq == {SeqMod - 1}
MCServerIss == SeqMod - 2
=============================================================================

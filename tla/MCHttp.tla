-------------------------------- MODULE MCHttp --------------------------------
(* Answers and command lines for HttpOverTcp.                              *)
EXTENDS HttpOverTcp
LOCAL INSTANCE TLC
LOCAL INSTANCE SequencesExt

MCChar == {"CR", "LF", "SP", ":", "/", "GET", "HTTP/1.1", "Host", "80", "200",
           "404", "65616", "ok", "N", "n", "v", "b", "file", "dir", "ip", "eth0",
           "-i", "-h"}
MCToLower == [c \in MCChar |-> IF c = "N" THEN "n" ELSE c]
MCValueOf == "80" :> 80 @@ "200" :> 200 @@ "404" :> 404 @@ "65616" :> 65616
MCFixedHeaders == <<"N", ":", "v", "CR", "LF">>
MCDashI == <<"-i">>
MCHelp == {<<"-h">>}
MCIndexHtml == <<"file">>
MCDownloadDat == <<"dir">>

(* A status line is well formed, ends in its second blank, has none, or has *)
(* a code that is no number.  The last header field is always lost: the     *)
(* interesting ones come before it (a repeated name, a value with blanks, a  *)
(* line without a colon, a value with a colon).                            *)
Line(code, message) == <<"HTTP/1.1", "SP">> \o code \o <<"SP">> \o message
MCAnswer ==
  {[line |-> Line(<<"200">>, <<"ok">>), body |-> <<"b", "b">>,
    fields |-> <<<<"N", ":", "SP", "v", "SP">>, <<"n", ":", "b">>, <<"v", ":">>>>],
   [line |-> Line(<<"200">>, <<"SP", "ok">>), body |-> <<"CR", "LF", "CR", "LF">>,
    fields |-> <<<<"ok">>, <<"N", ":", "SP">>, <<"ok", ":", "v">>>>],
   [line |-> Line(<<"404">>, <<>>), body |-> <<"b", "b">>,
    fields |-> <<<<"N", ":", "b", ":">>, <<"v">>>>],
   [line |-> Line(<<"200">>, <<"ok">>), body |-> <<>>, fields |-> <<>>],
   [line |-> Line(<<"ok">>, <<"200">>), body |-> <<"b">>,
    fields |-> <<<<"N", ":", "v">>>>],
   [line |-> <<"HTTP/1.1", "SP", "200">>, body |-> <<"b">>,
    fields |-> <<<<"N", ":", "SP">>>>]}

(* Host only, a path to a file, a path to a directory without its first      *)
(* slash; then the ways out: no argument, help, a bad port.                *)
MCArgv ==
  {<<<<"ip">>>>,
   <<<<"-i">>, <<"eth0">>, <<"ip">>, <<"65616">>, <<"/", "dir", "/", "file">>>>,
   <<<<"ip">>, <<"80">>, <<"dir", "/">>, <<"-i">>>>,
   <<>>, <<<<"ip">>, <<"-h">>>>, <<<<"ip">>, <<"ok">>>>}

MCChunk == Seq(MCChar) \ {<<>>}
=============================================================================

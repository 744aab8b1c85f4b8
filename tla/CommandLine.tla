----------------------------- MODULE CommandLine -----------------------------
(***************************************************************************)
(* The command line of mytelnet.cpp: [-i interface] [-h] host [port [path]], *)
(* read in one pass, and the name of the local file derived from the path.  *)
(***************************************************************************)
EXTENDS HttpMessage

CONSTANTS
  DashI,           \* "-i"
  Help,            \* "-h" and "--help"
  PortModulus,     \* ports are uint16_t: 2^16 in the program
  IndexHtml,       \* "index.html"
  DownloadDat      \* "download.dat"

DefaultPort == 80

ASSUME ArgumentAssumption ==
  /\ PortModulus \in Nat /\ DefaultPort < PortModulus
  /\ Help \union {DashI} \subseteq Seq(Char)
  /\ \A name \in {IndexHtml, DownloadDat} :
       /\ name \in Seq(Char) /\ name # <<>>
       /\ \A i \in DOMAIN name : name[i] # SLASH

(* The variables of main before its loop; step says what has become of it:  *)
(* "read", "skip" (the next argument belongs to -i), "help" or "bad_port".  *)
Defaults == [step |-> "read", words |-> 0, interface |-> <<>>,
             host |-> <<>>, port |-> DefaultPort, path |-> <<SLASH>>]

Rooted(path) ==
  IF path # <<>> /\ Head(path) # SLASH THEN <<SLASH>> \o path ELSE path

(* Mutant of PortNumber: the cast to uint16_t is forgotten.                *)
PortNumberNotCast(arg) == stoi(arg)

(* The port of the command line: what does not fit into 16 bits is cut off. *)
PortNumber(arg) == stoi(arg) % PortModulus

(* A word that is not an option: host, port and path in this order, further *)
(* words are ignored.                                                      *)
TakeWord(s, arg) ==
  LET n == s.words + 1
  IN CASE n = 1 -> [s EXCEPT !.words = n, !.host = arg]
       [] n = 2 /\ StoiThrows(arg) -> [s EXCEPT !.step = "bad_port"]
       [] n = 2 /\ ~StoiThrows(arg) ->
            [s EXCEPT !.words = n, !.port = PortNumber(arg)]
       [] n = 3 -> [s EXCEPT !.words = n, !.path = Rooted(arg)]
       [] OTHER -> [s EXCEPT !.words = n]

(* One round of the loop; -i as the last argument counts as a word.        *)
TakeArgument(s, arg, isLast) ==
  CASE s.step = "skip" -> [s EXCEPT !.step = "read", !.interface = arg]
    [] s.step = "read" /\ arg = DashI /\ ~isLast -> [s EXCEPT !.step = "skip"]
    [] s.step = "read" /\ arg \in Help -> [s EXCEPT !.step = "help"]
    [] s.step = "read" /\ arg \notin Help /\ (arg = DashI => isLast) ->
         TakeWord(s, arg)
    [] OTHER -> s

(* Mutant of LocalName: the last slash stays.                              *)
LocalNameWithSlash(path) ==
  LET slashes == Found(<<SLASH>>, path)
  IN CASE path = <<SLASH>> -> IndexHtml
       [] path # <<SLASH>> /\ slashes # {} /\ Max(slashes) < Len(path) ->
            From(path, Max(slashes))
       [] OTHER -> DownloadDat

(* What follows the last slash, if anything does.                          *)
LocalName(path) ==
  LET slashes == Found(<<SLASH>>, path)
  IN CASE path = <<SLASH>> -> IndexHtml
       [] path # <<SLASH>> /\ slashes # {} /\ Max(slashes) < Len(path) ->
            From(path, Max(slashes) + 1)
       [] OTHER -> DownloadDat

(* The loop of main over its arguments.                                    *)
ArgumentsRead(argv) ==
  LET after[n \in 0 .. Len(argv)] ==
        IF n = 0 THEN Defaults
        ELSE TakeArgument(after[n - 1], argv[n], n = Len(argv))
  IN after[Len(argv)]

(* What main makes of its arguments.  It goes on to the download only if the *)
(* loop came to its end and there is a host.                               *)
ParseArguments(argv) ==
  LET s == ArgumentsRead(argv)
  IN [run |-> s.step = "read" /\ s.host # <<>>,
      host |-> s.host, port |-> s.port, path |-> s.path,
      local_file |-> LocalName(s.path)]

=============================================================================

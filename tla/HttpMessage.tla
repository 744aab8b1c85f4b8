----------------------------- MODULE HttpMessage -----------------------------
(***************************************************************************)
(* The two conversions of http_client.cpp: build_http_request, which makes  *)
(* the request, and parse_http_response, which get calls on everything       *)
(* received so far each time a chunk arrives.                              *)
(*                                                                         *)
(* A character string is a sequence of Char.  The characters the parser      *)
(* looks for are constants of their own; a word it never looks into (a       *)
(* version, a name, a numeral) is one Char.                                *)
(***************************************************************************)
EXTENDS Naturals, Sequences, FiniteSets, FiniteSetsExt

CONSTANTS
  Char,
  CR, LF, SP, COLON, SLASH,
  GET, HTTP11, HOST,    \* "GET", "HTTP/1.1", "Host"
  FixedHeaders,         \* the Connection and User-Agent lines of a request
  ToLower,              \* std::tolower, as a function
  ValueOf               \* what std::stoi makes of a numeral

Numeral == DOMAIN ValueOf

ASSUME CharAssumption ==
  /\ {CR, LF, SP, COLON, SLASH, GET, HTTP11, HOST} \subseteq Char
  /\ Cardinality({CR, LF, SP, COLON, SLASH}) = 5
  /\ FixedHeaders \in Seq(Char)
  /\ ToLower \in [Char -> Char]
  /\ Numeral \subseteq Char \ {CR, LF, SP, COLON, SLASH}
  /\ ValueOf \in [Numeral -> Nat]

EOL == <<CR, LF>>

(* Where pattern occurs in text; std::string::find returns the least.      *)
Found(pattern, text) ==
  {i \in 1 .. Len(text) - Len(pattern) + 1 :
     SubSeq(text, i, i + Len(pattern) - 1) = pattern}

(* The part of text before position i, and the part from position i on.    *)
Before(text, i) == SubSeq(text, 1, i - 1)
From(text, i) == SubSeq(text, i, Len(text))

(* std::stoi throws when there is no numeral to start with.  (No text here  *)
(* starts with white space or a sign.)                                     *)
StoiThrows(text) == text = <<>> \/ Head(text) \notin Numeral
stoi(text) == ValueOf[Head(text)]

-----------------------------------------------------------------------------
(* get passes no headers of its own.                                       *)
build_http_request(host, path) ==
  <<GET, SP>> \o (IF path = <<>> THEN <<SLASH>> ELSE path) \o <<SP, HTTP11>> \o EOL
    \o <<HOST, COLON, SP>> \o host \o EOL \o FixedHeaders \o EOL

-----------------------------------------------------------------------------
(* Mutant of HeadersEnd: an empty line is not asked for.                   *)
HeadersEndAtLine(data) == Found(EOL, data)

(* Where the empty line that ends the header starts.                       *)
HeadersEnd(data) == Found(EOL \o EOL, data)

StatusLine[headers \in Seq(Char)] ==
  LET breaks == Found(EOL, headers)
  IN IF breaks = {} THEN headers ELSE Before(headers, Min(breaks))

(* The header fields: what lies between two line ends that follow one       *)
(* another, as <<first, last>>.  The line end of the last field is not in    *)
(* headers any more, so the loop leaves before it takes that field.        *)
FieldLines(headers) ==
  LET breaks == Found(EOL, headers)
      pairs  == {e \in breaks \X breaks :
                   e[1] < e[2] /\ \A k \in breaks : ~(e[1] < k /\ k < e[2])}
  IN {<<e[1] + 2, e[2] - 1>> : e \in pairs}

(* Without the blanks at both ends.                                        *)
Trim(text) ==
  LET ink == {i \in DOMAIN text : text[i] # SP}
  IN IF ink = {} THEN <<>> ELSE SubSeq(text, Min(ink), Max(ink))

LowerCase(text) == [i \in DOMAIN text |-> ToLower[text[i]]]

(* The std::map of the header fields: a line without a colon is skipped, a  *)
(* later field replaces an earlier one of the same name.                   *)
HeaderMap[headers \in Seq(Char)] ==
  LET text(l)  == SubSeq(headers, l[1], l[2])
      colon(l) == Min(Found(<<COLON>>, text(l)))
      name(l)  == LowerCase(Before(text(l), colon(l)))
      fields   == {l \in FieldLines(headers) : Found(<<COLON>>, text(l)) # {}}
      latest(n) == CHOOSE l \in fields : name(l) = n /\
                     \A other \in fields : name(other) = n => other[1] <= l[1]
  IN [n \in {name(l) : l \in fields} |->
        Trim(From(text(latest(n)), colon(latest(n)) + 1))]

(* Mutant of Body: two characters of the blank line stay.                  *)
BodyFromLine(data) == From(data, Min(HeadersEnd(data)) + 2)

(* The body: whatever has arrived after the empty line.                    *)
Body(data) == From(data, Min(HeadersEnd(data)) + 4)

Unparsed(outcome) == [outcome |-> outcome]

(* The outcomes: "incomplete" and "malformed" return false, "throws" is the *)
(* exception of std::stoi, "parsed" returns true.  The code lies between the *)
(* first two blanks of the status line.                                    *)
ParseStatusLine[line \in Seq(Char)] ==
  LET spaces == Found(<<SP>>, line)
      second == Min(spaces \ {Min(spaces)})
      code   == SubSeq(line, Min(spaces) + 1, second - 1)
  IN IF Cardinality(spaces) < 2 THEN Unparsed("malformed")
     ELSE IF StoiThrows(code) THEN Unparsed("throws")
     ELSE [outcome        |-> "parsed",
           status_code    |-> stoi(code),
           status_message |-> From(line, second + 1)]

parse_http_response[data \in Seq(Char)] ==
  IF HeadersEnd(data) = {} THEN Unparsed("incomplete")
  ELSE
    LET headers == Before(data, Min(HeadersEnd(data)))
        status  == ParseStatusLine[StatusLine[headers]]
    IN IF status.outcome # "parsed" THEN status
       ELSE [outcome        |-> "parsed",
             status_code    |-> status.status_code,
             status_message |-> status.status_message,
             headers        |-> HeaderMap[headers],
             body           |-> Body(data)]

=============================================================================

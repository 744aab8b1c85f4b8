----------------------------- MODULE HttpProofs -----------------------------
(***************************************************************************)
(* The application thread above TcpStack: what its conversions return, for   *)
(* every input, what the parser makes of the beginning of an answer, wherever *)
(* it ends, and that the thread's variables keep their types whatever the     *)
(* calls it makes return.                                                  *)
(***************************************************************************)
EXTENDS HttpClient, FirstOrderInduction, FiniteSetTheorems

-----------------------------------------------------------------------------
(* The parser.                                                             *)

(* The first and the last of some positions are among them.                *)
LEMMA MinIsLeast ==
  ASSUME NEW S \in SUBSET Nat, S # {}
  PROVE  Min(S) \in S /\ \A i \in S : Min(S) <= i
  BY LeastNumber DEF Min

LEMMA MaxIsGreatest ==
  ASSUME NEW n \in Nat, NEW S \in SUBSET (0 .. n), S # {}
  PROVE  Max(S) \in S /\ \A i \in S : Max(S) >= i
  BY GreatestNumber DEF Max

(* The positions where a pattern occurs are positions of the text.         *)
LEMMA FoundInText ==
  ASSUME NEW text \in Seq(Char), NEW pattern \in Seq(Char), pattern # <<>>
  PROVE  Found(pattern, text) \subseteq 1 .. Len(text)
  BY DEF Found

LEMMA EmptyLineTyped == EOL \o EOL \in Seq(Char) /\ EOL \o EOL # <<>>
<1>1. CR \in Char /\ LF \in Char
  BY CharAssumption
<1>2. EOL \in Seq(Char)
  BY <1>1 DEF EOL
<1>3. EOL \o EOL \in Seq(Char) /\ Len(EOL \o EOL) = Len(EOL) + Len(EOL)
  BY <1>2
<1>4. Len(EOL) = 2
  BY DEF EOL
<1> QED
  BY <1>3, <1>4

(* The body of a message with an empty line in it.                         *)
LEMMA BodyTyped ==
  ASSUME NEW data \in Seq(Char), HeadersEnd(data) # {}
  PROVE  Body(data) \in Seq(Char)
<1>1. HeadersEnd(data) \in SUBSET Nat
  <2>1. HeadersEnd(data) \subseteq 1 .. Len(data)
    BY EmptyLineTyped, FoundInText, Zenon DEF HeadersEnd
  <2> QED
    BY <2>1
<1>2. Min(HeadersEnd(data)) \in Nat
  BY <1>1, MinIsLeast
<1> QED
  BY <1>2 DEF Body, From

(* What is accepted has an empty line, and its body is what follows it.     *)
LEMMA ParsedBody ==
  ASSUME NEW data \in Seq(Char), parse_http_response[data].outcome = "parsed"
  PROVE  /\ HeadersEnd(data) # {}
         /\ parse_http_response[data].body = Body(data)
         /\ parse_http_response[data].body \in Seq(Char)
<1>1. HeadersEnd(data) # {}
  BY DEF parse_http_response, Unparsed
<1>2. parse_http_response[data].body = Body(data)
  BY <1>1 DEF parse_http_response
<1> QED
  BY <1>1, <1>2, BodyTyped

(* A request is made of characters.                                        *)
LEMMA RequestTyped ==
  ASSUME NEW host \in Seq(Char), NEW path \in Seq(Char)
  PROVE  build_http_request(host, path) \in Seq(Char)
  BY CharAssumption DEF build_http_request, EOL

-----------------------------------------------------------------------------
(* The parser on the beginning of an answer.                               *)

(* What a concatenation has where.                                         *)
LEMMA ConcatAt ==
  ASSUME NEW S, NEW x \in Seq(S), NEW y \in Seq(S)
  PROVE  /\ x \o y \in Seq(S) /\ Len(x \o y) = Len(x) + Len(y)
         /\ \A i \in 1 .. Len(x) : (x \o y)[i] = x[i]
         /\ \A i \in 1 .. Len(y) : (x \o y)[Len(x) + i] = y[i]
<1>1. Len(x) \in Nat /\ Len(y) \in Nat
  OBVIOUS
<1>2. x \o y \in Seq(S) /\ Len(x \o y) = Len(x) + Len(y)
  OBVIOUS
<1>3. ASSUME NEW i \in 1 .. Len(x) PROVE (x \o y)[i] = x[i]
  BY SMT, <1>1
<1>4. ASSUME NEW i \in 1 .. Len(y) PROVE (x \o y)[Len(x) + i] = y[i]
  BY SMT, <1>1
<1> QED
  BY <1>2, <1>3, <1>4

(* The two characters of a line end differ: five constants make a set of   *)
(* five.                                                                   *)
LEMMA LineEndIsTwo == CR # LF
<1> SUFFICES ASSUME CR = LF PROVE FALSE
  OBVIOUS
<1>1. Cardinality({CR, LF, SP, COLON, SLASH}) = 5
  BY CharAssumption
<1>2. {CR, LF, SP, COLON, SLASH} = ({LF, SP} \union {COLON}) \union {SLASH}
  BY Zenon
<1>3. {LF, SP} = {LF} \union {SP}
  BY Zenon
<1>4. IsFiniteSet({LF}) /\ Cardinality({LF}) = 1
  BY FS_Singleton, Zenon
<1>5. IsFiniteSet({LF, SP}) /\ Cardinality({LF, SP}) \in Nat /\ Cardinality({LF, SP}) <= 2
  BY <1>3, <1>4, FS_AddElement
<1> DEFINE X == {LF, SP}
           Y == X \union {COLON}
           Z == Y \union {SLASH}
<1>6. IsFiniteSet(X) /\ Cardinality(X) \in Nat /\ Cardinality(X) <= 2
  BY <1>5
<1>7. IsFiniteSet(Y) /\ Cardinality(Y) \in Nat /\ Cardinality(Y) <= 3
  <2> HIDE DEF X
  <2> QED
    BY <1>6, FS_AddElement
<1>8. IsFiniteSet(Z) /\ Cardinality(Z) \in Nat /\ Cardinality(Z) <= 4
  <2> HIDE DEF Y
  <2> QED
    BY <1>7, FS_AddElement
<1>9. Cardinality(Z) = 5
  BY <1>1, <1>2, Zenon
<1> HIDE DEF Z
<1> QED
  BY SMT, <1>8, <1>9

(* text starts with the lines 1 to n, each with a line end behind it, and  *)
(* an empty line; e[k] is the place of the last character of the line end  *)
(* of line k.                                                              *)
LaidOut(text, lines, n, e) ==
  /\ text \in Seq(Char) /\ n \in Nat \ {0}
  /\ lines \in [1 .. n -> Seq(Char)] /\ e \in [0 .. n -> Nat]
  /\ e[0] = 0
  /\ \A k \in 1 .. n :
       /\ e[k] = e[k - 1] + Len(lines[k]) + 2
       /\ \A i \in 1 .. Len(lines[k]) : text[e[k - 1] + i] = lines[k][i]
       /\ text[e[k] - 1] = CR /\ text[e[k]] = LF
  /\ e[n] + 2 <= Len(text)
  /\ text[e[n] + 1] = CR /\ text[e[n] + 2] = LF

(* The characters the parser looks for.                                    *)
LEMMA EolIs ==
  /\ CR \in Char /\ LF \in Char /\ SP \in Char /\ COLON \in Char /\ EOL \in Seq(Char)
  /\ Len(EOL) = 2 /\ EOL[1] = CR /\ EOL[2] = LF
<1>1. CR \in Char /\ LF \in Char /\ SP \in Char /\ COLON \in Char
  BY CharAssumption, Zenon
<1> QED
  BY SMT, <1>1 DEF EOL


(* The lines have no line end in them, and only the first may be empty.     *)
WholeLines(lines, n) ==
  /\ \A k \in 1 .. n : \A i \in 1 .. Len(lines[k]) - 1 :
       ~ (lines[k][i] = CR /\ lines[k][i + 1] = LF)
  /\ \A k \in 2 .. n : lines[k] # <<>>

(* One of the lines.                                                       *)
LEMMA LineFacts ==
  ASSUME NEW text, NEW lines, NEW n, NEW e, LaidOut(text, lines, n, e), NEW k \in 1 .. n
  PROVE  /\ k \in Nat /\ k - 1 \in 0 .. n /\ k \in 0 .. n
         /\ e[k - 1] \in Nat /\ e[k] \in Nat
         /\ lines[k] \in Seq(Char) /\ Len(lines[k]) \in Nat
         /\ e[k] = e[k - 1] + Len(lines[k]) + 2
         /\ \A i \in 1 .. Len(lines[k]) : text[e[k - 1] + i] = lines[k][i]
         /\ text[e[k] - 1] = CR /\ text[e[k]] = LF
<1>1. n \in Nat /\ lines \in [1 .. n -> Seq(Char)] /\ e \in [0 .. n -> Nat]
  BY Zenon DEF LaidOut
<1>2. k \in Nat /\ k - 1 \in 0 .. n /\ k \in 0 .. n
  BY SMT, <1>1
<1>3. e[k - 1] \in Nat /\ e[k] \in Nat /\ lines[k] \in Seq(Char)
  BY <1>1, <1>2, Zenon
<1>4. Len(lines[k]) \in Nat
  BY SMT, <1>3
<1> QED
  BY <1>2, <1>3, <1>4, Zenon DEF LaidOut

(* A line ends before the next one does.                                   *)
LEMMA LinesAscend ==
  ASSUME NEW text, NEW lines, NEW n, NEW e, LaidOut(text, lines, n, e)
  PROVE  \A k \in 0 .. n : \A j \in 0 .. k : j < k => e[j] + 2 <= e[k]
<1> DEFINE Above(k) == \A j \in 0 .. k : j < k => e[j] + 2 <= e[k]
           Good == {k \in 0 .. n : Above(k)}
<1>1. n \in Nat /\ e \in [0 .. n -> Nat]
  BY Zenon DEF LaidOut
<1>2. 0 \in Good
  BY SMT, <1>1
<1>3. ASSUME NEW m \in 0 .. n - 1, m \in Good PROVE m + 1 \in Good
  <2> DEFINE k == m + 1
  <2>1. k \in 1 .. n /\ k - 1 = m /\ m \in 0 .. n /\ k \in 0 .. n
    BY SMT, <1>1
  <2>2. e[m] \in Nat /\ Len(lines[k]) \in Nat /\ e[k] = e[m] + Len(lines[k]) + 2
    <3> HIDE DEF k
    <3>1. e[k - 1] \in Nat /\ Len(lines[k]) \in Nat /\ e[k] = e[k - 1] + Len(lines[k]) + 2
      BY <2>1, LineFacts
    <3> QED
      BY <2>1, <3>1, Zenon
  <2>3. ASSUME NEW j \in 0 .. k, j < k PROVE e[j] + 2 <= e[k]
    <3>1. CASE j = m
      BY SMT, <2>2, <3>1
    <3>2. CASE j # m
      <4>1. j \in 0 .. m /\ j < m /\ j \in 0 .. n
        BY SMT, <1>1, <2>3, <3>2
      <4>2. e[j] + 2 <= e[m]
        BY <1>3, <4>1, Zenon
      <4>3. e[j] \in Nat
        BY <1>1, <4>1, Zenon
      <4> HIDE DEF k
      <4> QED
        BY SMT, <2>2, <4>2, <4>3
    <3> QED
      BY <3>1, <3>2, Zenon
  <2>4. Above(k)
    BY <2>3, Zenon
  <2> HIDE DEF Above
  <2> QED
    BY <2>1, <2>4, Zenon
<1> HIDE DEF Good
<1>4. 0 .. n \subseteq Good
  BY <1>1, <1>2, <1>3, Induction, Zenon
<1> QED
  BY <1>4, Zenon DEF Good

(* Every place of the header is one of a line or of its line end.          *)
LEMMA LineOf ==
  ASSUME NEW text, NEW lines, NEW n, NEW e, LaidOut(text, lines, n, e), NEW i \in 1 .. e[n]
  PROVE  \E k \in 1 .. n : e[k - 1] < i /\ i <= e[k]
<1> DEFINE S == {k \in 0 .. n : i <= e[k]}
<1>1. n \in Nat /\ e \in [0 .. n -> Nat] /\ e[0] = 0
  BY Zenon DEF LaidOut
<1>2. n \in 0 .. n /\ \A k \in 0 .. n : e[k] \in Nat
  <2>1. n \in 0 .. n
    BY SMT, <1>1
  <2> QED
    BY <1>1, <2>1, Zenon
<1>3. S \in SUBSET Nat /\ n \in S
  <2>1. i <= e[n]
    BY SMT, <1>2
  <2>2. S \subseteq Nat
    BY SMT
  <2> QED
    BY <1>2, <2>1, <2>2, Zenon
<1>4. PICK k \in S : \A j \in S : k <= j
  <2> HIDE DEF S
  <2> QED
    BY <1>3, LeastNumber
<1>5. k \in 0 .. n /\ i <= e[k]
  BY <1>4, Zenon
<1>6. k # 0
  <2> SUFFICES ASSUME k = 0 PROVE FALSE
    OBVIOUS
  <2>1. i <= 0
    BY <1>1, <1>5, Zenon
  <2>2. i \in Int /\ i >= 1
    BY SMT, <1>2
  <2> QED
    BY SMT, <2>1, <2>2
<1>7. k \in 1 .. n /\ k - 1 \in 0 .. n /\ ~ (k <= k - 1)
  BY SMT, <1>1, <1>5, <1>6
<1>8. ~ (i <= e[k - 1])
  BY <1>4, <1>7, Zenon
<1>9. e[k - 1] < i
  <2>1. e[k - 1] \in Nat /\ i \in Int
    BY SMT, <1>2, <1>7
  <2> QED
    BY SMT, <1>8, <2>1
<1> QED
  BY <1>5, <1>7, <1>9, Zenon

(* A line end is at the end of a line.                                     *)
LEMMA BreakIs ==
  ASSUME NEW text, NEW lines, NEW n, NEW e, LaidOut(text, lines, n, e),
         WholeLines(lines, n), NEW i \in 1 .. e[n] + 1,
         text[i] = CR, text[i + 1] = LF
  PROVE  (\E k \in 1 .. n : i = e[k] - 1) \/ i = e[n] + 1
<1> SUFFICES ASSUME i # e[n] + 1 PROVE \E k \in 1 .. n : i = e[k] - 1
  OBVIOUS
<1>1. e[n] \in Nat
  <2>1. n \in Nat /\ e \in [0 .. n -> Nat]
    BY Zenon DEF LaidOut
  <2>2. n \in 0 .. n
    BY SMT, <2>1
  <2> QED
    BY <2>1, <2>2, Zenon
<1>2. i \in 1 .. e[n]
  BY SMT, <1>1
<1>3. PICK k \in 1 .. n : e[k - 1] < i /\ i <= e[k]
  BY <1>2, LineOf, Zenon
<1> DEFINE l == Len(lines[k])
           p == e[k - 1]
           q == e[k]
           j == i - p
<1>4. /\ p \in Nat /\ q \in Nat /\ l \in Nat /\ q = p + l + 2
      /\ \A h \in 1 .. l : text[p + h] = lines[k][h]
      /\ text[q - 1] = CR /\ text[q] = LF
  <2>1. k \in 1 .. n
    BY <1>3, Zenon
  <2> HIDE DEF l, p, q
  <2>2. /\ e[k - 1] \in Nat /\ e[k] \in Nat /\ Len(lines[k]) \in Nat
        /\ e[k] = e[k - 1] + Len(lines[k]) + 2
        /\ \A h \in 1 .. Len(lines[k]) : text[e[k - 1] + h] = lines[k][h]
        /\ text[e[k] - 1] = CR /\ text[e[k]] = LF
    BY <2>1, LineFacts
  <2> QED
    BY <2>2, Zenon DEF l, p, q
<1>5. p < i /\ i <= q
  BY <1>3, Zenon
<1> HIDE DEF l, p, q
<1>6. j \in 1 .. l + 2 /\ i = p + j /\ i + 1 = p + (j + 1)
  BY SMT, <1>2, <1>4, <1>5
<1>7. CASE j < l
  <2>1. j \in 1 .. l - 1 /\ j \in 1 .. l /\ j + 1 \in 1 .. l
    BY SMT, <1>4, <1>6, <1>7
  <2>2. lines[k][j] = CR /\ lines[k][j + 1] = LF
    BY <1>4, <1>6, <2>1, Zenon
  <2> QED
    BY <2>1, <2>2, Zenon DEF WholeLines, l
<1>8. CASE j = l
  <2>1. i + 1 = q - 1
    BY SMT, <1>4, <1>6, <1>8
  <2> QED
    BY <1>4, <2>1, LineEndIsTwo, Zenon
<1>9. CASE j = l + 1
  <2>1. i = q - 1
    BY SMT, <1>4, <1>6, <1>9
  <2> QED
    BY <2>1, Zenon DEF q
<1>10. CASE j = l + 2
  <2>1. i = q
    BY SMT, <1>4, <1>6, <1>10
  <2> QED
    BY <1>4, <2>1, LineEndIsTwo, Zenon
<1>11. j < l \/ j = l \/ j = l + 1 \/ j = l + 2
  BY SMT, <1>4, <1>6
<1> QED
  BY <1>7, <1>8, <1>9, <1>10, <1>11, Zenon

(* The first empty line is the one behind the last line.                    *)
LEMMA EmptyLineIs ==
  ASSUME NEW text, NEW lines, NEW n, NEW e, LaidOut(text, lines, n, e),
         WholeLines(lines, n), NEW i \in 1 .. e[n] - 1,
         text[i] = CR, text[i + 1] = LF, text[i + 2] = CR, text[i + 3] = LF
  PROVE  i = e[n] - 1
<1>1. n \in Nat /\ n \in 0 .. n /\ e[n] \in Nat
  <2>1. n \in Nat /\ e \in [0 .. n -> Nat]
    BY Zenon DEF LaidOut
  <2>2. n \in 0 .. n
    BY SMT, <2>1
  <2> QED
    BY <2>1, <2>2, Zenon
<1>2. /\ i \in 1 .. e[n] + 1 /\ i + 2 \in 1 .. e[n] + 1 /\ i # e[n] + 1
      /\ (i + 2) + 1 = i + 3
  BY SMT, <1>1
<1>3. PICK k \in 1 .. n : i = e[k] - 1
  BY <1>2, BreakIs
<1>4. (\E m \in 1 .. n : i + 2 = e[m] - 1) \/ i + 2 = e[n] + 1
  <2> DEFINE h == i + 2
  <2>1. h \in 1 .. e[n] + 1 /\ text[h] = CR /\ text[h + 1] = LF
    BY <1>2, Zenon
  <2> HIDE DEF h
  <2>2. (\E m \in 1 .. n : h = e[m] - 1) \/ h = e[n] + 1
    BY <2>1, BreakIs
  <2> QED
    BY <2>2, Zenon DEF h
<1>5. CASE i + 2 = e[n] + 1
  BY SMT, <1>1, <1>5
<1>6. CASE \E m \in 1 .. n : i + 2 = e[m] - 1
  <2>1. PICK m \in 1 .. n : i + 2 = e[m] - 1
    BY <1>6, Zenon
  <2>2. e[k] \in Nat /\ e[m] \in Nat /\ k \in 0 .. n /\ m \in 0 .. n
    BY LineFacts, Zenon
  <2>3. e[m] = e[k] + 2
    BY SMT, <1>3, <2>1, <2>2
  <2>4. k < m
    <3> SUFFICES ASSUME ~ (k < m) PROVE FALSE
      OBVIOUS
    <3>1. m = k \/ (m \in 0 .. k /\ m < k)
      BY SMT, <1>1
    <3>2. e[m] = e[k] \/ e[m] + 2 <= e[k]
      BY <2>2, <3>1, LinesAscend, Zenon
    <3> QED
      BY SMT, <2>2, <2>3, <3>2
  <2> DEFINE j == k + 1
  <2>5. j \in 2 .. n /\ j \in 1 .. n /\ j - 1 = k /\ (j = m \/ (j \in 0 .. m /\ j < m))
    BY SMT, <1>1, <2>4
  <2> HIDE DEF j
  <2>6. /\ e[j] \in Nat /\ Len(lines[j]) \in Nat /\ lines[j] \in Seq(Char)
        /\ e[j] = e[k] + Len(lines[j]) + 2
    <3>1. /\ e[j] \in Nat /\ Len(lines[j]) \in Nat /\ lines[j] \in Seq(Char)
          /\ e[j] = e[j - 1] + Len(lines[j]) + 2
      BY <2>5, LineFacts
    <3> QED
      BY <2>5, <3>1, Zenon
  <2>7. e[j] = e[m] \/ e[j] + 2 <= e[m]
    BY <2>2, <2>5, LinesAscend, Zenon
  <2>8. Len(lines[j]) = 0
    BY SMT, <2>2, <2>3, <2>6, <2>7
  <2>9. lines[j] = <<>>
    BY <2>6, <2>8
  <2> QED
    BY <2>5, <2>9, Zenon DEF WholeLines
<1> QED
  BY <1>4, <1>5, <1>6, Zenon

(* What a piece of a text has where.                                       *)
LEMMA SliceAt ==
  ASSUME NEW S, NEW x \in Seq(S), NEW i \in Nat \ {0}, NEW j \in Nat,
         i <= j + 1, j <= Len(x)
  PROVE  /\ SubSeq(x, i, j) \in Seq(S) /\ Len(SubSeq(x, i, j)) = j - i + 1
         /\ \A h \in 1 .. j - i + 1 : SubSeq(x, i, j)[h] = x[i + h - 1]
<1>1. Len(SubSeq(x, i, j)) = j - i + 1
  BY SMT
<1>2. SubSeq(x, i, j) \in Seq(S)
  BY SMT
<1>3. ASSUME NEW h \in 1 .. j - i + 1 PROVE SubSeq(x, i, j)[h] = x[i + h - 1]
  BY SMT
<1> QED
  BY <1>1, <1>2, <1>3, Zenon

(* Two texts with the same characters are the same.                        *)
LEMMA SameText ==
  ASSUME NEW S, NEW x \in Seq(S), NEW y \in Seq(S), Len(x) = Len(y),
         \A i \in 1 .. Len(x) : x[i] = y[i]
  PROVE  x = y
  BY SeqEqual, Zenon

(* Where a pattern is found.                                               *)
LEMMA FoundIs ==
  ASSUME NEW x \in Seq(Char), NEW y \in Seq(Char), NEW i
  PROVE  i \in Found(y, x) <=>
           /\ i \in 1 .. Len(x) - Len(y) + 1
           /\ \A h \in 1 .. Len(y) : x[i + h - 1] = y[h]
<1> DEFINE l == Len(x)
           m == Len(y)
<1>1. l \in Nat /\ m \in Nat
  BY SMT
<1> SUFFICES ASSUME i \in 1 .. l - m + 1
             PROVE  SubSeq(x, i, i + m - 1) = y <=> \A h \in 1 .. m : x[i + h - 1] = y[h]
  BY Zenon DEF Found
<1> DEFINE j == i + m - 1
           z == SubSeq(x, i, j)
<1> HIDE DEF l, m
<1>2. i \in Nat \ {0} /\ j \in Nat /\ i <= j + 1 /\ j <= l /\ j - i + 1 = m
  BY SMT, <1>1
<1>3. /\ z \in Seq(Char) /\ Len(z) = m
      /\ \A h \in 1 .. m : z[h] = x[i + h - 1]
  <2> HIDE DEF j
  <2>1. j <= Len(x)
    BY <1>2, Zenon DEF l
  <2>2. /\ z \in Seq(Char) /\ Len(z) = j - i + 1
        /\ \A h \in 1 .. j - i + 1 : z[h] = x[i + h - 1]
    BY <1>2, <2>1, SliceAt
  <2> QED
    BY <1>2, <2>2, Zenon
<1> HIDE DEF z
<1>4. z = y => \A h \in 1 .. m : x[i + h - 1] = y[h]
  BY <1>3, Zenon
<1>5. (\A h \in 1 .. m : x[i + h - 1] = y[h]) => z = y
  <2> SUFFICES ASSUME \A h \in 1 .. m : x[i + h - 1] = y[h] PROVE z = y
    OBVIOUS
  <2>1. Len(z) = Len(y) /\ \A h \in 1 .. Len(z) : z[h] = y[h]
    BY <1>3, Zenon DEF m
  <2> QED
    BY <1>3, <2>1, SameText
<1> QED
  BY <1>4, <1>5, Zenon DEF z

(* Where a line end is found,                                              *)
LEMMA FoundLineEnd ==
  ASSUME NEW x \in Seq(Char), NEW i
  PROVE  i \in Found(EOL, x) <=> i \in 1 .. Len(x) - 1 /\ x[i] = CR /\ x[i + 1] = LF
<1>1. i \in Found(EOL, x) <=>
        /\ i \in 1 .. Len(x) - Len(EOL) + 1
        /\ \A h \in 1 .. Len(EOL) : x[i + h - 1] = EOL[h]
  BY EolIs, FoundIs, Zenon
<1>2. Len(x) \in Nat
  OBVIOUS
<1> SUFFICES ASSUME i \in 1 .. Len(x) - 1
             PROVE  (\A h \in 1 .. 2 : x[i + h - 1] = EOL[h]) <=> x[i] = CR /\ x[i + 1] = LF
  <2>1. 1 .. Len(x) - 2 + 1 = 1 .. Len(x) - 1
    BY SMT, <1>2
  <2> QED
    BY <1>1, <2>1, EolIs, Zenon
<1>3. i + 1 - 1 = i /\ i + 2 - 1 = i + 1
  BY SMT, <1>2
<1>4. \A h : h \in 1 .. 2 <=> h = 1 \/ h = 2
  BY SMT
<1> QED
  BY <1>3, <1>4, EolIs, Zenon

(* where an empty line,                                                    *)
LEMMA FoundEmptyLine ==
  ASSUME NEW x \in Seq(Char), NEW i
  PROVE  i \in HeadersEnd(x) <=>
           /\ i \in 1 .. Len(x) - 3
           /\ x[i] = CR /\ x[i + 1] = LF /\ x[i + 2] = CR /\ x[i + 3] = LF
<1> DEFINE y == EOL \o EOL
<1>1. /\ y \in Seq(Char) /\ Len(y) = 4
      /\ y[1] = CR /\ y[2] = LF /\ y[3] = CR /\ y[4] = LF
  BY SMT, EolIs DEF EOL
<1>2. HeadersEnd(x) = Found(y, x)
  BY Zenon DEF HeadersEnd
<1> HIDE DEF y
<1>0. y \in Seq(Char)
  BY <1>1, Zenon
<1>3. i \in Found(y, x) <=>
        /\ i \in 1 .. Len(x) - Len(y) + 1
        /\ \A h \in 1 .. Len(y) : x[i + h - 1] = y[h]
  BY <1>0, FoundIs, ZenonT(30)
<1>4. Len(x) \in Nat
  OBVIOUS
<1> SUFFICES ASSUME i \in 1 .. Len(x) - 3
             PROVE  (\A h \in 1 .. 4 : x[i + h - 1] = y[h]) <=>
                      x[i] = CR /\ x[i + 1] = LF /\ x[i + 2] = CR /\ x[i + 3] = LF
  <2>1. 1 .. Len(x) - 4 + 1 = 1 .. Len(x) - 3
    BY SMT, <1>4
  <2> QED
    BY <1>1, <1>2, <1>3, <2>1, Zenon
<1>5. i + 1 - 1 = i /\ i + 2 - 1 = i + 1 /\ i + 3 - 1 = i + 2 /\ i + 4 - 1 = i + 3
  BY SMT, <1>4
<1>6. \A h : h \in 1 .. 4 <=> h = 1 \/ h = 2 \/ h = 3 \/ h = 4
  BY SMT
<1> QED
  BY <1>1, <1>5, <1>6, Zenon

(* and where a single character.                                           *)
LEMMA FoundChar ==
  ASSUME NEW x \in Seq(Char), NEW c \in Char, NEW i
  PROVE  i \in Found(<<c>>, x) <=> i \in 1 .. Len(x) /\ x[i] = c
<1> DEFINE y == <<c>>
<1>1. y \in Seq(Char) /\ Len(y) = 1 /\ y[1] = c
  BY SMT
<1> HIDE DEF y
<1>2. i \in Found(y, x) <=>
        /\ i \in 1 .. Len(x) - Len(y) + 1
        /\ \A h \in 1 .. Len(y) : x[i + h - 1] = y[h]
  BY <1>1, FoundIs, Zenon
<1>3. Len(x) \in Nat
  OBVIOUS
<1>4. 1 .. Len(x) - 1 + 1 = 1 .. Len(x) /\ \A h : h \in 1 .. 1 <=> h = 1
  BY SMT, <1>3
<1>5. i \in 1 .. Len(x) => i + 1 - 1 = i
  BY SMT, <1>3
<1> QED
  BY <1>1, <1>2, <1>4, <1>5, Zenon DEF y

(* The least one.                                                          *)
LEMMA MinIs ==
  ASSUME NEW T \in SUBSET Nat, NEW m \in T, \A i \in T : m <= i
  PROVE  Min(T) = m
<1>1. Min(T) \in T /\ Min(T) <= m
  BY MinIsLeast, Zenon
<1>2. m <= Min(T) /\ Min(T) \in Nat /\ m \in Nat
  BY <1>1, Zenon
<1> QED
  BY SMT, <1>1, <1>2

(* The first q characters of a text.                                       *)
Begins(z, text, q) ==
  /\ z \in Seq(Char) /\ Len(z) = q /\ q \in Nat /\ q <= Len(text)
  /\ \A i \in 1 .. q : z[i] = text[i]

(* SubSeq cuts it off.                                                     *)
LEMMA BeginningIs ==
  ASSUME NEW text \in Seq(Char), NEW q \in 0 .. Len(text)
  PROVE  Begins(SubSeq(text, 1, q), text, q)
<1> DEFINE z == SubSeq(text, 1, q)
<1>1. q \in Nat /\ q <= Len(text) /\ 1 \in Nat \ {0} /\ 1 <= q + 1 /\ q - 1 + 1 = q
      /\ \A h \in 1 .. q : 1 + h - 1 = h
  BY SMT
<1>2. /\ z \in Seq(Char) /\ Len(z) = q - 1 + 1
      /\ \A h \in 1 .. q - 1 + 1 : z[h] = text[1 + h - 1]
  BY <1>1, SliceAt
<1> HIDE DEF z
<1>3. z \in Seq(Char) /\ Len(z) = q /\ \A h \in 1 .. q : z[h] = text[h]
  BY <1>1, <1>2, Zenon
<1> QED
  BY <1>1, <1>3, Zenon DEF Begins, z

(* A beginning of a beginning.                                             *)
LEMMA BeginningOf ==
  ASSUME NEW text, NEW z, NEW p, Begins(z, text, p), NEW q \in Nat, q <= p, p <= Len(text),
         Len(text) \in Nat
  PROVE  Begins(SubSeq(z, 1, q), text, q)
<1> DEFINE y == SubSeq(z, 1, q)
<1>1. z \in Seq(Char) /\ Len(z) = p /\ p \in Nat /\ \A i \in 1 .. p : z[i] = text[i]
  BY Zenon DEF Begins
<1>2. q \in 0 .. Len(z) /\ q <= Len(text)
  BY SMT, <1>1
<1>3. Begins(y, z, q)
  BY <1>1, <1>2, BeginningIs
<1>4. y \in Seq(Char) /\ Len(y) = q /\ \A i \in 1 .. q : y[i] = z[i]
  BY <1>3, Zenon DEF Begins
<1>5. \A i \in 1 .. q : i \in 1 .. p
  BY SMT, <1>1
<1> QED
  BY <1>1, <1>2, <1>4, <1>5, Zenon DEF Begins

(* The last line and the end of the text.                                  *)
LEMMA LastLine ==
  ASSUME NEW text, NEW lines, NEW n, NEW e, LaidOut(text, lines, n, e)
  PROVE  /\ n \in Nat \ {0} /\ n \in 0 .. n /\ n \in 1 .. n /\ 1 \in 1 .. n
         /\ e[n] \in Nat /\ e[n] >= 2 /\ e[0] = 0
         /\ text \in Seq(Char) /\ Len(text) \in Nat /\ e[n] + 2 <= Len(text)
<1>1. /\ n \in Nat \ {0} /\ e[0] = 0 /\ text \in Seq(Char) /\ e[n] + 2 <= Len(text)
  BY Zenon DEF LaidOut
<1>2. n \in 0 .. n /\ n \in 1 .. n /\ 1 \in 1 .. n
  BY SMT, <1>1
<1>3. /\ e[n] \in Nat /\ e[n - 1] \in Nat /\ Len(lines[n]) \in Nat
      /\ e[n] = e[n - 1] + Len(lines[n]) + 2
  BY <1>2, LineFacts
<1>4. e[n] >= 2
  BY SMT, <1>3
<1>5. Len(text) \in Nat
  BY SMT, <1>1
<1> QED
  BY <1>1, <1>2, <1>3, <1>4, <1>5, Zenon

(* An empty line is found when the header is there with the empty line       *)
(* behind it, and then the header is what lies before it.                   *)
LEMMA HeaderFound ==
  ASSUME NEW text, NEW lines, NEW n, NEW e, LaidOut(text, lines, n, e),
         WholeLines(lines, n), NEW z, NEW p, Begins(z, text, p), HeadersEnd(z) # {}
  PROVE  /\ e[n] + 2 <= p
         /\ Min(HeadersEnd(z)) = e[n] - 1
<1> DEFINE H == HeadersEnd(z)
<1>1. /\ n \in 1 .. n /\ e[n] \in Nat /\ e[n] >= 2 /\ Len(text) \in Nat
      /\ text[e[n] - 1] = CR /\ text[e[n]] = LF
      /\ text[e[n] + 1] = CR /\ text[e[n] + 2] = LF
  <2>1. n \in 1 .. n /\ e[n] \in Nat /\ e[n] >= 2 /\ Len(text) \in Nat
    BY LastLine
  <2>2. text[e[n] - 1] = CR /\ text[e[n]] = LF /\ text[e[n] + 1] = CR /\ text[e[n] + 2] = LF
    BY <2>1, Zenon DEF LaidOut
  <2> QED
    BY <2>1, <2>2, Zenon
<1>2. z \in Seq(Char) /\ Len(z) = p /\ p \in Nat /\ \A i \in 1 .. p : z[i] = text[i]
  BY Zenon DEF Begins
<1>3. ASSUME NEW i PROVE i \in H <=> /\ i \in 1 .. p - 3
        /\ z[i] = CR /\ z[i + 1] = LF /\ z[i + 2] = CR /\ z[i + 3] = LF
  BY <1>2, FoundEmptyLine, Zenon
<1>4. ASSUME NEW i \in H PROVE i \in 1 .. p - 3 /\ e[n] - 1 <= i
  <2>1. /\ i \in 1 .. p - 3 /\ z[i] = CR /\ z[i + 1] = LF /\ z[i + 2] = CR /\ z[i + 3] = LF
    BY <1>3, Zenon
  <2>2. i \in 1 .. p /\ i + 1 \in 1 .. p /\ i + 2 \in 1 .. p /\ i + 3 \in 1 .. p
    BY SMT, <1>2, <2>1
  <2>3. text[i] = CR /\ text[i + 1] = LF /\ text[i + 2] = CR /\ text[i + 3] = LF
    BY <1>2, <2>1, <2>2, Zenon
  <2>4. CASE i <= e[n] - 1
    <3>1. i \in 1 .. e[n] - 1
      BY SMT, <1>1, <2>2, <2>4
    <3>2. i = e[n] - 1
      BY <2>3, <3>1, EmptyLineIs
    <3> QED
      BY SMT, <1>1, <2>1, <3>2
  <2>5. CASE ~ (i <= e[n] - 1)
    BY SMT, <1>1, <2>1, <2>5
  <2> QED
    BY <2>4, <2>5, Zenon
<1> HIDE DEF H
<1>5. H # {}
  BY Zenon DEF H
<1>6. PICK i \in H : TRUE
  BY <1>5, Zenon
<1>7. e[n] + 2 <= p
  <2>1. i \in 1 .. p - 3 /\ e[n] - 1 <= i
    BY <1>4, <1>6, Zenon
  <2> QED
    BY SMT, <1>1, <1>2, <2>1
<1>8. e[n] - 1 \in H
  <2> DEFINE j == e[n] - 1
  <2>1. /\ j \in 1 .. p - 3 /\ j \in 1 .. p
        /\ j + 1 \in 1 .. p /\ j + 2 \in 1 .. p /\ j + 3 \in 1 .. p
        /\ j + 1 = e[n] /\ j + 2 = e[n] + 1 /\ j + 3 = e[n] + 2
    <3> DEFINE d == e[n]
    <3>1. d \in Nat /\ d >= 2 /\ d + 2 <= p /\ p \in Nat
      BY <1>1, <1>2, <1>7, Zenon
    <3> HIDE DEF d
    <3> DEFINE i2 == d - 1
    <3>2. /\ i2 \in 1 .. p - 3 /\ i2 \in 1 .. p
          /\ i2 + 1 \in 1 .. p /\ i2 + 2 \in 1 .. p /\ i2 + 3 \in 1 .. p
      BY SMT, <3>1
    <3>3. i2 + 1 = d /\ i2 + 2 = d + 1 /\ i2 + 3 = d + 2
      BY SMT, <3>1
    <3> QED
      BY <3>2, <3>3, Zenon DEF d
  <2>2. text[j] = CR /\ text[j + 1] = LF /\ text[j + 2] = CR /\ text[j + 3] = LF
    BY <1>1, <2>1, Zenon
  <2> HIDE DEF j
  <2>3. z[j] = CR /\ z[j + 1] = LF /\ z[j + 2] = CR /\ z[j + 3] = LF
    BY <1>2, <2>1, <2>2, Zenon
  <2>4. j \in H
    BY <1>3, <2>1, <2>3, Zenon
  <2> QED
    BY <2>4, Zenon DEF j
<1>9. H \in SUBSET Nat
  <2>1. \A j \in H : j \in 1 .. p - 3
    BY <1>4, Zenon
  <2> QED
    BY SMT, <1>2, <2>1
<1>10. Min(H) = e[n] - 1
  <2>1. \A j \in H : e[n] - 1 <= j
    BY <1>4, Zenon
  <2> QED
    BY <1>8, <1>9, <2>1, MinIs
<1> QED
  BY <1>7, <1>10, Zenon DEF H

(* The text of a line, cut out of a beginning that holds it.                *)
LEMMA LineCut ==
  ASSUME NEW text, NEW lines, NEW n, NEW e, LaidOut(text, lines, n, e),
         NEW k \in 1 .. n, NEW z, NEW p, Begins(z, text, p), e[k] - 2 <= p
  PROVE  SubSeq(z, e[k - 1] + 1, e[k] - 2) = lines[k]
<1> DEFINE a == e[k - 1]
           l == Len(lines[k])
           i == a + 1
           j == e[k] - 2
           x == SubSeq(z, i, j)
<1>1. /\ a \in Nat /\ lines[k] \in Seq(Char) /\ l \in Nat /\ e[k] = a + l + 2
      /\ \A h \in 1 .. l : text[a + h] = lines[k][h]
  BY LineFacts
<1>2. z \in Seq(Char) /\ Len(z) = p /\ p \in Nat /\ \A h \in 1 .. p : z[h] = text[h]
  BY Zenon DEF Begins
<1> HIDE DEF a, l
<1>3. /\ i \in Nat \ {0} /\ j \in Nat /\ i <= j + 1 /\ j <= p /\ j - i + 1 = l /\ j = a + l
      /\ \A h \in 1 .. l : i + h - 1 = a + h /\ a + h \in 1 .. p
  <2> DEFINE d == e[k]
  <2>1. a \in Nat /\ l \in Nat /\ p \in Nat /\ d = a + l + 2 /\ d - 2 <= p
    BY <1>1, <1>2, Zenon
  <2> HIDE DEF d
  <2>2. i = a + 1 /\ j = d - 2
    BY Zenon DEF d
  <2> HIDE DEF i, j
  <2>3. /\ i \in Nat \ {0} /\ j \in Nat /\ i <= j + 1 /\ j <= p /\ j - i + 1 = l
        /\ j = a + l
    BY SMT, <2>1, <2>2
  <2>4. ASSUME NEW h \in 1 .. l PROVE i + h - 1 = a + h /\ a + h \in 1 .. p
    BY SMT, <2>1, <2>2
  <2> QED
    BY <2>3, <2>4, Zenon
<1> HIDE DEF i, j
<1>4. /\ x \in Seq(Char) /\ Len(x) = j - i + 1
      /\ \A h \in 1 .. j - i + 1 : x[h] = z[i + h - 1]
  <2>1. j <= Len(z)
    BY <1>2, <1>3, Zenon
  <2>2. z \in Seq(Char) /\ i \in Nat \ {0} /\ j \in Nat /\ i <= j + 1
    BY <1>2, <1>3, Zenon
  <2> QED
    BY <2>1, <2>2, SliceAt
<1> HIDE DEF x
<1>5. Len(x) = Len(lines[k]) /\ \A h \in 1 .. Len(x) : x[h] = lines[k][h]
  <2>1. Len(x) = l
    BY <1>3, <1>4, Zenon
  <2>2. ASSUME NEW h \in 1 .. l PROVE x[h] = lines[k][h]
    <3>1. x[h] = z[a + h] /\ a + h \in 1 .. p
      BY <1>3, <1>4, Zenon
    <3> QED
      BY <1>1, <1>2, <3>1, Zenon
  <2> QED
    BY <2>1, <2>2, Zenon DEF l
<1>6. x = lines[k]
  BY <1>1, <1>4, <1>5, SameText, Zenon
<1> QED
  BY <1>6, Zenon DEF x, i, j, a

(* Any two lines.                                                          *)
LEMMA EndsUpTo ==
  ASSUME NEW text, NEW lines, NEW n, NEW e, LaidOut(text, lines, n, e),
         NEW k \in 0 .. n, NEW j \in 0 .. n
  PROVE  /\ e[k] \in Nat /\ e[j] \in Nat
         /\ j < k => e[j] + 2 <= e[k]
         /\ j <= k => e[j] <= e[k]
<1>1. n \in Nat /\ e \in [0 .. n -> Nat]
  BY Zenon DEF LaidOut
<1>2. e[k] \in Nat /\ e[j] \in Nat
  BY <1>1, Zenon
<1>3. j < k => e[j] + 2 <= e[k]
  <2>1. j < k => j \in 0 .. k
    BY SMT, <1>1
  <2> QED
    BY <2>1, LinesAscend, Zenon
<1>4. j <= k => j = k \/ j < k
  BY SMT, <1>1
<1>5. j < k => e[j] <= e[k]
  BY SMT, <1>2, <1>3
<1>6. j = k => e[j] <= e[k]
  BY SMT, <1>2
<1> QED
  BY <1>2, <1>3, <1>4, <1>5, <1>6, Zenon

(* The line ends in the header are those of all lines but the last.         *)
LEMMA HeaderBreaks ==
  ASSUME NEW text, NEW lines, NEW n, NEW e, LaidOut(text, lines, n, e),
         WholeLines(lines, n), NEW z, Begins(z, text, e[n] - 2), NEW i
  PROVE  i \in Found(EOL, z) <=> \E k \in 1 .. n - 1 : i = e[k] - 1
<1>1. /\ n \in Nat \ {0} /\ n \in 1 .. n /\ n \in 0 .. n /\ e[n] \in Nat /\ e[n] >= 2
  BY LastLine
<1> DEFINE p == e[n] - 2
<1>2. z \in Seq(Char) /\ Len(z) = p /\ p \in Nat /\ \A h \in 1 .. p : z[h] = text[h]
  BY Zenon DEF Begins
<1>3. i \in Found(EOL, z) <=> i \in 1 .. p - 1 /\ z[i] = CR /\ z[i + 1] = LF
  BY <1>2, FoundLineEnd, Zenon
<1>4. ASSUME i \in Found(EOL, z) PROVE \E k \in 1 .. n - 1 : i = e[k] - 1
  <2>1. i \in 1 .. p - 1 /\ z[i] = CR /\ z[i + 1] = LF
    BY <1>3, <1>4, Zenon
  <2>2. i \in 1 .. p /\ i + 1 \in 1 .. p /\ i \in 1 .. e[n] + 1 /\ i # e[n] + 1 /\ i # e[n] - 1
    BY SMT, <1>1, <2>1
  <2>3. text[i] = CR /\ text[i + 1] = LF
    BY <1>2, <2>1, <2>2, Zenon
  <2>4. PICK k \in 1 .. n : i = e[k] - 1
    BY <2>2, <2>3, BreakIs
  <2>5. k # n
    BY <2>2, <2>4, Zenon
  <2>6. k \in 1 .. n - 1
    BY SMT, <1>1, <2>5
  <2> QED
    BY <2>4, <2>6, Zenon
<1>5. ASSUME NEW k \in 1 .. n - 1, i = e[k] - 1 PROVE i \in Found(EOL, z)
  <2>1. k \in 1 .. n /\ k \in 0 .. n /\ k < n
    BY SMT, <1>1
  <2>2. e[k] \in Nat /\ e[k] + 2 <= e[n]
    BY <1>1, <2>1, EndsUpTo, Zenon
  <2>3. /\ Len(lines[k]) \in Nat /\ e[k - 1] \in Nat /\ e[k] = e[k - 1] + Len(lines[k]) + 2
        /\ text[e[k] - 1] = CR /\ text[e[k]] = LF
    BY <2>1, LineFacts
  <2>4. i \in 1 .. p - 1 /\ i \in 1 .. p /\ i + 1 \in 1 .. p /\ i + 1 = e[k]
    <3> DEFINE u == e[k]
               v == e[n]
    <3>1. u \in Nat /\ v \in Nat /\ u + 2 <= v /\ u >= 2 /\ i = u - 1 /\ p = v - 2
      <4>1. u >= 2
        BY SMT, <2>3
      <4> QED
        BY <1>1, <1>5, <2>2, <4>1, Zenon
    <3> HIDE DEF u, v, p
    <3>2. i \in 1 .. p - 1 /\ i \in 1 .. p /\ i + 1 \in 1 .. p /\ i + 1 = u
      BY SMT, <3>1
    <3> QED
      BY <3>2, Zenon DEF u
  <2>5. text[i] = CR /\ text[i + 1] = LF
    BY <1>5, <2>3, <2>4, Zenon
  <2>6. z[i] = CR /\ z[i + 1] = LF
    BY <1>2, <2>4, <2>5, Zenon
  <2> QED
    BY <1>3, <2>4, <2>6, Zenon
<1> QED
  BY <1>4, <1>5, Zenon

(* What the parser takes for the status line is the first line.            *)
LEMMA StatusLineIs ==
  ASSUME NEW text, NEW lines, NEW n, NEW e, LaidOut(text, lines, n, e),
         WholeLines(lines, n), NEW z, Begins(z, text, e[n] - 2)
  PROVE  StatusLine[z] = lines[1]
<1> DEFINE B == Found(EOL, z)
<1>1. /\ n \in Nat \ {0} /\ n \in 1 .. n /\ n \in 0 .. n /\ 1 \in 1 .. n
      /\ e[n] \in Nat /\ e[n] >= 2
      /\ e[0] = 0
  BY LastLine
<1>2. z \in Seq(Char) /\ Len(z) = e[n] - 2
  BY Zenon DEF Begins
<1>3. StatusLine[z] = IF B = {} THEN z ELSE Before(z, Min(B))
  BY <1>2 DEF StatusLine
<1>4. e[1] \in Nat /\ 1 \in 0 .. n /\ e[1] <= e[n]
  <2>1. 1 \in 0 .. n /\ 1 <= n
    BY SMT, <1>1
  <2> QED
    BY <1>1, <2>1, EndsUpTo, Zenon
<1>5. SubSeq(z, 1, e[1] - 2) = lines[1]
  <2> DEFINE k == 1
  <2>1. k \in 1 .. n /\ e[k] - 2 <= e[n] - 2 /\ e[k - 1] + 1 = 1
    <3>1. k - 1 = 0 /\ 0 + 1 = 1
      BY SMT
    <3>2. e[1] - 2 <= e[n] - 2
      BY SMT, <1>1, <1>4
    <3> QED
      BY <1>1, <3>1, <3>2, Zenon
  <2> HIDE DEF k
  <2>2. SubSeq(z, e[k - 1] + 1, e[k] - 2) = lines[k]
    BY <2>1, LineCut
  <2> QED
    BY <2>1, <2>2, Zenon DEF k
<1>6. CASE B = {}
  <2>1. n = 1
    <3> SUFFICES ASSUME n # 1 PROVE FALSE
      OBVIOUS
    <3>1. 1 \in 1 .. n - 1
      BY SMT, <1>1
    <3>2. e[1] - 1 \in B
      BY <3>1, HeaderBreaks, Zenon
    <3> QED
      BY <1>6, <3>2, Zenon
  <2>2. SubSeq(z, 1, Len(z)) = z
    BY <1>2
  <2> QED
    BY <1>2, <1>3, <1>5, <1>6, <2>1, <2>2, Zenon
<1>7. CASE B # {}
  <2>1. ASSUME NEW i \in B PROVE i \in Nat /\ e[1] - 1 <= i
    <3>0. i \in Found(EOL, z)
      BY <2>1
    <3>1. PICK k \in 1 .. n - 1 : i = e[k] - 1
      BY <3>0, HeaderBreaks
    <3>2. k \in 0 .. n /\ 1 <= k /\ k \in 1 .. n
      BY SMT, <1>1
    <3>3. e[k] \in Nat /\ e[1] <= e[k]
      BY <1>4, <3>2, EndsUpTo, Zenon
    <3>4. Len(lines[k]) \in Nat /\ e[k - 1] \in Nat /\ e[k] = e[k - 1] + Len(lines[k]) + 2
      BY <3>2, LineFacts
    <3> QED
      BY SMT, <1>4, <3>1, <3>3, <3>4
  <2>2. e[1] - 1 \in B
    <3>1. PICK i \in B : TRUE
      BY <1>7, Zenon
    <3>0. i \in Found(EOL, z)
      BY <3>1
    <3>2. PICK k \in 1 .. n - 1 : i = e[k] - 1
      BY <3>0, HeaderBreaks
    <3>3. 1 \in 1 .. n - 1
      BY SMT, <1>1
    <3> QED
      BY <3>3, HeaderBreaks, Zenon
  <2>3. B \in SUBSET Nat
    BY <2>1, Zenon
  <2> HIDE DEF B
  <2>4. Min(B) = e[1] - 1
    BY <2>1, <2>2, <2>3, MinIs, Zenon
  <2>5. (e[1] - 1) - 1 = e[1] - 2
    BY SMT, <1>4
  <2> QED
    BY <1>3, <1>5, <1>7, <2>4, <2>5, Zenon DEF Before
<1> QED
  BY <1>6, <1>7, Zenon

(* What the loop over the header takes for fields are lines of the header.  *)
LEMMA FieldLineIs ==
  ASSUME NEW text, NEW lines, NEW n, NEW e, LaidOut(text, lines, n, e),
         WholeLines(lines, n), NEW z, Begins(z, text, e[n] - 2), NEW f \in FieldLines(z)
  PROVE  \E k \in 2 .. n : /\ f[1] \in 1 .. Len(z) + 1
                           /\ SubSeq(z, f[1], f[2]) = lines[k]
<1> DEFINE B == Found(EOL, z)
<1>1. n \in Nat \ {0} /\ n \in 0 .. n /\ e[n] \in Nat
  BY LastLine
<1>2. PICK b \in B \X B : /\ b[1] < b[2] /\ \A h \in B : ~ (b[1] < h /\ h < b[2])
                          /\ f = <<b[1] + 2, b[2] - 1>>
  BY DEF FieldLines
<1>3. b[1] \in B /\ b[2] \in B
  BY <1>2
<1>4. f[1] = b[1] + 2 /\ f[2] = b[2] - 1
  BY <1>2
<1>5. PICK j \in 1 .. n - 1 : b[1] = e[j] - 1
  BY <1>3, HeaderBreaks
<1>6. PICK k \in 1 .. n - 1 : b[2] = e[k] - 1
  BY <1>3, HeaderBreaks
<1>7. j \in 0 .. n /\ k \in 0 .. n /\ j \in 1 .. n /\ k \in 1 .. n
  BY SMT, <1>1
<1>8. e[j] \in Nat /\ e[k] \in Nat /\ (k <= j => e[k] <= e[j]) /\ e[k] <= e[n]
  <2>1. k <= n
    BY SMT, <1>1
  <2> QED
    BY <1>1, <1>7, <2>1, EndsUpTo, Zenon
<1>9. j < k
  <2> SUFFICES ASSUME ~ (j < k) PROVE FALSE
    OBVIOUS
  <2>1. e[k] <= e[j]
    BY SMT, <1>1, <1>8
  <2> QED
    BY SMT, <1>2, <1>5, <1>6, <1>8, <2>1
<1> DEFINE i == j + 1
<1>10. i \in 1 .. n - 1 /\ i \in 0 .. n /\ i \in 1 .. n /\ i \in 2 .. n /\ j < i /\ i - 1 = j
       /\ (i # k => i < k)
  BY SMT, <1>1, <1>9
<1> HIDE DEF i
<1>11. i = k
  <2> SUFFICES ASSUME i # k PROVE FALSE
    OBVIOUS
  <2>1. e[i] \in Nat /\ e[j] + 2 <= e[i] /\ e[i] + 2 <= e[k]
    BY <1>7, <1>10, EndsUpTo, Zenon
  <2>2. e[i] - 1 \in B
    BY <1>10, HeaderBreaks, Zenon
  <2>3. b[1] < e[i] - 1 /\ e[i] - 1 < b[2]
    BY SMT, <1>5, <1>6, <1>8, <2>1
  <2> QED
    BY <1>2, <2>2, <2>3, Zenon
<1>12. k \in 2 .. n /\ e[k - 1] = e[j]
  BY <1>10, <1>11, Zenon
<1>13. f[1] = e[k - 1] + 1 /\ f[2] = e[k] - 2
  <2>1. f[1] = e[j] + 1 /\ f[2] = e[k] - 2
    BY SMT, <1>4, <1>5, <1>6, <1>8
  <2> QED
    BY <1>12, <2>1, Zenon
<1>14. e[k] - 2 <= e[n] - 2
  BY SMT, <1>1, <1>8
<1>15. SubSeq(z, e[k - 1] + 1, e[k] - 2) = lines[k]
  BY <1>7, <1>14, LineCut
<1>16. f[1] \in 1 .. Len(z) + 1
  <2>1. Len(z) = e[n] - 2
    BY Zenon DEF Begins
  <2>2. e[j] + 2 <= e[k]
    BY <1>7, <1>9, EndsUpTo, Zenon
  <2>3. f[1] = e[j] + 1
    BY <1>12, <1>13, Zenon
  <2> DEFINE d == e[n]
             u == e[j]
             v == e[k]
  <2>4. d \in Nat /\ u \in Nat /\ v \in Nat /\ v <= d /\ u + 2 <= v
    BY <1>1, <1>8, <2>2, Zenon
  <2> HIDE DEF d, u, v
  <2>5. u + 1 \in 1 .. (d - 2) + 1
    BY SMT, <2>4
  <2> QED
    BY <2>1, <2>3, <2>5, Zenon DEF d, u
<1> QED
  BY <1>12, <1>13, <1>15, <1>16, Zenon

(* c is the first colon of the line: the name of the field ends there.     *)
FirstColon(line, c) ==
  c \in 1 .. Len(line) /\ line[c] = COLON /\ \A i \in 1 .. c - 1 : line[i] # COLON

(* find returns the first colon.                                           *)
LEMMA ColonFirst ==
  ASSUME NEW x \in Seq(Char), Found(<<COLON>>, x) # {}
  PROVE  FirstColon(x, Min(Found(<<COLON>>, x)))
<1> DEFINE C == Found(<<COLON>>, x)
           c == Min(C)
<1>1. Len(x) \in Nat /\ COLON \in Char
  BY EolIs
<1>2. ASSUME NEW i PROVE i \in C <=> i \in 1 .. Len(x) /\ x[i] = COLON
  BY <1>1, FoundChar, Zenon
<1>3. C \in SUBSET Nat
  <2>1. \A i \in C : i \in 1 .. Len(x)
    BY <1>2, Zenon
  <2> HIDE DEF C
  <2> QED
    BY <1>1, <2>1
<1> HIDE DEF C
<1>4. c \in C /\ \A i \in C : c <= i
  BY <1>3, MinIsLeast, Zenon DEF C
<1> HIDE DEF c
<1>5. c \in 1 .. Len(x) /\ x[c] = COLON
  BY <1>2, <1>4, Zenon
<1>6. ASSUME NEW i \in 1 .. c - 1, x[i] = COLON PROVE FALSE
  <2>1. i \in 1 .. Len(x) /\ ~ (c <= i)
    BY SMT, <1>1, <1>5
  <2> QED
    BY <1>2, <1>4, <1>6, <2>1, Zenon
<1> QED
  BY <1>5, <1>6, Zenon DEF FirstColon, c, C

(* A name in the map, with its value, is that of a line of the header:     *)
(* the parser makes no field up, whichever of several it keeps.            *)
LEMMA HeaderMapIs ==
  ASSUME NEW text, NEW lines, NEW n, NEW e, LaidOut(text, lines, n, e),
         WholeLines(lines, n), NEW z, Begins(z, text, e[n] - 2),
         NEW name \in DOMAIN HeaderMap[z]
  PROVE  \E k \in 2 .. n : \E c :
           /\ FirstColon(lines[k], c)
           /\ LowerCase(Before(lines[k], c)) = name
           /\ HeaderMap[z][name] = Trim(From(lines[k], c + 1))
<1> DEFINE cut(l) == SubSeq(z, l[1], l[2])
           colon(l) == Min(Found(<<COLON>>, cut(l)))
           title(l) == LowerCase(Before(cut(l), colon(l)))
           fields == {l \in FieldLines(z) : Found(<<COLON>>, cut(l)) # {}}
           IsLatest(t, l) == title(l) = t /\
                               \A other \in fields : title(other) = t => other[1] <= l[1]
           latest(t) == CHOOSE l \in fields : IsLatest(t, l)
           value(l) == Trim(From(cut(l), colon(l) + 1))
           titles == {title(l) : l \in fields}
<1>1. z \in Seq(Char) /\ Len(z) \in Nat
  <2>1. z \in Seq(Char)
    BY Zenon DEF Begins
  <2> QED
    BY <2>1
<1>2. HeaderMap[z] = [t \in titles |-> value(latest(t))]
  BY <1>1 DEF HeaderMap
<1> HIDE DEF cut, colon, title, fields, IsLatest, latest, value, titles
<1>3. name \in titles /\ HeaderMap[z][name] = value(latest(name))
  BY <1>2, Zenon
<1>4. PICK l0 \in fields : title(l0) = name
  BY <1>3, Zenon DEF titles
<1>5. ASSUME NEW l \in fields
      PROVE  /\ l[1] \in 1 .. Len(z) + 1 /\ Found(<<COLON>>, cut(l)) # {}
             /\ \E k \in 2 .. n : cut(l) = lines[k]
  <2>1. l \in FieldLines(z) /\ Found(<<COLON>>, cut(l)) # {}
    BY <1>5, Zenon DEF fields
  <2>2. \E k \in 2 .. n : /\ l[1] \in 1 .. Len(z) + 1
                          /\ SubSeq(z, l[1], l[2]) = lines[k]
    BY <2>1, FieldLineIs
  <2> QED
    BY <2>1, <2>2, Zenon DEF cut
<1> DEFINE mine == {l \in fields : title(l) = name}
           starts == {l[1] : l \in mine}
<1>6. starts \in SUBSET (0 .. Len(z) + 1) /\ starts # {} /\ Len(z) + 1 \in Nat
  <2>1. starts # {}
    BY <1>4, Zenon
  <2>2. \A l \in mine : l[1] \in 0 .. Len(z) + 1
    <3>1. \A l \in fields : l[1] \in 1 .. Len(z) + 1
      BY <1>5, Zenon
    <3> HIDE DEF fields
    <3> QED
      BY <1>1, <3>1
  <2> HIDE DEF mine
  <2> QED
    BY <1>1, <2>1, <2>2
<1> HIDE DEF starts
<1>7. PICK m \in starts : \A i \in starts : i <= m
  <2>1. Max(starts) \in starts /\ \A i \in starts : Max(starts) >= i
    BY <1>6, MaxIsGreatest
  <2> QED
    BY <1>6, <2>1
<1>8. PICK l1 \in mine : l1[1] = m
  BY <1>7, Zenon DEF starts
<1>9. l1 \in fields /\ IsLatest(name, l1)
  BY <1>7, <1>8, Zenon DEF IsLatest, starts
<1> DEFINE l == latest(name)
<1>10. l \in fields /\ title(l) = name
  BY <1>9, Zenon DEF latest, IsLatest
<1> HIDE DEF l
<1>11. PICK k \in 2 .. n : cut(l) = lines[k]
  BY <1>5, <1>10, Zenon
<1> DEFINE c == colon(l)
<1>12. lines[k] \in Seq(Char)
  <2>1. k \in 1 .. n
    <3>1. n \in Nat
      BY Zenon DEF LaidOut
    <3> QED
      BY SMT, <3>1
  <2> QED
    BY <2>1, LineFacts
<1>13. FirstColon(lines[k], c)
  <2>1. Found(<<COLON>>, lines[k]) # {} /\ c = Min(Found(<<COLON>>, lines[k]))
    BY <1>5, <1>10, <1>11, Zenon DEF colon
  <2> QED
    BY <1>12, <2>1, ColonFirst
<1>14. LowerCase(Before(lines[k], c)) = name
  BY <1>10, <1>11, Zenon DEF title
<1>15. HeaderMap[z][name] = Trim(From(lines[k], c + 1))
  BY <1>3, <1>11, Zenon DEF value, l
<1> QED
  BY <1>13, <1>14, <1>15, Zenon

(* A status line as a server sends it: the version comes first, and a blank  *)
(* stands between two words.                                               *)
Worded(line) ==
  /\ HTTP11 # SP
  /\ line # <<>> => line[1] = HTTP11
  /\ \A i \in {1, 3} : i < Len(line) => SP \in {line[i], line[i + 1]}

(* A text of four characters.                                              *)
LEMMA FourIs ==
  ASSUME NEW S, NEW s1 \in S, NEW s2 \in S, NEW s3 \in S, NEW s4 \in S
  PROVE  LET y == <<s1, s2, s3, s4>>
         IN y \in Seq(S) /\ Len(y) = 4 /\ y[1] = s1 /\ y[2] = s2 /\ y[3] = s3 /\ y[4] = s4
  OBVIOUS

(* A text is its first four characters and the rest.                       *)
LEMMA FirstFour ==
  ASSUME NEW x \in Seq(Char), Len(x) >= 4
  PROVE  /\ From(x, 5) \in Seq(Char)
         /\ x = <<x[1], x[2], x[3], x[4]>> \o From(x, 5)
<1> DEFINE l == Len(x)
           r == From(x, 5)
           y == <<x[1], x[2], x[3], x[4]>>
<1>1. l \in Nat /\ l >= 4
  BY SMT
<1>2. r = SubSeq(x, 5, l)
  BY Zenon DEF From
<1>3. /\ r \in Seq(Char) /\ Len(r) = l - 5 + 1
      /\ \A h \in 1 .. l - 5 + 1 : r[h] = x[5 + h - 1]
  <2>1. 5 \in Nat \ {0} /\ 5 <= l + 1 /\ l <= Len(x)
    BY SMT, <1>1
  <2>2. /\ SubSeq(x, 5, l) \in Seq(Char) /\ Len(SubSeq(x, 5, l)) = l - 5 + 1
        /\ \A h \in 1 .. l - 5 + 1 : SubSeq(x, 5, l)[h] = x[5 + h - 1]
    <3> DEFINE i == 5
               j == l
    <3>1. i \in Nat \ {0} /\ j \in Nat /\ i <= j + 1 /\ j <= Len(x)
      BY <1>1, <2>1, Zenon
    <3> HIDE DEF i, j
    <3>2. /\ SubSeq(x, i, j) \in Seq(Char) /\ Len(SubSeq(x, i, j)) = j - i + 1
          /\ \A h \in 1 .. j - i + 1 : SubSeq(x, i, j)[h] = x[i + h - 1]
      BY <3>1, SliceAt
    <3> QED
      BY <3>2, Zenon DEF i, j
  <2> HIDE DEF l, r
  <2> QED
    BY <1>2, <2>2, Zenon
<1>4. y \in Seq(Char) /\ Len(y) = 4 /\ y[1] = x[1] /\ y[2] = x[2] /\ y[3] = x[3] /\ y[4] = x[4]
  <2>1. x[1] \in Char /\ x[2] \in Char /\ x[3] \in Char /\ x[4] \in Char
    BY SMT, <1>1
  <2> QED
    BY <2>1, FourIs
<1> HIDE DEF r, y
<1>5. /\ y \o r \in Seq(Char) /\ Len(y \o r) = Len(y) + Len(r)
      /\ \A i \in 1 .. Len(y) : (y \o r)[i] = y[i]
      /\ \A i \in 1 .. Len(r) : (y \o r)[Len(y) + i] = r[i]
  <2>1. y \in Seq(Char) /\ r \in Seq(Char)
    BY <1>3, <1>4, Zenon
  <2> QED
    BY <2>1, ConcatAt
<1> DEFINE w == y \o r
<1> HIDE DEF w
<1>6. Len(w) = l
  BY SMT, <1>1, <1>3, <1>4, <1>5 DEF w
<1>7. ASSUME NEW i \in 1 .. l PROVE w[i] = x[i]
  <2>1. CASE i <= 4
    <3>1. i = 1 \/ i = 2 \/ i = 3 \/ i = 4
      BY SMT, <1>1, <2>1
    <3>2. i \in 1 .. Len(y)
      BY SMT, <1>4, <2>1
    <3> QED
      BY <1>4, <1>5, <3>1, <3>2, Zenon DEF w
  <2>2. CASE ~ (i <= 4)
    <3> DEFINE h == i - 4
    <3>1. h \in 1 .. l - 5 + 1 /\ 5 + h - 1 = i /\ 4 + h = i
      BY SMT, <1>1, <2>2
    <3> HIDE DEF h
    <3>2. w[4 + h] = r[h] /\ r[h] = x[5 + h - 1]
      BY <1>3, <1>4, <1>5, <3>1, Zenon DEF w
    <3> QED
      BY <3>1, <3>2, Zenon
  <2> QED
    BY <2>1, <2>2, Zenon
<1>8. w = x
  <2>1. w \in Seq(Char)
    BY <1>5, Zenon DEF w
  <2>2. Len(w) = Len(x) /\ \A i \in 1 .. Len(w) : w[i] = x[i]
    BY <1>6, <1>7, Zenon
  <2> QED
    BY <2>1, <2>2, SameText
<1> QED
  BY <1>3, <1>8, Zenon DEF w, y, r

(* Where the status line is cut.                                           *)
LEMMA CodeIs ==
  ASSUME NEW x \in Seq(Char), Worded(x), ~ (Cardinality(Found(<<SP>>, x)) < 2)
  PROVE  LET spaces == Found(<<SP>>, x)
             second == Min(spaces \ {Min(spaces)})
         IN  /\ x[1] = HTTP11 /\ x[2] = SP /\ Min(spaces) = 2
             /\ \/ second = 3 /\ x[3] = SP
                \/ second = 4 /\ x[3] # SP /\ x[4] = SP /\ Len(x) >= 4
             /\ Len(x) >= 3
<1> DEFINE B == Found(<<SP>>, x)
           a == Min(B)
           R == B \ {a}
           b == Min(R)
           l == Len(x)
<1>1. l \in Nat /\ SP \in Char
  BY EolIs
<1>2. ASSUME NEW i PROVE i \in B <=> i \in 1 .. l /\ x[i] = SP
  BY <1>1, FoundChar, Zenon
<1>3. ~ (Cardinality(B) < 2)
  OBVIOUS
<1> HIDE DEF B, l
<1>4. B \in SUBSET Nat
  BY SMT, <1>1, <1>2
<1>5. B # {}
  <2>1. Cardinality({}) = 0
    BY FS_EmptySet, Zenon
  <2>2. 0 < 2
    BY SMT
  <2> QED
    BY <1>3, <2>1, <2>2, Zenon
<1>6. a \in B /\ \A i \in B : a <= i
  BY <1>4, <1>5, MinIsLeast, Zenon
<1> HIDE DEF a
<1>7. R # {} /\ R \in SUBSET Nat
  <2>1. Cardinality({a}) = 1
    BY FS_Singleton, Zenon
  <2>0. 1 < 2
    BY SMT
  <2>2. R = {} => B = {a}
    BY <1>6
  <2>3. R # {}
    BY <1>3, <2>0, <2>1, <2>2, Zenon
  <2> QED
    BY <1>4, <2>3
<1>8. b \in R /\ \A i \in R : b <= i
  <2> HIDE DEF R
  <2> QED
    BY <1>7, MinIsLeast, Zenon
<1> HIDE DEF b
<1>9. b \in B /\ b # a /\ a <= b
  BY <1>6, <1>8, Zenon
<1>10. /\ a \in 1 .. l /\ b \in 1 .. l /\ x[a] = SP /\ x[b] = SP
  BY <1>2, <1>6, <1>9, Zenon
<1>11. l >= 2 /\ 1 \in 1 .. l /\ 2 \in 1 .. l /\ 1 < l
  BY SMT, <1>1, <1>9, <1>10
<1>12. x[1] = HTTP11 /\ x[2] = SP /\ x[1] # SP
  <2>1. x # <<>>
    <3> SUFFICES ASSUME x = <<>> PROVE FALSE
      OBVIOUS
    <3>1. l = 0
      BY SMT DEF l
    <3> QED
      BY SMT, <1>11, <3>1
  <2>2. x[1] = HTTP11 /\ HTTP11 # SP
    BY <2>1, Zenon DEF Worded
  <2>3. SP \in {x[1], x[1 + 1]}
    <3>1. 1 \in {1, 3} /\ 1 < Len(x)
      BY <1>11 DEF l
    <3> QED
      BY <3>1, Zenon DEF Worded
  <2>4. 1 + 1 = 2
    BY SMT
  <2> QED
    BY <2>2, <2>3, <2>4, Zenon
<1>13. a = 2
  <2>1. 2 \in B
    BY <1>2, <1>11, <1>12, Zenon
  <2>2. a <= 2 /\ a # 1
    BY <1>6, <1>10, <1>12, <2>1, Zenon
  <2> QED
    BY SMT, <1>10, <2>2
<1>14. b \in 3 .. l /\ l >= 3 /\ 3 \in 1 .. l
  BY SMT, <1>1, <1>9, <1>10, <1>13
<1>15. CASE x[3] = SP
  <2>1. 3 \in R
    <3>1. 3 \in B
      BY <1>2, <1>14, <1>15, Zenon
    <3>2. 3 # 2
      BY SMT
    <3> QED
      BY <1>13, <3>1, <3>2, Zenon
  <2>2. b <= 3
    BY <1>8, <2>1, Zenon
  <2>3. b = 3
    BY SMT, <1>14, <2>2
  <2> QED
    BY <1>12, <1>13, <1>14, <1>15, <2>3, Zenon DEF b, R, a, B, l
<1>16. CASE x[3] # SP
  <2>1. b # 3
    BY <1>10, <1>16, Zenon
  <2>2. b >= 4 /\ l >= 4 /\ 3 < l /\ 4 \in 1 .. l
    BY SMT, <1>1, <1>14, <2>1
  <2>3. x[4] = SP
    <3>1. 3 \in {1, 3} /\ 3 < Len(x) /\ 3 + 1 = 4
      BY <2>2 DEF l
    <3>2. SP \in {x[3], x[3 + 1]}
      BY <3>1, Zenon DEF Worded
    <3> QED
      BY <1>16, <3>1, <3>2, Zenon
  <2>4. 4 \in R
    <3>1. 4 \in B /\ 4 # 2
      BY <1>2, <2>2, <2>3
    <3> QED
      BY <1>13, <3>1, Zenon
  <2>5. b <= 4
    BY <1>8, <2>4, Zenon
  <2>6. b = 4
    BY SMT, <1>14, <2>2, <2>5
  <2> QED
    BY <1>12, <1>13, <1>14, <1>16, <2>2, <2>3, <2>6, Zenon DEF b, R, a, B, l
<1> QED
  BY <1>15, <1>16, Zenon

(* What the parser makes of a status line.  It throws only when there is   *)
(* no numeral where the code should be.                                    *)
LEMMA StatusParsed ==
  ASSUME NEW x \in Seq(Char), Worded(x)
  PROVE  LET status == ParseStatusLine[x]
         IN /\ status.outcome = "parsed" =>
                 \E m \in Numeral :
                   /\ status.status_code = ValueOf[m]
                   /\ status.status_message = From(x, 5)
                   /\ x = <<HTTP11, SP, m, SP>> \o From(x, 5)
            /\ status.outcome = "throws" => x[3] \notin Numeral
<1> DEFINE spaces == Found(<<SP>>, x)
           second == Min(spaces \ {Min(spaces)})
           code == SubSeq(x, Min(spaces) + 1, second - 1)
           few == Cardinality(spaces) < 2
           status == ParseStatusLine[x]
<1>1. status = IF few THEN Unparsed("malformed")
               ELSE IF StoiThrows(code) THEN Unparsed("throws")
               ELSE [outcome        |-> "parsed",
                     status_code    |-> stoi(code),
                     status_message |-> From(x, second + 1)]
  BY DEF ParseStatusLine
<1>2. CASE few
  <2>1. status.outcome = "malformed"
    BY <1>1, <1>2 DEF Unparsed
  <2> QED
    BY <2>1
<1>3. CASE ~ few
  <2>1. /\ x[1] = HTTP11 /\ x[2] = SP /\ Min(spaces) = 2
        /\ \/ second = 3 /\ x[3] = SP
           \/ second = 4 /\ x[3] # SP /\ x[4] = SP /\ Len(x) >= 4
        /\ Len(x) >= 3
    BY <1>3, CodeIs
  <2>2. /\ StoiThrows(code) => x[3] \notin Numeral
        /\ ~ StoiThrows(code) =>
             /\ x[3] \in Numeral /\ stoi(code) = ValueOf[x[3]]
             /\ second = 4 /\ x[4] = SP /\ Len(x) >= 4
    <3> HIDE DEF spaces, second
    <3>1. code = SubSeq(x, 3, second - 1) /\ Len(x) \in Nat /\ SP \notin Numeral
      <4>1. 2 + 1 = 3
        BY SMT
      <4>2. SP \notin Numeral
        BY CharAssumption, Zenon
      <4>3. Len(x) \in Nat
        OBVIOUS
      <4>4. code = SubSeq(x, 3, second - 1)
        BY <2>1, <4>1, Zenon
      <4> QED
        BY <4>2, <4>3, <4>4, Zenon
    <3>2. CASE second = 3 /\ x[3] = SP
      <4>1. code = <<>>
        <5>1. SubSeq(x, 3, 2) = <<>> /\ 3 - 1 = 2
          BY SMT
        <5> QED
          BY <3>1, <3>2, <5>1, Zenon
      <4> HIDE DEF code
      <4> QED
        BY <3>1, <3>2, <4>1, Zenon DEF StoiThrows
    <3>3. CASE second = 4 /\ x[3] # SP /\ x[4] = SP /\ Len(x) >= 4
      <4>1. code # <<>> /\ Head(code) = x[3]
        <5> DEFINE y == SubSeq(x, 3, 3)
        <5>1. y \in Seq(Char) /\ Len(y) = 1 /\ y[1] = x[3]
          BY SMT, <3>1, <3>3
        <5>2. code = y
          <6>1. second - 1 = 3
            BY SMT, <3>3
          <6> HIDE DEF code
          <6> QED
            BY <3>1, <6>1
        <5> HIDE DEF y, code
        <5>3. y # <<>>
          <6>1. Len(<<>>) = 0 /\ 0 # 1
            BY SMT
          <6> QED
            BY <5>1, <6>1, Zenon
        <5>4. Head(y) = y[1]
          BY <5>1, <5>3
        <5> QED
          BY <5>1, <5>2, <5>3, <5>4, Zenon
      <4> HIDE DEF code
      <4> QED
        BY <3>3, <4>1, Zenon DEF StoiThrows, stoi
    <3> QED
      BY <2>1, <3>2, <3>3, Zenon
  <2> HIDE DEF few, code, spaces, second
  <2>3. CASE StoiThrows(code)
    <3>1. status = Unparsed("throws")
      BY <1>1, <1>3, <2>3, Zenon
    <3>2. status.outcome = "throws"
      BY <3>1 DEF Unparsed
    <3> QED
      BY <2>2, <2>3, <3>2
  <2>4. CASE ~ StoiThrows(code)
    <3>1. status = [outcome        |-> "parsed",
                    status_code    |-> stoi(code),
                    status_message |-> From(x, second + 1)]
      BY <1>1, <1>3, <2>4, Zenon
    <3> HIDE DEF status
    <3>2. /\ status.outcome = "parsed" /\ status.status_code = stoi(code)
          /\ status.status_message = From(x, second + 1)
      BY <3>1
    <3>3. x = <<x[1], x[2], x[3], x[4]>> \o From(x, 5)
      BY <2>2, <2>4, FirstFour
    <3>4. x = <<HTTP11, SP, x[3], SP>> \o From(x, 5)
      BY <2>1, <2>2, <2>4, <3>3, Zenon
    <3>5. 4 + 1 = 5 /\ "parsed" # "throws"
      BY SMT
    <3> QED
      BY <2>2, <2>4, <3>2, <3>4, <3>5, Zenon DEF status
  <2> QED
    BY <2>3, <2>4, Zenon
<1> QED
  BY <1>2, <1>3, Zenon

(* A line whose third character is no numeral is no status line.           *)
LEMMA NoStatusLine ==
  ASSUME NEW x \in Seq(Char), x[3] \notin Numeral, NEW m \in Numeral,
         HTTP11 \in Char, SP \in Char
  PROVE  x # <<HTTP11, SP, m, SP>> \o From(x, 5)
<1> SUFFICES ASSUME x = <<HTTP11, SP, m, SP>> \o From(x, 5) PROVE FALSE
  OBVIOUS
<1> DEFINE y == <<HTTP11, SP, m, SP>>
           r == From(x, 5)
<1>1. m \in Char
  BY CharAssumption
<1>2. y \in Seq(Char) /\ Len(y) = 4 /\ y[3] = m
  BY <1>1, FourIs
<1>3. r \in Seq(Char)
  BY DEF From
<1>4. x = y \o r
  BY Zenon
<1> HIDE DEF y, r
<1>5. \A i \in 1 .. Len(y) : (y \o r)[i] = y[i]
  <2>1. y \in Seq(Char)
    BY <1>2, Zenon
  <2> QED
    BY <1>3, <2>1, ConcatAt
<1>6. 3 \in 1 .. Len(y)
  BY SMT, <1>2
<1> QED
  BY <1>2, <1>4, <1>5, <1>6, Zenon

(* What the parser makes of the beginning of an answer, wherever it ends.   *)
LEMMA AnswerParsed ==
  ASSUME NEW text, NEW lines, NEW n, NEW e, LaidOut(text, lines, n, e),
         WholeLines(lines, n), Worded(lines[1]),
         NEW z, NEW p, Begins(z, text, p)
  PROVE  LET response == parse_http_response[z]
         IN /\ response.outcome \in {"parsed", "throws"} => e[n] + 2 <= p
            /\ response.outcome = "parsed" =>
                 /\ \E m \in Numeral :
                      /\ response.status_code = ValueOf[m]
                      /\ response.status_message = From(lines[1], 5)
                      /\ lines[1] = <<HTTP11, SP, m, SP>> \o From(lines[1], 5)
                 /\ \A name \in DOMAIN response.headers :
                      \E k \in 2 .. n : \E c :
                        /\ FirstColon(lines[k], c)
                        /\ LowerCase(Before(lines[k], c)) = name
                        /\ response.headers[name] = Trim(From(lines[k], c + 1))
                 /\ response.body = SubSeq(z, e[n] + 3, p)
            /\ response.outcome = "throws" => lines[1][3] \notin Numeral
<1> DEFINE response == parse_http_response[z]
           ends == HeadersEnd(z)
           h == Before(z, Min(ends))
           status == ParseStatusLine[StatusLine[h]]
<1>0. z \in Seq(Char) /\ Len(z) = p /\ p \in Nat /\ p <= Len(text)
  BY Zenon DEF Begins
<1>1. response = IF ends = {} THEN Unparsed("incomplete")
                 ELSE IF status.outcome # "parsed" THEN status
                 ELSE [outcome        |-> "parsed",
                       status_code    |-> status.status_code,
                       status_message |-> status.status_message,
                       headers        |-> HeaderMap[h],
                       body           |-> Body(z)]
  BY <1>0 DEF parse_http_response
<1>2. CASE ends = {}
  <2>1. response = Unparsed("incomplete")
    BY <1>1, <1>2, Zenon
  <2> HIDE DEF response
  <2>2. response.outcome = "incomplete"
    BY <2>1 DEF Unparsed
  <2>3. "incomplete" # "parsed" /\ "incomplete" # "throws"
    BY SMT
  <2> QED
    BY <2>2, <2>3, Zenon DEF response
<1>3. CASE ends # {}
  <2>1. e[n] + 2 <= p /\ Min(ends) = e[n] - 1
    BY <1>3, HeaderFound
  <2>2. n \in 1 .. n /\ 1 \in 1 .. n /\ e[n] \in Nat /\ e[n] >= 2 /\ Len(text) \in Nat
    BY LastLine
  <2>3. h = SubSeq(z, 1, e[n] - 2)
    <3>1. (e[n] - 1) - 1 = e[n] - 2
      BY SMT, <2>2
    <3> QED
      BY <2>1, <3>1, Zenon DEF Before
  <2>4. Begins(h, text, e[n] - 2)
    <3> DEFINE q == e[n] - 2
    <3>1. q \in Nat /\ q <= p
      BY SMT, <1>0, <2>1, <2>2
    <3> HIDE DEF q
    <3>2. Begins(SubSeq(z, 1, q), text, q)
      BY <1>0, <2>2, <3>1, BeginningOf
    <3> QED
      BY <2>3, <3>2, Zenon DEF q
  <2> HIDE DEF ends, h
  <2>5. StatusLine[h] = lines[1]
    BY <2>4, StatusLineIs
  <2>6. lines[1] \in Seq(Char)
    BY <2>2, LineFacts
  <2>7. /\ status.outcome = "parsed" =>
             \E m \in Numeral :
               /\ status.status_code = ValueOf[m]
               /\ status.status_message = From(lines[1], 5)
               /\ lines[1] = <<HTTP11, SP, m, SP>> \o From(lines[1], 5)
        /\ status.outcome = "throws" => lines[1][3] \notin Numeral
    <3> DEFINE x == lines[1]
    <3>1. x \in Seq(Char) /\ Worded(x) /\ status = ParseStatusLine[x]
      BY <2>5, <2>6, Zenon
    <3> HIDE DEF x, status
    <3>2. LET s == ParseStatusLine[x]
          IN /\ s.outcome = "parsed" =>
                  \E m \in Numeral :
                    /\ s.status_code = ValueOf[m]
                    /\ s.status_message = From(x, 5)
                    /\ x = <<HTTP11, SP, m, SP>> \o From(x, 5)
             /\ s.outcome = "throws" => x[3] \notin Numeral
      BY <3>1, StatusParsed
    <3> QED
      BY <3>1, <3>2, Zenon DEF x
  <2> HIDE DEF status
  <2>8. CASE status.outcome # "parsed"
    <3>1. response = status
      BY <1>1, <1>3, <2>8, Zenon
    <3> QED
      BY <2>1, <2>7, <2>8, <3>1, Zenon
  <2>9. CASE status.outcome = "parsed"
    <3>1. response = [outcome        |-> "parsed",
                      status_code    |-> status.status_code,
                      status_message |-> status.status_message,
                      headers        |-> HeaderMap[h],
                      body           |-> Body(z)]
      BY <1>1, <1>3, <2>9, Zenon
    <3> HIDE DEF response
    <3>2. /\ response.outcome = "parsed"
          /\ response.status_code = status.status_code
          /\ response.status_message = status.status_message
          /\ response.headers = HeaderMap[h]
          /\ response.body = Body(z)
      BY <3>1
    <3>3. Body(z) = SubSeq(z, e[n] + 3, p)
      <4>1. (e[n] - 1) + 4 = e[n] + 3
        BY SMT, <2>2
      <4>2. Body(z) = SubSeq(z, (e[n] - 1) + 4, Len(z))
        BY <2>1, Zenon DEF Body, From, ends
      <4> QED
        BY <1>0, <4>1, <4>2, Zenon
    <3>4. ASSUME NEW name \in DOMAIN HeaderMap[h]
          PROVE  \E k \in 2 .. n : \E c :
                   /\ FirstColon(lines[k], c)
                   /\ LowerCase(Before(lines[k], c)) = name
                   /\ HeaderMap[h][name] = Trim(From(lines[k], c + 1))
      BY <2>4, HeaderMapIs
    <3>5. "parsed" # "throws"
      BY SMT
    <3>6. \E m \in Numeral :
            /\ response.status_code = ValueOf[m]
            /\ response.status_message = From(lines[1], 5)
            /\ lines[1] = <<HTTP11, SP, m, SP>> \o From(lines[1], 5)
      BY <2>7, <2>9, <3>2, Zenon
    <3>7. \A name \in DOMAIN response.headers :
            \E k \in 2 .. n : \E c :
              /\ FirstColon(lines[k], c)
              /\ LowerCase(Before(lines[k], c)) = name
              /\ response.headers[name] = Trim(From(lines[k], c + 1))
      BY <3>2, <3>4, Zenon
    <3>8. response.body = SubSeq(z, e[n] + 3, p) /\ response.outcome # "throws"
      BY <3>2, <3>3, <3>5, Zenon
    <3> QED
      BY <2>1, <3>6, <3>7, <3>8, Zenon DEF response
  <2> QED
    BY <2>8, <2>9, Zenon
<1> QED
  BY <1>2, <1>3, Zenon

-----------------------------------------------------------------------------
(* The command line.                                                       *)

(* The variables of main in its loop.                                      *)
Reading == [step : {"read", "skip", "help", "bad_port"}, words : Nat,
            interface : Seq(Char), host : Seq(Char), path : Seq(Char),
            port : 0 .. PortModulus - 1]

(* The port fits into its type, whatever number was given.                 *)
LEMMA PortTyped ==
  ASSUME NEW arg \in Seq(Char), ~StoiThrows(arg)
  PROVE  PortNumber(arg) \in 0 .. PortModulus - 1
<1>1. stoi(arg) \in Nat
  BY CharAssumption DEF StoiThrows, stoi
<1> QED
  BY <1>1, ArgumentAssumption DEF PortNumber, DefaultPort

LEMMA RootedTyped ==
  ASSUME NEW path \in Seq(Char) PROVE Rooted(path) \in Seq(Char)
  BY CharAssumption DEF Rooted

LEMMA TakeWordTyped ==
  ASSUME NEW s \in Reading, NEW arg \in Seq(Char)
  PROVE  TakeWord(s, arg) \in Reading
<1> DEFINE n == s.words + 1
<1>1. n \in Nat
  BY DEF Reading
<1>2. CASE n = 1
  <2>1. TakeWord(s, arg) = [s EXCEPT !.words = n, !.host = arg]
    BY <1>2 DEF TakeWord
  <2> QED
    BY <1>1, <2>1 DEF Reading
<1>3. CASE n = 2 /\ StoiThrows(arg)
  <2>1. TakeWord(s, arg) = [s EXCEPT !.step = "bad_port"]
    BY <1>3 DEF TakeWord
  <2> QED
    BY <2>1 DEF Reading
<1>4. CASE n = 2 /\ ~StoiThrows(arg)
  <2>1. TakeWord(s, arg) = [s EXCEPT !.words = n, !.port = PortNumber(arg)]
    BY <1>4 DEF TakeWord
  <2> QED
    BY <1>1, <1>4, <2>1, PortTyped DEF Reading
<1>5. CASE n = 3
  <2>1. TakeWord(s, arg) = [s EXCEPT !.words = n, !.path = Rooted(arg)]
    BY <1>5 DEF TakeWord
  <2> QED
    BY <1>1, <2>1, RootedTyped DEF Reading
<1>6. CASE n \notin {1, 2, 3}
  <2>1. TakeWord(s, arg) = [s EXCEPT !.words = n]
    BY <1>6 DEF TakeWord
  <2> QED
    BY <1>1, <2>1 DEF Reading
<1> QED
  BY <1>2, <1>3, <1>4, <1>5, <1>6

LEMMA TakeArgumentTyped ==
  ASSUME NEW s \in Reading, NEW arg \in Seq(Char), NEW isLast \in BOOLEAN
  PROVE  TakeArgument(s, arg, isLast) \in Reading
<1>1. TakeWord(s, arg) \in Reading
  BY TakeWordTyped
<1> QED
  BY <1>1 DEF TakeArgument, Reading

(* However many arguments there are.                                       *)
LEMMA ArgumentsReadTyped ==
  ASSUME NEW argv \in Seq(Seq(Char))
  PROVE  ArgumentsRead(argv) \in Reading
<1> DEFINE n == Len(argv)
           step == [k \in 1 .. n |->
                      [s \in Reading |-> TakeArgument(s, argv[k], k = n)]]
           Reads(f) == f = [k \in 0 .. n |->
                              IF k = 0 THEN Defaults
                              ELSE TakeArgument(f[k - 1], argv[k], k = n)]
           after == CHOOSE f : Reads(f)
<1>1. n \in Nat /\ Defaults \in Reading
  BY CharAssumption, ArgumentAssumption DEF Defaults, Reading, DefaultPort
<1>2. step \in [1 .. n -> [Reading -> Reading]]
  <2>1. ASSUME NEW k \in 1 .. n, NEW s \in Reading
        PROVE  TakeArgument(s, argv[k], k = n) \in Reading
    <3>1. argv[k] \in Seq(Char) /\ (k = n) \in BOOLEAN
      OBVIOUS
    <3> QED
      BY <3>1, TakeArgumentTyped, Zenon
  <2> QED
    BY <2>1
<1>3. PICK f \in [0 .. n -> Reading] : Follows(f, n, Defaults, step)
  <2> HIDE DEF n, step
  <2> QED
    BY <1>1, <1>2, Recursion
<1>4. Reads(f)
  <2>1. ASSUME NEW k \in 0 .. n, k # 0
        PROVE  f[k] = TakeArgument(f[k - 1], argv[k], k = n)
    <3>1. k \in 1 .. n /\ k - 1 \in 0 .. n
      BY <1>1, <2>1
    <3>2. f[k - 1] \in Reading
      BY <1>3, <3>1
    <3> QED
      BY <1>3, <3>1, <3>2 DEF Follows
  <2>2. f = [k \in 0 .. n |-> f[k]]
    BY <1>3
  <2> QED
    BY <1>3, <2>1, <2>2 DEF Follows
<1>5. Reads(after)
  BY <1>4, Zenon
<1>6. \A k \in 0 .. n : after[k] \in Reading
  <2> DEFINE Good == {k \in 0 .. n : after[k] \in Reading}
  <2> HIDE DEF after
  <2>1. 0 \in Good
    BY <1>1, <1>5
  <2>2. ASSUME NEW k \in 0 .. n - 1, k \in Good
        PROVE  k + 1 \in Good
    <3>1. k + 1 \in 1 .. n /\ (k + 1) - 1 = k /\ k + 1 # 0 /\ k + 1 \in 0 .. n
      BY <1>1
    <3>2. after[k + 1] = TakeArgument(after[k], argv[k + 1], k + 1 = n)
      BY <1>5, <3>1
    <3>3. after[k] \in Reading /\ argv[k + 1] \in Seq(Char)
      BY <2>2, <3>1
    <3> QED
      BY <3>1, <3>2, <3>3, TakeArgumentTyped
  <2> HIDE DEF Good, n
  <2>3. 0 .. n \subseteq Good
    BY <1>1, <2>1, <2>2, Induction
  <2> QED
    BY <2>3 DEF Good
<1>7. ArgumentsRead(argv) = after[n]
  BY DEF ArgumentsRead
<1> HIDE DEF after, n
<1>8. n \in 0 .. n
  BY <1>1
<1> QED
  BY <1>6, <1>7, <1>8

(* The name of the local file is that of a file in the current directory.   *)
LEMMA LocalNameTyped ==
  ASSUME NEW path \in Seq(Char)
  PROVE  /\ LocalName(path) \in Seq(Char) /\ LocalName(path) # <<>>
         /\ \A i \in DOMAIN LocalName(path) : LocalName(path)[i] # SLASH
<1> DEFINE slashes == Found(<<SLASH>>, path)
           last == Max(slashes)
<1>1. CASE path # <<SLASH>> /\ slashes # {} /\ last < Len(path)
  <2>1. slashes \in SUBSET (0 .. Len(path)) /\ Len(path) \in Nat
    BY CharAssumption DEF Found
  <2>2. last \in slashes /\ \A i \in slashes : last >= i
    <3> HIDE DEF slashes
    <3> QED
      BY <1>1, <2>1, MaxIsGreatest
  <2> HIDE DEF last
  <2>3. last \in 0 .. Len(path) - 1
    BY <1>1, <2>1, <2>2
  <2>4. LocalName(path) = SubSeq(path, last + 1, Len(path))
    BY <1>1 DEF LocalName, From, last
  <2>5. /\ LocalName(path) \in Seq(Char)
        /\ Len(LocalName(path)) = Len(path) - last
        /\ \A i \in 1 .. Len(path) - last : LocalName(path)[i] = path[last + i]
    BY <2>3, <2>4
  <2>6. ASSUME NEW i \in 1 .. Len(path) - last, path[last + i] = SLASH
        PROVE  FALSE
    <3> DEFINE j == last + i
    <3>1. j \in 1 .. Len(path) /\ ~(last >= j)
      BY <2>1, <2>3
    <3> HIDE DEF j
    <3>2. SubSeq(path, j, j) = <<path[j]>>
      <4> DEFINE one == <<path[j]>>
      <4>1. /\ SubSeq(path, j, j) \in Seq(Char)
            /\ Len(SubSeq(path, j, j)) = 1 /\ SubSeq(path, j, j)[1] = path[j]
        BY <3>1
      <4>2. one \in Seq(Char) /\ Len(one) = 1 /\ one[1] = path[j]
        BY <3>1
      <4> HIDE DEF one
      <4>3. \A k \in 1 .. Len(one) : one[k] = SubSeq(path, j, j)[k]
        BY <4>1, <4>2
      <4>4. one = SubSeq(path, j, j)
        BY <4>1, <4>2, <4>3, SeqEqual
      <4> QED
        BY <4>4 DEF one
    <3>3. path[j] = SLASH
      BY <2>6 DEF j
    <3>4. j \in slashes
      BY <3>1, <3>2, <3>3 DEF Found
    <3> QED
      BY <2>2, <3>1, <3>4
  <2> QED
    BY <2>1, <2>3, <2>5, <2>6
<1>2. CASE ~(path # <<SLASH>> /\ slashes # {} /\ last < Len(path))
  <2>1. LocalName(path) \in {IndexHtml, DownloadDat}
    BY <1>2 DEF LocalName
  <2> QED
    BY <2>1, ArgumentAssumption
<1> QED
  BY <1>1, <1>2

(* What main takes from the command line.                                  *)
TargetType ==
  [run : BOOLEAN, host : Seq(Char), port : 0 .. PortModulus - 1,
   path : Seq(Char), local_file : Seq(Char)]

LEMMA ParseArgumentsTyped ==
  ASSUME NEW argv \in Seq(Seq(Char))
  PROVE  /\ ParseArguments(argv) \in TargetType
         /\ ParseArguments(argv).local_file # <<>>
         /\ \A i \in DOMAIN ParseArguments(argv).local_file :
              ParseArguments(argv).local_file[i] # SLASH
<1> DEFINE s == ArgumentsRead(argv)
<1>1. s \in Reading
  BY ArgumentsReadTyped
<1> HIDE DEF s
<1>2. ParseArguments(argv) =
        [run |-> s.step = "read" /\ s.host # <<>>,
         host |-> s.host, port |-> s.port, path |-> s.path,
         local_file |-> LocalName(s.path)]
  BY DEF ParseArguments, s
<1>3. s.path \in Seq(Char)
  BY <1>1 DEF Reading
<1> QED
  BY <1>1, <1>2, <1>3, LocalNameTyped DEF Reading, TargetType

-----------------------------------------------------------------------------
(* The application thread.                                                 *)

(* The name of the local file, whatever path was asked for.                 *)
NamedHere ==
  /\ target.local_file # <<>>
  /\ \A i \in DOMAIN target.local_file : target.local_file[i] # SLASH

(* Between the creation of the file and the end of the reception the file   *)
(* holds what the program has written to it.                               *)
Written ==
  pc \in {"connect", "wait_for_connection", "send_data", "wait_for_data"} =>
    file \in Seq(Char)

AppInvariant == ClientTypeOK /\ NamedHere /\ Written

(* What the application thread does, with any result of its calls.         *)
AppStep ==
  \/ \E argv \in Seq(Seq(Char)) : ArgumentsGiven(argv)
  \/ \E ok \in BOOLEAN :
       \/ Initialized(ok) \/ FileCreated(ok) \/ Connected(ok)
       \/ ConnectionAwaited(ok) \/ RequestSent(ok)
  \/ \E chunk \in Seq(Char) : ChunkReceived(chunk)
  \/ ReceiveTimedOut \/ Closed \/ StackStopped

LEMMA InitApp == ClientInit => AppInvariant
<1> SUFFICES ASSUME ClientInit PROVE AppInvariant
  OBVIOUS
<1>1. <<>> \in Seq(Seq(Char)) /\ target = ParseArguments(<<>>)
  BY DEF ClientInit, Target0
<1>2. target \in TargetType /\ NamedHere
  BY <1>1, ParseArgumentsTyped DEF NamedHere
<1>3. ClientTypeOK
  <2>1. received_complete <=> report # Nothing
    BY Zenon DEF ClientInit
  <2>2. pc \in Calls /\ response_buffer \in Seq(Char) /\ file = OldContent
    BY DEF ClientInit, Calls
  <2>3. received_complete \in BOOLEAN
    BY DEF ClientInit
  <2> QED
    BY <1>2, <2>1, <2>2, <2>3 DEF ClientTypeOK, TargetType
<1>4. Written
  BY DEF ClientInit, Written
<1> QED
  BY <1>2, <1>3, <1>4 DEF AppInvariant

(* A chunk is parsed with everything before it.                            *)
LEMMA ChunkApp ==
  ASSUME AppInvariant, NEW chunk \in Seq(Char), ChunkReceived(chunk)
  PROVE  AppInvariant'
<1> DEFINE buffer == BufferAfter(chunk)
           response == parse_http_response[buffer]
<1>1. /\ buffer \in Seq(Char) /\ file \in Seq(Char)
      /\ pc = "wait_for_data" /\ UNCHANGED target
      /\ response_buffer' = buffer
  BY DEF AppInvariant, ClientTypeOK, Written, ChunkReceived, BufferAfter
<1>2. CASE response.outcome = "parsed"
  <2>1. /\ received_complete' = TRUE /\ report' = response
        /\ file' = FileAfter(response) /\ pc' = "get_close"
    BY <1>2 DEF ChunkReceived, Goto
  <2>2. response.body \in Seq(Char)
    BY <1>1, <1>2, ParsedBody
  <2>3. report' # Nothing
    BY <1>2, <2>1 DEF Nothing, Unparsed
  <2>4. file' \in Seq(Char)
    BY <1>1, <2>1, <2>2 DEF FileAfter
  <2> QED
    BY <1>1, <2>1, <2>3, <2>4
       DEF AppInvariant, ClientTypeOK, NamedHere, Written, Calls
<1>3. CASE response.outcome # "parsed"
  <2>1. UNCHANGED <<received_complete, report, file>> /\ pc' \in {pc, "aborted"}
    BY <1>3 DEF ChunkReceived, Goto
  <2> QED
    BY <1>1, <2>1 DEF AppInvariant, ClientTypeOK, NamedHere, Written, Calls
<1> QED
  BY <1>2, <1>3

(* No result of a call leads the application astray.                       *)
LEMMA StepApp == AppInvariant /\ [AppStep]_appVars => AppInvariant'
<1> SUFFICES ASSUME AppInvariant, [AppStep]_appVars PROVE AppInvariant'
  OBVIOUS
<1>1. ASSUME NEW argv \in Seq(Seq(Char)), ArgumentsGiven(argv)
      PROVE  AppInvariant'
  <2>1. target' \in TargetType /\ NamedHere'
    BY <1>1, ParseArgumentsTyped DEF ArgumentsGiven, NamedHere
  <2>2. pc' \in {"initialize", "exited"}
        /\ UNCHANGED <<response_buffer, received_complete, report, file>>
    BY <1>1 DEF ArgumentsGiven, Goto
  <2> QED
    BY <2>1, <2>2 DEF AppInvariant, ClientTypeOK, TargetType, Written, Calls
<1>2. ASSUME NEW ok \in BOOLEAN, FileCreated(ok)
      PROVE  AppInvariant'
  BY <1>2 DEF FileCreated, Goto, AppInvariant, ClientTypeOK, NamedHere,
              Written, Calls
<1>3. ASSUME NEW ok \in BOOLEAN, Connected(ok)
      PROVE  AppInvariant'
  BY <1>3 DEF Connected, Goto, AppInvariant, ClientTypeOK, NamedHere,
              Written, Calls
<1>4. ASSUME NEW ok \in BOOLEAN,
             Initialized(ok) \/ ConnectionAwaited(ok) \/ RequestSent(ok)
      PROVE  AppInvariant'
  BY <1>4 DEF Initialized, ConnectionAwaited, RequestSent, OnlyPc, Goto,
              AppInvariant, ClientTypeOK, NamedHere, Written, Calls
<1>5. CASE ReceiveTimedOut \/ StackStopped
  BY <1>5 DEF ReceiveTimedOut, StackStopped, OnlyPc, Goto, AppInvariant,
              ClientTypeOK, NamedHere, Written, Calls
<1>6. CASE Closed
  <2>1. OnlyPc /\ pc' \in {"main_close", "client_close", "stack_close", "stop"}
    BY <1>6 DEF Closed, Goto
  <2> QED
    BY <2>1 DEF OnlyPc, AppInvariant, ClientTypeOK, NamedHere, Written, Calls
<1>7. CASE UNCHANGED appVars
  BY <1>7 DEF appVars, AppInvariant, ClientTypeOK, NamedHere, Written
<1> QED
  BY <1>1, <1>2, <1>3, <1>4, <1>5, <1>6, <1>7, ChunkApp DEF AppStep
=============================================================================

-------------------------- MODULE MyTelnetDelivery --------------------------
(***************************************************************************)
(* What a link that neither loses, duplicates nor reorders makes of the      *)
(* program, with a server that pushes its segments and repeats none, for     *)
(* every response, every way to cut it, injections that are refused and      *)
(* pcap errors.                                                            *)
(*                                                                         *)
(* InOrderDelivery: what the application has read and what waits for it is   *)
(* a prefix of what the server sent.  The client compares no sequence        *)
(* numbers, so the argument does not either: what is under way, what is      *)
(* queued and what has been read are pieces of the response, each starting   *)
(* where the one before it ends, as long as the client may still take them.  *)
(*                                                                         *)
(* AcknowledgedIsQueued: no byte of the response is acknowledged, on the     *)
(* wire or at the server, before process_packet has put it into the queue    *)
(* of the application.  The client keeps an acknowledgement number and no    *)
(* record of the stream, so the argument keeps the record for it: a ledger   *)
(* of how far into the response each of the server's segments reaches.       *)
(* Sequence numbers wrap; nothing here needs the response to be shorter      *)
(* than their period.                                                      *)
(*                                                                         *)
(* InStep: with patient timers the ledger and what is said of the handshake  *)
(* give that both sides agree on both numbers when nothing is under way.     *)
(***************************************************************************)
EXTENDS MyTelnetProofs
LOCAL INSTANCE SequenceTheorems
LOCAL INSTANCE FirstOrderInduction

-----------------------------------------------------------------------------
(* Pieces of the response.                                                 *)

(* The pieces s are the response from position a + 1 to b.                  *)
Pieces(s, a, b) ==
  \E p \in [0 .. Len(s) -> 0 .. Total] :
    /\ p[0] = a /\ p[Len(s)] = b
    /\ \A i \in 1 .. Len(s) :
         /\ p[i - 1] <= p[i]
         /\ s[i] = SubSeq(Response, p[i - 1] + 1, p[i])

(* Two adjacent parts of the response make one.                             *)
LEMMA TextJoins ==
  ASSUME NEW a \in 0 .. Total, NEW b \in a .. Total, NEW c \in b .. Total
  PROVE  SubSeq(Response, a + 1, b) \o SubSeq(Response, b + 1, c)
           = SubSeq(Response, a + 1, c)
<1>1. Response \in Seq(Byte) /\ Total = Len(Response) /\ Total \in Nat
  BY ServerAssumption DEF Total
<1> DEFINE m == a + 1
<1>2. /\ m \in 1 .. Len(Response) + 1 /\ b \in m - 1 .. Len(Response)
      /\ c \in b .. Len(Response)
  BY <1>1
<1> HIDE DEF m
<1>3. SubSeq(Response, m, b) \o SubSeq(Response, b + 1, c) = SubSeq(Response, m, c)
  BY <1>1, <1>2, ConcatAdjacentSubSeq
<1> QED
  BY <1>3 DEF m

(* A part is text of its length; only the empty one is empty.               *)
LEMMA TextPart ==
  ASSUME NEW a \in 0 .. Total, NEW b \in a .. Total
  PROVE  /\ SubSeq(Response, a + 1, b) \in Seq(Byte)
         /\ Len(SubSeq(Response, a + 1, b)) = b - a
         /\ SubSeq(Response, a + 1, b) = <<>> <=> a = b
<1>1. Response \in Seq(Byte) /\ Total = Len(Response) /\ Total \in Nat
  BY ServerAssumption DEF Total
<1>2. /\ a + 1 \in Int /\ b \in Int
      /\ \A i \in a + 1 .. b : Response[i] \in Byte
  BY <1>1
<1>3. /\ SubSeq(Response, a + 1, b) \in Seq(Byte)
      /\ Len(SubSeq(Response, a + 1, b)) = IF a + 1 <= b THEN b - (a + 1) + 1 ELSE 0
  BY <1>2, SubSeqProperties
<1>4. Len(SubSeq(Response, a + 1, b)) = b - a
  BY <1>1, <1>3
<1>5. ASSUME a = b PROVE SubSeq(Response, a + 1, b) = <<>>
  <2>1. b < a + 1
    BY <1>1, <1>5
  <2> QED
    BY <1>2, <2>1, SubSeqEmpty
<1>6. ASSUME SubSeq(Response, a + 1, b) = <<>> PROVE a = b
  <2>1. b - a = 0
    BY <1>4, <1>6
  <2> QED
    BY <1>1, <2>1
<1> QED
  BY <1>3, <1>4, <1>5, <1>6

LEMMA NoPieces ==
  ASSUME NEW a \in 0 .. Total
  PROVE  Pieces(<<>>, a, a)
<1> DEFINE p == [i \in 0 .. 0 |-> a]
<1>1. p \in [0 .. Len(<<>>) -> 0 .. Total] /\ p[0] = a /\ p[Len(<<>>)] = a
  OBVIOUS
<1>2. \A i \in 1 .. Len(<<>>) : FALSE
  OBVIOUS
<1> HIDE DEF p
<1> QED
  BY <1>1, <1>2 DEF Pieces

(* Later pieces lie further on.                                             *)
LEMMA PiecesAscend ==
  ASSUME NEW s \in Seq(Seq(Byte)), NEW a, NEW b, Pieces(s, a, b)
  PROVE  a \in 0 .. Total /\ b \in a .. Total
<1> DEFINE n == Len(s)
<1>0. n \in Nat
  OBVIOUS
<1>1. PICK p \in [0 .. n -> 0 .. Total] :
        /\ p[0] = a /\ p[n] = b
        /\ \A i \in 1 .. n : p[i - 1] <= p[i]
  BY DEF Pieces
<1> HIDE DEF n
<1> DEFINE Above == {k \in 0 .. n : a <= p[k]}
<1>2. 0 \in 0 .. n /\ n \in 0 .. n /\ Total \in Nat
  BY <1>0, TotalIsEnd
<1>3. a \in 0 .. Total /\ b \in 0 .. Total
  BY <1>1, <1>2
<1>4. 0 \in Above
  BY <1>1, <1>2, <1>3
<1>5. ASSUME NEW k \in 0 .. n - 1, k \in Above PROVE k + 1 \in Above
  <2>1. k + 1 \in 1 .. n /\ (k + 1) - 1 = k /\ k + 1 \in 0 .. n /\ k \in 0 .. n
    BY <1>0
  <2>2. p[k] <= p[k + 1]
    BY <1>1, <2>1
  <2>3. p[k] \in 0 .. Total /\ p[k + 1] \in 0 .. Total
    BY <1>1, <2>1
  <2>5. a <= p[k]
    BY <1>5
  <2>4. a <= p[k + 1]
    BY <1>2, <1>3, <2>2, <2>3, <2>5
  <2> QED
    BY <2>1, <2>4
<1> HIDE DEF Above
<1>6. 0 .. n \subseteq Above
  BY <1>0, <1>4, <1>5, Induction
<1>7. a <= p[n]
  BY <1>2, <1>6 DEF Above
<1> QED
  BY <1>1, <1>2, <1>3, <1>7

(* A piece that goes on where the pieces end is one more of them.           *)
LEMMA PiecesAppend ==
  ASSUME NEW s \in Seq(Seq(Byte)), NEW a, NEW b, Pieces(s, a, b),
         NEW c \in b .. Total
  PROVE  Pieces(Append(s, SubSeq(Response, b + 1, c)), a, c)
<1> DEFINE n == Len(s)
           part == SubSeq(Response, b + 1, c)
           w == Append(s, part)
<1>0. n \in Nat /\ Total \in Nat
  BY TotalIsEnd
<1>1. a \in 0 .. Total /\ b \in 0 .. Total /\ part \in Seq(Byte)
  BY PiecesAscend, TextPart
<1>2. PICK p \in [0 .. n -> 0 .. Total] :
        /\ p[0] = a /\ p[n] = b
        /\ \A i \in 1 .. n :
             p[i - 1] <= p[i] /\ s[i] = SubSeq(Response, p[i - 1] + 1, p[i])
  BY DEF Pieces
<1> HIDE DEF part
<1>3. /\ Len(w) = n + 1 /\ w[n + 1] = part
      /\ \A i \in 1 .. n : w[i] = s[i]
  BY <1>1, AppendProperties
<1> HIDE DEF w, n
<1> DEFINE q == [i \in 0 .. n + 1 |-> IF i = n + 1 THEN c ELSE p[i]]
<1>4. c \in 0 .. Total /\ b <= c
  BY <1>0, <1>1
<1>5. q \in [0 .. n + 1 -> 0 .. Total]
  BY <1>0, <1>4
<1>6. q[n + 1] = c /\ \A i \in 0 .. n : q[i] = p[i]
  BY <1>0
<1> HIDE DEF q
<1>7. ASSUME NEW i \in 1 .. n + 1
      PROVE  q[i - 1] <= q[i] /\ w[i] = SubSeq(Response, q[i - 1] + 1, q[i])
  <2>1. CASE i = n + 1
    <3>1. i - 1 = n /\ n \in 0 .. n
      BY <1>0, <2>1
    <3>2. q[i - 1] = b /\ q[i] = c
      BY <1>2, <1>6, <2>1, <3>1
    <3> QED
      BY <1>3, <1>4, <2>1, <3>2 DEF part
  <2>2. CASE i # n + 1
    <3>1. i \in 1 .. n /\ i \in 0 .. n /\ i - 1 \in 0 .. n
      BY <1>0, <2>2
    <3>2. q[i - 1] = p[i - 1] /\ q[i] = p[i] /\ w[i] = s[i]
      BY <1>3, <1>6, <3>1
    <3> QED
      BY <1>2, <3>1, <3>2
  <2> QED
    BY <2>1, <2>2
<1>8. q[0] = a /\ q[Len(w)] = c
  BY <1>0, <1>2, <1>3, <1>6
<1>9. Pieces(w, a, c)
  BY <1>3, <1>5, <1>7, <1>8 DEF Pieces
<1> QED
  BY <1>9 DEF w, part

(* The first piece starts where the pieces start, and the others go on.     *)
LEMMA PiecesHead ==
  ASSUME NEW s \in Seq(Seq(Byte)), NEW a, NEW b, Pieces(s, a, b), s # <<>>
  PROVE  \E c \in a .. Total :
           Head(s) = SubSeq(Response, a + 1, c) /\ Pieces(Tail(s), c, b)
<1> DEFINE n == Len(s) - 1
           w == Tail(s)
<1>0. n \in Nat /\ Len(s) = n + 1 /\ Total \in Nat
  BY TotalIsEnd
<1>1. Head(s) = s[1]
  OBVIOUS
<1>2. Len(w) = n /\ \A i \in 1 .. n : w[i] = s[i + 1]
  BY HeadTailProperties
<1> HIDE DEF n, w
<1>3. PICK p \in [0 .. n + 1 -> 0 .. Total] :
        /\ p[0] = a /\ p[n + 1] = b
        /\ \A i \in 1 .. n + 1 :
             p[i - 1] <= p[i] /\ s[i] = SubSeq(Response, p[i - 1] + 1, p[i])
  BY <1>0 DEF Pieces
<1>4. 1 \in 1 .. n + 1 /\ 1 \in 0 .. n + 1 /\ 0 \in 0 .. n + 1 /\ 1 - 1 = 0
  BY <1>0
<1>5. p[1] \in 0 .. Total /\ a \in 0 .. Total
  BY <1>3, <1>4
<1>6. a <= p[1] /\ s[1] = SubSeq(Response, a + 1, p[1])
  <2>1. p[1 - 1] <= p[1] /\ s[1] = SubSeq(Response, p[1 - 1] + 1, p[1])
    BY <1>3, <1>4
  <2> QED
    BY <1>3, <1>4, <2>1
<1> DEFINE q == [i \in 0 .. n |-> p[i + 1]]
<1>7. q \in [0 .. n -> 0 .. Total]
  BY <1>0
<1>8. \A i \in 0 .. n : q[i] = p[i + 1]
  OBVIOUS
<1> HIDE DEF q
<1>9. q[0] = p[1] /\ q[n] = b
  <2>1. 0 \in 0 .. n /\ n \in 0 .. n /\ 0 + 1 = 1
    BY <1>0
  <2> QED
    BY <1>3, <1>8, <2>1
<1>10. ASSUME NEW i \in 1 .. n
       PROVE  q[i - 1] <= q[i] /\ w[i] = SubSeq(Response, q[i - 1] + 1, q[i])
  <2>1. /\ i \in 0 .. n /\ i - 1 \in 0 .. n /\ (i - 1) + 1 = i
        /\ i + 1 \in 1 .. n + 1 /\ (i + 1) - 1 = i
    BY <1>0
  <2>2. q[i - 1] = p[i] /\ q[i] = p[i + 1] /\ w[i] = s[i + 1]
    BY <1>2, <1>8, <2>1
  <2>3. p[i] <= p[i + 1] /\ s[i + 1] = SubSeq(Response, p[i] + 1, p[i + 1])
    BY <1>3, <2>1
  <2> QED
    BY <2>2, <2>3
<1>11. Pieces(w, p[1], b)
  BY <1>2, <1>7, <1>9, <1>10 DEF Pieces
<1>12. p[1] \in a .. Total
  BY <1>0, <1>5, <1>6
<1> QED
  BY <1>1, <1>6, <1>11, <1>12 DEF w

(* Joined together the pieces are the part of the response they stand for.   *)
LEMMA PiecesFlatten ==
  ASSUME NEW s \in Seq(Seq(Byte)), NEW a, NEW b, Pieces(s, a, b)
  PROVE  SeqX!FlattenSeq(s) = SubSeq(Response, a + 1, b)
<1> DEFINE n == Len(s)
<1>0. /\ n \in Nat /\ Total \in Nat
      /\ a \in 0 .. Total /\ b \in a .. Total
  BY TotalIsEnd, PiecesAscend
<1>1. PICK p \in [0 .. n -> 0 .. Total] :
        /\ p[0] = a /\ p[n] = b
        /\ \A i \in 1 .. n :
             p[i - 1] <= p[i] /\ s[i] = SubSeq(Response, p[i - 1] + 1, p[i])
  BY DEF Pieces
<1>2. CASE n = 0
  <2>1. s = <<>> /\ a = b
    BY <1>1, <1>2
  <2>2. SubSeq(Response, a + 1, b) = <<>>
    BY <1>0, <2>1, TextPart
  <2> QED
    BY <1>2, <2>1, <2>2 DEF SeqX!FlattenSeq
<1>3. CASE n # 0
  <2> DEFINE Flattens(g) == g = [i \in 1 .. Len(s) |->
                                   IF i = 1 THEN s[i] ELSE g[i - 1] \o s[i]]
             flatten == CHOOSE g : Flattens(g)
             text(i) == SubSeq(Response, a + 1, p[i])
             g == [i \in 1 .. n |-> text(i)]
             Below == {k \in 0 .. n : a <= p[k]}
  <2>1. ASSUME NEW i \in 1 .. n, i # 1, a <= p[i - 1]
        PROVE  text(i) = text(i - 1) \o s[i]
    <3>1. i \in 0 .. n /\ i - 1 \in 0 .. n
      BY <1>0
    <3>2. p[i] \in 0 .. Total /\ p[i - 1] \in 0 .. Total /\ p[i - 1] <= p[i]
      BY <1>1, <3>1
    <3>3. p[i - 1] \in a .. Total /\ p[i] \in p[i - 1] .. Total
      BY <1>0, <2>1, <3>2
    <3>4. s[i] = SubSeq(Response, p[i - 1] + 1, p[i])
      BY <1>1
    <3> QED
      BY <1>0, <3>3, <3>4, TextJoins
  <2>2. 0 .. n \subseteq Below
    <3>1. 0 \in Below
      BY <1>0, <1>1
    <3>2. ASSUME NEW k \in 0 .. n - 1, k \in Below PROVE k + 1 \in Below
      <4>1. k + 1 \in 1 .. n /\ (k + 1) - 1 = k /\ k + 1 \in 0 .. n /\ k \in 0 .. n
        BY <1>0
      <4>2. p[k] <= p[k + 1] /\ p[k] \in 0 .. Total /\ p[k + 1] \in 0 .. Total
        BY <1>1, <4>1
      <4>3. a <= p[k]
        BY <3>2
      <4> QED
        BY <1>0, <4>1, <4>2, <4>3
    <3> HIDE DEF Below, n
    <3> QED
      BY <1>0, <3>1, <3>2, Induction
  <2>3. s[1] = text(1)
    <3>1. 1 \in 1 .. n /\ 1 - 1 = 0
      BY <1>0, <1>3
    <3>2. s[1] = SubSeq(Response, p[1 - 1] + 1, p[1])
      BY <1>1, <3>1
    <3> QED
      BY <1>1, <3>1, <3>2
  <2>4. Flattens(g)
    <3>1. ASSUME NEW i \in 1 .. n
          PROVE  g[i] = IF i = 1 THEN s[i] ELSE g[i - 1] \o s[i]
      <4>1. CASE i = 1
        BY <2>3, <4>1
      <4>2. CASE i # 1
        <5>1. i - 1 \in 1 .. n /\ i - 1 \in 0 .. n
          BY <1>0, <4>2
        <5>2. a <= p[i - 1]
          BY <2>2, <5>1
        <5>3. g[i] = text(i) /\ g[i - 1] = text(i - 1)
          BY <5>1
        <5> HIDE DEF text, g
        <5> QED
          BY <2>1, <4>2, <5>2, <5>3
      <4> QED
        BY <4>1, <4>2
    <3> QED
      BY <3>1
  <2> HIDE DEF text, g, Below
  <2>5. Flattens(flatten)
    BY <2>4, Zenon
  <2> HIDE DEF flatten
  <2>6. \A i \in 1 .. n : flatten[i] = IF i = 1 THEN s[i] ELSE flatten[i - 1] \o s[i]
    BY <2>5
  <2> DEFINE Same == {k \in 0 .. n : k = 0 \/ flatten[k] = text(k)}
  <2>7. 0 \in Same
    BY <1>0
  <2>8. ASSUME NEW k \in 0 .. n - 1, k \in Same PROVE k + 1 \in Same
    <3>1. k + 1 \in 1 .. n /\ k + 1 \in 0 .. n /\ (k + 1) - 1 = k /\ k \in 0 .. n
      BY <1>0
    <3>2. CASE k = 0
      <4>1. flatten[1] = s[1]
        BY <2>6, <3>1, <3>2
      <4> QED
        BY <2>3, <3>1, <3>2, <4>1
    <3>3. CASE k # 0
      <4>1. flatten[k + 1] = flatten[k] \o s[k + 1]
        <5>1. k + 1 # 1
          BY <3>1, <3>3
        <5> QED
          BY <2>6, <3>1, <5>1
      <4>2. a <= p[(k + 1) - 1] /\ k + 1 # 1
        <5>1. k \in Below
          BY <2>2, <3>1
        <5>2. a <= p[k]
          BY <5>1 DEF Below
        <5> QED
          BY <3>1, <3>3, <5>2
      <4>3. text(k + 1) = text(k) \o s[k + 1]
        BY <2>1, <3>1, <4>2
      <4>4. flatten[k] = text(k)
        BY <2>8, <3>3
      <4> QED
        BY <3>1, <4>1, <4>3, <4>4
    <3> QED
      BY <3>2, <3>3
  <2> HIDE DEF Same
  <2>9. 0 .. n \subseteq Same
    <3> HIDE DEF n
    <3> QED
      BY <1>0, <2>7, <2>8, Induction
  <2>10. flatten[n] = text(n)
    BY <1>0, <1>3, <2>9 DEF Same
  <2>11. SeqX!FlattenSeq(s) = flatten[n]
    BY <1>3 DEF SeqX!FlattenSeq, flatten
  <2> QED
    BY <1>1, <2>10, <2>11 DEF text
<1> QED
  BY <1>2, <1>3

-----------------------------------------------------------------------------
(* The two ends, and who speaks first.                                     *)

(* A link that delivers every segment once and in order, and a server that   *)
(* pushes every segment and has none to repeat.                              *)
OrderlyLink ==
  Faults \subseteq {"pcap_error"} /\ PushChoices \subseteq {TRUE} /\ MaxRetransmit = 0

(* What the server sends is from its address, and data is for the client's   *)
(* and carries the flags that make process_packet take it.                   *)
Addressed(seg) ==
  /\ seg.src = ServerIp /\ seg.sport = ServerPort
  /\ seg.payload # <<>> =>
       seg.dst = LocalIp /\ seg.dport = LocalPort /\ is("PSH", seg) /\ is("ACK", seg)

BetweenEnds ==
  current_connection # NoConnection =>
    /\ current_connection.local_port = LocalPort
    /\ current_connection.remote_ip = ServerIp
    /\ current_connection.remote_port = ServerPort

ServerKnows == srv.st # "LISTEN" => srv.port = LocalPort

Ends ==
  /\ BetweenEnds /\ ServerKnows
  /\ \A i \in 1 .. Len(tx) : tx[i].sport = LocalPort
  /\ \A i \in 1 .. Len(srv_tx) : Addressed(srv_tx[i])

(* The server says nothing before it was asked, and is not asked before the  *)
(* client has been connected.                                              *)
Begun == current_connection # NoConnection /\ current_connection.state # "SYN_SENT"

Asked ==
  /\ ~Begun => \A i \in 1 .. Len(tx) : tx[i].payload = <<>>
  /\ srv.request => Begun
  /\ srv.sent > 0 => srv.request

(* How much of the response the server has sent.                            *)
Position == IF srv.sent <= Total THEN srv.sent ELSE Total

LEMMA PositionTyped ==
  ASSUME ServerTypeOK
  PROVE  Position \in 0 .. Total
<1>1. srv.sent \in 0 .. Total + 1 /\ Total \in Nat
  BY TotalIsEnd DEF ServerTypeOK
<1> QED
  BY <1>1 DEF Position

(* The segment holds the response from position m + 1 to n, if anything, and  *)
(* is numbered accordingly.                                                *)
Marked(seg, m, n) ==
  /\ seg.payload = SubSeq(Response, m + 1, n)
  /\ seg.payload # <<>> => seg.seq = Plus(ServerIss, m + 1)
  /\ is("SYN", seg) => seg.seq = Plus(ServerIss, 0)
  /\ is("FIN", seg) /\ ~is("PSH", seg) =>
       n = Total /\ seg.seq = Plus(ServerIss, Total + 1)

(* One step of the server: it is silent, or sends the next part of the       *)
(* response, which may be none.                                            *)
Said ==
  \/ UNCHANGED srv_tx /\ Position' = Position
  \/ /\ Position' \in Position .. Total
     /\ \E seg \in Segment :
          /\ srv_tx' = Append(srv_tx, seg) /\ Addressed(seg)
          /\ Marked(seg, Position, Position')

LEMMA SaidNothing ==
  ASSUME ServerTypeOK, srv'.sent = srv.sent, NEW seg \in Segment,
         srv_tx' = Append(srv_tx, seg), seg.payload = <<>>,
         seg.src = ServerIp, seg.sport = ServerPort, "FIN" \notin seg.flags,
         "SYN" \in seg.flags => seg.seq = Plus(ServerIss, 0)
  PROVE  Said
<1>1. Position \in 0 .. Total /\ Total \in Nat /\ Position' = Position
  BY PositionTyped, TotalIsEnd DEF Position
<1>2. Position \in Position .. Total
  BY <1>1
<1>3. SubSeq(Response, Position + 1, Position) = <<>>
  BY <1>1, <1>2, TextPart
<1>4. Marked(seg, Position, Position')
  BY <1>1, <1>3 DEF Marked, is
<1> QED
  BY <1>1, <1>2, <1>4 DEF Said, Addressed

LEMMA ServerSays ==
  ASSUME NEW s, NEW host, NEW flags, NEW k, NEW payload
  PROVE  /\ ServerSegment(s, host, flags, k, payload).src = ServerIp
         /\ ServerSegment(s, host, flags, k, payload).sport = ServerPort
         /\ ServerSegment(s, host, flags, k, payload).dst = host
         /\ ServerSegment(s, host, flags, k, payload).dport = s.port
         /\ ServerSegment(s, host, flags, k, payload).flags = flags
         /\ ServerSegment(s, host, flags, k, payload).seq = Plus(ServerIss, k)
         /\ ServerSegment(s, host, flags, k, payload).payload = payload
  BY DEF ServerSegment

(* What the server does on a segment of the client's.                       *)
LEMMA ReceivesSaid ==
  ASSUME ServerTypeOK, ServerKnows, NEW seg \in Segment, seg.sport = LocalPort,
         ServerReceives(seg)
  PROVE  /\ Said /\ ServerKnows' /\ srv'.sent = srv.sent
         /\ srv'.request => srv.request \/ seg.payload # <<>>
         /\ srv.request => srv'.request
         /\ srv'.acked = srv.acked \/ (~is("SYN", seg) /\ srv'.acked = Covers(seg.ack))
<1>1. srv \in ServerRecord /\ srv_tx \in Seq(Segment) /\ ServerTypeOK'
  BY ServerTypes, ReceivesTyped
<1>2. CASE Listening(seg)
  <2> DEFINE s == [srv EXCEPT !.st = "SYN_RCVD", !.port = seg.sport,
                              !.rcv_nxt = Plus(seg.seq, 1)]
             r == SynAck(s, seg.src)
  <2>1. srv' = s /\ srv_tx' = Append(srv_tx, r)
    BY <1>2 DEF Listening
  <2>2. /\ s.sent = srv.sent /\ s.request = srv.request /\ s.acked = srv.acked
        /\ s.port = LocalPort
    BY <1>1 DEF ServerRecord
  <2> HIDE DEF s
  <2>3. /\ r.src = ServerIp /\ r.sport = ServerPort /\ r.payload = <<>>
        /\ r.flags = {"SYN", "ACK"} /\ r.seq = Plus(ServerIss, 0)
    BY ServerSays DEF SynAck
  <2>4. s \in ServerRecord /\ seg.src \in Host
    BY <1>1, <2>1, ServerTypes DEF ServerTypeOK, ServerRecord, Segment
  <2>5. r \in Segment
    BY <2>4, SynAckIsSegment
  <2> HIDE DEF r
  <2>6. Said
    BY <2>1, <2>2, <2>3, <2>5, SaidNothing
  <2> QED
    BY <2>1, <2>2, <2>6 DEF ServerKnows
<1>3. CASE NotListening(seg)
  <2> DEFINE s == [srv EXCEPT !.port = seg.sport]
             r == ServerSegment(s, seg.src, {"RST"}, 0, <<>>)
             reset == [r EXCEPT !.seq = seg.ack, !.ack = 0]
  <2>1. UNCHANGED srv /\ srv_tx' = Append(srv_tx, reset)
    BY <1>3 DEF NotListening
  <2>2. /\ s \in ServerRecord /\ seg.src \in Host
        /\ seg.ack \in SeqNum /\ 0 \in SeqNum
    <3>1. seg.src \in Host /\ seg.ack \in SeqNum /\ seg.sport \in Port
      BY DEF Segment
    <3>2. s \in ServerRecord
      BY <1>1, <3>1 DEF ServerRecord
    <3>3. 0 \in SeqNum
      BY SeqModAssumption DEF SeqNum
    <3> QED
      BY <3>1, <3>2, <3>3
  <2> HIDE DEF s
  <2>3. /\ r.src = ServerIp /\ r.sport = ServerPort /\ r.payload = <<>>
        /\ r.flags = {"RST"}
    BY ServerSays
  <2>4. r \in Segment
    BY <2>2, ServerSegmentTyped, ServerFlags
  <2> HIDE DEF r
  <2>5. /\ reset \in Segment /\ reset.payload = <<>> /\ reset.flags = {"RST"}
        /\ reset.src = ServerIp /\ reset.sport = ServerPort
    BY <2>2, <2>3, <2>4 DEF Segment
  <2> HIDE DEF reset
  <2> QED
    BY <2>1, <2>5, SaidNothing DEF ServerKnows
<1>4. CASE DuplicateSyn(seg)
  <2> DEFINE r == SynAck(srv, seg.src)
  <2>1. UNCHANGED srv /\ srv_tx' = Append(srv_tx, r)
    BY <1>4 DEF DuplicateSyn
  <2>2. /\ r.src = ServerIp /\ r.sport = ServerPort /\ r.payload = <<>>
        /\ r.flags = {"SYN", "ACK"} /\ r.seq = Plus(ServerIss, 0)
    BY ServerSays DEF SynAck
  <2>3. r \in Segment
    BY <1>1, SynAckIsSegment DEF Segment
  <2> HIDE DEF r
  <2> QED
    BY <2>1, <2>2, <2>3, SaidNothing DEF ServerKnows
<1>5. CASE UnexpectedSyn(seg)
  <2> DEFINE r == ServerSegment(srv, seg.src, {"RST", "ACK"}, 0, <<>>)
             reset == [r EXCEPT !.seq = 0, !.ack = Plus(seg.seq, 1)]
  <2>1. srv' = [srv EXCEPT !.st = "LISTEN"] /\ srv_tx' = Append(srv_tx, reset)
    BY <1>5 DEF UnexpectedSyn
  <2>2. seg.src \in Host /\ Plus(seg.seq, 1) \in SeqNum /\ 0 \in SeqNum
    BY SegmentFields, SeqModAssumption DEF Segment, SeqNum
  <2>3. /\ r.src = ServerIp /\ r.sport = ServerPort /\ r.payload = <<>>
        /\ r.flags = {"RST", "ACK"}
    BY ServerSays
  <2>4. r \in Segment
    BY <1>1, <2>2, ServerSegmentTyped, ServerFlags
  <2> HIDE DEF r
  <2>5. /\ reset \in Segment /\ reset.payload = <<>> /\ reset.flags = {"RST", "ACK"}
        /\ reset.src = ServerIp /\ reset.sport = ServerPort
    BY <2>2, <2>3, <2>4 DEF Segment
  <2> HIDE DEF reset
  <2>6. /\ srv'.sent = srv.sent /\ srv'.request = srv.request
        /\ srv'.acked = srv.acked /\ srv'.st = "LISTEN"
    BY <1>1, <2>1 DEF ServerRecord
  <2> QED
    BY <2>1, <2>5, <2>6, SaidNothing DEF ServerKnows
<1>6. CASE OnConnection(seg)
  <2> DEFINE r == PureAck(srv', seg.src)
  <2>1. srv_tx' = Append(srv_tx, r) \/ UNCHANGED srv_tx
    BY <1>6 DEF OnConnection
  <2>2. /\ srv'.sent = srv.sent /\ srv'.port = srv.port
        /\ srv'.request => srv.request \/ seg.payload # <<>>
        /\ srv.request => srv'.request
        /\ srv'.acked = srv.acked \/ (~is("SYN", seg) /\ srv'.acked = Covers(seg.ack))
    BY <1>1, <1>6 DEF OnConnection, ServerRecord
  <2>3. ServerKnows'
    BY <1>6, <2>2 DEF OnConnection, ServerKnows
  <2>4. /\ r.src = ServerIp /\ r.sport = ServerPort /\ r.payload = <<>>
        /\ r.flags = {"ACK"}
    BY ServerSays DEF PureAck
  <2>5. r \in Segment
    <3>1. srv' \in ServerRecord /\ seg.src \in Host
      BY <1>1 DEF ServerTypeOK, ServerRecord, Segment
    <3> QED
      BY <3>1, PureAckIsSegment
  <2> HIDE DEF r
  <2>6. Said
    <3>1. CASE UNCHANGED srv_tx
      BY <2>2, <3>1 DEF Said, Position
    <3>2. CASE srv_tx' = Append(srv_tx, r)
      BY <2>2, <2>4, <2>5, <3>2, SaidNothing
    <3> QED
      BY <2>1, <3>1, <3>2
  <2> QED
    BY <2>2, <2>3, <2>6
<1> QED
  BY <1>2, <1>3, <1>4, <1>5, <1>6 DEF ServerReceives

(* The next part of the response, or the FIN.                               *)
LEMMA RespondSaid ==
  ASSUME OrderlyLink, ServerTypeOK, ServerKnows, Respond(LocalIp)
  PROVE  /\ Said /\ ServerKnows'
         /\ srv.request /\ srv'.request /\ srv'.acked = srv.acked
<1>1. PICK push \in PushChoices, fin \in FinChoices :
        /\ fin => End(srv.sent + 1) = Total
        /\ srv_tx' = Append(srv_tx, StreamSegment(srv, LocalIp, srv.sent + 1, push, fin))
        /\ srv' = [srv EXCEPT !.sent = IF fin THEN Total + 1 ELSE End(@ + 1)]
  BY DEF Respond
<1>2. /\ srv \in ServerRecord /\ srv_tx \in Seq(Segment)
      /\ push \in BOOLEAN /\ fin \in BOOLEAN /\ push = TRUE
  BY <1>1, ServerTypes, ServerAssumption DEF OrderlyLink
<1>3. /\ srv.sent \in 0 .. Total /\ Total \in Nat
      /\ srv.st = "OPEN" /\ srv.request
  BY <1>2, TotalIsEnd DEF Respond, ServerRecord
<1> DEFINE k == srv.sent + 1
           upTo == IF fin THEN Total + 1 ELSE End(k)
           seg == StreamSegment(srv, LocalIp, k, push, fin)
<1>4. k \in 1 .. Total + 1 /\ Position = srv.sent /\ LocalIp \in Host
  BY <1>3, StackAssumption DEF Position
<1>5. seg \in Segment
  BY <1>2, <1>4, StreamSegmentTyped
<1>6. srv' = [srv EXCEPT !.sent = upTo] /\ srv_tx' = Append(srv_tx, seg)
  BY <1>1
<1>7. srv.port = LocalPort
  BY <1>3 DEF ServerKnows
<1>8. /\ seg.src = ServerIp /\ seg.sport = ServerPort
      /\ seg.dst = LocalIp /\ seg.dport = LocalPort
  BY <1>7, ServerSays DEF StreamSegment
<1> HIDE DEF upTo, seg
<1>9. /\ srv'.sent = upTo /\ srv'.st = srv.st /\ srv'.port = srv.port
      /\ srv'.request = srv.request /\ srv'.acked = srv.acked
  BY <1>2, <1>6 DEF ServerRecord
<1>10. Said
  <2>1. CASE k = Total + 1
    <3>1. Position = Total /\ End(k) = Total + 1
      BY <1>3, <1>4, <2>1 DEF End
    <3>2. srv'.sent = Total + 1
      BY <1>9, <3>1 DEF upTo
    <3>3. Position' = Total /\ Position' \in Position .. Total
      BY <1>3, <3>1, <3>2 DEF Position
    <3>4. seg.payload = <<>> /\ seg.flags = {"FIN", "ACK"} /\ seg.seq = Plus(ServerIss, k)
      BY <2>1, ServerSays DEF seg, StreamSegment
    <3>5. SubSeq(Response, Position + 1, Position') = <<>>
      BY <1>3, <3>1, <3>3, TextPart
    <3>6. Addressed(seg)
      BY <1>8, <3>4 DEF Addressed
    <3>7. Marked(seg, Position, Position')
      BY <2>1, <3>3, <3>4, <3>5 DEF Marked, is
    <3> QED
      BY <1>5, <1>6, <3>3, <3>6, <3>7 DEF Said
  <2>2. CASE k # Total + 1
    <3>1. k <= Total /\ End(k) \in k .. Total
      BY <1>3, <1>4, <2>2, EndTyped
    <3>2. Position' = End(k)
      <4>1. CASE fin
        BY <1>1, <1>3, <1>9, <4>1 DEF Position, upTo
      <4>2. CASE ~fin
        BY <1>3, <1>9, <3>1, <4>2 DEF Position, upTo
      <4> QED
        BY <4>1, <4>2
    <3>3. Position' \in Position .. Total
      BY <1>3, <1>4, <3>1, <3>2
    <3>4. /\ seg.payload = SubSeq(Response, Position + 1, Position')
          /\ "PSH" \in seg.flags /\ "ACK" \in seg.flags /\ "SYN" \notin seg.flags
          /\ seg.seq = Plus(ServerIss, Position + 1)
      <4> DEFINE flags == {"ACK"} \union (IF push \/ End(k) = Total THEN {"PSH"} ELSE {})
                                  \union (IF fin THEN {"FIN"} ELSE {})
                 part == SubSeq(Response, k, End(k))
      <4>1. "PSH" \in flags /\ "ACK" \in flags /\ "SYN" \notin flags
        BY <1>2
      <4>2. seg = ServerSegment(srv, LocalIp, flags, k, part)
        BY <2>2 DEF seg, StreamSegment
      <4> HIDE DEF flags, part
      <4>3. seg.flags = flags /\ seg.payload = part /\ seg.seq = Plus(ServerIss, k)
        BY <4>2, ServerSays
      <4> QED
        BY <1>4, <3>2, <4>1, <4>3 DEF part
    <3>5. Addressed(seg)
      BY <1>8, <3>4 DEF Addressed, is
    <3>6. Marked(seg, Position, Position')
      BY <3>4 DEF Marked, is
    <3> QED
      BY <1>5, <1>6, <3>3, <3>5, <3>6 DEF Said
  <2> QED
    BY <2>1, <2>2
<1> QED
  BY <1>3, <1>7, <1>9, <1>10 DEF ServerKnows

-----------------------------------------------------------------------------
(* The invariant.                                                          *)

(* The payloads of the segments under way when the first k have arrived.     *)
InTransit(k) == [i \in 1 .. Len(srv_tx) - k |-> srv_tx[k + i].payload]

(* The connection can still become established, or is.                      *)
Awaited ==
  current_connection = NoConnection \/ InState({"SYN_SENT", "ESTABLISHED"})

(* After the first k segments have arrived, the application has read the     *)
(* first a characters, and those up to b are in its queue.  As long as the   *)
(* client may take more, the segments under way go on from there.            *)
StreamAt(k, a, b) ==
  /\ to_client = k + 1 .. Len(srv_tx)
  /\ response_buffer = SubSeq(Response, 1, a)
  /\ Pieces(data_queue, a, b)
  /\ Awaited => Pieces(InTransit(k), b, Position)

Stream ==
  \E k \in 0 .. Len(srv_tx), a \in 0 .. Total, b \in 0 .. Total : StreamAt(k, a, b)

OrderInvariant == Ends /\ Asked /\ Stream

LEMMA TransitTyped ==
  ASSUME srv_tx \in Seq(Segment), NEW k \in 0 .. Len(srv_tx)
  PROVE  InTransit(k) \in Seq(Seq(Byte)) /\ Len(InTransit(k)) = Len(srv_tx) - k
<1> DEFINE n == Len(srv_tx) - k
<1>1. n \in Nat
  OBVIOUS
<1>2. ASSUME NEW i \in 1 .. n PROVE srv_tx[k + i].payload \in Seq(Byte)
  <2>1. k + i \in 1 .. Len(srv_tx)
    OBVIOUS
  <2>2. srv_tx[k + i] \in Segment
    BY <2>1
  <2> QED
    BY <2>2, SegmentFields
<1>3. InTransit(k) = [i \in 1 .. n |-> srv_tx[k + i].payload]
  BY DEF InTransit
<1> HIDE DEF n
<1>4. InTransit(k) \in [1 .. n -> Seq(Byte)]
  BY <1>2, <1>3
<1>5. InTransit(k) \in Seq(Seq(Byte)) /\ Len(InTransit(k)) = n
  BY <1>1, <1>4
<1> QED
  BY <1>5 DEF n

(* A segment that is sent joins those under way, one that arrives leaves.    *)
LEMMA TransitGrows ==
  ASSUME srv_tx \in Seq(Segment), NEW k \in 0 .. Len(srv_tx),
         NEW seg \in Segment, srv_tx' = Append(srv_tx, seg)
  PROVE  InTransit(k)' = Append(InTransit(k), seg.payload)
<1> DEFINE n == Len(srv_tx) - k
           s == InTransit(k)
           w == Append(s, seg.payload)
           u == InTransit(k)'
<1>1. n \in Nat /\ s \in Seq(Seq(Byte)) /\ Len(s) = n /\ seg.payload \in Seq(Byte)
  BY TransitTyped, SegmentFields
<1>2. \A i \in 1 .. n : s[i] = srv_tx[k + i].payload
  BY DEF InTransit
<1>3. /\ Len(srv_tx') = Len(srv_tx) + 1 /\ srv_tx' \in Seq(Segment)
      /\ srv_tx'[Len(srv_tx) + 1] = seg
      /\ \A i \in 1 .. Len(srv_tx) : srv_tx'[i] = srv_tx[i]
  BY AppendProperties
<1>4. k \in 0 .. Len(srv_tx') /\ Len(srv_tx') - k = n + 1
  BY <1>3
<1>5. u = [i \in 1 .. Len(srv_tx') - k |-> srv_tx'[k + i].payload]
  BY DEF InTransit
<1> HIDE DEF s, u
<1>6. /\ w \in Seq(Seq(Byte)) /\ Len(w) = n + 1 /\ w[n + 1] = seg.payload
      /\ \A i \in 1 .. n : w[i] = s[i]
  BY <1>1, AppendProperties
<1> HIDE DEF w
<1>7. ASSUME NEW i \in 1 .. n + 1 PROVE srv_tx'[k + i].payload = w[i]
  <2>1. CASE i = n + 1
    <3>1. k + i = Len(srv_tx) + 1
      BY <2>1
    <3> QED
      BY <1>3, <1>6, <2>1, <3>1
  <2>2. CASE i # n + 1
    <3>1. i \in 1 .. n /\ k + i \in 1 .. Len(srv_tx)
      BY <1>1, <2>2
    <3> QED
      BY <1>2, <1>3, <1>6, <3>1
  <2> QED
    BY <2>1, <2>2
<1> HIDE DEF n
<1>8. u \in [1 .. n + 1 -> Seq(Byte)]
  <2>1. \A i \in 1 .. n + 1 : w[i] \in Seq(Byte)
    BY <1>6
  <2> QED
    BY <1>4, <1>5, <1>7, <2>1
<1>9. u \in Seq(Seq(Byte)) /\ Len(u) = n + 1
  BY <1>1, <1>8
<1>10. \A i \in 1 .. Len(u) : u[i] = w[i]
  BY <1>4, <1>5, <1>7, <1>9
<1> QED
  BY <1>6, <1>9, <1>10, SeqEqual DEF u, w, s

LEMMA TransitShrinks ==
  ASSUME srv_tx \in Seq(Segment), NEW k \in 0 .. Len(srv_tx) - 1
  PROVE  /\ InTransit(k) # <<>>
         /\ Head(InTransit(k)) = srv_tx[k + 1].payload
         /\ Tail(InTransit(k)) = InTransit(k + 1)
<1> DEFINE n == Len(srv_tx) - (k + 1)
           s == InTransit(k)
           u == InTransit(k + 1)
           w == Tail(s)
<1>1. n \in Nat /\ k \in 0 .. Len(srv_tx) /\ k + 1 \in 0 .. Len(srv_tx)
  OBVIOUS
<1>2. s \in Seq(Seq(Byte)) /\ Len(s) = Len(srv_tx) - k
  BY <1>1, TransitTyped
<1>3. u \in Seq(Seq(Byte)) /\ Len(u) = Len(srv_tx) - (k + 1)
  BY <1>1, TransitTyped
<1>4. /\ \A i \in 1 .. n + 1 : s[i] = srv_tx[k + i].payload
      /\ \A i \in 1 .. n : u[i] = srv_tx[(k + 1) + i].payload
  BY <1>1 DEF InTransit
<1> HIDE DEF s, u
<1>5. Len(s) = n + 1 /\ s # <<>>
  BY <1>1, <1>2
<1>6. /\ Head(s) = s[1] /\ w \in Seq(Seq(Byte)) /\ Len(w) = n
      /\ \A i \in 1 .. n : w[i] = s[i + 1]
  BY <1>1, <1>2, <1>5, HeadTailProperties
<1> HIDE DEF w
<1>7. ASSUME NEW i \in 1 .. n PROVE w[i] = u[i]
  <2>1. i + 1 \in 1 .. n + 1 /\ k + (i + 1) = (k + 1) + i
    BY <1>1
  <2> QED
    BY <1>4, <1>6, <2>1
<1>8. w = u
  BY <1>3, <1>6, <1>7, SeqEqual
<1>9. Head(s) = srv_tx[k + 1].payload
  <2>1. 1 \in 1 .. n + 1
    BY <1>1
  <2> QED
    BY <1>4, <1>6, <2>1
<1> QED
  BY <1>5, <1>8, <1>9 DEF s, u, w

-----------------------------------------------------------------------------
(* Its steps.                                                              *)

(* No connection becomes one that takes data again, or one without history.  *)
LEMMA NeverBack ==
  ASSUME TypeOK, Lifecycle, [LaterStep]_vars
  PROVE  (Awaited' => Awaited) /\ (Begun => Begun')
<1>1. Continued(Segment)
  BY StepContinues
<1>2. CASE Unaffected \/ Removed
  BY <1>2 DEF Unaffected, Removed, connVars, Awaited, Begun, InState
<1>3. CASE Sending \/ Confirmed \/ \E seg \in Segment : Queued(seg)
  BY <1>3 DEF Sending, Confirmed, Queued, Goes, Awaited, Begun, InState
<1>4. CASE Closing \/ Completed \/ GivenUp
  BY <1>4 DEF Closing, Completed, GivenUp, AtEnd, Goes, Awaited, Begun, InState
<1> QED
  BY <1>1, <1>2, <1>3, <1>4 DEF Continued

(* Where there is no connection nothing is sent.                            *)
LEMMA NothingToSend ==
  ASSUME TypeOK, Lifecycle, [LaterStep]_vars, current_connection = NoConnection
  PROVE  UNCHANGED <<current_connection, tx>>
<1>1. Continued(Segment)
  BY StepContinues
<1> QED
  BY <1>1 DEF Continued, Unaffected, Removed, connVars, Sending, Confirmed, Queued,
     Closing, Completed, GivenUp, Goes

(* What connect makes of the connection and the wire.                       *)
LEMMA ConnectEnds ==
  ASSUME ProgramInvariant, ConnectCall
  PROVE  /\ BetweenEnds'
         /\ \A i \in 1 .. Len(tx') : tx'[i].sport = LocalPort /\ tx'[i].payload = <<>>
<1>1. current_connection = NoConnection /\ tx = <<>>
  BY ConnectIsAny DEF ProgramInvariant, WireInvariant, Lifecycle
<1>2. CASE ConnectFilterFails
  BY <1>1, <1>2 DEF ConnectFilterFails, connVars, BetweenEnds
<1>3. ASSUME NEW iss \in InitialSeq, Connect(<<ServerIp, ServerPort>>, LocalPort, iss)
      PROVE  /\ BetweenEnds'
             /\ \A i \in 1 .. Len(tx') : tx'[i].sport = LocalPort /\ tx'[i].payload = <<>>
  <2> DEFINE c == [local_port |-> LocalPort,  remote_ip |-> ServerIp,
                   remote_port |-> ServerPort,  seq_num |-> iss,  ack_num |-> 0,
                   state |-> "CLOSED"]
  <2>1. PICK ok \in InjectResults :
          /\ current_connection' =
               IF ok
               THEN [AfterSend(c, {"SYN"}, <<>>, ok) EXCEPT !.state = "SYN_SENT"]
               ELSE NoConnection
          /\ tx' = WireAfter(<<>>, c, {"SYN"}, <<>>, ok)
    BY <1>3 DEF Connect
  <2>2. iss \in SeqNum /\ 0 \in SeqNum /\ "CLOSED" \in TcpState /\ ok \in BOOLEAN
    BY StackAssumption, SeqModAssumption DEF SeqNum, TcpState
  <2>3. c \in Connection
    BY <2>2, ServerAssumption, ProgramAssumption DEF Connection
  <2>4. /\ c.local_port = LocalPort /\ c.remote_ip = ServerIp
        /\ c.remote_port = ServerPort /\ c.state = "CLOSED"
    OBVIOUS
  <2> HIDE DEF c
  <2> DEFINE d == AfterSend(c, {"SYN"}, <<>>, ok)
  <2>5. {"SYN"} \in SUBSET Flag /\ <<>> \in Seq(Byte) /\ <<>> \in Seq(Segment)
    BY SentFlags
  <2>6. d \in Connection
    BY <2>2, <2>3, <2>5, AfterSendType
  <2>7. SameEnds(c, d)
    BY <2>3, SendKeepsEnds
  <2> HIDE DEF d
  <2>8. ok => current_connection' = [d EXCEPT !.state = "SYN_SENT"]
    BY <2>1 DEF d
  <2>9. ok => /\ current_connection'.local_port = d.local_port
              /\ current_connection'.remote_ip = d.remote_ip
              /\ current_connection'.remote_port = d.remote_port
    BY <2>6, <2>8 DEF Connection
  <2>10. BetweenEnds'
    BY <2>1, <2>4, <2>7, <2>9 DEF BetweenEnds, SameEnds
  <2>11. Grows(tx', <<>>, c.local_port, {})
    BY <2>1, <2>2, <2>3, <2>5, WireAfterGrows
  <2>12. \A i \in 1 .. Len(tx') : tx'[i].sport = LocalPort /\ tx'[i].payload = <<>>
    BY <2>4, <2>11 DEF Grows
  <2> QED
    BY <2>10, <2>12
<1> QED
  BY <1>2, <1>3 DEF ConnectCall

(* The connection stays between the same ends, whatever SYN+ACK opens it.   *)
LEMMA SynSentEnds ==
  ASSUME TypeOK, InState({"SYN_SENT"}), NEW S, \A seg \in S : seg.sport = ServerPort,
         \/ ConnectFilterFails \/ CloseConnection \/ Waiting
         \/ \E data \in Seq(Byte) : SendData(data)
         \/ \E seg \in S \intersect Segment : process_packet(seg)
  PROVE  current_connection'.remote_port \in {current_connection.remote_port, ServerPort}
<1>0. current_connection \in Connection /\ current_connection.state = "SYN_SENT"
  BY DEF TypeOK, InState
<1>1. CASE UNCHANGED current_connection
  BY <1>1
<1>2. CASE CloseConnection
  <2>1. \/ UNCHANGED current_connection
        \/ current_connection' = [current_connection EXCEPT !.state = "CLOSED"]
    BY <1>0, <1>2 DEF CloseConnection, InState
  <2> QED
    BY <1>0, <2>1 DEF Connection
<1>3. CASE RetransmitSyn
  <2>1. PICK ok \in InjectResults :
          current_connection' = AfterSend(current_connection, {"SYN"}, <<>>, ok)
    BY <1>3 DEF RetransmitSyn
  <2> QED
    BY <1>0, <2>1, SendKeepsEnds DEF SameEnds
<1>4. ASSUME NEW seg \in Segment, seg.sport = ServerPort, SynAckReceived(seg)
      PROVE  current_connection'.remote_port = ServerPort
  <2> DEFINE c == [current_connection EXCEPT !.remote_port = seg.sport,
                                             !.ack_num = Plus(seg.seq, 1)]
             d(ok) == AfterSend(c, {"ACK"}, <<>>, ok)
  <2>1. PICK ok \in InjectResults :
          current_connection' = [d(ok) EXCEPT !.state = IF ok THEN "ESTABLISHED" ELSE @]
    BY <1>4 DEF SynAckReceived
  <2>2. seg.sport \in Port /\ Plus(seg.seq, 1) \in SeqNum
    BY SegmentFields
  <2>3. c \in Connection /\ c.remote_port = ServerPort
    BY <1>0, <1>4, <2>2 DEF Connection
  <2>4. {"ACK"} \in SUBSET Flag /\ <<>> \in Seq(Byte) /\ ok \in BOOLEAN
    BY SentFlags, StackAssumption
  <2> HIDE DEF c
  <2>5. d(ok) \in Connection
    BY <2>3, <2>4, AfterSendType
  <2>6. SameEnds(c, d(ok))
    BY <2>3, SendKeepsEnds
  <2> HIDE DEF d
  <2>7. current_connection'.remote_port = d(ok).remote_port
    BY <2>1, <2>5 DEF Connection
  <2> QED
    BY <2>3, <2>6, <2>7 DEF SameEnds
<1>5. ASSUME NEW seg \in S \intersect Segment, process_packet(seg)
      PROVE  UNCHANGED current_connection \/ SynAckReceived(seg)
  BY <1>0, <1>5 DEF process_packet, DataReceived, IsData, PeerFinReceived, IsPeerFin,
     FinAcknowledged, IsFinAcknowledged, FinWhileClosingReceived, IsFinWhileClosing,
     LastAckReceived, IsLastAck, PacketIgnored, Matches, InState, connVars
<1>6. ASSUME \/ ConnectFilterFails
             \/ Waiting /\ ~RetransmitSyn
             \/ \E data \in Seq(Byte) : SendData(data)
      PROVE  UNCHANGED current_connection
  BY <1>0, <1>6 DEF ConnectFilterFails, SendData, InState, Waiting, connVars,
     WaitForConnection, ConnectionEstablished, ConnectionPending,
     KeepWaitingForConnection, ConnectionTimeout, WaitForData, TakeData, NoDataYet,
     KeepWaitingForData, DataTimeout
<1> QED
  BY <1>1, <1>2, <1>3, <1>4, <1>5, <1>6

-----------------------------------------------------------------------------
(* At first nothing has been said.                                          *)
LEMMA InitOrder == ProgramInit => OrderInvariant
<1> SUFFICES ASSUME ProgramInit PROVE OrderInvariant
  OBVIOUS
<1>1. /\ current_connection = NoConnection /\ tx = <<>> /\ data_queue = <<>>
      /\ srv.st = "LISTEN" /\ srv.request = FALSE /\ srv.sent = 0
      /\ srv_tx = <<>> /\ to_client = {} /\ response_buffer = <<>>
  BY DEF ProgramInit, Init, ServerInit, ClientInit
<1>2. Len(srv_tx) = 0 /\ Len(tx) = 0 /\ 0 \in 0 .. Total /\ Total \in Nat
  BY <1>1, TotalIsEnd
<1>3. Ends /\ Asked
  BY <1>1, <1>2 DEF Ends, BetweenEnds, ServerKnows, Asked, Begun
<1>4. StreamAt(0, 0, 0)
  <2>1. to_client = 0 + 1 .. Len(srv_tx)
    BY <1>1, <1>2
  <2>2. response_buffer = SubSeq(Response, 1, 0)
    BY <1>1, <1>2, TextPart
  <2>3. InTransit(0) = <<>> /\ Position = 0
    BY <1>1, <1>2 DEF InTransit, Position
  <2>4. Pieces(<<>>, 0, 0)
    BY <1>2, NoPieces
  <2> QED
    BY <1>1, <2>1, <2>2, <2>3, <2>4 DEF StreamAt
<1> QED
  BY <1>2, <1>3, <1>4 DEF OrderInvariant, Stream

(* What the server does next: it speaks when it was asked.                   *)
LEMMA ServerTurn ==
  ASSUME OrderlyLink, ProgramInvariant, Ends, ServerStep
  PROVE  /\ Said /\ ServerKnows'
         /\ srv'.request => srv.request \/ \E i \in 1 .. Len(tx) : tx[i].payload # <<>>
         /\ srv.request => srv'.request
         /\ srv'.sent = srv.sent \/ srv'.request
         /\ \/ srv'.acked = srv.acked
            \/ \E i \in 1 .. Len(tx) :
                 ~is("SYN", tx[i]) /\ srv'.acked = Covers(tx[i].ack)
<1>0. ServerTypeOK /\ ServerKnows
  BY DEF ProgramInvariant, Ends
<1>1. CASE Respond(LocalIp)
  BY <1>0, <1>1, RespondSaid
<1>2. CASE to_server < Len(tx) /\ ServerReceives(tx[to_server + 1])
  <2>1. tx \in Seq(Segment) /\ to_server \in 0 .. Len(tx)
    BY DEF ProgramInvariant, TypeOK, NetworkTypeOK
  <2>2. to_server + 1 \in 1 .. Len(tx)
    BY <1>2, <2>1
  <2> DEFINE seg == tx[to_server + 1]
  <2>3. seg \in Segment /\ seg.sport = LocalPort
    BY <2>1, <2>2 DEF Ends
  <2>4. ServerReceives(seg)
    BY <1>2
  <2>5. seg.payload # <<>> => \E i \in 1 .. Len(tx) : tx[i].payload # <<>>
    BY <2>2
  <2>6. ~is("SYN", seg) /\ srv'.acked = Covers(seg.ack) =>
          \E i \in 1 .. Len(tx) : ~is("SYN", tx[i]) /\ srv'.acked = Covers(tx[i].ack)
    BY <2>2
  <2> HIDE DEF seg
  <2> QED
    BY <1>0, <2>3, <2>4, <2>5, <2>6, ReceivesSaid
<1> QED
  BY <1>1, <1>2 DEF ServerStep

(* It repeats nothing, and nobody else speaks for it.                       *)
LEMMA ServerSilent ==
  ASSUME OrderlyLink, ProgramInvariant, ProgramNext, ~ServerStep
  PROVE  UNCHANGED serverVars
<1>1. ~ServerTimeout
  <2>1. srv.resent \in 0 .. 0
    BY DEF ProgramInvariant, ServerTypeOK, OrderlyLink
  <2>2. ~(srv.resent < MaxRetransmit)
    BY <2>1 DEF OrderlyLink
  <2> QED
    BY <2>2 DEF ServerTimeout, ServerTimer
<1> QED
  BY <1>1 DEF ProgramNext, Main, PrepareCall, ConnectCall, WaitForConnectionCall,
     SendDataCall, WaitForDataCall, CloseCall, DestroyStack, Unseen,
     CapturePacket, CaptureStep, Lose

(* The application calls the stack, and nobody else does but for packets.    *)
LEMMA CallsOnStack ==
  ASSUME ProgramInvariant, ProgramNext, ~ConnectCall, ~CapturePacket
  PROVE  \/ UNCHANGED vars \/ CloseConnection \/ Waiting
         \/ \E data \in Seq(Byte) : SendData(data)
<1>1. CASE SendDataCall
  <2>1. TheRequest \in Seq(Byte)
    BY RequestTyped, ProgramAssumption
       DEF TheRequest, ProgramInvariant, AppInvariant, ClientTypeOK
  <2> QED
    BY <1>1, <2>1 DEF SendDataCall
<1>2. CASE WaitForConnectionCall
  BY <1>2 DEF WaitForConnectionCall, Waiting
<1>3. CASE WaitForDataCall
  BY <1>3 DEF WaitForDataCall, Waiting
<1>4. CASE CloseCall
  BY <1>4 DEF CloseCall
<1>5. CASE PrepareCall \/ DestroyStack \/ CaptureStep \/ ServerStep \/ ServerTimeout \/ Lose
  BY <1>5 DEF PrepareCall, DestroyStack, CaptureStep, ServerStep, ServerTimeout, Lose
<1> QED
  BY <1>1, <1>2, <1>3, <1>4, <1>5 DEF ProgramNext, Main

(* The packets that process_packet sees are the server's.                   *)
LEMMA PacketsAreSaid ==
  ASSUME ProgramInvariant, ProgramNext, ~ConnectCall
  PROVE  \/ UNCHANGED vars \/ CloseConnection \/ Waiting
         \/ \E data \in Seq(Byte) : SendData(data)
         \/ \E i \in 1 .. Len(srv_tx) :
               srv_tx[i] \in Segment /\ process_packet(srv_tx[i])
<1>1. CASE CapturePacket
  <2>1. PICK i \in to_client : process_packet(srv_tx[i])
    BY <1>1 DEF CapturePacket
  <2>2. i \in 1 .. Len(srv_tx) /\ srv_tx[i] \in Segment
    BY DEF ProgramInvariant, ServerTypeOK, NetworkTypeOK
  <2> QED
    BY <2>1, <2>2
<1> QED
  BY <1>1, CallsOnStack

(* The connection stays between its ends.                                   *)
LEMMA StepBetweenEnds ==
  ASSUME ProgramInvariant, Ends, ProgramNext
  PROVE  BetweenEnds'
<1>0. TypeOK /\ Lifecycle /\ BetweenEnds
  BY DEF ProgramInvariant, WireInvariant, Ends
<1>1. CASE ConnectCall
  BY <1>1, ConnectEnds
<1>2. CASE ~ConnectCall
  <2>1. Continued(Segment)
    BY <1>0, <1>2, ProgramIsLater, StepContinues
  <2>2. CASE UNCHANGED current_connection
    BY <1>0, <2>2 DEF BetweenEnds
  <2>3. CASE \E s, t \in TcpState : Goes(s, t)
    <3>1. PICK s \in TcpState, t \in TcpState : Goes(s, t)
      BY <2>3
    <3>2. CASE current_connection'.remote_port = current_connection.remote_port
      BY <1>0, <3>1, <3>2 DEF Goes, BetweenEnds
    <3>3. CASE InState({"SYN_SENT"})
      <4> DEFINE S == {srv_tx[i] : i \in 1 .. Len(srv_tx)}
      <4>1. \A seg \in S : seg.sport = ServerPort
        BY DEF Ends, Addressed
      <4>2. CASE UNCHANGED vars
        BY <1>0, <4>2 DEF BetweenEnds, vars
      <4>3. CASE ~UNCHANGED vars
        <5>1. \/ CloseConnection \/ Waiting
              \/ \E data \in Seq(Byte) : SendData(data)
              \/ \E seg \in S \intersect Segment : process_packet(seg)
          BY <1>2, <4>3, PacketsAreSaid
        <5> HIDE DEF S
        <5>2. current_connection'.remote_port \in {current_connection.remote_port, ServerPort}
          BY <1>0, <3>3, <4>1, <5>1, SynSentEnds
        <5> QED
          BY <1>0, <3>1, <5>2 DEF Goes, BetweenEnds
      <4> QED
        BY <4>2, <4>3
    <3> QED
      BY <3>1, <3>2, <3>3 DEF Goes, InState
  <2> QED
    BY <2>1, <2>2, <2>3 DEF Continued, Unaffected, Removed, connVars, Sending,
       Confirmed, Queued, Closing, Completed, GivenUp, AtEnd, TcpState
<1> QED
  BY <1>1, <1>2

LEMMA StepEnds ==
  ASSUME OrderlyLink, ProgramInvariant, Ends, ProgramNext
  PROVE  Ends'
<1>0. TypeOK /\ Lifecycle /\ tx \in Seq(Segment) /\ srv_tx \in Seq(Segment)
  BY DEF ProgramInvariant, WireInvariant, TypeOK, ServerTypeOK
<1>1. BetweenEnds'
  BY StepBetweenEnds
<1>2. \A i \in 1 .. Len(tx') : tx'[i].sport = LocalPort
  <2>1. CASE ConnectCall
    BY <2>1, ConnectEnds
  <2>2. CASE UNCHANGED tx
    BY <2>2 DEF Ends
  <2>3. CASE ~ConnectCall /\ current_connection # NoConnection
    <3>1. Grows(tx', tx, current_connection.local_port, Sendable)
      BY <1>0, <2>3, ProgramIsLater, LaterGrowsWire
    <3>2. current_connection.local_port = LocalPort
      BY <2>3 DEF Ends, BetweenEnds
    <3>3. Len(tx) \in Nat
      BY <1>0
    <3>4. ASSUME NEW i \in 1 .. Len(tx') PROVE tx'[i].sport = LocalPort
      <4>1. CASE i \in 1 .. Len(tx)
        BY <3>1, <4>1 DEF Grows, Keeps, Ends
      <4>2. CASE i \in Len(tx) + 1 .. Len(tx')
        BY <3>1, <3>2, <4>2 DEF Grows
      <4> QED
        BY <3>3, <4>1, <4>2
    <3> QED
      BY <3>4
  <2>4. CASE ~ConnectCall /\ current_connection = NoConnection
    BY <1>0, <2>2, <2>4, ProgramIsLater, NothingToSend
  <2> QED
    BY <2>1, <2>3, <2>4
<1>3. ServerKnows' /\ \A i \in 1 .. Len(srv_tx') : Addressed(srv_tx'[i])
  <2>1. CASE ServerStep
    <3>1. Said /\ ServerKnows'
      BY <2>1, ServerTurn
    <3>2. CASE UNCHANGED srv_tx
      BY <3>1, <3>2 DEF Ends
    <3>3. ASSUME NEW seg \in Segment, srv_tx' = Append(srv_tx, seg), Addressed(seg)
          PROVE  \A i \in 1 .. Len(srv_tx') : Addressed(srv_tx'[i])
      <4>1. /\ Len(srv_tx') = Len(srv_tx) + 1 /\ Len(srv_tx) \in Nat
            /\ srv_tx'[Len(srv_tx) + 1] = seg
            /\ \A i \in 1 .. Len(srv_tx) : srv_tx'[i] = srv_tx[i]
        BY <1>0, <3>3, AppendProperties
      <4>2. ASSUME NEW i \in 1 .. Len(srv_tx') PROVE Addressed(srv_tx'[i])
        <5>1. CASE i \in 1 .. Len(srv_tx)
          BY <4>1, <5>1 DEF Ends
        <5>2. CASE i = Len(srv_tx) + 1
          BY <3>3, <4>1, <5>2
        <5> QED
          BY <4>1, <5>1, <5>2
      <4> QED
        BY <4>2
    <3> QED
      BY <3>1, <3>2, <3>3 DEF Said
  <2>2. CASE ~ServerStep
    BY <2>2, ServerSilent DEF serverVars, Ends, ServerKnows
  <2> QED
    BY <2>1, <2>2
<1> QED
  BY <1>1, <1>2, <1>3 DEF Ends

LEMMA StepAsked ==
  ASSUME OrderlyLink, ProgramInvariant, Ends, Asked, ProgramNext
  PROVE  Asked'
<1>0. TypeOK /\ Lifecycle /\ tx \in Seq(Segment) /\ Len(tx) \in Nat
  BY DEF ProgramInvariant, WireInvariant, TypeOK
<1>1. CASE ConnectCall
  <2>1. current_connection = NoConnection /\ UNCHANGED srv
    BY <1>1, ConnectIsAny DEF ConnectCall, Unseen, serverVars
  <2>2. \A i \in 1 .. Len(tx') : tx'[i].payload = <<>>
    BY <1>1, ConnectEnds
  <2> QED
    BY <2>1, <2>2 DEF Asked, Begun
<1>2. CASE ServerStep
  <2>1. UNCHANGED <<current_connection, tx>>
    BY <1>2 DEF ServerStep, vars
  <2>2. srv'.request => Begun
    BY <1>2, ServerTurn DEF Asked
  <2>3. srv'.sent > 0 => srv'.request
    BY <1>2, ServerTurn DEF Asked
  <2>4. Begun' <=> Begun
    BY <2>1 DEF Begun
  <2>5. ~Begun' => \A i \in 1 .. Len(tx') : tx'[i].payload = <<>>
    BY <2>1, <2>4 DEF Asked
  <2> QED
    BY <2>2, <2>3, <2>4, <2>5 DEF Asked
<1>3. CASE ~ConnectCall /\ ~ServerStep
  <2>1. UNCHANGED srv
    BY <1>3, ServerSilent DEF serverVars
  <2>2. Begun => Begun'
    BY <1>0, <1>3, ProgramIsLater, NeverBack
  <2>3. ASSUME ~Begun', NEW i \in 1 .. Len(tx') PROVE tx'[i].payload = <<>>
    <3>1. ~Begun /\ \A j \in 1 .. Len(tx) : tx[j].payload = <<>>
      BY <2>2, <2>3 DEF Asked
    <3>2. CASE current_connection = NoConnection
      <4>1. UNCHANGED tx
        BY <1>0, <1>3, <3>2, ProgramIsLater, NothingToSend
      <4> QED
        BY <2>3, <3>1, <4>1
    <3>3. CASE current_connection # NoConnection
      <4>1. current_connection.state = "SYN_SENT"
        BY <3>1, <3>3 DEF Begun
      <4>2. Grows(tx', tx, current_connection.local_port, Sendable)
        BY <1>0, <1>3, ProgramIsLater, LaterGrowsWire
      <4>3. CASE i \in 1 .. Len(tx)
        BY <3>1, <4>2, <4>3 DEF Grows, Keeps
      <4>4. CASE i \in Len(tx) + 1 .. Len(tx')
        BY <4>1, <4>2, <4>4 DEF Grows, Sendable, InState
      <4> QED
        BY <1>0, <2>3, <4>3, <4>4
    <3> QED
      BY <3>2, <3>3
  <2> QED
    BY <2>1, <2>2, <2>3 DEF Asked
<1> QED
  BY <1>1, <1>2, <1>3

-----------------------------------------------------------------------------
(* The stream.                                                             *)

(* Until the server is asked there is nothing of it.                        *)
LEMMA NothingSaid ==
  ASSUME ServerTypeOK, Asked, ~Begun
  PROVE  Position = 0
<1>1. srv.sent \in 0 .. Total + 1 /\ Total \in Nat /\ ~(srv.sent > 0)
  BY TotalIsEnd DEF ServerTypeOK, Asked
<1>2. srv.sent = 0
  BY <1>1
<1> QED
  BY <1>1, <1>2 DEF Position

(* Between two connected ends every segment of the response is data.         *)
LEMMA SaidIsData ==
  ASSUME BetweenEnds, InState({"ESTABLISHED"}), NEW seg, Addressed(seg),
         seg.payload # <<>>
  PROVE  IsData(seg)
  BY DEF BetweenEnds, InState, Addressed, IsData, Matches, is_packet_for_connection,
     NormalDirection

(* Data that arrives is queued, whatever else the segment says.             *)
LEMMA PacketQueues ==
  ASSUME NEW seg, process_packet(seg)
  PROVE  data_queue' = IF IsData(seg) THEN Append(data_queue, seg.payload) ELSE data_queue
<1>1. ASSUME IsData(seg) PROVE DataReceived(seg)
  <2>1. current_connection.state = "ESTABLISHED" /\ is("PSH", seg)
    BY <1>1 DEF IsData, Matches, InState
  <2> QED
    BY <1>1, <2>1 DEF process_packet, SynAckReceived, IsSynAck, PeerFinReceived, IsPeerFin,
       FinAcknowledged, IsFinAcknowledged, FinWhileClosingReceived, IsFinWhileClosing,
       LastAckReceived, IsLastAck, PacketIgnored, Matches, InState
<1>2. ASSUME ~IsData(seg) PROVE UNCHANGED data_queue
  BY <1>2 DEF process_packet, SynAckReceived, DataReceived, PeerFinReceived,
     FinAcknowledged, FinWhileClosingReceived, LastAckReceived, PacketIgnored
<1> QED
  BY <1>1, <1>2 DEF DataReceived

(* The server speaks.                                                      *)
LEMMA StreamSaid ==
  ASSUME OrderlyLink, ProgramInvariant, Ends, Stream, ServerStep
  PROVE  Stream'
<1>1. PICK k \in 0 .. Len(srv_tx), a \in 0 .. Total, b \in 0 .. Total : StreamAt(k, a, b)
  BY DEF Stream
<1>2. /\ srv_tx \in Seq(Segment) /\ Len(srv_tx) \in Nat
      /\ Position \in 0 .. Total /\ Total \in Nat
  BY PositionTyped, TotalIsEnd DEF ProgramInvariant, ServerTypeOK
<1>3. /\ UNCHANGED <<current_connection, data_queue, response_buffer>>
      /\ to_client' = to_client \union (Len(srv_tx) + 1 .. Len(srv_tx'))
  BY DEF ServerStep, vars, appVars, Launch
<1>4. Awaited' <=> Awaited
  BY <1>3 DEF Awaited, InState
<1>5. Said
  BY ServerTurn
<1>6. CASE UNCHANGED srv_tx /\ Position' = Position
  <2>1. to_client' = to_client
    BY <1>2, <1>3, <1>6
  <2>2. InTransit(k)' = InTransit(k)
    BY <1>6 DEF InTransit
  <2>3. StreamAt(k, a, b)'
    BY <1>1, <1>3, <1>4, <1>6, <2>1, <2>2 DEF StreamAt
  <2> QED
    BY <1>6, <2>3 DEF Stream
<1>7. ASSUME Position' \in Position .. Total,
             NEW seg \in Segment, srv_tx' = Append(srv_tx, seg),
             Marked(seg, Position, Position')
      PROVE  Stream'
  <2>1. Len(srv_tx') = Len(srv_tx) + 1 /\ k \in 0 .. Len(srv_tx')
    BY <1>2, <1>7, AppendProperties
  <2>2. to_client' = k + 1 .. Len(srv_tx')
    <3>1. to_client = k + 1 .. Len(srv_tx)
      BY <1>1 DEF StreamAt
    <3> QED
      BY <1>2, <1>3, <2>1, <3>1
  <2>3. ASSUME Awaited' PROVE Pieces(InTransit(k)', b, Position')
    <3>1. Pieces(InTransit(k), b, Position)
      BY <1>1, <1>4, <2>3 DEF StreamAt
    <3>2. InTransit(k) \in Seq(Seq(Byte))
      BY <1>2, TransitTyped
    <3>3. InTransit(k)' = Append(InTransit(k), seg.payload)
      BY <1>2, <1>7, TransitGrows
    <3> QED
      BY <1>7, <3>1, <3>2, <3>3, PiecesAppend DEF Marked
  <2>4. StreamAt(k, a, b)'
    BY <1>1, <1>3, <2>2, <2>3 DEF StreamAt
  <2> QED
    BY <2>1, <2>4 DEF Stream
<1> QED
  BY <1>5, <1>6, <1>7 DEF Said

(* A packet is captured: the oldest one under way.                          *)
LEMMA OldestCaptured ==
  ASSUME OrderlyLink, ProgramInvariant, Ends, CapturePacket,
         NEW k \in 0 .. Len(srv_tx), to_client = k + 1 .. Len(srv_tx)
  PROVE  /\ k + 1 \in 1 .. Len(srv_tx)
         /\ srv_tx[k + 1] \in Segment /\ Addressed(srv_tx[k + 1])
         /\ process_packet(srv_tx[k + 1])
         /\ to_client' = (k + 1) + 1 .. Len(srv_tx')
<1>1. srv_tx \in Seq(Segment) /\ Len(srv_tx) \in Nat /\ UNCHANGED srv_tx
  BY DEF ProgramInvariant, ServerTypeOK, CapturePacket, serverVars
<1>2. PICK i \in to_client :
        process_packet(srv_tx[i]) /\ i = Oldest /\ to_client' = to_client \ {i}
  BY DEF CapturePacket, Fault, OrderlyLink
<1>3. i = k + 1
  <2>1. k + 1 \in to_client /\ \A j \in to_client : k + 1 <= j
    BY <1>1, <1>2
  <2>2. Oldest \in to_client /\ \A j \in to_client : Oldest <= j
    BY <2>1 DEF Oldest
  <2> QED
    BY <1>1, <1>2, <2>1, <2>2
<1>4. k + 1 \in 1 .. Len(srv_tx)
  BY <1>1, <1>2, <1>3
<1>5. to_client' = (k + 1) + 1 .. Len(srv_tx')
  BY <1>1, <1>2, <1>3
<1>6. srv_tx[k + 1] \in Segment /\ Addressed(srv_tx[k + 1])
  BY <1>1, <1>4 DEF Ends
<1> QED
  BY <1>2, <1>3, <1>4, <1>5, <1>6

LEMMA StreamCaptured ==
  ASSUME OrderlyLink, ProgramInvariant, Ends, Asked, Stream, CapturePacket
  PROVE  Stream'
<1>1. PICK k \in 0 .. Len(srv_tx), a \in 0 .. Total, b \in 0 .. Total : StreamAt(k, a, b)
  BY DEF Stream
<1>2. /\ srv_tx \in Seq(Segment) /\ Len(srv_tx) \in Nat
      /\ ServerTypeOK /\ data_queue \in Seq(Seq(Byte))
      /\ Position \in 0 .. Total /\ Total \in Nat
  BY PositionTyped, TotalIsEnd DEF ProgramInvariant, ServerTypeOK, TypeOK
<1>3. to_client = k + 1 .. Len(srv_tx)
  BY <1>1 DEF StreamAt
<1>4. UNCHANGED <<srv, srv_tx, response_buffer>>
  BY DEF CapturePacket, serverVars, appVars
<1> DEFINE seg == srv_tx[k + 1]
<1>6. /\ k + 1 \in 1 .. Len(srv_tx)
      /\ seg \in Segment /\ Addressed(seg) /\ process_packet(seg)
      /\ to_client' = (k + 1) + 1 .. Len(srv_tx')
  BY <1>3, OldestCaptured
<1>7. k \in 0 .. Len(srv_tx) - 1 /\ k + 1 \in 0 .. Len(srv_tx)
  BY <1>2, <1>6
<1>8. /\ seg \in Segment /\ Addressed(seg) /\ process_packet(seg)
      /\ seg.payload = Head(InTransit(k))
  BY <1>2, <1>6, <1>7, TransitShrinks
<1> HIDE DEF seg
<1>9. to_client' = (k + 1) + 1 .. Len(srv_tx')
  BY <1>6
<1>10. InTransit(k + 1)' = InTransit(k + 1) /\ Position' = Position
  BY <1>4 DEF InTransit, Position
<1>11. ASSUME Awaited
       PROVE  \E c \in b .. Total : /\ seg.payload = SubSeq(Response, b + 1, c)
                                    /\ Pieces(InTransit(k + 1), c, Position)
  <2>1. Pieces(InTransit(k), b, Position)
    BY <1>1, <1>11 DEF StreamAt
  <2>2. InTransit(k) \in Seq(Seq(Byte))
    BY <1>2, TransitTyped
  <2>3. InTransit(k) # <<>> /\ Tail(InTransit(k)) = InTransit(k + 1)
    BY <1>2, <1>7, TransitShrinks
  <2> QED
    BY <1>8, <2>1, <2>2, <2>3, PiecesHead
<1>12. data_queue' = IF IsData(seg) THEN Append(data_queue, seg.payload) ELSE data_queue
  BY <1>8, PacketQueues
<1>13. CASE IsData(seg)
  <2>1. Awaited
    BY <1>13 DEF IsData, Matches, Awaited, InState
  <2>2. PICK c \in b .. Total : /\ seg.payload = SubSeq(Response, b + 1, c)
                                /\ Pieces(InTransit(k + 1), c, Position)
    BY <1>11, <2>1
  <2>3. Pieces(data_queue, a, b)
    BY <1>1 DEF StreamAt
  <2>4. Pieces(data_queue', a, c)
    BY <1>2, <1>12, <1>13, <2>2, <2>3, PiecesAppend
  <2>5. c \in 0 .. Total
    BY <1>2
  <2>6. StreamAt(k + 1, a, c)'
    BY <1>1, <1>4, <1>9, <1>10, <2>2, <2>4 DEF StreamAt
  <2> QED
    BY <1>4, <1>7, <2>5, <2>6 DEF Stream
<1>14. CASE ~IsData(seg)
  <2>1. ASSUME Awaited' PROVE Pieces(InTransit(k + 1), b, Position)
    <3>1. Awaited
      <4>1. [LaterStep]_vars
        BY <1>8 DEF LaterStep
      <4> QED
        BY <2>1, <4>1, NeverBack DEF ProgramInvariant, WireInvariant
    <3>2. PICK c \in b .. Total : /\ seg.payload = SubSeq(Response, b + 1, c)
                                  /\ Pieces(InTransit(k + 1), c, Position)
      BY <1>11, <3>1
    <3>3. CASE ~Begun
      <4>1. Position = 0
        BY <1>2, <3>3, NothingSaid
      <4>2. InTransit(k + 1) \in Seq(Seq(Byte))
        BY <1>2, <1>7, TransitTyped
      <4>3. Position \in c .. Total
        BY <3>2, <4>2, PiecesAscend
      <4>4. c = b
        BY <1>2, <4>1, <4>3
      <4> QED
        BY <3>2, <4>4
    <3>4. CASE Begun
      <4>1. InState({"ESTABLISHED"})
        BY <3>1, <3>4 DEF Awaited, Begun, InState
      <4>2. seg.payload = <<>>
        BY <1>8, <1>14, <4>1, SaidIsData DEF Ends
      <4>3. c = b
        BY <3>2, <4>2, TextPart
      <4> QED
        BY <3>2, <4>3
    <3> QED
      BY <3>3, <3>4
  <2>2. StreamAt(k + 1, a, b)'
    BY <1>1, <1>4, <1>9, <1>10, <1>12, <1>14, <2>1 DEF StreamAt
  <2> QED
    BY <1>4, <1>7, <2>2 DEF Stream
<1> QED
  BY <1>13, <1>14

(* The application takes the oldest chunk.                                  *)
LEMMA StreamRead ==
  ASSUME ProgramInvariant, Stream, WaitForDataCall,
         TakeData, ChunkReceived(Head(data_queue))
  PROVE  Stream'
<1>1. PICK k \in 0 .. Len(srv_tx), a \in 0 .. Total, b \in 0 .. Total : StreamAt(k, a, b)
  BY DEF Stream
<1>2. data_queue \in Seq(Seq(Byte)) /\ Total \in Nat
  BY TotalIsEnd DEF ProgramInvariant, TypeOK
<1>3. /\ UNCHANGED <<srv, srv_tx, to_client, current_connection>>
      /\ data_queue # <<>> /\ data_queue' = Tail(data_queue)
      /\ response_buffer' = response_buffer \o Head(data_queue)
  BY DEF WaitForDataCall, Unseen, serverVars, netVars, TakeData, connVars,
     ChunkReceived, BufferAfter
<1>4. PICK c \in a .. Total :
        Head(data_queue) = SubSeq(Response, a + 1, c) /\ Pieces(Tail(data_queue), c, b)
  BY <1>1, <1>2, <1>3, PiecesHead DEF StreamAt
<1>5. response_buffer' = SubSeq(Response, 1, c)
  <2>1. response_buffer = SubSeq(Response, 0 + 1, a)
    BY <1>1 DEF StreamAt
  <2>2. 0 \in 0 .. Total /\ a \in 0 .. Total
    BY <1>2
  <2>3. SubSeq(Response, 0 + 1, a) \o SubSeq(Response, a + 1, c) = SubSeq(Response, 0 + 1, c)
    BY <1>4, <2>2, TextJoins
  <2>4. response_buffer' = SubSeq(Response, 0 + 1, a) \o SubSeq(Response, a + 1, c)
    BY <1>3, <1>4, <2>1
  <2>5. response_buffer' = SubSeq(Response, 0 + 1, c)
    BY <2>3, <2>4
  <2> QED
    BY <2>5
<1>6. /\ InTransit(k)' = InTransit(k) /\ Position' = Position
      /\ Awaited' <=> Awaited
  BY <1>3 DEF InTransit, Position, Awaited, InState
<1>7. c \in 0 .. Total
  BY <1>2
<1>8. StreamAt(k, c, b)'
  BY <1>1, <1>3, <1>4, <1>5, <1>6 DEF StreamAt
<1> QED
  BY <1>3, <1>7, <1>8 DEF Stream

(* get empties its buffer when it connects; nothing has come by then.        *)
LEMMA StreamConnect ==
  ASSUME ProgramInvariant, Asked, Stream, ConnectCall
  PROVE  Stream'
<1>1. PICK k \in 0 .. Len(srv_tx), a \in 0 .. Total, b \in 0 .. Total : StreamAt(k, a, b)
  BY DEF Stream
<1>2. /\ srv_tx \in Seq(Segment) /\ Len(srv_tx) \in Nat /\ ServerTypeOK
      /\ data_queue \in Seq(Seq(Byte)) /\ Total \in Nat
  BY TotalIsEnd DEF ProgramInvariant, ServerTypeOK, TypeOK
<1>3. /\ UNCHANGED <<srv, srv_tx, to_client, data_queue>> /\ response_buffer' = <<>>
  BY DEF ConnectCall, Unseen, serverVars, netVars, Connect, ConnectFilterFails, Connected
<1>4. current_connection = NoConnection
  BY ConnectIsAny
<1>5. Pieces(InTransit(k), b, Position) /\ Pieces(data_queue, a, b)
  BY <1>1, <1>4 DEF StreamAt, Awaited
<1>6. a = 0 /\ b = 0
  <2>1. Position = 0
    BY <1>2, <1>4, NothingSaid DEF Begun
  <2>2. InTransit(k) \in Seq(Seq(Byte))
    BY <1>2, TransitTyped
  <2>3. Position \in b .. Total /\ b \in a .. Total
    BY <1>2, <1>5, <2>2, PiecesAscend
  <2> QED
    BY <1>2, <2>1, <2>3
<1>7. response_buffer' = SubSeq(Response, 1, a)
  <2>1. SubSeq(Response, 0 + 1, 0) = <<>>
    BY <1>2, TextPart
  <2> QED
    BY <1>3, <1>6, <2>1
<1>8. InTransit(k)' = InTransit(k) /\ Position' = Position
  BY <1>3 DEF InTransit, Position
<1>9. StreamAt(k, a, b)'
  BY <1>1, <1>3, <1>5, <1>7, <1>8 DEF StreamAt
<1> QED
  BY <1>3, <1>9 DEF Stream

(* No other step touches it.                                               *)
LEMMA StepStream ==
  ASSUME OrderlyLink, ProgramInvariant, OrderInvariant, [ProgramNext]_programVars
  PROVE  Stream'
<1>0. Ends /\ Asked /\ Stream
  BY DEF OrderInvariant
<1>1. ASSUME UNCHANGED <<srv, srv_tx, to_client, response_buffer, data_queue>>,
             Awaited' => Awaited
      PROVE  Stream'
  <2>1. PICK k \in 0 .. Len(srv_tx), a \in 0 .. Total, b \in 0 .. Total : StreamAt(k, a, b)
    BY <1>0 DEF Stream
  <2>2. InTransit(k)' = InTransit(k) /\ Position' = Position
    BY <1>1 DEF InTransit, Position
  <2>3. StreamAt(k, a, b)'
    BY <1>1, <2>1, <2>2 DEF StreamAt
  <2> QED
    BY <1>1, <2>3 DEF Stream
<1>2. CASE UNCHANGED programVars
  BY <1>1, <1>2 DEF programVars, vars, serverVars, appVars, netVars, Awaited, InState
<1>3. CASE ConnectCall
  BY <1>0, <1>3, StreamConnect
<1>4. CASE ServerStep
  BY <1>0, <1>4, StreamSaid
<1>5. CASE CapturePacket
  BY <1>0, <1>5, StreamCaptured
<1>6. CASE WaitForDataCall /\ TakeData /\ ChunkReceived(Head(data_queue))
  BY <1>0, <1>6, StreamRead
<1>7. CASE ProgramNext /\ ~ConnectCall /\ ~ServerStep /\ ~CapturePacket
           /\ ~(WaitForDataCall /\ TakeData /\ ChunkReceived(Head(data_queue)))
  <2>1. UNCHANGED <<srv, srv_tx>>
    BY <1>7, ServerSilent DEF serverVars
  <2>2. Awaited' => Awaited
    BY <1>7, ProgramIsLater, NeverBack DEF ProgramInvariant, WireInvariant
  <2>3. ~ServerTimeout /\ ~Lose
    <3>1. srv.resent \in 0 .. 0
      BY DEF ProgramInvariant, ServerTypeOK, OrderlyLink
    <3>2. ~(srv.resent < MaxRetransmit)
      BY <3>1 DEF OrderlyLink
    <3> QED
      BY <3>2 DEF ServerTimeout, ServerTimer, Lose, Fault, OrderlyLink
  <2>4. CASE PrepareCall
    <3>1. UNCHANGED response_buffer
      BY <2>4 DEF PrepareCall, ArgumentsGiven, Initialized, FileCreated, OnlyPc
    <3> QED
      BY <1>1, <2>1, <2>2, <2>4, <3>1 DEF PrepareCall, vars, netVars
  <2>5. CASE WaitForConnectionCall
    <3>1. UNCHANGED <<response_buffer, data_queue, to_client>>
      BY <2>5 DEF WaitForConnectionCall, Unseen, netVars, appVars, ConnectionAwaited,
         OnlyPc, WaitForConnection, ConnectionPending, KeepWaitingForConnection,
         RetransmitSyn, ConnectionEstablished, ConnectionTimeout
    <3> QED
      BY <1>1, <2>1, <2>2, <3>1
  <2>6. CASE SendDataCall
    BY <1>1, <2>1, <2>2, <2>6 DEF SendDataCall, SendData, RequestSent, OnlyPc, Unseen, netVars
  <2>7. CASE WaitForDataCall
    <3>1. UNCHANGED <<response_buffer, data_queue, to_client>>
      BY <1>7, <2>7 DEF WaitForDataCall, Unseen, netVars, appVars, ReceiveTimedOut,
         OnlyPc, WaitForData, NoDataYet, KeepWaitingForData, DataTimeout
    <3> QED
      BY <1>1, <2>1, <2>2, <3>1
  <2>8. CASE CloseCall
    BY <1>1, <2>1, <2>2, <2>8 DEF CloseCall, CloseConnection, Closed, OnlyPc, Unseen, netVars
  <2>9. CASE DestroyStack
    BY <1>1, <2>1, <2>2, <2>9 DEF DestroyStack, StackStopped, OnlyPc, appVars, vars, netVars
  <2>10. CASE CaptureStep
    BY <1>1, <2>1, <2>2, <2>10 DEF CaptureStep, appVars, vars
  <2> QED
    BY <1>7, <2>3, <2>4, <2>5, <2>6, <2>7, <2>8, <2>9, <2>10 DEF ProgramNext, Main
<1> QED
  BY <1>2, <1>3, <1>4, <1>5, <1>6, <1>7

LEMMA StepOrder ==
  ASSUME OrderlyLink, ProgramInvariant, OrderInvariant, [ProgramNext]_programVars
  PROVE  OrderInvariant'
<1>1. Stream'
  BY StepStream
<1>2. CASE ProgramNext
  BY <1>1, <1>2, StepEnds, StepAsked DEF OrderInvariant
<1>3. CASE UNCHANGED programVars
  <2>1. Ends' /\ Asked'
    BY <1>3 DEF OrderInvariant, programVars, vars, serverVars, Ends, BetweenEnds,
       ServerKnows, Asked, Begun
  <2> QED
    BY <1>1, <2>1 DEF OrderInvariant
<1> QED
  BY <1>2, <1>3

(* What has been read and what is queued is the response up to some point.   *)
LEMMA StreamIsPrefix == ProgramInvariant /\ Stream => InOrderDelivery
<1> SUFFICES ASSUME ProgramInvariant, Stream PROVE InOrderDelivery
  OBVIOUS
<1>1. PICK k \in 0 .. Len(srv_tx), a \in 0 .. Total, b \in 0 .. Total : StreamAt(k, a, b)
  BY DEF Stream
<1>2. /\ data_queue \in Seq(Seq(Byte)) /\ Response \in Seq(Byte)
      /\ Total = Len(Response) /\ Total \in Nat
  BY TotalIsEnd, ServerAssumption DEF ProgramInvariant, TypeOK, Total
<1>3. Pieces(data_queue, a, b) /\ response_buffer = SubSeq(Response, 0 + 1, a)
  BY <1>1 DEF StreamAt
<1>4. b \in a .. Total /\ SeqX!FlattenSeq(data_queue) = SubSeq(Response, a + 1, b)
  BY <1>2, <1>3, PiecesAscend, PiecesFlatten
<1> DEFINE s == response_buffer \o SeqX!FlattenSeq(data_queue)
<1>5. 0 \in 0 .. Total /\ a \in 0 .. Total /\ b \in 0 .. Total
  BY <1>2
<1>6. s = SubSeq(Response, 0 + 1, b)
  BY <1>3, <1>4, <1>5, TextJoins
<1>7. Len(SubSeq(Response, 0 + 1, b)) = b - 0
  BY <1>5, TextPart
<1> HIDE DEF s
<1>8. Len(s) = b /\ Len(s) <= Len(Response) /\ s = SubSeq(Response, 1, Len(s))
  BY <1>2, <1>5, <1>6, <1>7
<1>9. SubSeq(s, 1, Len(s)) = SubSeq(Response, 1, Len(s))
  <2>1. s \in Seq(Byte)
    BY <1>5, <1>6, TextPart
  <2>2. SubSeq(s, 1, Len(s)) = s
    BY <2>1
  <2> QED
    BY <1>8, <2>2
<1>10. SeqX!IsPrefix(s, Response)
  BY <1>8, <1>9 DEF SeqX!IsPrefix
<1> QED
  BY <1>10 DEF InOrderDelivery, s

(* Whatever process_packet queues and wait_for_data hands to get, nothing of   *)
(* the response is lost, repeated or out of order between the wire and       *)
(* response_buffer_, if the link is orderly: also when ACKs cannot be sent,   *)
(* when pcap stops the capture thread, and when any wait gives up early.     *)
THEOREM InOrderDeliveryHolds ==
  ASSUME OrderlyLink
  PROVE  ProgramSpec => []InOrderDelivery
<1>1. ProgramInvariant /\ OrderInvariant => InOrderDelivery
  BY StreamIsPrefix DEF OrderInvariant
<1>2. ProgramInvariant /\ OrderInvariant /\ [ProgramNext]_programVars => OrderInvariant'
  BY StepOrder
<1> QED
  BY <1>1, <1>2, InitOrder, ProgramInvariantHolds, PTL DEF ProgramSpec

-----------------------------------------------------------------------------
(* Sequence numbers.                                                       *)

LEMMA PlusPlus ==
  ASSUME NEW n \in Nat, NEW a \in Nat, NEW b \in Nat
  PROVE  Plus(Plus(n, a), b) = Plus(n, a + b)
<1> DEFINE x == n + a
<1>1. SeqMod \in Nat \ {0} /\ x \in Int /\ b \in Int /\ x + b = n + (a + b)
  BY SeqModAssumption
<1> HIDE DEF x
<1>2. ((x % SeqMod) + b) % SeqMod = (x + b) % SeqMod
  BY <1>1, ModAdds
<1> QED
  BY <1>1, <1>2 DEF Plus, x

(* An acknowledgement number covers at most what it stands for; less when    *)
(* the numbers have wrapped.                                               *)
LEMMA CoversPart ==
  ASSUME NEW j \in Nat
  PROVE  Covers(Plus(ServerIss, j + 1)) \in 0 .. j
<1> DEFINE x == ServerIss + (j + 1)
           y == -ServerIss - 1
           n == Plus(ServerIss, j + 1)
<1>0. SeqMod \in Nat \ {0} /\ ServerIss \in Nat
  BY SeqModAssumption, ServerAssumption DEF SeqNum
<1>1. x \in Int /\ y \in Int /\ x + y = j
  BY <1>0
<1>2. n = x % SeqMod /\ n \in Int
  BY <1>0, <1>1, DivMod DEF Plus
<1> HIDE DEF x, n
<1>3. Covers(n) = (n + y) % SeqMod
  <2>1. n - ServerIss - 1 = n + y
    BY <1>0, <1>2
  <2> QED
    BY <2>1 DEF Covers
<1> HIDE DEF y
<1>4. Covers(n) = j % SeqMod
  BY <1>0, <1>1, <1>2, <1>3, ModAdds
<1>5. j % SeqMod \in 0 .. j
  <2>1. j % SeqMod \in 0 .. SeqMod - 1
    BY <1>0, DivMod
  <2>2. CASE j < SeqMod
    <3>1. j \in 0 .. SeqMod - 1 /\ j = SeqMod * 0 + j
      BY <1>0, <2>2
    <3>2. j % SeqMod = j
      BY <1>0, <3>1, ModIs
    <3> QED
      BY <3>2
  <2>3. CASE ~(j < SeqMod)
    BY <1>0, <2>1, <2>3
  <2> QED
    BY <2>2, <2>3
<1> QED
  BY <1>4, <1>5 DEF n

-----------------------------------------------------------------------------
(* The ledger.                                                             *)

(* After its segment i the server has sent the response up to P[i].          *)
Ledger(P) ==
  /\ P \in [0 .. Len(srv_tx) -> 0 .. Total]
  /\ P[0] = 0 /\ P[Len(srv_tx)] = Position
  /\ \A i \in 1 .. Len(srv_tx) :
       P[i - 1] <= P[i] /\ Marked(srv_tx[i], P[i - 1], P[i])

(* Position j of the server's stream is among the first b bytes, or it is    *)
(* the FIN that follows the last of them.                                  *)
Within(j, b) == j \in 0 .. b \/ (j = Total + 1 /\ b = Total)

(* The acknowledgement number n covers nothing beyond the first b bytes.     *)
Covering(n, b) ==
  \E j \in 0 .. Total + 1 : Within(j, b) /\ n = Plus(ServerIss, j + 1)

Chunks == [i \in DOMAIN rx |-> rx[i].payload]

(* The client has accepted the first b bytes, and neither it, nor any        *)
(* segment of its, nor the server claims more.  A SYN acknowledges nothing.  *)
UpTo(b) ==
  /\ Pieces(Chunks, 0, b)
  /\ Covering(current_connection.ack_num, b)
  /\ \A i \in 1 .. Len(tx) : is("SYN", tx[i]) \/ Covering(tx[i].ack, b)
  /\ Within(srv.acked, b)

(* The acknowledgement number is that of the first b bytes.                  *)
Exactly(b) == current_connection.ack_num = Plus(ServerIss, b + 1)

(* The first k segments of the server have arrived.                         *)
Arrived(P, k) ==
  /\ to_client = k + 1 .. Len(srv_tx)
  /\ InState({"ESTABLISHED"}) => UpTo(P[k]) /\ Exactly(P[k])
  /\ InState({"LAST_ACK"}) => UpTo(Total)

AcksInvariant ==
  /\ ~Begun => srv.acked = 0
  /\ \E k \in 0 .. Len(srv_tx), P \in [0 .. Len(srv_tx) -> 0 .. Total] :
       Ledger(P) /\ Arrived(P, k)

LEMMA WithinMore ==
  ASSUME NEW b \in 0 .. Total, NEW c \in b .. Total, NEW j, Within(j, b)
  PROVE  Within(j, c)
<1>1. Total \in Nat
  BY TotalIsEnd
<1> QED
  BY <1>1 DEF Within

LEMMA CoveringMore ==
  ASSUME NEW b \in 0 .. Total, NEW c \in b .. Total, NEW n, Covering(n, b)
  PROVE  Covering(n, c)
  BY WithinMore DEF Covering

(* What the server reads off an acknowledgement number is no more.          *)
LEMMA CoveredWithin ==
  ASSUME NEW b \in 0 .. Total, NEW n, Covering(n, b)
  PROVE  Within(Covers(n), b)
<1>1. PICK j \in 0 .. Total + 1 : Within(j, b) /\ n = Plus(ServerIss, j + 1)
  BY DEF Covering
<1>2. Total \in Nat
  BY TotalIsEnd
<1>3. Covers(n) \in 0 .. j
  BY <1>1, <1>2, CoversPart
<1> QED
  BY <1>1, <1>2, <1>3 DEF Within

(* The ledger goes up; when nothing is said it stays at 0.                   *)
LEMMA LedgerEmpty ==
  ASSUME srv_tx \in Seq(Segment), NEW P, Ledger(P), Position = 0
  PROVE  \A i \in 0 .. Len(srv_tx) : P[i] = 0
<1> DEFINE n == Len(srv_tx)
           Low == {d \in 0 .. n : P[n - d] = 0}
<1>0. n \in Nat /\ Total \in Nat
  BY TotalIsEnd
<1>1. /\ P \in [0 .. n -> 0 .. Total] /\ P[n] = 0
      /\ \A i \in 1 .. n : P[i - 1] <= P[i]
  BY DEF Ledger
<1> HIDE DEF n
<1>2. 0 \in Low
  BY <1>0, <1>1
<1>3. ASSUME NEW d \in 0 .. n - 1, d \in Low PROVE d + 1 \in Low
  <2>1. n - d \in 1 .. n /\ (n - d) - 1 = n - (d + 1) /\ n - (d + 1) \in 0 .. n
    BY <1>0
  <2>2. P[n - (d + 1)] <= P[n - d] /\ P[n - (d + 1)] \in 0 .. Total
    BY <1>1, <2>1
  <2>3. P[n - d] = 0
    BY <1>3
  <2>4. P[n - (d + 1)] = 0
    BY <1>0, <2>2, <2>3
  <2> QED
    BY <1>0, <2>4
<1> HIDE DEF Low
<1>4. 0 .. n \subseteq Low
  BY <1>0, <1>2, <1>3, Induction
<1>5. ASSUME NEW i \in 0 .. n PROVE P[i] = 0
  <2>1. n - i \in 0 .. n /\ n - (n - i) = i
    BY <1>0
  <2>2. n - i \in Low
    BY <1>4, <2>1
  <2>3. P[n - (n - i)] = 0
    BY <2>2 DEF Low
  <2> QED
    BY <2>1, <2>3
<1> QED
  BY <1>5 DEF n

LEMMA LedgerExtended ==
  ASSUME srv_tx \in Seq(Segment), ServerTypeOK, NEW P, Ledger(P), Said
  PROVE  \E Q \in [0 .. Len(srv_tx') -> 0 .. Total] :
           Ledger(Q)' /\ \A i \in 0 .. Len(srv_tx) : Q[i] = P[i]
<1> DEFINE n == Len(srv_tx)
<1>0. n \in Nat /\ Total \in Nat
  BY TotalIsEnd
<1>1. /\ P \in [0 .. n -> 0 .. Total] /\ P[0] = 0 /\ P[n] = Position
      /\ \A i \in 1 .. n : P[i - 1] <= P[i] /\ Marked(srv_tx[i], P[i - 1], P[i])
  BY DEF Ledger
<1>2. CASE UNCHANGED srv_tx /\ Position' = Position
  <2>1. Ledger(P)'
    BY <1>2 DEF Ledger, Marked
  <2> QED
    BY <1>1, <1>2, <2>1
<1>3. ASSUME Position' \in Position .. Total, NEW seg \in Segment,
             srv_tx' = Append(srv_tx, seg), Marked(seg, Position, Position')
      PROVE  \E Q \in [0 .. Len(srv_tx') -> 0 .. Total] :
               Ledger(Q)' /\ \A i \in 0 .. Len(srv_tx) : Q[i] = P[i]
  <2>1. /\ Len(srv_tx') = n + 1 /\ srv_tx'[n + 1] = seg
        /\ \A i \in 1 .. n : srv_tx'[i] = srv_tx[i]
    BY <1>3, AppendProperties
  <2>2. Position \in 0 .. Total
    BY PositionTyped
  <2>3. Position' \in 0 .. Total /\ Position <= Position'
    BY <1>0, <1>3, <2>2
  <2> DEFINE Q == [i \in 0 .. n + 1 |-> IF i = n + 1 THEN Position' ELSE P[i]]
  <2> HIDE DEF n
  <2>4. Q \in [0 .. n + 1 -> 0 .. Total]
    BY <1>0, <1>1, <2>3
  <2>5. Q[n + 1] = Position' /\ \A i \in 0 .. n : Q[i] = P[i]
    BY <1>0
  <2> HIDE DEF Q
  <2>6. ASSUME NEW i \in 1 .. n + 1
        PROVE  Q[i - 1] <= Q[i] /\ Marked(srv_tx'[i], Q[i - 1], Q[i])
    <3>1. CASE i = n + 1
      <4>1. i - 1 = n /\ n \in 0 .. n
        BY <1>0, <3>1
      <4>2. Q[i - 1] = Position /\ Q[i] = Position' /\ srv_tx'[i] = seg
        BY <1>1, <2>1, <2>5, <3>1, <4>1
      <4> QED
        BY <1>3, <2>3, <4>2
    <3>2. CASE i # n + 1
      <4>1. i \in 1 .. n /\ i \in 0 .. n /\ i - 1 \in 0 .. n
        BY <1>0, <3>2
      <4>2. Q[i - 1] = P[i - 1] /\ Q[i] = P[i] /\ srv_tx'[i] = srv_tx[i]
        BY <2>1, <2>5, <4>1
      <4> QED
        BY <1>1, <4>1, <4>2
    <3> QED
      BY <3>1, <3>2
  <2>7. Q[0] = 0
    <3>1. 0 \in 0 .. n
      BY <1>0
    <3> QED
      BY <1>1, <2>5, <3>1
  <2>8. PICK R \in [0 .. n + 1 -> 0 .. Total] :
          /\ R[0] = 0 /\ R[n + 1] = Position' /\ \A i \in 0 .. n : R[i] = P[i]
          /\ \A i \in 1 .. n + 1 : R[i - 1] <= R[i] /\ Marked(srv_tx'[i], R[i - 1], R[i])
    BY <2>4, <2>5, <2>6, <2>7
  <2>9. R \in [0 .. Len(srv_tx') -> 0 .. Total] /\ Len(srv_tx') = n + 1
    BY <2>1
  <2>10. Ledger(R)'
    BY <2>8, <2>9 DEF Ledger, Marked
  <2> QED
    BY <2>8, <2>9, <2>10 DEF n
<1> QED
  BY <1>2, <1>3 DEF Said

-----------------------------------------------------------------------------
(* What the client sends acknowledges what the connection says.            *)

Carries(w, wire, n) ==
  /\ Keeps(w, wire)
  /\ \A i \in Len(wire) + 1 .. Len(w) : w[i].ack = n

LEMMA SendKeepsAck ==
  ASSUME NEW c \in Connection, NEW flags, NEW data, NEW ok
  PROVE  AfterSend(c, flags, data, ok).ack_num = c.ack_num
  BY DEF AfterSend, Connection

LEMMA SendCarries ==
  ASSUME NEW wire \in Seq(Segment), NEW c \in Connection,
         NEW flags \in SUBSET Flag, NEW data \in Seq(Byte), NEW ok \in BOOLEAN
  PROVE  /\ Carries(WireAfter(wire, c, flags, data, ok), wire, c.ack_num)
         /\ AfterSend(c, flags, data, ok).ack_num = c.ack_num
<1> DEFINE seg == SegmentOf(c, flags, data)
           w == WireAfter(wire, c, flags, data, ok)
<1>1. seg \in Segment /\ seg.ack = c.ack_num
  BY SegmentOfType DEF SegmentOf
<1>2. Keeps(w, wire)
  BY WireAfterKeeps
<1>3. ASSUME NEW i \in Len(wire) + 1 .. Len(w) PROVE w[i] = seg
  <2>0. Len(wire) \in Nat
    OBVIOUS
  <2>1. CASE ok
    <3>1. w = Append(wire, seg)
      BY <2>1 DEF WireAfter
    <3> HIDE DEF seg
    <3>2. Len(w) = Len(wire) + 1 /\ w[Len(w)] = seg
      BY <1>1, <3>1, AppendFacts
    <3> HIDE DEF w
    <3> QED
      BY <1>3, <2>0, <3>2
  <2>2. CASE ~ok
    <3>1. w = wire
      BY <2>2 DEF WireAfter
    <3> QED
      BY <1>3, <2>0, <3>1
  <2> QED
    BY <2>1, <2>2
<1> HIDE DEF seg, w
<1>4. Carries(w, wire, c.ack_num)
  BY <1>1, <1>2, <1>3 DEF Carries
<1>5. AfterSend(c, flags, data, ok).ack_num = c.ack_num
  BY SendKeepsAck
<1> QED
  BY <1>4, <1>5 DEF w

LEMMA CarriesNothing ==
  ASSUME NEW wire \in Seq(Segment), NEW n
  PROVE  Carries(wire, wire, n)
<1>1. Len(wire) \in Nat
  OBVIOUS
<1> QED
  BY <1>1 DEF Carries, Keeps

LEMMA CarriesTwice ==
  ASSUME NEW a \in Seq(Segment), NEW b \in Seq(Segment), NEW c \in Seq(Segment),
         NEW n, Carries(b, a, n), Carries(c, b, n)
  PROVE  Carries(c, a, n)
<1>1. Len(a) \in Nat /\ Len(b) \in Nat /\ Len(c) \in Nat
  OBVIOUS
<1>2. Keeps(c, a)
  BY <1>1 DEF Carries, Keeps
<1>3. ASSUME NEW i \in Len(a) + 1 .. Len(c) PROVE c[i].ack = n
  <2>1. CASE i <= Len(b)
    <3>1. i \in 1 .. Len(b) /\ i \in Len(a) + 1 .. Len(b)
      BY <1>1, <2>1
    <3>2. c[i] = b[i]
      BY <3>1 DEF Carries, Keeps
    <3> QED
      BY <3>1, <3>2 DEF Carries
  <2>2. CASE ~(i <= Len(b))
    <3>1. i \in Len(b) + 1 .. Len(c)
      BY <1>1, <2>2
    <3> QED
      BY <3>1 DEF Carries
  <2> QED
    BY <2>1, <2>2
<1> QED
  BY <1>2, <1>3 DEF Carries

(* The step has put n into the connection and into all it sends.            *)
Acknowledges(n) ==
  current_connection'.ack_num = n /\ Carries(tx', tx, n)

(* A call keeps the acknowledgement number, and no call makes a connection   *)
(* established or lets it wait for the last ACK.                            *)
Settled == {"ESTABLISHED", "LAST_ACK"}

LEMMA CallAcknowledges ==
  ASSUME TypeOK,
         \/ CloseConnection \/ Waiting \/ UNCHANGED vars
         \/ \E data \in Seq(Byte) : SendData(data)
  PROVE  /\ UNCHANGED rx
         /\ InState(Settled)' =>
              /\ InState({current_connection'.state})
              /\ Acknowledges(current_connection.ack_num)
<1> USE SentFlags
<1> DEFINE c == current_connection
           Fine == InState(Settled)' =>
                     InState({c'.state}) /\ Acknowledges(c.ack_num)
<1>0. tx \in Seq(Segment)
  BY DEF TypeOK
<1>1. ASSUME UNCHANGED <<current_connection, tx>> PROVE Fine
  BY <1>0, <1>1, CarriesNothing DEF InState, Acknowledges
<1>2. ASSUME NEW s, InState({s}), NEW flags \in SUBSET Flag, NEW data \in Seq(Byte),
             NEW ok \in BOOLEAN, tx' = WireAfter(tx, c, flags, data, ok),
             c' = AfterSend(c, flags, data, ok)
      PROVE  Fine
  <2>1. c \in Connection /\ c.state = s
    BY <1>2 DEF InState, TypeOK
  <2>2. Acknowledges(c.ack_num)
    BY <1>0, <1>2, <2>1, SendCarries DEF Acknowledges
  <2>3. c'.state = s
    BY <1>2, <2>1, SendKeepsEnds
  <2> QED
    BY <1>2, <2>2, <2>3
<1>3. ASSUME Waiting PROVE UNCHANGED rx /\ Fine
  <2>1. CASE RetransmitSyn
    <3>1. PICK ok \in InjectResults :
            /\ c' = AfterSend(c, {"SYN"}, <<>>, ok)
            /\ tx' = WireAfter(tx, c, {"SYN"}, <<>>, ok)
      BY <2>1 DEF RetransmitSyn
    <3>2. ok \in BOOLEAN /\ InState({"SYN_SENT"}) /\ UNCHANGED rx
      BY <2>1, StackAssumption DEF RetransmitSyn
    <3> QED
      BY <1>2, <3>1, <3>2
  <2>2. CASE ~RetransmitSyn
    <3>1. UNCHANGED <<current_connection, tx, rx>>
      BY <1>3, <2>2 DEF Waiting, connVars, WaitForConnection, ConnectionEstablished,
         ConnectionPending, KeepWaitingForConnection, ConnectionTimeout,
         WaitForData, TakeData, NoDataYet, KeepWaitingForData, DataTimeout
    <3> QED
      BY <1>1, <3>1
  <2> QED
    BY <2>1, <2>2
<1>4. ASSUME NEW data \in Seq(Byte), SendData(data)
      PROVE  UNCHANGED rx /\ Fine
  <2>1. CASE InState({"ESTABLISHED"})
    <3>1. PICK ok \in InjectResults :
            /\ c' = AfterSend(c, {"PSH", "ACK"}, data, ok)
            /\ tx' = WireAfter(tx, c, {"PSH", "ACK"}, data, ok)
      BY <1>4, <2>1 DEF SendData
    <3>2. ok \in BOOLEAN /\ UNCHANGED rx
      BY <1>4, StackAssumption DEF SendData
    <3> QED
      BY <1>2, <2>1, <3>1, <3>2
  <2>2. CASE ~InState({"ESTABLISHED"})
    BY <1>1, <1>4, <2>2 DEF SendData
  <2> QED
    BY <2>1, <2>2
<1>5. ASSUME CloseConnection PROVE UNCHANGED rx /\ Fine
  <2>0. UNCHANGED rx
    BY <1>5 DEF CloseConnection
  <2>1. ASSUME InState({"ESTABLISHED"}), NEW ok \in InjectResults,
               c' = [AfterSend(c, {"FIN", "ACK"}, <<>>, ok)
                       EXCEPT !.state = IF ok THEN "FIN_WAIT_1" ELSE @],
               tx' = WireAfter(tx, c, {"FIN", "ACK"}, <<>>, ok)
        PROVE  Fine
    <3> DEFINE d == AfterSend(c, {"FIN", "ACK"}, <<>>, ok)
    <3>1. c \in Connection /\ ok \in BOOLEAN
      BY <2>1, StackAssumption DEF InState, TypeOK
    <3>2. d \in Connection
      BY <3>1, AfterSendType
    <3>3. c' = [d EXCEPT !.state = IF ok THEN "FIN_WAIT_1" ELSE @]
      BY <2>1
    <3>4. ok => c'.state \notin Settled
      <4> HIDE DEF d
      <4> QED
        BY <3>2, <3>3 DEF Connection, Settled
    <3>5. ~ok => c' = d
      <4> HIDE DEF d
      <4> QED
        BY <3>2, <3>3 DEF Connection
    <3> QED
      BY <1>2, <2>1, <3>1, <3>4, <3>5 DEF InState
  <2>2. ASSUME c # NoConnection, c' = [c EXCEPT !.state = "CLOSED"] PROVE Fine
    <3>1. c \in Connection
      BY <2>2 DEF TypeOK
    <3>2. c'.state = "CLOSED"
      BY <2>2, <3>1 DEF Connection
    <3> QED
      BY <3>2 DEF InState, Settled
  <2>3. Fine
    BY <1>1, <1>5, <2>1, <2>2 DEF CloseConnection, InState
  <2> QED
    BY <2>0, <2>3
<1>6. ASSUME UNCHANGED vars PROVE UNCHANGED rx /\ Fine
  BY <1>1, <1>6 DEF vars
<1> QED
  BY <1>3, <1>4, <1>5, <1>6

(* A SYN+ACK.                                                              *)
LEMMA SynAckAcknowledges ==
  ASSUME TypeOK, NEW seg \in Segment, SynAckReceived(seg)
  PROVE  Acknowledges(Plus(seg.seq, 1))
<1> DEFINE c == [current_connection EXCEPT !.remote_port = seg.sport,
                                           !.ack_num = Plus(seg.seq, 1)]
           d(ok) == AfterSend(c, {"ACK"}, <<>>, ok)
<1>1. /\ current_connection \in Connection /\ seg.sport \in Port
      /\ Plus(seg.seq, 1) \in SeqNum /\ tx \in Seq(Segment)
  BY MatchesConnection, SegmentFields DEF SynAckReceived, IsSynAck, TypeOK
<1>2. PICK ok \in InjectResults :
        /\ current_connection' = [d(ok) EXCEPT !.state = IF ok THEN "ESTABLISHED" ELSE @]
        /\ tx' = WireAfter(tx, c, {"ACK"}, <<>>, ok)
  BY Zenon DEF SynAckReceived
<1>3. c \in Connection /\ c.ack_num = Plus(seg.seq, 1)
  BY <1>1 DEF Connection
<1>4. ok \in BOOLEAN /\ {"ACK"} \in SUBSET Flag /\ <<>> \in Seq(Byte)
  BY StackAssumption, SentFlags
<1> HIDE DEF c
<1>5. /\ d(ok) \in Connection /\ d(ok).ack_num = c.ack_num
      /\ Carries(tx', tx, c.ack_num)
  BY <1>1, <1>2, <1>3, <1>4, AfterSendType, SendCarries
<1> HIDE DEF d
<1>6. current_connection'.ack_num = d(ok).ack_num
  BY <1>2, <1>5 DEF Connection
<1> QED
  BY <1>3, <1>5, <1>6 DEF Acknowledges

(* Data.                                                                   *)
LEMMA DataAcknowledges ==
  ASSUME TypeOK, NEW seg \in Segment, DataReceived(seg)
  PROVE  Acknowledges(DataAck(seg)) /\ InState({"ESTABLISHED"})'
<1> DEFINE c == [current_connection EXCEPT !.ack_num = DataAck(seg)]
<1>1. /\ current_connection \in Connection /\ DataAck(seg) \in SeqNum
      /\ tx \in Seq(Segment) /\ current_connection.state = "ESTABLISHED"
  BY MatchesConnection, SegmentFields DEF DataReceived, IsData, TypeOK, Matches, InState
<1>2. PICK ok \in InjectResults :
        /\ current_connection' = AfterSend(c, {"ACK"}, <<>>, ok)
        /\ tx' = WireAfter(tx, c, {"ACK"}, <<>>, ok)
  BY DEF DataReceived
<1>3. c \in Connection /\ c.ack_num = DataAck(seg) /\ c.state = "ESTABLISHED"
  BY <1>1 DEF Connection
<1>4. ok \in BOOLEAN /\ {"ACK"} \in SUBSET Flag /\ <<>> \in Seq(Byte)
  BY StackAssumption, SentFlags
<1> HIDE DEF c
<1>5. /\ current_connection' \in Connection /\ current_connection'.ack_num = c.ack_num
      /\ Carries(tx', tx, c.ack_num)
  BY <1>1, <1>2, <1>3, <1>4, AfterSendType, SendCarries
<1>6. current_connection'.state = "ESTABLISHED"
  BY <1>2, <1>3, SendKeepsEnds
<1> QED
  BY <1>3, <1>5, <1>6, StackAssumption DEF Acknowledges, InState

(* The FIN of the server, which is answered by two segments.                *)
LEMMA PeerFinAcknowledges ==
  ASSUME TypeOK, NEW seg \in Segment, PeerFinReceived(seg)
  PROVE  Acknowledges(Plus(seg.seq, 1)) /\ current_connection'.state = "LAST_ACK"
<1> DEFINE c1 == [current_connection EXCEPT !.ack_num = Plus(seg.seq, 1)]
           c2(ok) == AfterSend(c1, {"ACK"}, <<>>, ok)
           w(ok) == WireAfter(tx, c1, {"ACK"}, <<>>, ok)
           d(ack_ok, fin_ok) == AfterSend(c2(ack_ok), {"FIN", "ACK"}, <<>>, fin_ok)
<1>1. /\ current_connection \in Connection /\ Plus(seg.seq, 1) \in SeqNum
      /\ tx \in Seq(Segment)
  BY MatchesConnection, SegmentFields DEF PeerFinReceived, IsPeerFin, TypeOK
<1>2. PICK ack_ok \in InjectResults, fin_ok \in InjectResults :
        /\ current_connection' = [d(ack_ok, fin_ok) EXCEPT !.state = "LAST_ACK"]
        /\ tx' = WireAfter(w(ack_ok), c2(ack_ok), {"FIN", "ACK"}, <<>>, fin_ok)
  BY DEF PeerFinReceived
<1>3. c1 \in Connection /\ c1.ack_num = Plus(seg.seq, 1)
  BY <1>1 DEF Connection
<1>4. /\ ack_ok \in BOOLEAN /\ fin_ok \in BOOLEAN /\ <<>> \in Seq(Byte)
      /\ {"ACK"} \in SUBSET Flag /\ {"FIN", "ACK"} \in SUBSET Flag
  BY StackAssumption, SentFlags
<1> HIDE DEF c1
<1>5. /\ c2(ack_ok) \in Connection /\ c2(ack_ok).ack_num = c1.ack_num
      /\ w(ack_ok) \in Seq(Segment) /\ Carries(w(ack_ok), tx, c1.ack_num)
  <2>1. c2(ack_ok) \in Connection
    BY <1>3, <1>4, AfterSendType
  <2>2. w(ack_ok) \in Seq(Segment)
    BY <1>1, <1>3, <1>4, WireAfterType
  <2>3. c2(ack_ok).ack_num = c1.ack_num /\ Carries(w(ack_ok), tx, c1.ack_num)
    BY <1>1, <1>3, <1>4, SendCarries
  <2> QED
    BY <2>1, <2>2, <2>3
<1> HIDE DEF c2, w
<1>6. /\ d(ack_ok, fin_ok) \in Connection
      /\ d(ack_ok, fin_ok).ack_num = c1.ack_num
      /\ tx' \in Seq(Segment) /\ Carries(tx', w(ack_ok), c1.ack_num)
  <2>1. d(ack_ok, fin_ok) \in Connection
    BY <1>4, <1>5, AfterSendType
  <2>2. tx' \in Seq(Segment)
    BY <1>2, <1>4, <1>5, WireAfterType
  <2>3. /\ d(ack_ok, fin_ok).ack_num = c2(ack_ok).ack_num
        /\ Carries(tx', w(ack_ok), c2(ack_ok).ack_num)
    <3>1. Carries(WireAfter(w(ack_ok), c2(ack_ok), {"FIN", "ACK"}, <<>>, fin_ok),
                  w(ack_ok), c2(ack_ok).ack_num)
      BY <1>4, <1>5, SendCarries
    <3>2. d(ack_ok, fin_ok).ack_num = c2(ack_ok).ack_num
      BY <1>5, SendKeepsAck
    <3> QED
      BY <1>2, <3>1, <3>2
  <2> QED
    BY <1>5, <2>1, <2>2, <2>3
<1> HIDE DEF d
<1>7. /\ current_connection'.ack_num = c1.ack_num
      /\ current_connection'.state = "LAST_ACK"
  BY <1>2, <1>6 DEF Connection
<1>8. Carries(tx', tx, c1.ack_num)
  BY <1>1, <1>5, <1>6, CarriesTwice
<1> QED
  BY <1>3, <1>7, <1>8 DEF Acknowledges

-----------------------------------------------------------------------------
(* The invariant is one.                                                   *)

LEMMA ChunksTyped ==
  ASSUME rx \in Seq(Segment)
  PROVE  /\ Chunks \in Seq(Seq(Byte)) /\ Len(Chunks) = Len(rx)
         /\ \A i \in 1 .. Len(rx) : Chunks[i] = rx[i].payload
<1>1. Len(rx) \in Nat /\ DOMAIN rx = 1 .. Len(rx)
  OBVIOUS
<1>2. \A i \in 1 .. Len(rx) : rx[i].payload \in Seq(Byte)
  BY SegmentFields
<1>3. Chunks \in [1 .. Len(rx) -> Seq(Byte)]
  BY <1>1, <1>2 DEF Chunks
<1> QED
  BY <1>1, <1>3 DEF Chunks

(* What is accepted next adds its payload.                                  *)
LEMMA ChunksGrow ==
  ASSUME rx \in Seq(Segment), NEW seg \in Segment, rx' = Append(rx, seg)
  PROVE  Chunks' = Append(Chunks, seg.payload)
<1> DEFINE n == Len(rx)
           s == Chunks
           w == Append(s, seg.payload)
           u == Chunks'
<1>1. n \in Nat /\ s \in Seq(Seq(Byte)) /\ Len(s) = n /\ seg.payload \in Seq(Byte)
  BY ChunksTyped, SegmentFields
<1>2. /\ rx' \in Seq(Segment) /\ Len(rx') = n + 1 /\ rx'[n + 1] = seg
      /\ \A i \in 1 .. n : rx'[i] = rx[i]
  BY AppendProperties
<1>3. /\ u \in Seq(Seq(Byte)) /\ Len(u) = n + 1
      /\ \A i \in 1 .. n + 1 : u[i] = rx'[i].payload
  <2>1. /\ DOMAIN rx' = 1 .. n + 1
        /\ \A i \in 1 .. n + 1 : rx'[i].payload \in Seq(Byte)
    BY <1>2, SegmentFields
  <2>2. u = [i \in 1 .. n + 1 |-> rx'[i].payload]
    BY <2>1 DEF Chunks
  <2> HIDE DEF u, n
  <2>3. u \in [1 .. n + 1 -> Seq(Byte)] /\ n + 1 \in Nat
    BY <1>1, <2>1, <2>2
  <2>4. u \in Seq(Seq(Byte)) /\ Len(u) = n + 1
    BY <2>3
  <2> QED
    BY <2>2, <2>4
<1>4. /\ w \in Seq(Seq(Byte)) /\ Len(w) = n + 1 /\ w[n + 1] = seg.payload
      /\ \A i \in 1 .. n : w[i] = s[i]
  BY <1>1, AppendProperties
<1>5. \A i \in 1 .. n : s[i] = rx[i].payload
  BY ChunksTyped
<1> HIDE DEF u, w, s, n
<1>6. ASSUME NEW i \in 1 .. n + 1 PROVE u[i] = w[i]
  <2>1. CASE i = n + 1
    BY <1>2, <1>3, <1>4, <2>1
  <2>2. CASE i # n + 1
    <3>1. i \in 1 .. n
      BY <1>1, <2>2
    <3> QED
      BY <1>2, <1>3, <1>4, <1>5, <3>1
  <2> QED
    BY <2>1, <2>2
<1>7. u = w
  BY <1>3, <1>4, <1>6, SeqEqual
<1> QED
  BY <1>7 DEF u, w, s

(* What is acknowledged now may be more than before.                        *)
LEMMA UpToAcknowledged ==
  ASSUME tx \in Seq(Segment), tx' \in Seq(Segment),
         NEW b \in 0 .. Total, NEW c \in b .. Total, NEW n,
         \A i \in 1 .. Len(tx) : is("SYN", tx[i]) \/ Covering(tx[i].ack, b),
         Within(srv.acked, b), UNCHANGED srv,
         Acknowledges(n), Covering(n, c), Pieces(Chunks', 0, c)
  PROVE  UpTo(c)'
<1>1. \A m : Covering(m, c)' <=> Covering(m, c)
  BY DEF Covering, Within
<1>2. Within(srv.acked, c)
  BY WithinMore
<1>3. Len(tx) \in Nat /\ Len(tx') \in Nat
  OBVIOUS
<1>4. ASSUME NEW i \in 1 .. Len(tx') PROVE is("SYN", tx'[i]) \/ Covering(tx'[i].ack, c)
  <2>1. CASE i \in 1 .. Len(tx)
    <3>1. tx'[i] = tx[i]
      BY <2>1 DEF Acknowledges, Carries, Keeps
    <3> QED
      BY <2>1, <3>1, CoveringMore
  <2>2. CASE i \in Len(tx) + 1 .. Len(tx')
    BY <2>2 DEF Acknowledges, Carries
  <2> QED
    BY <1>3, <2>1, <2>2
<1> QED
  BY <1>1, <1>2, <1>4 DEF UpTo, Acknowledges, Pieces, is, Within

(* What the server has read does not change what the client has done.        *)
LEMMA UpToKept ==
  ASSUME UNCHANGED <<current_connection, tx, rx>>, NEW b, UpTo(b), Within(srv'.acked, b)
  PROVE  UpTo(b)'
<1>1. Chunks' = Chunks
  BY DEF Chunks
<1>2. Pieces(Chunks', 0, b)
  BY <1>1 DEF UpTo
<1>3. \A m : Covering(m, b)' <=> Covering(m, b)
  BY DEF Covering, Within
<1>4. Within(srv.acked, b)'
  BY DEF Within
<1> QED
  BY <1>2, <1>3, <1>4 DEF UpTo, is

LEMMA InitAcks == ProgramInit => AcksInvariant
<1> SUFFICES ASSUME ProgramInit PROVE AcksInvariant
  OBVIOUS
<1>1. /\ current_connection = NoConnection /\ srv_tx = <<>> /\ to_client = {}
      /\ srv.acked = 0 /\ srv.sent = 0
  BY DEF ProgramInit, Init, ServerInit
<1>2. Len(srv_tx) = 0 /\ 0 \in 0 .. Total /\ Total \in Nat
  BY <1>1, TotalIsEnd
<1> DEFINE P == [i \in 0 .. 0 |-> 0]
<1>3. /\ P \in [0 .. Len(srv_tx) -> 0 .. Total] /\ P[0] = 0 /\ P[Len(srv_tx)] = 0
      /\ Position = 0
  BY <1>1, <1>2 DEF Position
<1> HIDE DEF P
<1>4. Ledger(P) /\ Arrived(P, 0)
  <2>1. to_client = 0 + 1 .. Len(srv_tx)
    BY <1>1, <1>2
  <2> QED
    BY <1>1, <1>2, <1>3, <2>1 DEF Ledger, Arrived, InState
<1>5. 0 \in 0 .. Len(srv_tx)
  BY <1>2
<1> QED
  BY <1>1, <1>3, <1>4, <1>5 DEF AcksInvariant

(* The server speaks, and may have read an acknowledgement.                 *)
LEMMA AcksSaid ==
  ASSUME OrderlyLink, ProgramInvariant, Ends, AcksInvariant, ServerStep
  PROVE  AcksInvariant'
<1>0. /\ srv_tx \in Seq(Segment) /\ Len(srv_tx) \in Nat /\ ServerTypeOK
      /\ tx \in Seq(Segment) /\ Lifecycle /\ Total \in Nat
  BY TotalIsEnd DEF ProgramInvariant, ServerTypeOK, TypeOK, WireInvariant
<1>1. PICK k \in 0 .. Len(srv_tx), P \in [0 .. Len(srv_tx) -> 0 .. Total] :
        Ledger(P) /\ Arrived(P, k)
  BY DEF AcksInvariant
<1>2. /\ UNCHANGED <<current_connection, tx, rx>>
      /\ to_client' = to_client \union (Len(srv_tx) + 1 .. Len(srv_tx'))
  BY DEF ServerStep, vars, Launch
<1>3. /\ Said
      /\ \/ srv'.acked = srv.acked
         \/ \E i \in 1 .. Len(tx) : ~is("SYN", tx[i]) /\ srv'.acked = Covers(tx[i].ack)
  BY ServerTurn
<1>4. PICK Q \in [0 .. Len(srv_tx') -> 0 .. Total] :
        Ledger(Q)' /\ \A i \in 0 .. Len(srv_tx) : Q[i] = P[i]
  BY <1>0, <1>1, <1>3, LedgerExtended
<1>5. ~Begun' => srv'.acked = 0
  <2>1. SUFFICES ASSUME ~Begun' PROVE srv'.acked = 0
    OBVIOUS
  <2>2. ~Begun
    BY <1>2, <2>1 DEF Begun
  <2>3. \A i \in 1 .. Len(tx) : is("SYN", tx[i])
    <3>1. tx = <<>> \/ current_connection.state = "SYN_SENT"
      BY <1>0, <2>2 DEF Begun, Lifecycle
    <3> QED
      BY <1>0, <2>2, <3>1 DEF Begun, Lifecycle
  <2> QED
    BY <1>3, <2>2, <2>3 DEF AcksInvariant
<1>6. k \in 0 .. Len(srv_tx') /\ to_client' = k + 1 .. Len(srv_tx')
  <2>1. Len(srv_tx') = Len(srv_tx) \/ Len(srv_tx') = Len(srv_tx) + 1
    BY <1>0, <1>3, AppendProperties DEF Said
  <2>2. to_client = k + 1 .. Len(srv_tx)
    BY <1>1 DEF Arrived
  <2> QED
    BY <1>0, <1>2, <2>1, <2>2
<1>7. ASSUME NEW b \in 0 .. Total, UpTo(b) PROVE UpTo(b)'
  <2>1. Within(srv'.acked, b)
    BY <1>3, <1>7, CoveredWithin DEF UpTo
  <2> QED
    BY <1>2, <1>7, <2>1, UpToKept
<1>8. Arrived(Q, k)'
  <2>1. P[k] \in 0 .. Total /\ Q[k] = P[k] /\ Total \in 0 .. Total
    BY <1>0, <1>1, <1>4
  <2>2. InState({"ESTABLISHED"})' => UpTo(Q[k])' /\ Exactly(Q[k])'
    BY <1>1, <1>2, <1>7, <2>1 DEF Arrived, InState, Exactly
  <2>3. InState({"LAST_ACK"})' => UpTo(Total)'
    BY <1>1, <1>2, <1>7, <2>1 DEF Arrived, InState
  <2> QED
    BY <1>6, <2>2, <2>3 DEF Arrived
<1> QED
  BY <1>4, <1>5, <1>6, <1>8 DEF AcksInvariant

(* A packet is captured: the oldest one under way.                          *)
LEMMA AcksCaptured ==
  ASSUME OrderlyLink, ProgramInvariant, TypeOK', Ends, Asked, AcksInvariant, CapturePacket
  PROVE  AcksInvariant'
<1>0. /\ srv_tx \in Seq(Segment) /\ Len(srv_tx) \in Nat /\ ServerTypeOK /\ TypeOK
      /\ tx \in Seq(Segment) /\ tx' \in Seq(Segment) /\ rx \in Seq(Segment)
      /\ Lifecycle /\ Total \in Nat /\ ServerIss \in Nat
  BY TotalIsEnd, ServerAssumption
     DEF ProgramInvariant, ServerTypeOK, TypeOK, WireInvariant, SeqNum
<1>1. PICK k \in 0 .. Len(srv_tx), P \in [0 .. Len(srv_tx) -> 0 .. Total] :
        Ledger(P) /\ Arrived(P, k)
  BY DEF AcksInvariant
<1>2. to_client = k + 1 .. Len(srv_tx)
  BY <1>1 DEF Arrived
<1>3. UNCHANGED <<srv, srv_tx>>
  BY DEF CapturePacket, serverVars
<1> DEFINE seg == srv_tx[k + 1]
           b == P[k]
           c == P[k + 1]
<1>4. /\ k + 1 \in 1 .. Len(srv_tx)
      /\ seg \in Segment /\ Addressed(seg) /\ process_packet(seg)
      /\ to_client' = (k + 1) + 1 .. Len(srv_tx')
  BY <1>2, OldestCaptured
<1>6. k + 1 \in 0 .. Len(srv_tx) /\ (k + 1) - 1 = k
  BY <1>0, <1>4
<1>7. /\ seg \in Segment /\ Addressed(seg) /\ process_packet(seg)
      /\ Marked(seg, b, c) /\ b \in 0 .. Total /\ c \in b .. Total
  <2>1. Marked(seg, P[(k + 1) - 1], P[k + 1]) /\ P[(k + 1) - 1] <= P[k + 1]
    BY <1>1, <1>4 DEF Ledger
  <2>2. P[k] \in 0 .. Total /\ P[k + 1] \in 0 .. Total
    BY <1>1, <1>6
  <2> QED
    BY <1>0, <1>4, <1>6, <2>1, <2>2
<1>8. Ledger(P)'
  BY <1>1, <1>3 DEF Ledger, Marked, Position
<1>9. ~Begun' => srv'.acked = 0
  <2>1. [LaterStep]_vars
    BY <1>7 DEF LaterStep
  <2> QED
    BY <1>0, <1>3, <2>1, NeverBack DEF AcksInvariant
<1> HIDE DEF seg
<1>10. Total \in 0 .. Total /\ c \in 0 .. Total /\ Total \in b .. Total
  BY <1>0, <1>7
<1> HIDE DEF b, c
<1>11. /\ InState({"ESTABLISHED"})' => UpTo(c)' /\ Exactly(c)'
       /\ InState({"LAST_ACK"})' => UpTo(Total)'
  <2>1. CASE SynAckReceived(seg)
    <3>1. /\ is("SYN", seg) /\ current_connection.state = "SYN_SENT"
          /\ current_connection # NoConnection /\ UNCHANGED rx
      BY <2>1 DEF SynAckReceived, IsSynAck, Matches, InState
    <3>2. /\ \A j \in 1 .. Len(tx) : is("SYN", tx[j])
          /\ rx = <<>>
      BY <1>0, <3>1 DEF Lifecycle
    <3>3. Position = 0
      BY <1>0, <3>1, NothingSaid DEF Begun
    <3>4. c = 0 /\ srv.acked = 0
      <4>1. P[k + 1] = 0
        BY <1>0, <1>1, <1>6, <3>3, LedgerEmpty
      <4> QED
        BY <3>1, <4>1 DEF c, Begun, AcksInvariant
    <3>5. Acknowledges(Plus(seg.seq, 1))
      BY <1>0, <1>7, <2>1, SynAckAcknowledges
    <3>6. Plus(seg.seq, 1) = Plus(ServerIss, 0 + 1)
      <4>1. seg.seq = Plus(ServerIss, 0)
        BY <1>7, <3>1 DEF Marked
      <4> QED
        BY <1>0, <4>1, PlusPlus
    <3>7. Within(0, 0) /\ 0 \in 0 .. Total + 1 /\ 0 \in 0 .. Total
      BY <1>0 DEF Within
    <3>8. Covering(Plus(seg.seq, 1), 0)
      BY <3>6, <3>7 DEF Covering
    <3>9. Pieces(Chunks', 0, 0)
      <4>1. Chunks' = <<>>
        BY <3>1, <3>2 DEF Chunks
      <4> QED
        BY <3>7, <4>1, NoPieces
    <3>10. UpTo(0)'
      <4>1. 0 \in 0 .. Total /\ 0 \in 0 .. Total
        BY <3>7
      <4>2. \A j \in 1 .. Len(tx) : is("SYN", tx[j]) \/ Covering(tx[j].ack, 0)
        BY <3>2
      <4> QED
        BY <1>0, <1>3, <3>4, <3>5, <3>7, <3>8, <3>9, <4>2, UpToAcknowledged
    <3>11. current_connection'.state \in {"ESTABLISHED", "SYN_SENT"}
      BY <1>0, <1>7, <2>1, SynAckKind DEF Sending, Confirmed, Goes
    <3>12. Exactly(0)'
      BY <3>5, <3>6 DEF Acknowledges, Exactly
    <3> QED
      BY <3>4, <3>10, <3>11, <3>12 DEF InState
  <2>2. CASE DataReceived(seg)
    <3>1. /\ InState({"ESTABLISHED"}) /\ seg.payload # <<>>
          /\ rx' = Append(rx, seg)
      BY <2>2 DEF DataReceived, IsData, Matches
    <3>2. UpTo(b)
      BY <1>1, <3>1 DEF Arrived, b
    <3>3. Acknowledges(DataAck(seg)) /\ InState({"ESTABLISHED"})'
      BY <1>0, <1>7, <2>2, DataAcknowledges
    <3>4. DataAck(seg) = Plus(ServerIss, c + 1)
      <4>1. seg.seq = Plus(ServerIss, b + 1) /\ seg.payload = SubSeq(Response, b + 1, c)
        BY <1>7, <3>1 DEF Marked
      <4>2. Len(seg.payload) = c - b
        BY <1>7, <4>1, TextPart
      <4>3. b + 1 \in Nat /\ c - b \in Nat /\ (b + 1) + (c - b) = c + 1
        BY <1>0, <1>7
      <4>4. Plus(Plus(ServerIss, b + 1), c - b) = Plus(ServerIss, (b + 1) + (c - b))
        BY <1>0, <4>3, PlusPlus
      <4> QED
        BY <4>1, <4>2, <4>3, <4>4 DEF DataAck
    <3>5. Covering(DataAck(seg), c)
      <4>1. Within(c, c) /\ c \in 0 .. Total + 1
        BY <1>0, <1>10 DEF Within
      <4> QED
        BY <3>4, <4>1 DEF Covering
    <3>6. Pieces(Chunks', 0, c)
      <4>1. Pieces(Chunks, 0, b) /\ Chunks \in Seq(Seq(Byte))
        BY <1>0, <3>2, ChunksTyped DEF UpTo
      <4>2. Chunks' = Append(Chunks, SubSeq(Response, b + 1, c))
        BY <1>0, <1>7, <3>1, ChunksGrow DEF Marked
      <4> QED
        BY <1>7, <4>1, <4>2, PiecesAppend
    <3>7. UpTo(c)'
      BY <1>0, <1>3, <1>7, <3>2, <3>3, <3>5, <3>6, UpToAcknowledged DEF UpTo
    <3>8. Exactly(c)'
      BY <3>3, <3>4 DEF Acknowledges, Exactly
    <3> QED
      BY <3>3, <3>7, <3>8 DEF InState
  <2>3. CASE PeerFinReceived(seg)
    <3>1. /\ InState({"ESTABLISHED"}) /\ is("FIN", seg) /\ ~is("PSH", seg)
          /\ UNCHANGED rx
      BY <2>3 DEF PeerFinReceived, IsPeerFin, Matches
    <3>2. UpTo(b)
      BY <1>1, <3>1 DEF Arrived, b
    <3>3. /\ Acknowledges(Plus(seg.seq, 1))
          /\ current_connection'.state = "LAST_ACK"
      BY <1>0, <1>7, <2>3, PeerFinAcknowledges
    <3>4. b = Total
      <4>1. seg.payload = <<>> /\ c = Total
        BY <1>7, <3>1 DEF Addressed, Marked
      <4> QED
        BY <1>7, <4>1, TextPart DEF Marked
    <3>5. Plus(seg.seq, 1) = Plus(ServerIss, (Total + 1) + 1)
      <4>1. seg.seq = Plus(ServerIss, Total + 1) /\ Total + 1 \in Nat
        BY <1>0, <1>7, <3>1 DEF Marked
      <4> QED
        BY <1>0, <4>1, PlusPlus
    <3>6. Covering(Plus(seg.seq, 1), Total)
      <4>1. Within(Total + 1, Total) /\ Total + 1 \in 0 .. Total + 1
        BY <1>0 DEF Within
      <4> QED
        BY <3>5, <4>1 DEF Covering
    <3>7. Pieces(Chunks', 0, Total)
      <4>1. Chunks' = Chunks
        BY <3>1 DEF Chunks
      <4> QED
        BY <3>2, <3>4, <4>1 DEF UpTo
    <3>8. UpTo(Total)'
      BY <1>0, <1>3, <1>10, <3>2, <3>3, <3>4, <3>6, <3>7, UpToAcknowledged DEF UpTo
    <3> QED
      BY <3>3, <3>8 DEF InState
  <2>4. CASE FinAcknowledged(seg) \/ FinWhileClosingReceived(seg) \/ LastAckReceived(seg)
    <3>1. Closing \/ Completed
      BY <1>0, <1>7, <2>4, FinAcknowledgedKind, FinWhileClosingKind, LastAckKind
    <3>2. ~InState({"ESTABLISHED"})
      BY <2>4 DEF FinAcknowledged, IsFinAcknowledged, FinWhileClosingReceived,
         IsFinWhileClosing, LastAckReceived, IsLastAck, Matches, InState
    <3>3. current_connection'.state \in {"FIN_WAIT_2", "CLOSED"}
      BY <3>1, <3>2 DEF Closing, Completed, Goes, InState
    <3> QED
      BY <3>3 DEF InState
  <2>5. CASE PacketIgnored(seg)
    <3>1. UNCHANGED <<current_connection, tx, rx, srv>> /\ ~IsData(seg)
      BY <1>3, <2>5 DEF PacketIgnored, connVars
    <3>2. ASSUME NEW n, UpTo(n) PROVE UpTo(n)'
      BY <3>1, <3>2, UpToKept DEF UpTo
    <3>3. ASSUME InState({"ESTABLISHED"}) PROVE c = b
      <4>1. seg.payload = <<>>
        BY <1>7, <3>1, <3>3, SaidIsData DEF Ends
      <4> QED
        BY <1>7, <4>1, TextPart DEF Marked
    <3>4. /\ InState({"ESTABLISHED"})' => InState({"ESTABLISHED"})
          /\ InState({"LAST_ACK"})' => InState({"LAST_ACK"})
      BY <3>1 DEF InState
    <3>5. InState({"ESTABLISHED"})' => Exactly(c)'
      BY <1>1, <3>1, <3>3, <3>4 DEF Arrived, Exactly, b
    <3> QED
      BY <1>1, <3>2, <3>3, <3>4, <3>5 DEF Arrived, b
  <2> QED
    BY <1>7, <2>1, <2>2, <2>3, <2>4, <2>5 DEF process_packet
<1>12. Arrived(P, k + 1)'
  BY <1>4, <1>11 DEF Arrived, c
<1> QED
  BY <1>1, <1>3, <1>6, <1>8, <1>9, <1>12 DEF AcksInvariant

(* Only the server and the capture thread touch what it is about; the calls  *)
(* of the application keep it.                                             *)
LEMMA StepAcks ==
  ASSUME OrderlyLink, ProgramInvariant, TypeOK', Ends, Asked, AcksInvariant,
         [ProgramNext]_programVars
  PROVE  AcksInvariant'
<1>0. /\ TypeOK /\ Lifecycle /\ tx \in Seq(Segment) /\ tx' \in Seq(Segment)
      /\ Total \in Nat
  BY TotalIsEnd DEF ProgramInvariant, WireInvariant, TypeOK
<1>1. PICK k \in 0 .. Len(srv_tx), P \in [0 .. Len(srv_tx) -> 0 .. Total] :
        Ledger(P) /\ Arrived(P, k)
  BY DEF AcksInvariant
<1>2. ASSUME UNCHANGED <<srv, srv_tx, to_client>>, ~Begun' => ~Begun, Arrived(P, k)'
      PROVE  AcksInvariant'
  <2>1. Ledger(P)'
    BY <1>1, <1>2 DEF Ledger, Marked, Position
  <2> QED
    BY <1>1, <1>2, <2>1 DEF AcksInvariant
<1>3. CASE UNCHANGED programVars
  <2>1. UNCHANGED <<srv, srv_tx, to_client, current_connection, tx, rx>>
    BY <1>3 DEF programVars, vars, serverVars, netVars
  <2>2. \A b : UpTo(b) => UpTo(b)'
    BY <2>1, UpToKept DEF UpTo
  <2>3. Arrived(P, k)'
    BY <1>1, <2>1, <2>2 DEF Arrived, InState, Exactly
  <2> QED
    BY <1>2, <2>1, <2>3 DEF Begun
<1>4. CASE ConnectCall
  <2>1. UNCHANGED <<srv, srv_tx, to_client>> /\ current_connection = NoConnection
    BY <1>4, ConnectIsAny DEF ConnectCall, Unseen, serverVars, netVars
  <2>2. ~InState({"ESTABLISHED"})' /\ ~InState({"LAST_ACK"})'
    <3>1. CASE ConnectFilterFails
      BY <2>1, <3>1 DEF ConnectFilterFails, connVars, InState
    <3>2. CASE \E iss \in InitialSeq : Connect(<<ServerIp, ServerPort>>, LocalPort, iss)
      <4>1. Renewed
        BY <3>2, ConnectKind, ServerAssumption, ProgramAssumption, StackAssumption
      <4> QED
        BY <4>1 DEF Renewed, InState
    <3> QED
      BY <1>4, <3>1, <3>2 DEF ConnectCall
  <2>3. Arrived(P, k)'
    BY <1>1, <2>1, <2>2 DEF Arrived
  <2> QED
    BY <1>2, <2>1, <2>3 DEF Begun
<1>5. CASE ServerStep
  BY <1>5, AcksSaid
<1>6. CASE CapturePacket
  BY <1>6, AcksCaptured
<1>7. CASE ProgramNext /\ ~ConnectCall /\ ~ServerStep /\ ~CapturePacket
  <2>1. UNCHANGED <<srv, srv_tx>>
    BY <1>7, ServerSilent DEF serverVars
  <2>2. UNCHANGED to_client
    <3>1. ~ServerTimeout /\ ~Lose
      <4>1. srv.resent \in 0 .. 0
        BY DEF ProgramInvariant, ServerTypeOK, OrderlyLink
      <4>2. ~(srv.resent < MaxRetransmit)
        BY <4>1 DEF OrderlyLink
      <4> QED
        BY <4>2 DEF ServerTimeout, ServerTimer, Lose, Fault, OrderlyLink
    <3> QED
      BY <1>7, <3>1 DEF ProgramNext, Main, PrepareCall, WaitForConnectionCall,
         SendDataCall, WaitForDataCall, CloseCall, DestroyStack, Unseen, netVars,
         CaptureStep
  <2>3. Begun => Begun'
    BY <1>0, <1>7, ProgramIsLater, NeverBack
  <2>4. /\ UNCHANGED rx
        /\ InState(Settled)' =>
             /\ InState({current_connection'.state})
             /\ Acknowledges(current_connection.ack_num)
    BY <1>0, <1>7, CallsOnStack, CallAcknowledges
  <2>5. ASSUME NEW b \in 0 .. Total, UpTo(b), Acknowledges(current_connection.ack_num)
        PROVE  UpTo(b)'
    <3>1. Chunks' = Chunks
      BY <2>4 DEF Chunks
    <3>2. b \in b .. Total
      BY <1>0
    <3> QED
      BY <1>0, <2>1, <2>5, <3>1, <3>2, UpToAcknowledged DEF UpTo
  <2>6. P[k] \in 0 .. Total /\ Total \in 0 .. Total
    BY <1>0, <1>1
  <2>7. InState({"ESTABLISHED"})' => UpTo(P[k])' /\ Exactly(P[k])'
    BY <1>1, <2>4, <2>5, <2>6 DEF Arrived, InState, Settled, Exactly, Acknowledges
  <2>8. InState({"LAST_ACK"})' => UpTo(Total)'
    BY <1>1, <2>4, <2>5, <2>6 DEF Arrived, InState, Settled
  <2>9. Arrived(P, k)'
    BY <1>1, <2>1, <2>2, <2>7, <2>8 DEF Arrived
  <2> QED
    BY <1>2, <2>1, <2>2, <2>3, <2>9
<1> QED
  BY <1>3, <1>4, <1>5, <1>6, <1>7

LEMMA AcksAreQueued ==
  ASSUME ProgramInvariant, AcksInvariant
  PROVE  AcknowledgedIsQueued
<1> SUFFICES ASSUME InState({"ESTABLISHED", "LAST_ACK"})
             PROVE  srv.acked <= Len(Accepted)
                      \/ (srv.acked > Total /\ Len(Accepted) = Total)
  BY DEF AcknowledgedIsQueued
<1>0. Total \in Nat /\ 0 \in 0 .. Total /\ rx \in Seq(Segment)
  BY TotalIsEnd DEF ProgramInvariant, TypeOK
<1>1. PICK b \in 0 .. Total : UpTo(b)
  <2>1. PICK k \in 0 .. Len(srv_tx), P \in [0 .. Len(srv_tx) -> 0 .. Total] :
          Ledger(P) /\ Arrived(P, k)
    BY DEF AcksInvariant
  <2>2. P[k] \in 0 .. Total /\ Total \in 0 .. Total
    BY <1>0, <2>1
  <2> QED
    BY <2>1, <2>2 DEF Arrived, InState
<1>2. Accepted = SubSeq(Response, 0 + 1, b)
  <2>1. Chunks \in Seq(Seq(Byte)) /\ Pieces(Chunks, 0, b)
    BY <1>0, <1>1, ChunksTyped DEF UpTo
  <2>2. SeqX!FlattenSeq(Chunks) = SubSeq(Response, 0 + 1, b)
    BY <2>1, PiecesFlatten
  <2> QED
    BY <2>2 DEF Accepted, Chunks
<1>3. Len(Accepted) = b
  <2>1. b \in 0 .. Total /\ Len(SubSeq(Response, 0 + 1, b)) = b - 0
    BY <1>0, TextPart
  <2> QED
    BY <1>2, <2>1
<1> QED
  BY <1>0, <1>1, <1>3 DEF UpTo, Within

(* process_packet queues the payload and sends the ACK under one lock, and   *)
(* everything that carries an acknowledgement number afterwards, the request *)
(* and the FIN of either thread included, takes it from there: on an orderly *)
(* link the server never believes more delivered than the application can    *)
(* read, whatever timer fires and whichever injection is refused.           *)
THEOREM AcknowledgedIsQueuedHolds ==
  ASSUME OrderlyLink
  PROVE  ProgramSpec => []AcknowledgedIsQueued
<1>1. ProgramInvariant /\ AcksInvariant => AcknowledgedIsQueued
  BY AcksAreQueued
<1>2. ProgramInvariant /\ OrderInvariant /\ [ProgramNext]_programVars => OrderInvariant'
  BY StepOrder
<1>3. /\ ProgramInvariant /\ ProgramInvariant' /\ OrderInvariant /\ AcksInvariant
      /\ [ProgramNext]_programVars
      => AcksInvariant'
  BY StepAcks DEF ProgramInvariant, OrderInvariant
<1> QED
  BY <1>1, <1>2, <1>3, InitOrder, InitAcks, ProgramInvariantHolds, PTL DEF ProgramSpec

-----------------------------------------------------------------------------
(***************************************************************************)
(* InStep.  The ledger has the acknowledgement number; for the sequence      *)
(* number the handshake is followed.  A second SYN would leave the two ends   *)
(* at different numbers, and what keeps the client from sending one is that  *)
(* its timers wait while anything is under way: until it is connected        *)
(* something always is, the SYN or the server's answer.                    *)
(***************************************************************************)

(* The timers are long against the link, and pcap_inject refuses nothing.    *)
Unhurried == Timely /\ InjectResults \subseteq {TRUE}

OneSyn == Len(tx) = 1 /\ tx[1].flags = {"SYN"} /\ tx[1].src = LocalIp

Unasked == to_server = 0 /\ srv.st = "LISTEN" /\ srv_tx = <<>>

Answered ==
  /\ to_server = 1 /\ srv.st = "SYN_RCVD" /\ srv.rcv_nxt = Plus(tx[1].seq, 1)
  /\ Len(srv_tx) = 1 /\ to_client = {1}
  /\ srv_tx[1].flags = {"SYN", "ACK"} /\ srv_tx[1].src = ServerIp
  /\ srv_tx[1].dst = LocalIp

(* The server expects what follows the segments that have arrived.          *)
Expected ==
  /\ srv.st # "LISTEN"
  /\ Len(tx) > 1 /\ ~is("SYN", tx[2])
  /\ to_server > 0
  /\ srv.rcv_nxt = Plus(tx[to_server].seq, Consumed(tx[to_server]))

Handshake ==
  /\ current_connection = NoConnection => Unasked
  /\ InState({"SYN_SENT"}) => OneSyn /\ (Unasked \/ Answered)
  /\ InState({"ESTABLISHED"}) => Expected

LEMMA InitHandshake == ProgramInit => Handshake
  BY DEF ProgramInit, Init, ServerInit, Handshake, Unasked, InState

(* On a wire that is in order the SYNs come first.                          *)
LEMMA SynsFirst ==
  ASSUME NEW wire \in Seq(Segment), Ordered(wire), Len(wire) > 1, ~is("SYN", wire[2])
  PROVE  \A i \in 2 .. Len(wire) : ~is("SYN", wire[i])
<1> DEFINE n == Len(wire) - 2
           S == {j \in Nat : j <= n => ~is("SYN", wire[j + 2])}
<1>1. n \in Nat /\ Len(wire) \in Nat
  OBVIOUS
<1>2. 0 \in S
  OBVIOUS
<1>3. \A j \in 0 .. n - 1 : j \in S => j + 1 \in S
  <2> SUFFICES ASSUME NEW j \in 0 .. n - 1, j \in S PROVE j + 1 \in S
    OBVIOUS
  <2>1. j + 2 \in 1 .. Len(wire) - 1 /\ (j + 2) + 1 = (j + 1) + 2 /\ j <= n
    BY <1>1
  <2>2. ~is("SYN", wire[j + 2])
    BY <2>1
  <2>3. is("SYN", wire[(j + 2) + 1]) => is("SYN", wire[j + 2])
    BY <2>1 DEF Ordered
  <2> QED
    BY <2>1, <2>2, <2>3
<1>4. 0 .. n \subseteq S
  <2> HIDE DEF S
  <2> QED
    BY <1>1, <1>2, <1>3, Induction
<1>5. ASSUME NEW i \in 2 .. Len(wire) PROVE ~is("SYN", wire[i])
  <2>1. i - 2 \in 0 .. n /\ (i - 2) + 2 = i
    BY <1>1
  <2>2. i - 2 \in S
    BY <1>4, <2>1
  <2> QED
    BY <2>1, <2>2
<1> QED
  BY <1>5

(* connect sends the SYN.                                                  *)
LEMMA ConnectHandshake ==
  ASSUME ProgramInvariant, Unhurried, Handshake, ConnectCall
  PROVE  Handshake'
<1>1. current_connection = NoConnection /\ UNCHANGED <<serverVars, netVars>>
  BY ConnectIsAny DEF ConnectCall, Unseen
<1>2. Unasked'
  BY <1>1 DEF Handshake, Unasked, serverVars, netVars
<1>3. CASE ConnectFilterFails
  <2>1. current_connection' = NoConnection
    BY <1>1, <1>3 DEF ConnectFilterFails, connVars
  <2> QED
    BY <1>2, <2>1 DEF Handshake, InState
<1>4. ASSUME NEW iss \in InitialSeq, Connect(<<ServerIp, ServerPort>>, LocalPort, iss)
      PROVE  Handshake'
  <2> DEFINE c == [local_port |-> LocalPort,  remote_ip |-> ServerIp,
                   remote_port |-> ServerPort,  seq_num |-> iss,  ack_num |-> 0,
                   state |-> "CLOSED"]
             seg == SegmentOf(c, {"SYN"}, <<>>)
  <2>1. tx' = WireAfter(<<>>, c, {"SYN"}, <<>>, TRUE)
    BY <1>4 DEF Connect, Unhurried
  <2>2. Renewed
    BY <1>4, ConnectKind, ServerAssumption, ProgramAssumption, StackAssumption
  <2>3. seg.flags = {"SYN"} /\ seg.src = LocalIp
    BY DEF SegmentOf
  <2>4. tx' = <<seg>>
    BY <2>1 DEF WireAfter
  <2> HIDE DEF seg
  <2>5. OneSyn'
    BY <2>3, <2>4 DEF OneSyn
  <2> QED
    BY <1>2, <2>2, <2>5 DEF Renewed, Handshake, InState
<1> QED
  BY <1>3, <1>4 DEF ConnectCall

(* The server answers the SYN, and takes what follows in its order.          *)
LEMMA ServerHandshake ==
  ASSUME OrderlyLink, ProgramInvariant, Asked, Handshake, ServerStep
  PROVE  Handshake'
<1>0. /\ tx \in Seq(Segment) /\ srv_tx \in Seq(Segment) /\ Len(tx) \in Nat
      /\ to_server \in 0 .. Len(tx) /\ to_client \subseteq 1 .. Len(srv_tx)
      /\ srv \in ServerRecord /\ Lifecycle /\ Ordered(tx) /\ Contiguous(tx)
  BY ServerTypes DEF ProgramInvariant, TypeOK, NetworkTypeOK, WireInvariant, WireOrder,
     WireContiguous
<1>1. UNCHANGED <<current_connection, tx>>
  BY DEF ServerStep, vars
<1>2. \/ /\ to_server < Len(tx) /\ ServerReceives(tx[to_server + 1])
         /\ to_server' = to_server + 1
      \/ Respond(LocalIp) /\ UNCHANGED to_server
  BY DEF ServerStep, OrderlyLink, Fault
<1>3. CASE current_connection = NoConnection
  <2>1. tx = <<>> /\ srv.st = "LISTEN"
    BY <1>0, <1>3 DEF Lifecycle, Handshake, Unasked
  <2> QED
    BY <1>0, <1>2, <2>1 DEF Respond
<1>4. CASE InState({"SYN_SENT"})
  <2>1. OneSyn /\ (Unasked \/ Answered)
    BY <1>4 DEF Handshake
  <2>2. Unasked /\ ServerReceives(tx[1]) /\ to_server' = 1
    BY <1>2, <2>1 DEF OneSyn, Unasked, Answered, Respond
  <2>3. Listening(tx[1])
    BY <2>1, <2>2 DEF OneSyn, Unasked, ServerReceives, NotListening, DuplicateSyn,
       UnexpectedSyn, OnConnection, is
  <2> DEFINE s == [srv EXCEPT !.st = "SYN_RCVD", !.port = tx[1].sport,
                              !.rcv_nxt = Plus(tx[1].seq, 1)]
             seg == SynAck(s, tx[1].src)
  <2>4. srv' = s /\ srv_tx' = Append(<<>>, seg)
    BY <2>2, <2>3 DEF Listening, Unasked
  <2>5. srv'.st = "SYN_RCVD" /\ srv'.rcv_nxt = Plus(tx[1].seq, 1)
    BY <1>0, <2>4 DEF ServerRecord
  <2>6. seg.flags = {"SYN", "ACK"} /\ seg.src = ServerIp /\ seg.dst = LocalIp
    BY <2>1, ServerSays DEF SynAck, OneSyn
  <2> HIDE DEF s, seg
  <2>7. Len(srv_tx') = 1 /\ srv_tx'[1] = seg
    BY <2>4
  <2>8. to_client' = {1}
    <3>1. Len(srv_tx) = 0 /\ to_client = {}
      BY <1>0, <2>2 DEF Unasked
    <3> QED
      BY <2>7, <3>1 DEF ServerStep, Launch
  <2>9. OneSyn' /\ Answered'
    BY <1>1, <2>1, <2>2, <2>5, <2>6, <2>7, <2>8 DEF OneSyn, Answered
  <2> QED
    BY <1>1, <1>4, <2>9 DEF Handshake, InState
<1>5. CASE InState({"ESTABLISHED"})
  <2>1. Expected
    BY <1>5 DEF Handshake
  <2>2. CASE Respond(LocalIp) /\ UNCHANGED to_server
    <3>1. srv'.st = srv.st /\ srv'.rcv_nxt = srv.rcv_nxt
      BY <1>0, <2>2 DEF Respond, ServerRecord
    <3> QED
      BY <1>1, <1>5, <2>1, <2>2, <3>1 DEF Handshake, InState, Expected, is, Consumed
  <2>3. CASE /\ to_server < Len(tx) /\ ServerReceives(tx[to_server + 1])
             /\ to_server' = to_server + 1
    <3> DEFINE i == to_server + 1
               seg == tx[i]
    <3>1. /\ i \in 2 .. Len(tx) /\ to_server \in 1 .. Len(tx) - 1
          /\ seg \in Segment /\ ServerReceives(seg)
      BY <1>0, <2>1, <2>3 DEF Expected
    <3>2. ~is("SYN", seg)
      BY <1>0, <2>1, <3>1, SynsFirst DEF Expected
    <3>3. seg.seq = srv.rcv_nxt
      BY <2>1, <1>0, <3>1 DEF Expected, Contiguous
    <3> HIDE DEF seg
    <3>4. OnConnection(seg)
      <4>1. ~Listening(seg) /\ ~NotListening(seg)
        BY <2>1 DEF Listening, NotListening, Expected
      <4>2. ~DuplicateSyn(seg) /\ ~UnexpectedSyn(seg)
        BY <3>2 DEF DuplicateSyn, UnexpectedSyn
      <4> QED
        BY <3>1, <4>1, <4>2 DEF ServerReceives
    <3>5. srv'.st = "OPEN" /\ srv'.rcv_nxt = Plus(srv.rcv_nxt, Consumed(seg))
      BY <1>0, <3>2, <3>3, <3>4 DEF OnConnection, ServerRecord
    <3>6. Expected'
      BY <1>0, <1>1, <2>1, <2>3, <3>1, <3>3, <3>5 DEF Expected, seg, is, Consumed
    <3> QED
      BY <1>1, <1>5, <3>6 DEF Handshake, InState
  <2> QED
    BY <1>2, <2>2, <2>3
<1> QED
  BY <1>1, <1>3, <1>4, <1>5 DEF Handshake, InState

(* The wire only grows, and the server has seen no more of it.              *)
LEMMA ExpectedKept ==
  ASSUME ProgramInvariant, tx' \in Seq(Segment), Expected, Keeps(tx', tx),
         UNCHANGED <<srv, to_server>>
  PROVE  Expected'
<1>1. /\ Len(tx) \in Nat /\ Len(tx') \in Nat /\ to_server \in 1 .. Len(tx)
      /\ 2 \in 1 .. Len(tx)
  BY DEF ProgramInvariant, TypeOK, NetworkTypeOK, Expected
<1>2. tx'[to_server] = tx[to_server] /\ tx'[2] = tx[2] /\ Len(tx') > 1
  BY <1>1 DEF Keeps
<1> QED
  BY <1>2 DEF Expected, is, Consumed

(* The answer to the SYN connects the client.                               *)
LEMMA CaptureHandshake ==
  ASSUME OrderlyLink, Unhurried, ProgramInvariant, TypeOK', Ends, Asked, Handshake,
         CapturePacket
  PROVE  Handshake'
<1>0. /\ TypeOK /\ Lifecycle /\ tx \in Seq(Segment) /\ tx' \in Seq(Segment)
      /\ srv_tx \in Seq(Segment) /\ to_client \subseteq 1 .. Len(srv_tx)
  BY DEF ProgramInvariant, WireInvariant, TypeOK, ServerTypeOK, NetworkTypeOK
<1>1. UNCHANGED <<srv, srv_tx, to_server>>
  BY DEF CapturePacket, serverVars
<1>2. PICK i \in to_client : process_packet(srv_tx[i])
  BY DEF CapturePacket
<1> DEFINE seg == srv_tx[i]
<1>3. seg \in Segment /\ process_packet(seg) /\ srv_tx # <<>>
  BY <1>0, <1>2
<1>4. [LaterStep]_vars
  BY <1>3 DEF LaterStep
<1>5. CASE current_connection = NoConnection
  BY <1>3, <1>5 DEF Handshake, Unasked
<1>6. CASE InState({"SYN_SENT"})
  <2>1. OneSyn /\ Answered /\ i = 1
    BY <1>2, <1>3, <1>6 DEF Handshake, Unasked, Answered
  <2>2. IsSynAck(seg)
    BY <1>6, <2>1 DEF IsSynAck, Matches, is_packet_for_connection, Answered, is,
       InState, Ends, BetweenEnds
  <2> HIDE DEF seg
  <2>3. SynAckReceived(seg)
    BY <1>3, <1>6, <2>2 DEF process_packet, PacketIgnored, InState, Matches,
       DataReceived, IsData, PeerFinReceived, IsPeerFin, FinAcknowledged,
       IsFinAcknowledged, FinWhileClosingReceived, IsFinWhileClosing,
       LastAckReceived, IsLastAck
  <2> DEFINE c == [current_connection EXCEPT !.remote_port = seg.sport,
                                             !.ack_num = Plus(seg.seq, 1)]
             ack == SegmentOf(c, {"ACK"}, <<>>)
  <2>4. /\ current_connection' = [AfterSend(c, {"ACK"}, <<>>, TRUE)
                                    EXCEPT !.state = "ESTABLISHED"]
        /\ tx' = WireAfter(tx, c, {"ACK"}, <<>>, TRUE)
    BY <2>3 DEF SynAckReceived, Unhurried
  <2>5. current_connection \in Connection /\ seg.sport \in Port /\ Plus(seg.seq, 1) \in SeqNum
    BY <1>0, <1>3, <1>6, SegmentFields DEF TypeOK, InState
  <2>6. c \in Connection
    BY <2>5 DEF Connection
  <2>7. {"ACK"} \in SUBSET Flag /\ <<>> \in Seq(Byte) /\ TRUE \in BOOLEAN
    BY SentFlags
  <2>8. ack \in Segment /\ AfterSend(c, {"ACK"}, <<>>, TRUE) \in Connection
    BY <2>6, <2>7, SegmentOfType, AfterSendType
  <2>9. ack.flags = {"ACK"} /\ tx' = Append(tx, ack)
    BY <2>4 DEF SegmentOf, WireAfter
  <2> HIDE DEF c, ack
  <2>10. current_connection'.state = "ESTABLISHED"
    BY <2>4, <2>8 DEF Connection
  <2>11. current_connection' # NoConnection
    <3>1. current_connection' \in Connection
      BY <2>4, <2>8 DEF Connection, TcpState
    <3> QED
      BY <3>1, StackAssumption
  <2>12. Len(tx') = 2 /\ tx'[1] = tx[1] /\ tx'[2] = ack
    <3>1. Len(tx) = 1 /\ 1 \in 1 .. Len(tx)
      BY <2>1 DEF OneSyn
    <3>2. /\ Len(tx') = Len(tx) + 1 /\ tx'[Len(tx')] = ack
          /\ \A j \in 1 .. Len(tx) : tx'[j] = tx[j]
      BY <1>0, <2>8, <2>9, AppendFacts
    <3> QED
      BY <3>1, <3>2
  <2>13. Consumed(tx[1]) = 1
    <3>1. tx[1].payload = <<>>
      BY <1>6, <2>1 DEF Asked, Begun, InState, OneSyn
    <3> QED
      BY <2>1, <3>1 DEF Consumed, is, OneSyn
  <2>14. Expected'
    <3>1. srv'.st # "LISTEN" /\ to_server' = 1 /\ srv'.rcv_nxt = Plus(tx[1].seq, 1)
      BY <1>1, <2>1 DEF Answered
    <3>2. ~is("SYN", tx'[2])
      BY <2>9, <2>12 DEF is
    <3>3. tx'[1].seq = tx[1].seq /\ Consumed(tx'[1]) = 1
      BY <2>12, <2>13
    <3>4. Len(tx') > 1 /\ to_server' > 0
      BY <2>12, <3>1
    <3>5. Consumed(tx[to_server])' = 1 /\ is("SYN", tx[2])' = is("SYN", tx'[2])
      BY <3>1, <3>3 DEF Consumed, is
    <3> QED
      BY <3>1, <3>2, <3>3, <3>4, <3>5 DEF Expected
  <2> QED
    BY <2>10, <2>11, <2>14 DEF Handshake, InState
<1>7. CASE Begun
  <2>1. Begun' /\ (InState({"ESTABLISHED"})' => InState({"ESTABLISHED"}))
    BY <1>0, <1>4, <1>7, NeverBack DEF Begun, Awaited, InState
  <2>2. Keeps(tx', tx)
    BY <1>0, <1>4, LaterGrowsWire DEF Grows
  <2>3. InState({"ESTABLISHED"})' => Expected'
    BY <1>0, <1>1, <2>1, <2>2, ExpectedKept DEF Handshake
  <2> QED
    BY <2>1, <2>3 DEF Handshake, InState, Begun
<1> QED
  BY <1>5, <1>6, <1>7 DEF Begun, InState

(* The calls of the application: before it is connected the wire is never    *)
(* quiet, so none sends a second SYN.                                      *)
LEMMA CallHandshake ==
  ASSUME OrderlyLink, Unhurried, ProgramInvariant, TypeOK', Handshake, ProgramNext,
         ~ConnectCall, ~ServerStep, ~CapturePacket
  PROVE  Handshake'
<1>0. TypeOK /\ Lifecycle /\ tx \in Seq(Segment) /\ tx' \in Seq(Segment)
  BY DEF ProgramInvariant, WireInvariant, TypeOK
<1>1. UNCHANGED <<srv, srv_tx, to_server, to_client>>
  <2>1. UNCHANGED <<srv, srv_tx>>
    BY ServerSilent DEF serverVars
  <2>2. ~ServerTimeout /\ ~Lose
    <3>1. srv.resent \in 0 .. 0
      BY DEF ProgramInvariant, ServerTypeOK, OrderlyLink
    <3>2. ~(srv.resent < MaxRetransmit)
      BY <3>1 DEF OrderlyLink
    <3> QED
      BY <3>2 DEF ServerTimeout, ServerTimer, Lose, Fault, OrderlyLink
  <2> QED
    BY <2>1, <2>2 DEF ProgramNext, Main, PrepareCall, WaitForConnectionCall,
       SendDataCall, WaitForDataCall, CloseCall, DestroyStack, Unseen, netVars,
       CaptureStep
<1>2. [LaterStep]_vars
  BY ProgramIsLater
<1>3. CASE current_connection = NoConnection
  <2>1. UNCHANGED <<current_connection, tx>>
    BY <1>0, <1>2, <1>3, NothingToSend
  <2> QED
    BY <1>1, <1>3, <2>1 DEF Handshake, Unasked, InState
<1>4. CASE InState({"SYN_SENT"})
  <2>1. OneSyn /\ (Unasked \/ Answered)
    BY <1>4 DEF Handshake
  <2>2. ~Quiet
    <3>1. CASE Unasked
      BY <2>1, <3>1 DEF OneSyn, Unasked, Quiet
    <3>2. CASE Answered
      <4>1. to_client # {}
        BY <3>2 DEF Answered
      <4> QED
        BY <4>1 DEF Quiet
    <3> QED
      BY <2>1, <3>1, <3>2
  <2>3. ~(RetransmitSyn /\ Elapsed(TRUE))
    BY <2>2 DEF Elapsed, Unhurried
  <2>4. \/ UNCHANGED <<current_connection, tx>>
        \/ CloseCall
    <3>1. CASE WaitForConnectionCall
      BY <2>3, <3>1 DEF WaitForConnectionCall, WaitForConnection, ConnectionPending,
         KeepWaitingForConnection, ConnectionEstablished, ConnectionTimeout, connVars
    <3>2. CASE SendDataCall
      BY <1>4, <3>2 DEF SendDataCall, SendData, InState
    <3>3. CASE WaitForDataCall
      BY <3>3 DEF WaitForDataCall, WaitForData, NoDataYet, KeepWaitingForData,
         TakeData, DataTimeout, connVars
    <3>4. CASE PrepareCall \/ DestroyStack \/ CaptureStep \/ ServerTimeout \/ Lose
      BY <3>4 DEF PrepareCall, DestroyStack, CaptureStep, ServerTimeout, Lose, vars
    <3> QED
      BY <3>1, <3>2, <3>3, <3>4 DEF ProgramNext, Main
  <2>5. CASE UNCHANGED <<current_connection, tx>>
    BY <1>1, <1>4, <2>1, <2>5 DEF Handshake, OneSyn, Unasked, Answered, InState
  <2>6. CASE CloseCall
    <3>1. current_connection' = [current_connection EXCEPT !.state = "CLOSED"]
      BY <1>4, <2>6 DEF CloseCall, CloseConnection, InState, TcpState
    <3>2. current_connection \in Connection
      BY <1>0, <1>4 DEF TypeOK, InState
    <3>3. current_connection' # NoConnection /\ current_connection'.state = "CLOSED"
      BY <3>1, <3>2, StackAssumption DEF Connection, TcpState
    <3> QED
      BY <3>3 DEF Handshake, InState
  <2> QED
    BY <2>4, <2>5, <2>6
<1>5. CASE Begun
  <2>1. Begun' /\ (InState({"ESTABLISHED"})' => InState({"ESTABLISHED"}))
    BY <1>0, <1>2, <1>5, NeverBack DEF Begun, Awaited, InState
  <2>2. Keeps(tx', tx)
    BY <1>0, <1>2, LaterGrowsWire DEF Grows
  <2>3. InState({"ESTABLISHED"})' => Expected'
    BY <1>0, <1>1, <2>1, <2>2, ExpectedKept DEF Handshake
  <2> QED
    BY <2>1, <2>3 DEF Handshake, InState, Begun
<1> QED
  BY <1>3, <1>4, <1>5 DEF Begun, InState

LEMMA StepHandshake ==
  ASSUME OrderlyLink, Unhurried, ProgramInvariant, TypeOK', Ends, Asked, Handshake,
         [ProgramNext]_programVars
  PROVE  Handshake'
<1>1. CASE UNCHANGED programVars
  BY <1>1 DEF programVars, vars, serverVars, netVars, Handshake, OneSyn, Unasked,
     Answered, Expected, InState, is, Consumed
<1> QED
  BY <1>1, ConnectHandshake, ServerHandshake, CaptureHandshake, CallHandshake

(* When nothing is under way everything has arrived.                        *)
LEMMA QuietIsInStep ==
  ASSUME ProgramInvariant, AcksInvariant, Handshake
  PROVE  InStep
<1> SUFFICES ASSUME Quiet, InState({"ESTABLISHED"})
             PROVE  /\ current_connection.seq_num = srv.rcv_nxt
                    /\ current_connection.ack_num = Plus(ServerIss, Position + 1)
  BY DEF InStep, Position
<1>1. Expected /\ to_server = Len(tx) /\ to_client = {}
  BY DEF Handshake, Quiet
<1>2. tx # <<>> /\ WireContiguous
  BY <1>1 DEF Expected, ProgramInvariant, WireInvariant
<1>3. current_connection.seq_num = srv.rcv_nxt
  BY <1>1, <1>2 DEF Expected, WireContiguous, EndsAt
<1>4. PICK k \in 0 .. Len(srv_tx), P \in [0 .. Len(srv_tx) -> 0 .. Total] :
        Ledger(P) /\ Arrived(P, k)
  BY DEF AcksInvariant
<1>5. k = Len(srv_tx)
  <2>1. Len(srv_tx) \in Nat
    BY DEF ProgramInvariant, ServerTypeOK
  <2> QED
    BY <1>1, <1>4, <2>1 DEF Arrived
<1>6. P[k] = Position /\ Exactly(P[k])
  BY <1>4, <1>5 DEF Ledger, Arrived
<1> QED
  BY <1>3, <1>6 DEF Exactly

(* Whenever nothing is under way, a client whose timers are long against     *)
(* the link and the server agree on both sequence numbers, for every         *)
(* response, every initial numbers and however often they wrap, with the      *)
(* server's FIN in a segment of its own or on data.                         *)
THEOREM InStepHolds ==
  ASSUME OrderlyLink, Unhurried
  PROVE  ProgramSpec => []InStep
<1>1. ProgramInvariant /\ AcksInvariant /\ Handshake => InStep
  BY QuietIsInStep
<1>2. ProgramInvariant /\ OrderInvariant /\ [ProgramNext]_programVars => OrderInvariant'
  BY StepOrder
<1>3. /\ ProgramInvariant /\ ProgramInvariant' /\ OrderInvariant /\ AcksInvariant
      /\ [ProgramNext]_programVars
      => AcksInvariant'
  BY StepAcks DEF ProgramInvariant, OrderInvariant
<1>4. /\ ProgramInvariant /\ ProgramInvariant' /\ OrderInvariant /\ Handshake
      /\ [ProgramNext]_programVars
      => Handshake'
  BY StepHandshake DEF ProgramInvariant, OrderInvariant
<1> QED
  BY <1>1, <1>2, <1>3, <1>4, InitOrder, InitAcks, InitHandshake, ProgramInvariantHolds, PTL
     DEF ProgramSpec
=============================================================================

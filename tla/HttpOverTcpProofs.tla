-------------------------- MODULE HttpOverTcpProofs --------------------------
(***************************************************************************)
(* The program above TCP, for every command line, every answer and every way *)
(* to cut it into chunks: its state keeps its types, the local file is in    *)
(* the current directory, and what is reported and written is the answer.    *)
(***************************************************************************)
EXTENDS HttpOverTcp, HttpProofs
LOCAL INSTANCE SequencesExt

(* A concatenation of texts, one text after the other.                      *)
LEMMA FlattenRuns ==
  ASSUME NEW S, NEW s \in Seq(Seq(S))
  PROVE  \E f \in [0 .. Len(s) -> Seq(S)] :
           /\ f[0] = <<>> /\ FlattenSeq(s) = f[Len(s)]
           /\ \A k \in 1 .. Len(s) : f[k] = f[k - 1] \o s[k]
<1> DEFINE n == Len(s)
           step == [k \in 1 .. n |-> [x \in Seq(S) |-> x \o s[k]]]
           Flattens(g) == g = [i \in 1 .. Len(s) |->
                                 IF i = 1 THEN s[i] ELSE g[i - 1] \o s[i]]
           flatten == CHOOSE g : Flattens(g)
<1>1. n \in Nat /\ <<>> \in Seq(S) /\ \A k \in 1 .. n : s[k] \in Seq(S)
  OBVIOUS
<1>2. step \in [1 .. n -> [Seq(S) -> Seq(S)]]
  <2>1. ASSUME NEW k \in 1 .. n, NEW x \in Seq(S)
        PROVE  x \o s[k] \in Seq(S)
    <3>1. s[k] \in Seq(S)
      BY <1>1
    <3> QED
      BY <3>1
  <2> QED
    BY <2>1
<1>3. PICK f \in [0 .. n -> Seq(S)] : Follows(f, n, <<>>, step)
  <2> HIDE DEF n, step
  <2> QED
    BY <1>1, <1>2, Recursion
<1>4. f[0] = <<>> /\ \A k \in 1 .. n : f[k] = f[k - 1] \o s[k]
  <2>1. ASSUME NEW k \in 1 .. n PROVE f[k] = f[k - 1] \o s[k]
    <3>1. f[k] = step[k][f[k - 1]]
      BY <1>3 DEF Follows
    <3>2. k - 1 \in 0 .. n
      BY SMT, <1>1
    <3>3. f[k - 1] \in Seq(S)
      BY <1>3, <3>2, Zenon
    <3> QED
      BY <3>1, <3>3
  <2>2. f[0] = <<>>
    BY <1>3, Zenon DEF Follows
  <2> QED
    BY <2>1, <2>2
<1>5. CASE n = 0
  <2>1. s = <<>>
    BY <1>5
  <2>2. FlattenSeq(s) = <<>>
    BY <1>5, <2>1 DEF FlattenSeq
  <2>3. FlattenSeq(s) = f[n]
    BY <1>4, <1>5, <2>2, Zenon
  <2> QED
    BY <1>3, <1>4, <2>3, Zenon
<1>6. CASE n # 0
  <2>0. f[1] = s[1] /\ 1 \in 1 .. n
    <3>1. 1 \in 1 .. n /\ 1 - 1 = 0
      BY SMT, <1>1, <1>6
    <3>2. f[1] = f[0] \o s[1] /\ f[0] = <<>> /\ s[1] \in Seq(S)
      BY <1>1, <1>4, <3>1, Zenon
    <3> QED
      BY <3>1, <3>2
  <2> DEFINE g == [i \in 1 .. n |-> f[i]]
  <2>1. Flattens(g)
    <3>1. ASSUME NEW i \in 1 .. n
          PROVE  g[i] = IF i = 1 THEN s[i] ELSE g[i - 1] \o s[i]
      <4>1. f[i] = f[i - 1] \o s[i] /\ s[i] \in Seq(S)
        BY <1>1, <1>4
      <4>2. CASE i = 1
        BY <2>0, <4>2
      <4>3. CASE i # 1
        <5>1. i - 1 \in 1 .. n
          BY <1>1, <4>3
        <5> QED
          BY <4>1, <4>3, <5>1
      <4> QED
        BY <4>2, <4>3
    <3> QED
      BY <3>1, Zenon
  <2>2. Flattens(flatten)
    BY <2>1, Zenon
  <2>3. \A k \in 0 .. n - 1 : flatten[k + 1] = f[k + 1]
    <3> DEFINE m == n - 1
               Good == {k \in 0 .. m : flatten[k + 1] = f[k + 1]}
    <3> HIDE DEF flatten
    <3>0. m \in Nat
      BY <1>1, <1>6
    <3>1. 0 \in Good
      <4>1. flatten[1] = s[1]
        BY <2>0, <2>2
      <4>4. flatten[1] = f[1]
        BY <2>0, <4>1
      <4>5. 0 \in 0 .. m /\ 0 + 1 = 1
        BY <3>0
      <4> QED
        BY <4>4, <4>5
    <3>2. ASSUME NEW k \in 0 .. m - 1, k \in Good
          PROVE  k + 1 \in Good
      <4>1. /\ k + 2 \in 1 .. n /\ (k + 2) - 1 = k + 1 /\ k + 2 # 1
            /\ k + 1 \in 0 .. m /\ (k + 1) + 1 = k + 2
        BY <1>1, <3>0
      <4>2. flatten[k + 2] = flatten[k + 1] \o s[k + 2]
        BY <2>2, <4>1
      <4>3. f[k + 2] = f[k + 1] \o s[k + 2]
        BY <1>4, <4>1
      <4>4. flatten[k + 2] = f[k + 2]
        BY <3>2, <4>2, <4>3
      <4> QED
        BY <4>1, <4>4
    <3> HIDE DEF Good, m
    <3>3. 0 .. m \subseteq Good
      BY <3>0, <3>1, <3>2, Induction
    <3> QED
      BY <3>3 DEF Good, m
  <2>4. FlattenSeq(s) = flatten[Len(s)]
    BY <1>6 DEF FlattenSeq
  <2>5. n - 1 \in 0 .. n - 1 /\ (n - 1) + 1 = n
    BY <1>1, <1>6
  <2> HIDE DEF flatten
  <2>6. flatten[n] = f[n]
    BY <2>3, <2>5
  <2> QED
    BY <1>3, <1>4, <2>4, <2>6, Zenon
<1> QED
  BY <1>5, <1>6

(* It is a text itself.                                                    *)
LEMMA FlattenSeqTyped ==
  ASSUME NEW S, NEW s \in Seq(Seq(S))
  PROVE  FlattenSeq(s) \in Seq(S)
<1>1. PICK f \in [0 .. Len(s) -> Seq(S)] : FlattenSeq(s) = f[Len(s)]
  BY FlattenRuns, Zenon
<1>2. Len(s) \in 0 .. Len(s)
  OBVIOUS
<1> QED
  BY <1>1, <1>2, Zenon

(* Where each of the texts starts in their concatenation.                   *)
LEMMA FlattenPlaces ==
  ASSUME NEW S, NEW s \in Seq(Seq(S))
  PROVE  /\ FlattenSeq(s) \in Seq(S)
         /\ \E g \in [0 .. Len(s) -> Nat] :
              /\ g[0] = 0 /\ Len(FlattenSeq(s)) = g[Len(s)]
              /\ \A k \in 1 .. Len(s) :
                   /\ g[k] = g[k - 1] + Len(s[k])
                   /\ \A i \in 1 .. Len(s[k]) :
                        /\ g[k - 1] + i \in 1 .. g[Len(s)]
                        /\ FlattenSeq(s)[g[k - 1] + i] = s[k][i]
<1> DEFINE n == Len(s)
<1>1. n \in Nat /\ \A k \in 1 .. n : s[k] \in Seq(S)
  OBVIOUS
<1>2. PICK f \in [0 .. n -> Seq(S)] :
        /\ f[0] = <<>> /\ FlattenSeq(s) = f[n]
        /\ \A k \in 1 .. n : f[k] = f[k - 1] \o s[k]
  BY FlattenRuns, Zenon
<1> HIDE DEF n
<1> DEFINE g == [k \in 0 .. n |-> Len(f[k])]
           At(m) == \A k \in 1 .. m : \A i \in 1 .. Len(s[k]) :
                      g[k - 1] + i \in 1 .. g[m] /\ f[m][g[k - 1] + i] = s[k][i]
           Good == {m \in 0 .. n : At(m)}
<1>3. \A k \in 0 .. n : f[k] \in Seq(S) /\ g[k] = Len(f[k]) /\ g[k] \in Nat
  <2>1. ASSUME NEW k \in 0 .. n PROVE f[k] \in Seq(S) /\ Len(f[k]) \in Nat
    <3>1. f[k] \in Seq(S)
      BY <1>2, Zenon
    <3> QED
      BY SMT, <3>1
  <2> QED
    BY <2>1, Zenon
<1>4. g \in [0 .. n -> Nat]
  BY <1>3, Zenon
<1> HIDE DEF g
<1>5. ASSUME NEW k \in 1 .. n
      PROVE  /\ k - 1 \in 0 .. n /\ k \in 0 .. n /\ g[k] = g[k - 1] + Len(s[k])
             /\ Len(s[k]) \in Nat
             /\ \A i \in 1 .. g[k - 1] : f[k][i] = f[k - 1][i]
             /\ \A i \in 1 .. Len(s[k]) : f[k][g[k - 1] + i] = s[k][i]
  <2>1. k - 1 \in 0 .. n /\ k \in 0 .. n
    BY SMT, <1>1
  <2>2. /\ f[k - 1] \in Seq(S) /\ s[k] \in Seq(S) /\ f[k] = f[k - 1] \o s[k]
        /\ g[k] = Len(f[k]) /\ g[k - 1] = Len(f[k - 1])
    BY <1>1, <1>2, <1>3, <2>1, Zenon
  <2>3. Len(s[k]) \in Nat
    BY SMT, <2>2
  <2> DEFINE z == f[k - 1] \o s[k]
  <2>4. /\ Len(z) = Len(f[k - 1]) + Len(s[k])
        /\ \A i \in 1 .. Len(f[k - 1]) : z[i] = f[k - 1][i]
        /\ \A i \in 1 .. Len(s[k]) : z[Len(f[k - 1]) + i] = s[k][i]
    <3> DEFINE x == f[k - 1]
               y == s[k]
    <3>1. x \in Seq(S) /\ y \in Seq(S)
      BY <2>2, Zenon
    <3> HIDE DEF x, y
    <3>2. /\ Len(x \o y) = Len(x) + Len(y)
          /\ \A i \in 1 .. Len(x) : (x \o y)[i] = x[i]
          /\ \A i \in 1 .. Len(y) : (x \o y)[Len(x) + i] = y[i]
      BY <3>1, ConcatAt
    <3> QED
      BY <3>2, Zenon DEF x, y
  <2>5. f[k] = z
    BY <2>2, Zenon
  <2> HIDE DEF z
  <2>6. /\ g[k] = g[k - 1] + Len(s[k])
        /\ \A i \in 1 .. g[k - 1] : f[k][i] = f[k - 1][i]
        /\ \A i \in 1 .. Len(s[k]) : f[k][g[k - 1] + i] = s[k][i]
    BY <2>2, <2>4, <2>5, Zenon
  <2> QED
    BY <2>1, <2>3, <2>6, Zenon
<1>6. 0 \in Good
  <2>1. At(0)
    BY SMT
  <2> QED
    BY SMT, <1>1, <2>1
<1>7. ASSUME NEW m \in 0 .. n - 1, m \in Good PROVE m + 1 \in Good
  <2>1. m + 1 \in 1 .. n /\ (m + 1) - 1 = m /\ m \in Nat /\ m + 1 \in 0 .. n /\ m \in 0 .. n
    BY SMT, <1>1
  <2>2. /\ g[m + 1] = g[m] + Len(s[m + 1]) /\ Len(s[m + 1]) \in Nat
        /\ \A i \in 1 .. g[m] : f[m + 1][i] = f[m][i]
        /\ \A i \in 1 .. Len(s[m + 1]) : f[m + 1][g[m] + i] = s[m + 1][i]
    <3> DEFINE k == m + 1
    <3>1. k \in 1 .. n /\ k - 1 = m
      BY <2>1, Zenon
    <3> HIDE DEF k
    <3>2. /\ g[k] = g[m] + Len(s[k]) /\ Len(s[k]) \in Nat
          /\ \A i \in 1 .. g[m] : f[k][i] = f[m][i]
          /\ \A i \in 1 .. Len(s[k]) : f[k][g[m] + i] = s[k][i]
      BY <1>5, <3>1, Zenon
    <3> QED
      BY <3>2, Zenon DEF k
  <2>3. g[m] \in Nat
    BY <1>3, <2>1, Zenon
  <2>4. At(m)
    BY <1>7, Zenon
  <2>5. ASSUME NEW k \in 1 .. m + 1, NEW i \in 1 .. Len(s[k])
        PROVE  g[k - 1] + i \in 1 .. g[m + 1] /\ f[m + 1][g[k - 1] + i] = s[k][i]
    <3>1. CASE k = m + 1
      <4>1. k - 1 = m /\ s[k] = s[m + 1] /\ i \in 1 .. Len(s[m + 1])
        BY <2>1, <3>1, Zenon
      <4>2. f[m + 1][g[m] + i] = s[m + 1][i]
        BY <2>2, <4>1, Zenon
      <4>3. g[m] + i \in 1 .. g[m + 1]
        BY SMT, <2>2, <2>3, <4>1
      <4> QED
        BY <4>1, <4>2, <4>3, Zenon
    <3>2. CASE k # m + 1
      <4>1. k \in 1 .. m
        BY SMT, <2>1, <3>2
      <4>2. g[k - 1] + i \in 1 .. g[m] /\ f[m][g[k - 1] + i] = s[k][i]
        BY <2>4, <4>1, Zenon
      <4>3. f[m + 1][g[k - 1] + i] = s[k][i]
        BY <2>2, <4>2, Zenon
      <4>4. g[k - 1] + i \in 1 .. g[m + 1]
        BY SMTT(30), <2>2, <2>3, <4>2
      <4> QED
        BY <4>3, <4>4, Zenon
    <3> QED
      BY <3>1, <3>2, Zenon
  <2>6. At(m + 1)
    BY <2>5, Zenon
  <2> HIDE DEF At
  <2> QED
    BY <2>1, <2>6, Zenon
<1> HIDE DEF Good
<1>8. 0 .. n \subseteq Good
  BY <1>1, <1>6, <1>7, Induction, Zenon
<1>9. n \in 0 .. n /\ 0 \in 0 .. n
  BY SMT, <1>1
<1>10. At(n)
  BY <1>8, <1>9, Zenon DEF Good
<1>11. g[0] = 0
  <2>1. g[0] = Len(f[0]) /\ f[0] = <<>>
    BY <1>2, <1>3, <1>9, Zenon
  <2> QED
    BY SMT, <2>1
<1>12. Len(FlattenSeq(s)) = g[n] /\ FlattenSeq(s) \in Seq(S)
  BY <1>2, <1>3, <1>9, Zenon
<1>13. \A k \in 1 .. n :
         /\ g[k] = g[k - 1] + Len(s[k])
         /\ \A i \in 1 .. Len(s[k]) :
              /\ g[k - 1] + i \in 1 .. g[n]
              /\ FlattenSeq(s)[g[k - 1] + i] = s[k][i]
  BY <1>2, <1>5, <1>10, ZenonT(30)
<1> HIDE DEF At
<1> QED
  BY <1>4, <1>11, <1>12, <1>13, Zenon DEF n

(* The lines of an answer before its empty line.                           *)
LinesOf(a) == [k \in 1 .. Len(a.fields) + 1 |-> IF k = 1 THEN a.line ELSE a.fields[k - 1]]

(* A text followed by a line end.                                          *)
LEMMA WithEol ==
  ASSUME NEW x \in Seq(Char)
  PROVE  /\ x \o EOL \in Seq(Char) /\ Len(x \o EOL) = Len(x) + 2 /\ Len(x) \in Nat
         /\ \A i \in 1 .. Len(x) : (x \o EOL)[i] = x[i]
         /\ (x \o EOL)[Len(x) + 1] = CR /\ (x \o EOL)[Len(x) + 2] = LF
<1>1. /\ x \o EOL \in Seq(Char) /\ Len(x \o EOL) = Len(x) + Len(EOL)
      /\ \A i \in 1 .. Len(x) : (x \o EOL)[i] = x[i]
      /\ \A i \in 1 .. Len(EOL) : (x \o EOL)[Len(x) + i] = EOL[i]
  <2> DEFINE y == EOL
  <2>1. y \in Seq(Char)
    BY EolIs, Zenon
  <2> HIDE DEF y
  <2>2. /\ x \o y \in Seq(Char) /\ Len(x \o y) = Len(x) + Len(y)
        /\ \A i \in 1 .. Len(x) : (x \o y)[i] = x[i]
        /\ \A i \in 1 .. Len(y) : (x \o y)[Len(x) + i] = y[i]
    BY <2>1, ConcatAt
  <2> QED
    BY <2>2, Zenon DEF y
<1>2. 1 \in 1 .. Len(EOL) /\ 2 \in 1 .. Len(EOL)
  BY SMT, EolIs
<1>3. Len(x) \in Nat
  OBVIOUS
<1> QED
  BY <1>1, <1>2, <1>3, EolIs, Zenon

(* Where an answer has its lines and its body.                             *)
LEMMA AnswerLaidOut ==
  ASSUME NEW a \in Answer
  PROVE  LET n == Len(a.fields) + 1  text == TextOf[a]
         IN \E e : /\ LaidOut(text, LinesOf(a), n, e)
                   /\ Len(text) = e[n] + 2 + Len(a.body)
                   /\ \A i \in 1 .. Len(a.body) : text[e[n] + 2 + i] = a.body[i]
<1> DEFINE m == Len(a.fields)
           l == Len(a.line)
           b == Len(a.body)
           s == [i \in DOMAIN a.fields |-> a.fields[i] \o EOL]
           F == FlattenSeq(s)
           A == a.line \o EOL
           B == A \o F
           C == B \o EOL
           T == C \o a.body
<1>1. /\ a.line \in Seq(Char) /\ a.body \in Seq(Char)
      /\ a.fields \in Seq(Seq(Char))
  BY AnswerAssumption
<1>2. /\ m \in Nat /\ l \in Nat /\ b \in Nat /\ DOMAIN a.fields = 1 .. m
      /\ \A k \in 1 .. m : a.fields[k] \in Seq(Char)
  BY <1>1
<1>3. TextOf[a] = T
  BY DEF TextOf, Serialize
<1> HIDE DEF m
<1>4. /\ s \in Seq(Seq(Char)) /\ Len(s) = m
      /\ \A k \in 1 .. m : s[k] = a.fields[k] \o EOL
  <2>1. \A k \in 1 .. m : s[k] = a.fields[k] \o EOL
    BY <1>2, Zenon
  <2>2. ASSUME NEW k \in 1 .. m PROVE a.fields[k] \o EOL \in Seq(Char)
    <3>1. a.fields[k] \in Seq(Char)
      BY <1>2, Zenon
    <3> QED
      BY <3>1, WithEol, Zenon
  <2>3. s \in [1 .. m -> Seq(Char)]
    BY <1>2, <2>2, Zenon
  <2> HIDE DEF s
  <2>4. s \in Seq(Seq(Char))
    BY <1>2, <2>3, SeqDef
  <2>5. Len(s) = m
    BY <1>2, <2>3, <2>4
  <2> QED
    BY <2>1, <2>4, <2>5
<1> HIDE DEF s
<1>5. F \in Seq(Char)
  BY <1>4, FlattenPlaces, Zenon
<1>6. PICK g \in [0 .. m -> Nat] :
        /\ g[0] = 0 /\ Len(F) = g[m]
        /\ \A k \in 1 .. m :
             /\ g[k] = g[k - 1] + Len(s[k])
             /\ \A i \in 1 .. Len(s[k]) :
                  /\ g[k - 1] + i \in 1 .. g[m]
                  /\ F[g[k - 1] + i] = s[k][i]
  <2>1. \E g \in [0 .. Len(s) -> Nat] :
          /\ g[0] = 0 /\ Len(F) = g[Len(s)]
          /\ \A k \in 1 .. Len(s) :
               /\ g[k] = g[k - 1] + Len(s[k])
               /\ \A i \in 1 .. Len(s[k]) :
                    /\ g[k - 1] + i \in 1 .. g[Len(s)]
                    /\ F[g[k - 1] + i] = s[k][i]
    <3>1. s \in Seq(Seq(Char))
      BY <1>4, Zenon
    <3> QED
      BY <3>1, FlattenPlaces
  <2> HIDE DEF F
  <2> QED
    BY <1>4, <2>1, Zenon
<1> HIDE DEF F
<1>7. /\ A \in Seq(Char) /\ Len(A) = l + 2
      /\ \A i \in 1 .. l : A[i] = a.line[i]
      /\ A[l + 1] = CR /\ A[l + 2] = LF
  BY <1>1, WithEol, Zenon
<1> HIDE DEF l, A
<1>8. /\ B \in Seq(Char) /\ Len(B) = l + 2 + g[m]
      /\ \A i \in 1 .. Len(A) : B[i] = A[i]
      /\ \A i \in 1 .. Len(F) : B[Len(A) + i] = F[i]
  <2>1. /\ B \in Seq(Char) /\ Len(B) = Len(A) + Len(F)
        /\ \A i \in 1 .. Len(A) : B[i] = A[i]
        /\ \A i \in 1 .. Len(F) : B[Len(A) + i] = F[i]
    <3>1. A \in Seq(Char)
      BY <1>7, Zenon
    <3>2. /\ A \o F \in Seq(Char) /\ Len(A \o F) = Len(A) + Len(F)
          /\ \A i \in 1 .. Len(A) : (A \o F)[i] = A[i]
          /\ \A i \in 1 .. Len(F) : (A \o F)[Len(A) + i] = F[i]
      BY <1>5, <3>1, ConcatAt
    <3> QED
      BY <3>2, Zenon
  <2> QED
    BY <1>6, <1>7, <2>1, Zenon
<1> HIDE DEF B
<1>9. /\ C \in Seq(Char) /\ Len(C) = l + 4 + g[m]
      /\ \A i \in 1 .. Len(B) : C[i] = B[i]
      /\ C[Len(B) + 1] = CR /\ C[Len(B) + 2] = LF
  <2>1. /\ C \in Seq(Char) /\ Len(C) = Len(B) + 2 /\ Len(B) \in Nat
        /\ \A i \in 1 .. Len(B) : C[i] = B[i]
        /\ C[Len(B) + 1] = CR /\ C[Len(B) + 2] = LF
    BY <1>8, WithEol, Zenon
  <2>2. m \in 0 .. m
    BY SMT, <1>2
  <2>3. g[m] \in Nat
    BY <1>6, <2>2, Zenon
  <2>4. Len(C) = l + 4 + g[m]
    BY SMT, <1>2, <1>8, <2>1, <2>3
  <2> QED
    BY <2>1, <2>4, Zenon
<1> HIDE DEF C
<1>10. /\ T \in Seq(Char) /\ Len(T) = l + 4 + g[m] + b
       /\ \A i \in 1 .. Len(C) : T[i] = C[i]
       /\ \A i \in 1 .. b : T[Len(C) + i] = a.body[i]
  <2>1. /\ T \in Seq(Char) /\ Len(T) = Len(C) + b
        /\ \A i \in 1 .. Len(C) : T[i] = C[i]
        /\ \A i \in 1 .. b : T[Len(C) + i] = a.body[i]
    <3> DEFINE y == a.body
    <3>1. y \in Seq(Char)
      BY <1>1, Zenon
    <3> HIDE DEF y
    <3>2. /\ C \o y \in Seq(Char) /\ Len(C \o y) = Len(C) + Len(y)
          /\ \A i \in 1 .. Len(C) : (C \o y)[i] = C[i]
          /\ \A i \in 1 .. Len(y) : (C \o y)[Len(C) + i] = y[i]
      <4>1. C \in Seq(Char)
        BY <1>9, Zenon
      <4> QED
        BY <3>1, <4>1, ConcatAt
    <3> QED
      BY <3>2, Zenon DEF y
  <2> QED
    BY <1>9, <2>1, Zenon
<1> HIDE DEF T, b
<1>11. \A k \in 0 .. m : g[k] \in Nat
  BY <1>6, Zenon
<1>12. /\ m \in 0 .. m /\ g[m] \in Nat
  <2>1. m \in 0 .. m
    BY SMT, <1>2
  <2> QED
    BY <1>11, <2>1, Zenon
<1>13. /\ \A i \in 1 .. l + 2 : T[i] = A[i]
       /\ \A i \in 1 .. g[m] : T[l + 2 + i] = F[i]
       /\ T[l + 2 + g[m] + 1] = CR /\ T[l + 2 + g[m] + 2] = LF
       /\ \A i \in 1 .. b : T[l + 2 + g[m] + 2 + i] = a.body[i]
  <2>1. ASSUME NEW i \in 1 .. l + 2 PROVE T[i] = A[i]
    <3>1. i \in 1 .. Len(A) /\ i \in 1 .. Len(B) /\ i \in 1 .. Len(C)
      BY SMTT(30), <1>2, <1>7, <1>8, <1>9, <1>12
    <3> QED
      BY <1>8, <1>9, <1>10, <3>1, Zenon
  <2>2. ASSUME NEW i \in 1 .. g[m] PROVE T[l + 2 + i] = F[i]
    <3>1. i \in 1 .. Len(F) /\ Len(A) + i \in 1 .. Len(B) /\ Len(A) + i \in 1 .. Len(C)
      BY SMTT(30), <1>2, <1>6, <1>7, <1>8, <1>9, <1>12
    <3>2. T[Len(A) + i] = F[i]
      BY <1>8, <1>9, <1>10, <3>1, Zenon
    <3> QED
      BY <1>7, <3>2, Zenon
  <2>3. /\ Len(B) + 1 \in 1 .. Len(C) /\ Len(B) + 2 \in 1 .. Len(C)
        /\ Len(C) = l + 2 + g[m] + 2
    BY SMT, <1>2, <1>8, <1>9, <1>12
  <2>4. T[Len(B) + 1] = CR /\ T[Len(B) + 2] = LF
    BY <1>9, <1>10, <2>3, Zenon
  <2> QED
    BY <1>8, <1>10, <2>1, <2>2, <2>3, <2>4, Zenon
<1> DEFINE n == m + 1
           e == [k \in 0 .. n |-> IF k = 0 THEN 0 ELSE l + 2 + g[k - 1]]
           L == LinesOf(a)
<1>14. /\ n \in Nat \ {0} /\ 0 \in 0 .. n /\ n \in 0 .. n /\ n # 0 /\ n - 1 = m
  BY SMT, <1>2
<1>15. /\ L \in [1 .. n -> Seq(Char)]
       /\ \A k \in 1 .. n : L[k] = IF k = 1 THEN a.line ELSE a.fields[k - 1]
  <2>1. ASSUME NEW k \in 1 .. n
        PROVE  (IF k = 1 THEN a.line ELSE a.fields[k - 1]) \in Seq(Char)
    <3>1. k # 1 => k - 1 \in 1 .. m
      BY SMT, <1>2
    <3> QED
      BY <1>1, <1>2, <3>1, Zenon
  <2>2. L = [k \in 1 .. n |-> IF k = 1 THEN a.line ELSE a.fields[k - 1]]
    BY Zenon DEF LinesOf, m
  <2> HIDE DEF n, L
  <2> QED
    BY <2>1, <2>2, Zenon
<1>16. \A k \in 1 .. n : k \in 0 .. n /\ k # 0 /\ k - 1 \in 0 .. m /\ k - 1 \in 0 .. n
  BY SMT, <1>2
<1>17. e \in [0 .. n -> Nat]
  <2>1. ASSUME NEW k \in 0 .. n PROVE (IF k = 0 THEN 0 ELSE l + 2 + g[k - 1]) \in Nat
    <3>1. CASE k = 0
      BY <3>1
    <3>2. CASE k # 0
      <4>1. k - 1 \in 0 .. m
        BY SMT, <1>2, <3>2
      <4>2. g[k - 1] \in Nat
        BY <1>11, <4>1, Zenon
      <4> QED
        BY SMT, <1>2, <3>2, <4>2
    <3> QED
      BY <3>1, <3>2, Zenon
  <2> HIDE DEF n
  <2> QED
    BY <2>1, Zenon
<1>18. e[0] = 0 /\ \A k \in 1 .. n : e[k] = l + 2 + g[k - 1]
  <2> HIDE DEF n
  <2> QED
    BY <1>14, <1>16, Zenon
<1>19. e[n] = l + 2 + g[m]
  <2>1. n \in 1 .. n
    BY SMT, <1>2
  <2> QED
    BY <1>14, <1>18, <2>1, Zenon
<1> HIDE DEF e, L, n
<1>20. ASSUME NEW k \in 1 .. n
       PROVE  /\ e[k] = e[k - 1] + Len(L[k]) + 2
              /\ \A i \in 1 .. Len(L[k]) : T[e[k - 1] + i] = L[k][i]
              /\ T[e[k] - 1] = CR /\ T[e[k]] = LF
  <2>1. CASE k = 1
    <3>1. e[k] = l + 2 /\ e[k - 1] = 0 /\ L[k] = a.line /\ Len(L[k]) = l
      <4>1. k - 1 = 0
        BY SMT, <2>1
      <4>2. e[k] = l + 2 + 0 /\ L[k] = a.line
        <5>1. 1 \in 1 .. n
          BY <2>1, Zenon
        <5>2. e[1] = l + 2 + g[1 - 1] /\ L[1] = a.line
          BY <1>15, <1>18, <5>1, Zenon
        <5>3. g[1 - 1] = 0
          BY <1>6, <2>1, <4>1, Zenon
        <5> QED
          BY <2>1, <5>2, <5>3, Zenon
      <4>3. l + 2 + 0 = l + 2
        BY SMT, <1>2
      <4> QED
        BY <1>18, <4>1, <4>2, <4>3, Zenon DEF l
    <3>2. ASSUME NEW i \in 1 .. l PROVE T[0 + i] = a.line[i]
      <4>1. i \in 1 .. l + 2 /\ 0 + i = i
        BY SMT, <1>2
      <4> QED
        BY <1>7, <1>13, <4>1, Zenon
    <3>3. /\ l + 1 \in 1 .. l + 2 /\ l + 2 \in 1 .. l + 2
          /\ e[k] - 1 = l + 1 /\ e[k] = e[k - 1] + l + 2
      BY SMT, <1>2, <3>1
    <3>4. T[l + 1] = CR /\ T[l + 2] = LF
      BY <1>7, <1>13, <3>3, Zenon
    <3> QED
      BY <3>1, <3>2, <3>3, <3>4, Zenon
  <2>2. CASE k # 1
    <3> DEFINE j == k - 1
               f == a.fields[j]
    <3>1. /\ j \in 1 .. m /\ j \in 0 .. m /\ j - 1 \in 0 .. m
          /\ k - 1 \in 1 .. n /\ (k - 1) - 1 = j - 1
      BY SMT, <1>2, <2>2 DEF n
    <3>2. L[k] = f /\ f \in Seq(Char)
      BY <1>2, <1>15, <2>2, <3>1, Zenon
    <3>3. e[k] = l + 2 + g[j] /\ e[k - 1] = l + 2 + g[j - 1]
      BY <1>18, <3>1, Zenon
    <3>4. g[j] \in Nat /\ g[j - 1] \in Nat
      BY <1>11, <3>1, Zenon
    <3> HIDE DEF f
    <3>5. s[j] = f \o EOL
      BY <1>4, <3>1, Zenon DEF f
    <3>6. /\ Len(s[j]) = Len(f) + 2 /\ Len(f) \in Nat
          /\ \A i \in 1 .. Len(f) : s[j][i] = f[i]
          /\ s[j][Len(f) + 1] = CR /\ s[j][Len(f) + 2] = LF
      BY <3>2, <3>5, WithEol, ZenonT(30)
    <3>7. /\ g[j] = g[j - 1] + Len(s[j])
          /\ \A i \in 1 .. Len(s[j]) :
               g[j - 1] + i \in 1 .. g[m] /\ F[g[j - 1] + i] = s[j][i]
      BY <1>6, <3>1, Zenon
    <3>8. ASSUME NEW i \in 1 .. Len(s[j]) PROVE T[e[k - 1] + i] = s[j][i]
      <4>1. T[l + 2 + (g[j - 1] + i)] = s[j][i]
        BY <1>13, <3>7, Zenon
      <4>2. l + 2 + (g[j - 1] + i) = e[k - 1] + i
        BY SMT, <1>2, <3>3, <3>4, <3>6
      <4> QED
        BY <4>1, <4>2, Zenon
    <3>9. /\ \A i \in 1 .. Len(f) : i \in 1 .. Len(s[j])
          /\ Len(f) + 1 \in 1 .. Len(s[j]) /\ Len(f) + 2 \in 1 .. Len(s[j])
          /\ e[k] = e[k - 1] + Len(f) + 2
          /\ e[k] - 1 = e[k - 1] + (Len(f) + 1) /\ e[k] = e[k - 1] + (Len(f) + 2)
      <4> DEFINE x == Len(f)
                 y == Len(s[j])
                 u == g[j]
                 v == g[j - 1]
      <4>1. x \in Nat /\ y = x + 2 /\ u \in Nat /\ v \in Nat /\ u = v + y
            /\ e[k] = l + 2 + u /\ e[k - 1] = l + 2 + v /\ l \in Nat
        BY <1>2, <3>3, <3>4, <3>6, <3>7, Zenon
      <4> HIDE DEF x, y, u, v, j
      <4>2. /\ \A i \in 1 .. x : i \in 1 .. y
            /\ x + 1 \in 1 .. y /\ x + 2 \in 1 .. y
            /\ e[k] = e[k - 1] + x + 2
            /\ e[k] - 1 = e[k - 1] + (x + 1) /\ e[k] = e[k - 1] + (x + 2)
        BY SMT, <4>1
      <4> QED
        BY <4>2, Zenon DEF x, y, j
    <3>10. T[e[k] - 1] = CR /\ T[e[k]] = LF
      BY <3>6, <3>8, <3>9, Zenon
    <3>11. \A i \in 1 .. Len(f) : T[e[k - 1] + i] = f[i]
      BY <3>6, <3>8, <3>9, Zenon
    <3> HIDE DEF j
    <3> QED
      BY <3>2, <3>9, <3>10, <3>11, Zenon
  <2> QED
    BY <2>1, <2>2, Zenon
<1>21. e[n] + 2 <= Len(T) /\ Len(T) = e[n] + 2 + b
  BY SMT, <1>2, <1>10, <1>12, <1>19
<1>22. LaidOut(T, L, n, e)
  BY <1>10, <1>13, <1>14, <1>15, <1>17, <1>18, <1>19, <1>20, <1>21, Zenon DEF LaidOut
<1>23. \A i \in 1 .. b : T[e[n] + 2 + i] = a.body[i]
  BY <1>13, <1>19, Zenon
<1> QED
  BY <1>3, <1>21, <1>22, <1>23, Zenon DEF n, m, L, b

(* The answers are texts.                                                  *)
LEMMA TextTyped ==
  ASSUME answer \in Answer PROVE Text \in Seq(Char)
<1> DEFINE lines == [i \in DOMAIN answer.fields |-> answer.fields[i] \o EOL]
<1>1. /\ answer.line \in Seq(Char) /\ answer.body \in Seq(Char)
      /\ answer.fields \in Seq(Seq(Char))
  BY AnswerAssumption
<1>2. EOL \in Seq(Char)
  BY CharAssumption DEF EOL
<1>3. lines \in Seq(Seq(Char))
  <2>1. ASSUME NEW i \in DOMAIN answer.fields
        PROVE  answer.fields[i] \o EOL \in Seq(Char)
    <3>1. answer.fields[i] \in Seq(Char)
      BY <1>1
    <3> QED
      BY <1>2, <3>1
  <2>2. DOMAIN answer.fields = 1 .. Len(answer.fields) /\ Len(answer.fields) \in Nat
    BY <1>1
  <2>3. lines \in [1 .. Len(answer.fields) -> Seq(Char)]
    BY <2>1, <2>2
  <2> HIDE DEF lines
  <2> QED
    BY <2>2, <2>3, SeqDef
<1>4. FlattenSeq(lines) \in Seq(Char)
  BY <1>3, FlattenSeqTyped
<1> HIDE DEF lines
<1>5. Serialize(answer) = answer.line \o EOL \o FlattenSeq(lines) \o EOL \o answer.body
  BY DEF Serialize, lines
<1>6. Serialize(answer) \in Seq(Char)
  BY <1>1, <1>2, <1>4, <1>5
<1> QED
  BY <1>6 DEF Text, TextOf

-----------------------------------------------------------------------------
(* The inductive invariant: besides the types, what waits in the queue is    *)
(* text, so that it can be appended to the response buffer.                *)
HttpInvariant ==
  /\ AppInvariant /\ HttpTypeOK
  /\ queue \in Seq(Seq(Char))

(* It holds at the start.                                                  *)
LEMMA InitHttp == HttpInit => HttpInvariant
<1> SUFFICES ASSUME HttpInit PROVE HttpInvariant
  OBVIOUS
<1>1. AppInvariant
  BY InitApp DEF HttpInit
<1>2. queue = <<>> /\ phase \in Phase /\ answer \in Answer /\ asked \in BOOLEAN
  BY DEF HttpInit, ServiceInit, Phase
<1>3. sent \in 0 .. Len(Text)
  <2>1. Text \in Seq(Char)
    BY <1>2, TextTyped
  <2> QED
    BY <2>1 DEF HttpInit
<1> QED
  BY <1>1, <1>2, <1>3 DEF HttpInvariant, HttpTypeOK, AppInvariant

(* Everything but the application's variables and the queue.               *)
Rest ==
  /\ phase \in Phase
  /\ answer \in Answer /\ asked \in BOOLEAN /\ sent \in 0 .. Len(Text)

(* The application thread's calls.                                         *)
LEMMA MainHttp ==
  ASSUME HttpInvariant, Main
  PROVE  AppStep /\ Rest' /\ queue' \in {queue, Tail(queue)}
         /\ (queue' # queue => queue # <<>>)
<1> USE DEF Rest, HttpInvariant, HttpTypeOK, originVars, serviceVars, Phase
<1>1. CASE ArgumentsCall
  <2>1. PICK argv \in Argv : ArgumentsGiven(argv)
    BY <1>1 DEF ArgumentsCall
  <2>2. argv \in Seq(Seq(Char))
    BY AnswerAssumption
  <2> QED
    BY <1>1, <2>1, <2>2 DEF ArgumentsCall, AppStep, Text
<1>2. CASE InitializeCall \/ CreateFileCall \/ StopCall
  BY <1>2 DEF InitializeCall, CreateFileCall, StopCall, AppStep, Text
<1>3. CASE ConnectCall
  <2>1. (phase' = "opening") \in BOOLEAN
    OBVIOUS
  <2> QED
    BY <1>3, <2>1 DEF ConnectCall, Open, AppStep, Text
<1>4. CASE WaitForConnectionCall
  BY <1>4 DEF WaitForConnectionCall, AppStep, Text
<1>5. CASE SendDataCall
  BY <1>5 DEF SendDataCall, AppStep, Text
<1>6. CASE WaitForDataCall
  <2>1. CASE UNCHANGED serviceVars /\ ReceiveTimedOut
    BY <1>6, <2>1 DEF WaitForDataCall, AppStep, Text
  <2>2. CASE Take /\ ChunkReceived(Head(queue))
    <3>1. Head(queue) \in Seq(Char)
      BY <2>2 DEF Take
    <3> QED
      BY <1>6, <2>2, <3>1 DEF WaitForDataCall, Take, AppStep, Text
  <2> QED
    BY <1>6, <2>1, <2>2 DEF WaitForDataCall
<1>7. CASE CloseCall
  <2>1. UNCHANGED queue /\ phase' \in Phase
    BY <1>7 DEF CloseCall, Shut, Abandon
  <2> QED
    BY <1>7, <2>1 DEF CloseCall, AppStep, Text
<1> QED
  BY <1>1, <1>2, <1>3, <1>4, <1>5, <1>6, <1>7 DEF Main

(* The network.                                                            *)
LEMMA NetworkHttp ==
  ASSUME HttpInvariant, Network
  PROVE  /\ UNCHANGED appVars /\ Rest'
         /\ \/ UNCHANGED queue
            \/ \E chunk \in Chunk \intersect Seq(Char) : queue' = Append(queue, chunk)
<1> USE DEF Rest, HttpInvariant, HttpTypeOK, originVars, serviceVars, Phase
<1>1. CASE ChunkArrives
  <2>1. PICK upTo \in sent + 1 .. Len(Text) :
          Receive(SubSeq(Text, sent + 1, upTo)) /\ sent' = upTo
    BY <1>1 DEF ChunkArrives
  <2>2. Text \in Seq(Char) /\ Text' = Text /\ Text = TextOf[answer]
    BY <1>1, TextTyped DEF ChunkArrives, Text
  <2>3. /\ sent + 1 \in 1 .. Len(Text) /\ upTo \in 1 .. Len(Text)
        /\ sent + 1 <= upTo /\ upTo \in 0 .. Len(Text)
    BY <2>2
  <2>4. SubSeq(Text, sent + 1, upTo) \in Seq(Char)
    BY <2>2, <2>3
  <2>5. SubSeq(Text, sent + 1, upTo) \in Chunk
    BY <2>2, <2>3, ChunkAssumption
  <2> QED
    BY <1>1, <2>1, <2>2, <2>3, <2>4, <2>5 DEF ChunkArrives, Receive
<1>2. CASE HandshakeCompletes \/ ServerCloses \/ CloseCompletes
  BY <1>2 DEF HandshakeCompletes, ServerCloses, CloseCompletes, Establish,
              Shut, Finish, Text
<1> QED
  BY <1>1, <1>2 DEF Network

(* Every step keeps it.                                                    *)
LEMMA StepHttp == HttpInvariant /\ [HttpNext]_httpVars => HttpInvariant'
<1> SUFFICES ASSUME HttpInvariant, [HttpNext]_httpVars PROVE HttpInvariant'
  OBVIOUS
<1>0. /\ AppInvariant /\ Rest
      /\ queue \in Seq(Chunk) /\ queue \in Seq(Seq(Char))
  BY DEF HttpInvariant, HttpTypeOK, Rest
<1>1. ASSUME AppInvariant', Rest', queue' \in Seq(Chunk), queue' \in Seq(Seq(Char))
      PROVE  HttpInvariant'
  BY <1>1 DEF HttpInvariant, HttpTypeOK, Rest, AppInvariant
<1>2. CASE Main
  <2>1. /\ AppInvariant' /\ Rest' /\ queue' \in {queue, Tail(queue)}
        /\ (queue' # queue => queue # <<>>)
    BY <1>0, <1>2, MainHttp, StepApp
  <2>2. queue # <<>> =>
          Tail(queue) \in Seq(Chunk) /\ Tail(queue) \in Seq(Seq(Char))
    BY <1>0
  <2>3. queue' \in Seq(Chunk) /\ queue' \in Seq(Seq(Char))
    BY <1>0, <2>1, <2>2
  <2> QED
    BY <1>1, <2>1, <2>3
<1>3. CASE Network
  <2>1. /\ UNCHANGED appVars /\ Rest'
        /\ \/ UNCHANGED queue
           \/ \E chunk \in Chunk \intersect Seq(Char) : queue' = Append(queue, chunk)
    BY <1>3, NetworkHttp
  <2>2. AppInvariant'
    BY <1>0, <2>1, StepApp
  <2>3. ASSUME NEW chunk \in Chunk \intersect Seq(Char)
        PROVE  /\ Append(queue, chunk) \in Seq(Chunk)
               /\ Append(queue, chunk) \in Seq(Seq(Char))
    BY <1>0
  <2>4. queue' \in Seq(Chunk) /\ queue' \in Seq(Seq(Char))
    BY <1>0, <2>1, <2>3
  <2> QED
    BY <1>1, <2>1, <2>2, <2>4
<1>4. CASE UNCHANGED httpVars
  <2>1. UNCHANGED <<appVars, queue>> /\ Rest'
    BY <1>0, <1>4 DEF httpVars, serviceVars, originVars, Rest, Text
  <2>2. AppInvariant'
    BY <1>0, <2>1, StepApp
  <2> QED
    BY <1>0, <1>1, <2>1, <2>2
<1> QED
  BY <1>2, <1>3, <1>4 DEF HttpNext

(* Whatever is asked for and answered, in whatever pieces, and wherever a    *)
(* call fails: buffer, report and file have their types, and get has a       *)
(* report exactly if it was successful.                                    *)
THEOREM HttpTypeCorrect == HttpSpec => []HttpTypeOK
<1>1. HttpInvariant => HttpTypeOK
  BY DEF HttpInvariant
<1> QED
  BY <1>1, InitHttp, StepHttp, PTL DEF HttpSpec

(* main never makes a file outside the current directory: the name it takes  *)
(* from the path of the command line is not empty and has no slash.        *)
THEOREM SavedHereHolds == HttpSpec => []SavedHere
<1>1. HttpInvariant => SavedHere
  BY DEF HttpInvariant, AppInvariant, NamedHere, SavedHere
<1> QED
  BY <1>1, InitHttp, StepHttp, PTL DEF HttpSpec

-----------------------------------------------------------------------------
(* The answers.                                                            *)

(* What a server sends by the grammar of HTTP: no line end within a line,  *)
(* no empty line among the header fields, and a status line whose words are *)
(* apart.  (Characters stand for words: two words that touch are one word.) *)
WellFormed(a) ==
  WholeLines(LinesOf(a), Len(a.fields) + 1) /\ Worded(a.line)

(* What ReportIsAnswer says of the report.                                 *)
ReportTold(r) ==
  /\ \E n \in Numeral :
       /\ r.status_code = ValueOf[n]
       /\ IsStatusLine(answer.line, n, r.status_message)
  /\ \A name \in DOMAIN r.headers : \E f \in Fields(answer) :
       FieldName(f) = name /\ FieldValue(f) = r.headers[name]
  /\ IsPrefix(r.body, answer.body)

(* The colon of a field is its first one.                                  *)
LEMMA ColonIs ==
  ASSUME NEW f \in Seq(Char), NEW c, FirstColon(f, c)
  PROVE  Found(<<COLON>>, f) # {} /\ Colon(f) = c
<1> DEFINE C == Found(<<COLON>>, f)
           Good(i) == COLON \notin Range(Before(f, i))
<1>1. Len(f) \in Nat /\ COLON \in Char
  BY EolIs
<1>2. ASSUME NEW i PROVE i \in C <=> i \in 1 .. Len(f) /\ f[i] = COLON
  BY <1>1, FoundChar, Zenon
<1>3. c \in 1 .. Len(f) /\ f[c] = COLON /\ \A i \in 1 .. c - 1 : f[i] # COLON
  BY Zenon DEF FirstColon
<1> HIDE DEF C
<1>4. ASSUME NEW i \in 1 .. Len(f)
      PROVE  Good(i) <=> \A h \in 1 .. i - 1 : f[h] # COLON
  <2> DEFINE y == Before(f, i)
  <2>1. /\ y \in Seq(Char) /\ Len(y) = i - 1
        /\ \A h \in 1 .. i - 1 : y[h] = f[h]
    <3> DEFINE q == i - 1
    <3>1. q \in 0 .. Len(f)
      BY SMT, <1>1
    <3>2. y = SubSeq(f, 1, q)
      BY Zenon DEF Before
    <3> HIDE DEF q, y
    <3>3. Begins(y, f, q)
      BY <3>1, <3>2, BeginningIs
    <3>4. y \in Seq(Char) /\ Len(y) = q /\ \A h \in 1 .. q : y[h] = f[h]
      BY <3>3, Zenon DEF Begins
    <3> QED
      BY <3>4, Zenon DEF q
  <2>2. DOMAIN y = 1 .. i - 1
    <3> HIDE DEF y
    <3> QED
      BY <2>1
  <2>3. Range(y) = {y[h] : h \in DOMAIN y}
    BY DEF Range
  <2>4. Good(i) <=> COLON \notin Range(y)
    BY Zenon
  <2> HIDE DEF y
  <2> QED
    BY <2>1, <2>2, <2>3, <2>4
<1>5. c \in C /\ Good(c)
  BY <1>2, <1>3, <1>4, Zenon
<1>6. ASSUME NEW i \in C, Good(i) PROVE i = c
  <2>1. i \in 1 .. Len(f) /\ f[i] = COLON /\ \A h \in 1 .. i - 1 : f[h] # COLON
    BY <1>2, <1>4, <1>6, Zenon
  <2>2. i < c => i \in 1 .. c - 1
    BY SMT, <1>1, <1>3, <2>1
  <2>3. c < i => c \in 1 .. i - 1
    BY SMT, <1>1, <1>3, <2>1
  <2>4. ~ (i < c) /\ ~ (c < i)
    BY <1>3, <2>1, <2>2, <2>3, Zenon
  <2> QED
    BY SMT, <1>1, <1>3, <2>1, <2>4
<1>7. Colon(f) = CHOOSE i \in C : Good(i)
  BY Zenon DEF Colon, C
<1> HIDE DEF Good
<1>8. Colon(f) = c
  BY <1>5, <1>6, <1>7, Zenon
<1> QED
  BY <1>5, <1>8, Zenon DEF C

(* How much of the answer lies before its body.                            *)
Header == Len(Text) - Len(answer.body)

(* get parses the beginning of an answer, and makes of it what it is.       *)
LEMMA BeginningParsed ==
  ASSUME answer \in Answer, WellFormed(answer), NEW p \in 0 .. Len(Text)
  PROVE  LET response == parse_http_response[SubSeq(Text, 1, p)]
         IN /\ response.outcome \in {"parsed", "throws"} => p >= Header
            /\ response.outcome = "parsed" =>
                 /\ ReportTold(response)
                 /\ response.status_message = From(answer.line, 5)
            /\ response.outcome = "throws" =>
                 \A m \in Numeral : ~ IsStatusLine(answer.line, m, From(answer.line, 5))
<1> DEFINE a == answer
           n == Len(a.fields) + 1
           lines == LinesOf(a)
           text == Text
           z == SubSeq(text, 1, p)
           response == parse_http_response[z]
           b == a.body
<1>1. a.line \in Seq(Char) /\ b \in Seq(Char) /\ a.fields \in Seq(Seq(Char))
  BY AnswerAssumption
<1>2. text \in Seq(Char) /\ Len(text) \in Nat /\ Len(b) \in Nat
  <2>1. text \in Seq(Char)
    BY TextTyped
  <2> QED
    BY <1>1, <2>1
<1>3. PICK e : /\ LaidOut(text, lines, n, e)
               /\ Len(text) = e[n] + 2 + Len(b)
               /\ \A i \in 1 .. Len(b) : text[e[n] + 2 + i] = b[i]
  BY AnswerLaidOut, Zenon DEF Text
<1>4. n \in Nat \ {0} /\ 1 \in 1 .. n /\ e[n] \in Nat
  BY <1>3, LastLine
<1>5. lines[1] = a.line
  BY <1>4 DEF LinesOf
<1>6. Begins(z, text, p)
  <2>1. text \in Seq(Char) /\ p \in 0 .. Len(text)
    BY <1>2, Zenon
  <2> HIDE DEF text
  <2> QED
    BY <2>1, BeginningIs
<1> HIDE DEF z, text
<1>7. /\ response.outcome \in {"parsed", "throws"} => e[n] + 2 <= p
      /\ response.outcome = "parsed" =>
           /\ \E m \in Numeral :
                /\ response.status_code = ValueOf[m]
                /\ response.status_message = From(lines[1], 5)
                /\ lines[1] = <<HTTP11, SP, m, SP>> \o From(lines[1], 5)
           /\ \A name \in DOMAIN response.headers :
                \E k \in 2 .. n : \E c :
                  /\ FirstColon(lines[k], c)
                  /\ LowerCase(Before(lines[k], c)) = name
                  /\ response.headers[name] = Trim(From(lines[k], c + 1))
           /\ response.body = SubSeq(z, e[n] + 3, p)
      /\ response.outcome = "throws" => lines[1][3] \notin Numeral
  <2>1. WholeLines(lines, n) /\ Worded(lines[1])
    BY <1>5, Zenon DEF WellFormed
  <2>2. LaidOut(text, lines, n, e)
    BY <1>3, Zenon
  <2> HIDE DEF lines, n
  <2> QED
    BY <1>6, <2>1, <2>2, AnswerParsed, ZenonT(30)
<1> HIDE DEF response
<1>8. response.outcome \in {"parsed", "throws"} => p >= Header
  <2>1. Header = e[n] + 2
    <3> DEFINE d == e[n]
               l == Len(b)
               t == Len(text)
    <3>1. d \in Nat /\ l \in Nat /\ t = d + 2 + l
      BY <1>2, <1>3, <1>4, Zenon
    <3>2. Header = t - l
      BY Zenon DEF Header, text
    <3> HIDE DEF d, l, t
    <3>3. Header = d + 2
      BY SMT, <3>1, <3>2
    <3> QED
      BY <3>3, Zenon DEF d
  <2>2. p \in Nat
    BY SMT, <1>2 DEF text
  <2> DEFINE d == e[n]
  <2>3. d \in Nat /\ Header = d + 2 /\ (response.outcome \in {"parsed", "throws"} => d + 2 <= p)
    BY <1>4, <1>7, <2>1, Zenon
  <2> HIDE DEF d
  <2>4. d + 2 <= p => p >= d + 2
    BY SMT, <2>2, <2>3
  <2> QED
    BY <2>3, <2>4, Zenon
<1>9. ASSUME response.outcome = "parsed"
      PROVE  ReportTold(response) /\ response.status_message = From(a.line, 5)
  <2>1. PICK m \in Numeral : /\ response.status_code = ValueOf[m]
                             /\ response.status_message = From(a.line, 5)
                             /\ a.line = <<HTTP11, SP, m, SP>> \o From(a.line, 5)
    BY <1>5, <1>7, <1>9, Zenon
  <2>2. IsStatusLine(a.line, m, response.status_message)
    BY <2>1, Zenon DEF IsStatusLine
  <2>3. ASSUME NEW name \in DOMAIN response.headers
        PROVE  \E f \in Fields(answer) :
                 FieldName(f) = name /\ FieldValue(f) = response.headers[name]
    <3>1. PICK k \in 2 .. n : \E c :
            /\ FirstColon(lines[k], c)
            /\ LowerCase(Before(lines[k], c)) = name
            /\ response.headers[name] = Trim(From(lines[k], c + 1))
      BY <1>7, <1>9, Zenon
    <3>2. PICK c : /\ FirstColon(lines[k], c)
                   /\ LowerCase(Before(lines[k], c)) = name
                   /\ response.headers[name] = Trim(From(lines[k], c + 1))
      BY <3>1, Zenon
    <3> DEFINE f == a.fields[k - 1]
    <3>3. /\ k - 1 \in DOMAIN a.fields /\ f \in Seq(Char) /\ lines[k] = f
      <4>1. k - 1 \in 1 .. Len(a.fields) /\ k \in 1 .. n /\ k # 1
        BY <1>1, <1>4
      <4>2. lines[k] = f
        BY <4>1, Zenon DEF LinesOf
      <4> QED
        BY <1>1, <4>1, <4>2
    <3> HIDE DEF f
    <3>4. Found(<<COLON>>, f) # {} /\ Colon(f) = c
      BY <3>2, <3>3, ColonIs, Zenon
    <3>5. f \in Fields(answer)
      BY <3>3, <3>4 DEF Fields, Range, f
    <3>6. FieldName(f) = name /\ FieldValue(f) = response.headers[name]
      BY <3>2, <3>3, <3>4, Zenon DEF FieldName, FieldValue
    <3> QED
      BY <3>5, <3>6, Zenon
  <2>4. IsPrefix(response.body, b)
    <3> DEFINE d == e[n]
               i == d + 3
               x == SubSeq(z, i, p)
               l == Len(b)
    <3>1. /\ d \in Nat /\ d + 2 <= p /\ p \in Nat /\ p <= d + 2 + l /\ l \in Nat
          /\ response.body = x
      <4>1. p \in Nat /\ p <= Len(text)
        BY SMT, <1>2 DEF text
      <4> QED
        BY <1>2, <1>3, <1>4, <1>7, <1>9, <4>1, Zenon
    <3>2. z \in Seq(Char) /\ Len(z) = p /\ \A h \in 1 .. p : z[h] = text[h]
      BY <1>6, Zenon DEF Begins
    <3>3. \A h \in 1 .. l : text[d + 2 + h] = b[h]
      BY <1>3, Zenon
    <3> HIDE DEF d, l
    <3>4. i \in Nat \ {0} /\ i <= p + 1 /\ p <= Len(z)
      BY SMT, <3>1, <3>2
    <3> DEFINE q == p - i + 1
    <3>6. /\ q \in Nat /\ q <= l
          /\ \A h \in 1 .. q : i + h - 1 = d + 2 + h /\ d + 2 + h \in 1 .. p /\ h \in 1 .. l
      BY SMT, <3>1
    <3> HIDE DEF i
    <3>5. /\ x \in Seq(Char) /\ Len(x) = p - i + 1
          /\ \A h \in 1 .. p - i + 1 : x[h] = z[i + h - 1]
      BY <3>1, <3>2, <3>4, SliceAt
    <3> HIDE DEF x
    <3>7. Len(x) = q /\ \A h \in 1 .. q : x[h] = b[h]
      <4>1. ASSUME NEW h \in 1 .. q PROVE x[h] = b[h]
        <5>1. x[h] = z[i + h - 1]
          BY <3>5, Zenon
        <5>2. x[h] = z[d + 2 + h]
          BY <3>6, <5>1, Zenon
        <5>3. x[h] = text[d + 2 + h]
          BY <3>2, <3>6, <5>2, Zenon
        <5> QED
          BY <3>3, <3>6, <5>3, Zenon
      <4> QED
        BY <3>5, <4>1, Zenon
    <3> HIDE DEF q
    <3>8. SubSeq(b, 1, q) = x
      <4>1. q \in 0 .. Len(b)
        BY SMT, <3>6 DEF l
      <4>2. Begins(SubSeq(b, 1, q), b, q)
        BY <1>1, <4>1, BeginningIs
      <4> DEFINE y == SubSeq(b, 1, q)
      <4>3. y \in Seq(Char) /\ Len(y) = q /\ \A h \in 1 .. q : y[h] = b[h]
        BY <4>2, Zenon DEF Begins
      <4> HIDE DEF y
      <4>4. Len(y) = Len(x) /\ \A h \in 1 .. Len(y) : y[h] = x[h]
        BY <3>7, <4>3, Zenon
      <4>5. y = x
        BY <3>5, <4>3, <4>4, SameText
      <4> QED
        BY <4>5, Zenon DEF y
    <3>9. Len(x) <= Len(b) /\ SubSeq(b, 1, Len(x)) = x
      BY <3>6, <3>7, <3>8, Zenon DEF l
    <3> QED
      BY <1>1, <3>1, <3>5, <3>9 DEF IsPrefix
  <2> QED
    BY <2>1, <2>2, <2>3, <2>4, Zenon DEF ReportTold
<1>10. ASSUME response.outcome = "throws", NEW m \in Numeral
       PROVE  ~ IsStatusLine(a.line, m, From(a.line, 5))
  <2>1. a.line[3] \notin Numeral
    BY <1>5, <1>7, <1>10, Zenon
  <2>2. HTTP11 \in Char /\ SP \in Char
    BY CharAssumption, Zenon
  <2>3. a.line # <<HTTP11, SP, m, SP>> \o From(a.line, 5)
    BY <1>1, <2>1, <2>2, NoStatusLine
  <2> QED
    BY <2>3, Zenon DEF IsStatusLine
<1> QED
  BY <1>8, <1>9, <1>10, Zenon DEF response, z, text

-----------------------------------------------------------------------------
(* The reception.                                                          *)

(* Where the queue cuts the answer: its chunks follow one another, the first *)
(* follows what get has taken, and the last ends where the server stands.    *)
CutAt(P) ==
  /\ P \in [0 .. Len(queue) -> 0 .. sent] /\ P[Len(queue)] = sent
  /\ \A i \in 1 .. Len(queue) :
       P[i - 1] <= P[i] /\ queue[i] = SubSeq(Text, P[i - 1] + 1, P[i])
  /\ response_buffer = SubSeq(Text, 1, P[0])

(* The calls before get waits for its connection.                          *)
BeforeGet == {"arguments", "initialize", "create_file", "connect"}

(* Until then nothing is in the response buffer.                           *)
Unreceived == pc \in BeforeGet => response_buffer = <<>>

(* The invariant of the reception: what get has, followed by what waits    *)
(* in the queue, is what the server has sent.                              *)
ReceptionInvariant ==
  /\ HttpInvariant /\ Unreceived
  /\ \E P : CutAt(P)
  /\ ReportIsAnswer /\ OutcomeIsAnswers

(* get takes a chunk.                                                      *)
ChunkTaken == Take /\ ChunkReceived(Head(queue)) /\ UNCHANGED originVars

(* Nothing is received or taken.                                           *)
NothingMoves ==
  /\ UNCHANGED <<response_buffer, received_complete, report, queue, answer, sent>>
  /\ pc' = "aborted" => pc = "aborted"
  /\ pc' \in BeforeGet => pc \in BeforeGet

(* Each step takes a chunk, brings one, or leaves buffer, queue and        *)
(* report alone.                                                           *)
LEMMA WhatMoves ==
  ASSUME Unreceived, [HttpNext]_httpVars
  PROVE  ChunkTaken \/ ChunkArrives \/ NothingMoves
<1> USE DEF NothingMoves, originVars, serviceVars, Goto, BeforeGet
<1>1. CASE ArgumentsCall
  BY <1>1 DEF ArgumentsCall, ArgumentsGiven
<1>2. CASE InitializeCall \/ WaitForConnectionCall \/ SendDataCall
  BY <1>2 DEF InitializeCall, WaitForConnectionCall, SendDataCall, Initialized,
              ConnectionAwaited, RequestSent, OnlyPc
<1>3. CASE CreateFileCall
  BY <1>3 DEF CreateFileCall, FileCreated
<1>4. CASE ConnectCall
  <2>1. response_buffer' = response_buffer
    BY <1>4 DEF ConnectCall, Connected, Unreceived
  <2> QED
    BY <1>4, <2>1 DEF ConnectCall, Connected, Open
<1>5. CASE WaitForDataCall
  BY <1>5 DEF WaitForDataCall, ChunkTaken, ReceiveTimedOut, OnlyPc
<1>6. CASE CloseCall
  <2>1. OnlyPc /\ pc' \in {"main_close", "client_close", "stack_close", "stop"}
    BY <1>6 DEF CloseCall, Closed
  <2>2. UNCHANGED queue /\ UNCHANGED originVars
    BY <1>6 DEF CloseCall, Shut, Abandon
  <2> QED
    BY <2>1, <2>2 DEF OnlyPc
<1>7. CASE StopCall
  BY <1>7 DEF StopCall, StackStopped, OnlyPc
<1>8. CASE HandshakeCompletes \/ ServerCloses \/ CloseCompletes
  BY <1>8 DEF HandshakeCompletes, ServerCloses, CloseCompletes, Establish, Shut,
              Finish, appVars
<1>9. CASE UNCHANGED httpVars
  BY <1>9 DEF httpVars, appVars
<1> QED
  BY <1>1, <1>2, <1>3, <1>4, <1>5, <1>6, <1>7, <1>8, <1>9 DEF HttpNext, Main, Network

(* A beginning and what follows it.                                        *)
LEMMA Joined ==
  ASSUME NEW x \in Seq(Char), NEW i \in 0 .. Len(x), NEW j \in 0 .. Len(x), i <= j
  PROVE  SubSeq(x, 1, i) \o SubSeq(x, i + 1, j) = SubSeq(x, 1, j)
<1> DEFINE a == SubSeq(x, 1, i)
           b == SubSeq(x, i + 1, j)
           c == SubSeq(x, 1, j)
           d == a \o b
<1>1. Len(x) \in Nat /\ i \in Nat /\ j \in Nat
  OBVIOUS
<1>2. a \in Seq(Char) /\ Len(a) = i /\ \A h \in 1 .. i : a[h] = x[h]
  BY BeginningIs, Zenon DEF Begins
<1>3. c \in Seq(Char) /\ Len(c) = j /\ \A h \in 1 .. j : c[h] = x[h]
  BY BeginningIs, Zenon DEF Begins
<1>4. /\ b \in Seq(Char) /\ Len(b) = j - i
      /\ \A h \in 1 .. j - i : b[h] = x[i + h]
  <2> DEFINE k == i + 1
  <2>1. k \in Nat \ {0} /\ k <= j + 1 /\ j <= Len(x) /\ j - k + 1 = j - i
        /\ \A h \in 1 .. j - i : k + h - 1 = i + h
    BY SMT, <1>1
  <2> HIDE DEF k
  <2>2. /\ SubSeq(x, k, j) \in Seq(Char) /\ Len(SubSeq(x, k, j)) = j - k + 1
        /\ \A h \in 1 .. j - k + 1 : SubSeq(x, k, j)[h] = x[k + h - 1]
    BY <1>1, <2>1, SliceAt, ZenonT(30)
  <2> QED
    BY <2>1, <2>2, Zenon DEF k
<1> HIDE DEF a, b, c
<1>5. /\ d \in Seq(Char) /\ Len(d) = Len(a) + Len(b)
      /\ \A h \in 1 .. Len(a) : d[h] = a[h]
      /\ \A h \in 1 .. Len(b) : d[Len(a) + h] = b[h]
  <2>1. a \in Seq(Char) /\ b \in Seq(Char)
    BY <1>2, <1>4, Zenon
  <2> QED
    BY <2>1, ConcatAt
<1> HIDE DEF d
<1>6. Len(d) = j
  BY SMT, <1>1, <1>2, <1>4, <1>5
<1>7. ASSUME NEW h \in 1 .. j PROVE d[h] = x[h]
  <2>1. CASE h <= i
    <3>1. h \in 1 .. i
      BY SMT, <1>1, <2>1
    <3> QED
      BY <1>2, <1>5, <3>1, Zenon
  <2>2. CASE ~ (h <= i)
    <3> DEFINE g == h - i
    <3>1. g \in 1 .. j - i /\ i + g = h
      BY SMT, <1>1, <2>2
    <3> HIDE DEF g
    <3>2. d[i + g] = x[i + g]
      BY <1>2, <1>4, <1>5, <3>1, Zenon
    <3> QED
      BY <3>1, <3>2, Zenon
  <2> QED
    BY <2>1, <2>2, Zenon
<1>8. Len(d) = Len(c) /\ \A h \in 1 .. Len(d) : d[h] = c[h]
  BY <1>3, <1>6, <1>7, Zenon
<1>9. d = c
  BY <1>3, <1>5, <1>8, SameText, Zenon
<1> QED
  BY <1>9, Zenon DEF a, b, c, d

(* The queue grows at its end by the next characters of the answer.         *)
LEMMA ArrivalCuts ==
  ASSUME HttpInvariant, NEW P, CutAt(P), ChunkArrives
  PROVE  (\E Q : CutAt(Q)') /\ sent <= sent' /\ UNCHANGED <<appVars, answer>>
<1> DEFINE n == Len(queue)
<1>1. PICK upTo \in sent + 1 .. Len(Text) :
        Receive(SubSeq(Text, sent + 1, upTo)) /\ sent' = upTo
  BY DEF ChunkArrives
<1>2. UNCHANGED <<appVars, answer>> /\ Text' = Text /\ UNCHANGED response_buffer
  BY DEF ChunkArrives, Text, appVars
<1>3. n \in Nat /\ sent \in Nat /\ upTo \in Nat /\ sent < upTo /\ queue \in Seq(Seq(Char))
      /\ Len(Text) \in Nat
  <2>1. queue \in Seq(Seq(Char)) /\ answer \in Answer /\ sent \in 0 .. Len(Text)
    BY DEF HttpInvariant, HttpTypeOK
  <2>2. Text \in Seq(Char)
    BY <2>1, TextTyped
  <2>3. n \in Nat
    BY <2>1
  <2>4. Len(Text) \in Nat
    BY <2>2
  <2> QED
    BY <2>1, <2>3, <2>4
<1>4. queue' = Append(queue, SubSeq(Text, sent + 1, upTo))
  BY <1>1 DEF Receive
<1>5. /\ Len(queue') = n + 1
      /\ \A i \in 1 .. n : queue'[i] = queue[i]
      /\ queue'[n + 1] = SubSeq(Text, sent + 1, upTo)
  <2> DEFINE x == SubSeq(Text, sent + 1, upTo)
  <2> HIDE DEF x
  <2>1. queue' = Append(queue, x)
    BY <1>4, Zenon DEF x
  <2>2. Len(queue') = n + 1
    BY <1>3, <2>1
  <2>3. \A i \in 1 .. n : queue'[i] = queue[i]
    BY <1>3, <2>1
  <2>4. queue'[n + 1] = x
    BY <1>3, <2>1
  <2> QED
    BY <2>2, <2>3, <2>4, Zenon DEF x
<1>6. /\ P \in [0 .. n -> 0 .. sent] /\ P[n] = sent
      /\ \A i \in 1 .. n : P[i - 1] <= P[i] /\ queue[i] = SubSeq(Text, P[i - 1] + 1, P[i])
      /\ response_buffer = SubSeq(Text, 1, P[0])
  BY Zenon DEF CutAt
<1> HIDE DEF n
<1> DEFINE m == n + 1
           Q == [i \in 0 .. m |-> IF i = m THEN upTo ELSE P[i]]
<1>7. Q \in [0 .. m -> 0 .. upTo]
  <2>1. ASSUME NEW i \in 0 .. m PROVE (IF i = m THEN upTo ELSE P[i]) \in 0 .. upTo
    <3>1. CASE i = m
      BY SMT, <1>3, <3>1
    <3>2. CASE i # m
      <4>1. i \in 0 .. n
        BY SMT, <1>3, <3>2
      <4>2. P[i] \in 0 .. sent
        BY <1>6, <4>1, Zenon
      <4>3. P[i] \in 0 .. upTo
        BY SMT, <1>3, <4>2
      <4> QED
        BY <3>2, <4>3, Zenon
    <3> QED
      BY <3>1, <3>2, Zenon
  <2> HIDE DEF m
  <2> QED
    BY <2>1, Zenon
<1>8. /\ m \in 0 .. m /\ 0 \in 0 .. m /\ 0 # m /\ m - 1 = n
      /\ \A i \in 1 .. m : i - 1 \in 0 .. m /\ i \in 0 .. m /\ i - 1 # m
      /\ \A i \in 1 .. m : i # m => i \in 1 .. n
  BY SMT, <1>3
<1>9. Q[m] = upTo /\ Q[0] = P[0] /\ \A i \in 0 .. m : i # m => Q[i] = P[i]
  <2> HIDE DEF m
  <2> QED
    BY <1>8, Zenon
<1>10. ASSUME NEW i \in 1 .. m
       PROVE  Q[i - 1] <= Q[i] /\ queue'[i] = SubSeq(Text, Q[i - 1] + 1, Q[i])
  <2> HIDE DEF Q
  <2>1. CASE i = m
    <3>1. Q[i - 1] = P[n] /\ Q[i] = upTo
      <4>1. Q[m - 1] = P[m - 1]
        BY <1>8, <1>9, <2>1, Zenon
      <4> QED
        BY <1>8, <1>9, <2>1, <4>1, Zenon
    <3>2. queue'[i] = SubSeq(Text, sent + 1, upTo)
      BY <1>5, <2>1, Zenon
    <3>3. sent <= upTo
      BY SMT, <1>3
    <3> QED
      BY <1>6, <3>1, <3>2, <3>3, Zenon
  <2>2. CASE i # m
    <3>1. i \in 1 .. n /\ Q[i - 1] = P[i - 1] /\ Q[i] = P[i]
      BY <1>8, <1>9, <2>2, Zenon
    <3> QED
      BY <1>5, <1>6, <3>1, Zenon
  <2> QED
    BY <2>1, <2>2, Zenon
<1> HIDE DEF Q
<1>13. PICK R : R = Q
  OBVIOUS
<1>11. CutAt(R)'
  <2>1. Len(queue') = m /\ sent' = upTo /\ response_buffer' = SubSeq(Text', 1, R[0])
    BY <1>1, <1>2, <1>5, <1>6, <1>9, <1>13, Zenon
  <2> HIDE DEF m
  <2>2. /\ R \in [0 .. Len(queue') -> 0 .. sent'] /\ R[Len(queue')] = sent'
        /\ \A i \in 1 .. Len(queue') :
             R[i - 1] <= R[i] /\ queue'[i] = SubSeq(Text', R[i - 1] + 1, R[i])
    BY <1>2, <1>7, <1>9, <1>10, <1>13, <2>1, Zenon
  <2> QED
    BY <2>1, <2>2 DEF CutAt
<1>12. sent <= sent'
  BY SMT, <1>1, <1>3
<1> QED
  BY <1>2, <1>11, <1>12, Zenon

(* What get has in its buffer is the beginning of the answer again.         *)
LEMMA TakingCuts ==
  ASSUME HttpInvariant, NEW P, CutAt(P), ChunkTaken
  PROVE  /\ \E Q : CutAt(Q)'
         /\ \E p \in 0 .. sent : BufferAfter(Head(queue)) = SubSeq(Text, 1, p)
         /\ UNCHANGED <<answer, sent>>
<1> DEFINE n == Len(queue)
<1>1. /\ queue # <<>> /\ queue' = Tail(queue) /\ Text' = Text /\ UNCHANGED <<answer, sent>>
      /\ response_buffer' = BufferAfter(Head(queue))
  BY DEF ChunkTaken, Take, ChunkReceived, originVars, Text
<1>2. /\ queue \in Seq(Seq(Char)) /\ Text \in Seq(Char) /\ sent \in Nat /\ sent <= Len(Text)
      /\ Len(Text) \in Nat
  <2>1. queue \in Seq(Seq(Char)) /\ answer \in Answer /\ sent \in 0 .. Len(Text)
    BY DEF HttpInvariant, HttpTypeOK
  <2>2. Text \in Seq(Char)
    BY <2>1, TextTyped
  <2>3. Len(Text) \in Nat
    BY <2>2
  <2> QED
    BY <2>1, <2>2, <2>3
<1>3. /\ n \in Nat \ {0} /\ Head(queue) = queue[1] /\ Len(queue') = n - 1
      /\ \A i \in 1 .. n - 1 : queue'[i] = queue[i + 1]
  BY <1>1, <1>2
<1>4. /\ P \in [0 .. n -> 0 .. sent] /\ P[n] = sent
      /\ \A i \in 1 .. n : P[i - 1] <= P[i] /\ queue[i] = SubSeq(Text, P[i - 1] + 1, P[i])
      /\ response_buffer = SubSeq(Text, 1, P[0])
  BY Zenon DEF CutAt
<1> HIDE DEF n
<1> DEFINE m == n - 1
           Q == [i \in 0 .. m |-> P[i + 1]]
<1>5. /\ m \in Nat /\ m \in 0 .. m /\ 0 \in 0 .. m /\ m + 1 = n /\ 0 + 1 = 1 /\ 1 - 1 = 0
      /\ 0 \in 0 .. n /\ 1 \in 0 .. n /\ 1 \in 1 .. n
      /\ \A i \in 0 .. m : i + 1 \in 0 .. n
      /\ \A i \in 1 .. m : i - 1 \in 0 .. m /\ i \in 0 .. m /\ i + 1 \in 1 .. n
                           /\ (i - 1) + 1 = (i + 1) - 1
  BY SMT, <1>3
<1> HIDE DEF m
<1>6. Q \in [0 .. m -> 0 .. sent] /\ \A i \in 0 .. m : Q[i] = P[i + 1]
  BY <1>4, <1>5, Zenon
<1> HIDE DEF Q
<1>7. BufferAfter(Head(queue)) = SubSeq(Text, 1, P[1])
  <2>1. queue[1] = SubSeq(Text, P[0] + 1, P[1]) /\ P[0] <= P[1]
    BY <1>4, <1>5, Zenon
  <2>2. P[0] \in 0 .. sent /\ P[1] \in 0 .. sent
    BY <1>4, <1>5, Zenon
  <2> DEFINE i == P[0]
             j == P[1]
  <2>3. i \in 0 .. Len(Text) /\ j \in 0 .. Len(Text)
    BY SMT, <1>2, <2>2
  <2>4. i <= j
    BY <2>1, Zenon
  <2> HIDE DEF i, j
  <2>5. SubSeq(Text, 1, i) \o SubSeq(Text, i + 1, j) = SubSeq(Text, 1, j)
    <3> DEFINE x == Text
    <3>1. x \in Seq(Char) /\ i \in 0 .. Len(x) /\ j \in 0 .. Len(x)
      BY <1>2, <2>3, Zenon
    <3> HIDE DEF x
    <3>2. SubSeq(x, 1, i) \o SubSeq(x, i + 1, j) = SubSeq(x, 1, j)
      BY <2>4, <3>1, Joined
    <3> QED
      BY <3>2, Zenon DEF x
  <2> QED
    BY <1>3, <1>4, <2>1, <2>5, Zenon DEF i, j, BufferAfter
<1>8. PICK R : R = Q
  OBVIOUS
<1>9. ASSUME NEW i \in 1 .. m
      PROVE  R[i - 1] <= R[i] /\ queue'[i] = SubSeq(Text, R[i - 1] + 1, R[i])
  <2>1. R[i - 1] = P[(i + 1) - 1] /\ R[i] = P[i + 1]
    BY <1>5, <1>6, <1>8, Zenon
  <2>2. queue'[i] = queue[i + 1]
    BY <1>3, Zenon DEF m
  <2>3. /\ P[(i + 1) - 1] <= P[i + 1]
        /\ queue[i + 1] = SubSeq(Text, P[(i + 1) - 1] + 1, P[i + 1])
    <3> DEFINE k == i + 1
    <3>1. k \in 1 .. n
      BY <1>5, Zenon
    <3> HIDE DEF k
    <3>2. P[k - 1] <= P[k] /\ queue[k] = SubSeq(Text, P[k - 1] + 1, P[k])
      BY <1>4, <3>1, Zenon
    <3> QED
      BY <3>2, Zenon DEF k
  <2> QED
    BY <2>1, <2>2, <2>3, Zenon
<1>10. CutAt(R)'
  <2>1. Len(queue') = m /\ sent' = sent /\ R[m] = sent /\ R[0] = P[1]
    BY <1>1, <1>3, <1>4, <1>5, <1>6, <1>8, Zenon DEF m
  <2>2. response_buffer' = SubSeq(Text', 1, R[0])
    BY <1>1, <1>7, <2>1, Zenon
  <2>3. /\ R \in [0 .. Len(queue') -> 0 .. sent'] /\ R[Len(queue')] = sent'
        /\ \A i \in 1 .. Len(queue') :
             R[i - 1] <= R[i] /\ queue'[i] = SubSeq(Text', R[i - 1] + 1, R[i])
    BY <1>1, <1>6, <1>8, <1>9, <2>1, Zenon
  <2> QED
    BY <2>2, <2>3 DEF CutAt
<1>11. P[1] \in 0 .. sent
  BY <1>4, <1>5, Zenon
<1> QED
  BY <1>1, <1>7, <1>10, <1>11, Zenon

(* At the start nothing has been sent.                                     *)
LEMMA InitReception == HttpInit => ReceptionInvariant
<1> SUFFICES ASSUME HttpInit PROVE ReceptionInvariant
  OBVIOUS
<1>1. HttpInvariant
  BY InitHttp
<1>2. /\ queue = <<>> /\ response_buffer = <<>> /\ sent = 0 /\ pc = "arguments"
      /\ report = Nothing /\ received_complete = FALSE
  BY DEF HttpInit, ClientInit, ServiceInit
<1>3. Unreceived
  BY <1>2 DEF Unreceived
<1>4. \E P : CutAt(P)
  <2> DEFINE P == [i \in 0 .. 0 |-> 0]
  <2>1. Text \in Seq(Char)
    BY <1>1, TextTyped DEF HttpInvariant, HttpTypeOK
  <2>2. SubSeq(Text, 1, 0) = <<>> /\ Len(queue) = 0
    BY <1>2, <2>1
  <2>3. P \in [0 .. 0 -> 0 .. 0] /\ P[0] = 0
    BY SMT
  <2>4. 1 .. 0 = {}
    BY SMT
  <2> HIDE DEF P
  <2>5. CutAt(P)
    BY <1>2, <2>2, <2>3, <2>4, Zenon DEF CutAt
  <2> QED
    BY <2>5, Zenon
<1>5. ReportIsAnswer /\ OutcomeIsAnswers
  BY <1>2 DEF ReportIsAnswer, OutcomeIsAnswers
<1> QED
  BY <1>1, <1>3, <1>4, <1>5, Zenon DEF ReceptionInvariant

(* Every step keeps it.                                                    *)
LEMMA StepReception ==
  ASSUME \A a \in Answer : WellFormed(a), ReceptionInvariant, [HttpNext]_httpVars
  PROVE  ReceptionInvariant'
<1>1. HttpInvariant /\ Unreceived /\ ReportIsAnswer /\ OutcomeIsAnswers
  BY DEF ReceptionInvariant
<1>2. PICK P : CutAt(P)
  BY DEF ReceptionInvariant
<1>3. HttpInvariant'
  BY <1>1, StepHttp
<1>4. answer \in Answer /\ WellFormed(answer) /\ sent \in 0 .. Len(Text) /\ Len(Text) \in Nat
      /\ Len(answer.body) \in Nat
  <2>1. answer \in Answer /\ sent \in 0 .. Len(Text)
    BY <1>1 DEF HttpInvariant, HttpTypeOK
  <2>2. Text \in Seq(Char)
    BY <2>1, TextTyped
  <2>3. answer.body \in Seq(Char)
    BY <2>1, AnswerAssumption
  <2> QED
    BY <2>1, <2>2, <2>3
<1>5. ReportIsAnswer <=> (report # Nothing => ReportTold(report))
  BY DEF ReportIsAnswer, ReportTold
<1>6. OutcomeIsAnswers <=>
        /\ pc = "aborted" =>
             \A m \in Numeral : ~ IsStatusLine(answer.line, m, From(answer.line, 5))
        /\ received_complete => sent >= Header
  BY DEF OutcomeIsAnswers, Header
<1>7. CASE ChunkTaken
  <2>1. (\E Q : CutAt(Q)') /\ UNCHANGED <<answer, sent>>
    BY <1>1, <1>2, <1>7, TakingCuts
  <2>2. PICK p \in 0 .. sent : BufferAfter(Head(queue)) = SubSeq(Text, 1, p)
    BY <1>1, <1>2, <1>7, TakingCuts
  <2> DEFINE response == parse_http_response[SubSeq(Text, 1, p)]
  <2>3. p \in 0 .. Len(Text)
    BY SMT, <1>4
  <2>4. /\ response.outcome \in {"parsed", "throws"} => p >= Header
        /\ response.outcome = "parsed" => ReportTold(response)
        /\ response.outcome = "throws" =>
             \A m \in Numeral : ~ IsStatusLine(answer.line, m, From(answer.line, 5))
    BY <1>4, <2>3, BeginningParsed
  <2>5. /\ pc = "wait_for_data"
        /\ CASE response.outcome = "parsed" ->
                  received_complete' = TRUE /\ report' = response /\ pc' = "get_close"
             [] response.outcome = "throws" ->
                  pc' = "aborted" /\ UNCHANGED <<received_complete, report>>
             [] OTHER -> UNCHANGED <<pc, received_complete, report>>
    <3>1. response = parse_http_response[BufferAfter(Head(queue))]
      BY <2>2, Zenon
    <3> HIDE DEF response
    <3> QED
      BY <1>7, <3>1 DEF ChunkTaken, ChunkReceived, Goto
  <2> HIDE DEF response
  <2>6. Header' = Header /\ (ReportTold(report)' <=> ReportTold(report'))
    BY <2>1 DEF Header, Text, ReportTold
  <2>7. p >= Header => sent' >= Header'
    <3>1. p >= Header => sent >= Header
      BY SMT, <1>4, <2>3 DEF Header
    <3> QED
      BY <2>1, <2>6, <3>1, Zenon
  <2>8. Unreceived'
    BY <2>5 DEF Unreceived, BeforeGet
  <2>9. ReportIsAnswer'
    <3>1. report' # Nothing => ReportTold(report')
      BY <1>1, <1>5, <2>4, <2>5
    <3> QED
      BY <2>6, <3>1 DEF ReportIsAnswer, ReportTold
  <2>10. OutcomeIsAnswers'
    <3>1. pc' = "aborted" =>
            \A m \in Numeral : ~ IsStatusLine(answer.line, m, From(answer.line, 5))
      BY <2>4, <2>5
    <3>2. received_complete' => sent' >= Header'
      BY <1>1, <1>6, <2>1, <2>4, <2>5, <2>6, <2>7
    <3> QED
      BY <2>1, <3>1, <3>2 DEF OutcomeIsAnswers, Header
  <2> QED
    BY <1>3, <2>1, <2>8, <2>9, <2>10 DEF ReceptionInvariant
<1>8. CASE ChunkArrives
  <2>1. (\E Q : CutAt(Q)') /\ sent <= sent' /\ UNCHANGED <<appVars, answer>>
    BY <1>1, <1>2, <1>8, ArrivalCuts
  <2>2. Unreceived' /\ ReportIsAnswer'
    BY <1>1, <2>1 DEF Unreceived, ReportIsAnswer, appVars
  <2>3. OutcomeIsAnswers'
    <3>1. Header' = Header /\ UNCHANGED <<pc, received_complete, answer>>
      BY <2>1 DEF Header, Text, appVars
    <3>2. Header \in Int /\ sent \in Int /\ sent' \in Int
      <4>1. sent' \in 0 .. Len(Text)'
        BY <1>3 DEF HttpInvariant, HttpTypeOK
      <4>2. Len(Text)' = Len(Text)
        BY <2>1 DEF Text
      <4> QED
        BY SMT, <1>4, <4>1, <4>2 DEF Header
    <3>3. sent >= Header => sent' >= Header
      BY SMT, <2>1, <3>2
    <3>4. received_complete' => sent' >= Header'
      BY <1>1, <1>6, <3>1, <3>3, Zenon
    <3> QED
      BY <1>1, <3>1, <3>4 DEF OutcomeIsAnswers, Header
  <2> QED
    BY <1>3, <2>1, <2>2, <2>3 DEF ReceptionInvariant
<1>9. CASE NothingMoves
  <2>1. /\ UNCHANGED <<response_buffer, received_complete, report, queue, answer, sent>>
        /\ pc' = "aborted" => pc = "aborted"
        /\ pc' \in BeforeGet => pc \in BeforeGet
    BY <1>9 DEF NothingMoves
  <2>2. CutAt(P)'
    BY <1>2, <2>1 DEF CutAt, Text
  <2>3. Unreceived'
    BY <1>1, <2>1 DEF Unreceived
  <2>4. ReportIsAnswer'
    BY <1>1, <2>1 DEF ReportIsAnswer
  <2>5. OutcomeIsAnswers'
    BY <1>1, <2>1 DEF OutcomeIsAnswers, Text
  <2> QED
    BY <1>3, <2>2, <2>3, <2>4, <2>5 DEF ReceptionInvariant
<1> QED
  BY <1>1, <1>7, <1>8, <1>9, WhatMoves

(* What is printed and handed to the callback is what the server sent,     *)
(* wherever the answer was cut into chunks and whenever a timeout struck.  *)
THEOREM ReportIsAnswerHolds ==
  ASSUME \A a \in Answer : WellFormed(a)
  PROVE  HttpSpec => []ReportIsAnswer
<1>1. ReceptionInvariant /\ [HttpNext]_httpVars => ReceptionInvariant'
  BY StepReception
<1>2. ReceptionInvariant => ReportIsAnswer
  BY DEF ReceptionInvariant
<1> QED
  BY <1>1, <1>2, InitReception, PTL DEF HttpSpec

(* The exception comes only from a status code that is no number, and an   *)
(* answer is never taken for complete before all of its header has come.   *)
THEOREM OutcomeIsAnswersHolds ==
  ASSUME \A a \in Answer : WellFormed(a)
  PROVE  HttpSpec => []OutcomeIsAnswers
<1>1. ReceptionInvariant /\ [HttpNext]_httpVars => ReceptionInvariant'
  BY StepReception
<1>2. ReceptionInvariant => OutcomeIsAnswers
  BY DEF ReceptionInvariant
<1> QED
  BY <1>1, <1>2, InitReception, PTL DEF HttpSpec

-----------------------------------------------------------------------------
(* The local file.                                                         *)

(* The calls of get in which the file is open.                             *)
InGet == {"connect", "wait_for_connection", "send_data", "wait_for_data"}

(* During get the local file is empty.                                     *)
Empty == pc \in InGet => file = <<>>

(* The invariant of the local file.                                        *)
FileInvariant == ReceptionInvariant /\ Empty /\ FileIsAnswer

(* Nothing is written to the file, and a connection that was not tried yet   *)
(* is tried only when the file has been emptied.                           *)
FileLeft ==
  /\ UNCHANGED <<file, answer>>
  /\ pc' \in InGet => pc \in InGet
  /\ file = OldContent /\ phase = "none" => phase' = "none"

(* Each step takes a chunk, leaves the file alone, or empties it.          *)
LEMMA WhatIsWritten ==
  ASSUME Empty, OldContent # <<>>, [HttpNext]_httpVars
  PROVE  \/ ChunkTaken
         \/ FileLeft
         \/ pc' = "connect" /\ file' = <<>> /\ UNCHANGED answer
<1> USE DEF FileLeft, originVars, serviceVars, Goto, InGet
<1>1. CASE ArgumentsCall
  BY <1>1 DEF ArgumentsCall, ArgumentsGiven
<1>2. CASE InitializeCall \/ WaitForConnectionCall \/ SendDataCall
  BY <1>2 DEF InitializeCall, WaitForConnectionCall, SendDataCall, Initialized,
              ConnectionAwaited, RequestSent, OnlyPc
<1>3. CASE CreateFileCall
  BY <1>3 DEF CreateFileCall, FileCreated
<1>4. CASE ConnectCall
  BY <1>4 DEF ConnectCall, Connected, Empty
<1>5. CASE WaitForDataCall
  BY <1>5 DEF WaitForDataCall, ChunkTaken, ReceiveTimedOut, OnlyPc
<1>6. CASE CloseCall
  <2>1. OnlyPc /\ pc' \in {"main_close", "client_close", "stack_close", "stop"}
    BY <1>6 DEF CloseCall, Closed
  <2>2. UNCHANGED originVars /\ (phase = "none" => phase' = "none")
    BY <1>6 DEF CloseCall
  <2> QED
    BY <2>1, <2>2 DEF OnlyPc
<1>7. CASE StopCall
  BY <1>7 DEF StopCall, StackStopped, OnlyPc
<1>8. CASE ChunkArrives \/ HandshakeCompletes \/ ServerCloses \/ CloseCompletes
  BY <1>8 DEF ChunkArrives, HandshakeCompletes, ServerCloses, CloseCompletes,
              Receive, Establish, Shut, Finish, appVars
<1>9. CASE UNCHANGED httpVars
  BY <1>9 DEF httpVars, appVars
<1> QED
  BY <1>1, <1>2, <1>3, <1>4, <1>5, <1>6, <1>7, <1>8, <1>9 DEF HttpNext, Main, Network

(* The beginning of any body.                                              *)
LEMMA EmptyBegins ==
  ASSUME NEW S, NEW y \in Seq(S)
  PROVE  IsPrefix(<<>>, y)
<1>1. Len(<<>>) = 0 /\ SubSeq(<<>>, 1, 0) = <<>>
  BY SMT
<1>2. SubSeq(y, 1, 0) = <<>> /\ 0 <= Len(y)
  BY SMT
<1> QED
  BY <1>1, <1>2, Zenon DEF IsPrefix

(* Every step keeps it: what is written is the body of the report.         *)
LEMMA StepFile ==
  ASSUME \A a \in Answer : WellFormed(a), OldContent \notin Seq(Char),
         FileInvariant, [HttpNext]_httpVars
  PROVE  FileInvariant'
<1>1. ReceptionInvariant /\ Empty /\ FileIsAnswer
  BY DEF FileInvariant
<1>2. ReceptionInvariant'
  BY <1>1, StepReception
<1>3. <<>> \in Seq(Char) /\ OldContent # <<>>
  <2>1. <<>> \in Seq(Char)
    OBVIOUS
  <2> QED
    BY <2>1, Zenon
<1>4. answer \in Answer /\ WellFormed(answer) /\ sent \in 0 .. Len(Text)
      /\ Len(Text) \in Nat /\ answer.body \in Seq(Char)
  <2>1. answer \in Answer /\ sent \in 0 .. Len(Text)
    BY <1>1 DEF ReceptionInvariant, HttpInvariant, HttpTypeOK
  <2>2. Text \in Seq(Char)
    BY <2>1, TextTyped
  <2>3. answer.body \in Seq(Char)
    BY <2>1, AnswerAssumption
  <2> QED
    BY <2>1, <2>2, <2>3
<1>5. ASSUME file' = <<>>, UNCHANGED answer PROVE FileIsAnswer'
  <2>1. IsPrefix(<<>>, answer.body)
    BY <1>4, EmptyBegins
  <2> QED
    BY <1>3, <1>5, <2>1 DEF FileIsAnswer
<1>6. CASE ChunkTaken
  <2>1. HttpInvariant /\ \E P : CutAt(P)
    BY <1>1 DEF ReceptionInvariant
  <2>2. PICK P : CutAt(P)
    BY <2>1
  <2>3. UNCHANGED <<answer, sent>>
    BY <1>6, <2>1, <2>2, TakingCuts
  <2>4. PICK p \in 0 .. sent : BufferAfter(Head(queue)) = SubSeq(Text, 1, p)
    BY <1>6, <2>1, <2>2, TakingCuts
  <2> DEFINE response == parse_http_response[SubSeq(Text, 1, p)]
  <2>5. p \in 0 .. Len(Text)
    BY SMT, <1>4
  <2>6. response.outcome = "parsed" =>
          ReportTold(response) /\ response.status_message = From(answer.line, 5)
    BY <1>4, <2>5, BeginningParsed
  <2>7. /\ pc = "wait_for_data"
        /\ CASE response.outcome = "parsed" ->
                  file' = FileAfter(response) /\ pc' = "get_close"
             [] response.outcome = "throws" -> pc' = "aborted" /\ UNCHANGED file
             [] OTHER -> UNCHANGED <<pc, file>>
    <3>1. response = parse_http_response[BufferAfter(Head(queue))]
      BY <2>4, Zenon
    <3> HIDE DEF response
    <3> QED
      BY <1>6, <3>1 DEF ChunkTaken, ChunkReceived, Goto
  <2>8. file = <<>>
    BY <1>1, <2>7 DEF Empty, InGet
  <2>9. response.outcome = "parsed" => response.body \in Seq(Char)
    <3>1. SubSeq(Text, 1, p) \in Seq(Char)
      <4>1. Text \in Seq(Char)
        BY <1>4, TextTyped
      <4>2. Begins(SubSeq(Text, 1, p), Text, p)
        BY <2>5, <4>1, BeginningIs, Zenon
      <4> QED
        BY <4>2, Zenon DEF Begins
    <3> QED
      BY <3>1, ParsedBody
  <2> HIDE DEF response
  <2>10. Empty'
    BY <2>7, <2>8 DEF Empty, InGet
  <2>11. CASE response.outcome = "parsed" /\ response.status_code = 200
    <3>1. file' = response.body
      <4>1. file' = <<>> \o response.body /\ response.body \in Seq(Char)
        BY <2>7, <2>8, <2>9, <2>11 DEF FileAfter
      <4> QED
        BY <4>1
    <3>2. PICK m \in Numeral : /\ response.status_code = ValueOf[m]
                               /\ IsStatusLine(answer.line, m, response.status_message)
      BY <2>6, <2>11, Zenon DEF ReportTold
    <3>3. /\ IsPrefix(file', answer.body)
          /\ ValueOf[m] = 200 /\ IsStatusLine(answer.line, m, From(answer.line, 5))
      BY <2>6, <2>11, <3>1, <3>2, Zenon DEF ReportTold
    <3>4. file' # OldContent
      BY <2>9, <2>11, <3>1, Zenon
    <3>5. FileIsAnswer'
      BY <2>3, <3>3, <3>4 DEF FileIsAnswer
    <3> QED
      BY <1>2, <2>10, <3>5, Zenon DEF FileInvariant
  <2>12. CASE ~ (response.outcome = "parsed" /\ response.status_code = 200)
    <3>1. file' = <<>>
      BY <2>7, <2>8, <2>12 DEF FileAfter
    <3>2. FileIsAnswer'
      BY <1>5, <2>3, <3>1
    <3> QED
      BY <1>2, <2>10, <3>2, Zenon DEF FileInvariant
  <2> QED
    BY <2>11, <2>12, Zenon
<1>7. CASE FileLeft
  <2>1. Empty'
    BY <1>1, <1>7 DEF Empty, FileLeft
  <2>2. FileIsAnswer'
    BY <1>1, <1>7 DEF FileIsAnswer, FileLeft
  <2> QED
    BY <1>2, <2>1, <2>2, Zenon DEF FileInvariant
<1>8. CASE pc' = "connect" /\ file' = <<>> /\ UNCHANGED answer
  <2>1. Empty' /\ FileIsAnswer'
    BY <1>5, <1>8 DEF Empty
  <2> QED
    BY <1>2, <2>1, Zenon DEF FileInvariant
<1> QED
  BY <1>1, <1>3, <1>6, <1>7, <1>8, WhatIsWritten

(* The local file never holds anything but its old content, nothing, or    *)
(* the beginning of the body of an answer with status 200; it keeps its    *)
(* old content only if no connection was tried.                            *)
THEOREM FileIsAnswerHolds ==
  ASSUME \A a \in Answer : WellFormed(a), OldContent \notin Seq(Char)
  PROVE  HttpSpec => []FileIsAnswer
<1>1. HttpInit => FileInvariant
  <2>1. HttpInit => Empty /\ FileIsAnswer
    BY DEF HttpInit, ClientInit, ServiceInit, Empty, InGet, FileIsAnswer
  <2> QED
    BY <2>1, InitReception DEF FileInvariant
<1>2. FileInvariant /\ [HttpNext]_httpVars => FileInvariant'
  BY StepFile
<1>3. FileInvariant => FileIsAnswer
  BY DEF FileInvariant
<1> QED
  BY <1>1, <1>2, <1>3, PTL DEF HttpSpec
=============================================================================

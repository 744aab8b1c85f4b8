----------------------------- MODULE FrameProofs -----------------------------
(***************************************************************************)
(* The invariants of FrameLink, for every segment whose datagram fits into   *)
(* 65535 bytes, every value of every header field, every options, padding    *)
(* and damage the constants allow.                                         *)
(*                                                                         *)
(* The argument reads bytes, so most of it is about them: what a sum of      *)
(* bytes is, and by how much it changes with one of them; that adding the    *)
(* carries computes the remainder modulo 65535 with 65535 for a positive     *)
(* multiple; that a word is read where it was written.  From these come what *)
(* the builders produce (SegmentAt, DatagramAt, Genuine, InjectedAt), what   *)
(* the parsers make of it (GenuineHanded), and why one changed byte of an IP  *)
(* header cannot verify (DamagedHeader): the sums differ, and by less than   *)
(* 65535.                                                                  *)
(*                                                                         *)
(* SumFunction and AddCarries are what the recursion of their definitions    *)
(* gives: FirstOrderInduction does the inductions.                          *)
(***************************************************************************)
EXTENDS FrameLink, FiniteSetTheorems, FirstOrderInduction

-----------------------------------------------------------------------------
(* Sums.                                                                   *)

(* A table of the partial sums over all subsets says what the sum is.      *)
LEMMA SumIs ==
  ASSUME NEW f, IsFiniteSet(DOMAIN f), NEW A \in [SUBSET DOMAIN f -> Int],
         A[{}] = 0,
         \A s \in SUBSET DOMAIN f : \A x \in s : A[s] = f[x] + A[s \ {x}]
  PROVE  SumFunction(f) = A[DOMAIN f]
<1> DEFINE D == DOMAIN f
           Some(s) == CHOOSE x \in s : TRUE
           Fits(iter) == iter = [s \in SUBSET DOMAIN f |->
                                  IF s = {} THEN 0
                                  ELSE f[CHOOSE x \in s : TRUE] + iter[s \ {CHOOSE x \in s : TRUE}]]
           iter == CHOOSE it : Fits(it)
<1>1. SumFunction(f) = iter[D]
  BY DEF SumFunction, SumFunctionOnSet, FoldFunctionOnSet, MapThenFoldSet
<1>2. Fits(A)
  <2>1. ASSUME NEW s \in SUBSET DOMAIN f, s # {}
        PROVE  A[s] = f[Some(s)] + A[s \ {Some(s)}]
    <3>1. Some(s) \in s
      BY <2>1
    <3> QED
      BY <3>1
  <2> QED
    BY <2>1
<1>3. Fits(iter)
  <2>1. \E it : Fits(it)
    BY <1>2
  <2> HIDE DEF Fits
  <2> QED
    BY <2>1, Zenon
<1> HIDE DEF iter
<1> DEFINE Same == {n \in Nat : \A s \in SUBSET D : Cardinality(s) = n => iter[s] = A[s]}
<1>4. \A s \in SUBSET D : IsFiniteSet(s) /\ Cardinality(s) \in Nat
  BY FS_Subset, FS_CardinalityType
<1>5. 0 \in Same
  <2>1. ASSUME NEW s \in SUBSET D, Cardinality(s) = 0 PROVE s = {}
    BY <1>4, <2>1, FS_EmptySet
  <2>2. iter[{}] = 0
    BY <1>3
  <2> QED
    BY <2>1, <2>2
<1>6. ASSUME NEW n \in Nat, n \in Same
      PROVE  n + 1 \in Same
  <2> SUFFICES ASSUME NEW s \in SUBSET D, Cardinality(s) = n + 1
               PROVE  iter[s] = A[s]
    OBVIOUS
  <2>0. Cardinality(s) = n + 1
    OBVIOUS
  <2>1. s # {}
    <3>1. Cardinality({}) = 0 /\ n + 1 # 0
      BY FS_EmptySet
    <3> QED
      BY <3>1, <2>0
  <2>2. PICK x \in s : iter[s] = f[x] + iter[s \ {x}]
    <3>1. Some(s) \in s
      BY <2>1
    <3>2. iter[s] = f[Some(s)] + iter[s \ {Some(s)}]
      BY <1>3, <2>1
    <3> HIDE DEF Some
    <3> QED
      BY <3>1, <3>2
  <2> DEFINE r == s \ {x}
  <2>3. Cardinality(r) = n /\ r \in SUBSET D
    <3>1. IsFiniteSet(s)
      BY <1>4
    <3>2. Cardinality(r) = Cardinality(s) - 1
      BY <3>1, FS_RemoveElement
    <3> QED
      BY <3>2, <2>0
  <2>4. iter[r] = A[r]
    BY <1>6, <2>3
  <2> QED
    BY <2>2, <2>4
<1>7. Cardinality(D) \in Same
  <2> HIDE DEF Same
  <2>1. Cardinality(D) \in Nat
    BY <1>4
  <2>2. 0 .. Cardinality(D) \subseteq Same
    BY <1>5, <1>6, <2>1, Induction
  <2> QED
    BY <2>1, <2>2
<1> QED
  BY <1>1, <1>7

(* g[k] is the sum of the first k values of f.                             *)
Running(f, n, g) ==
  /\ f \in [1 .. n -> Int] /\ g \in [0 .. n -> Int]
  /\ g[0] = 0 /\ \A k \in 1 .. n : g[k] = g[k - 1] + f[k]

LEMMA RunningExists ==
  ASSUME NEW n \in Nat, NEW S \in {Nat, Int}, NEW f \in [1 .. n -> S]
  PROVE  \E g \in [0 .. n -> S] : Running(f, n, g)
<1> DEFINE step == [k \in 1 .. n |-> [t \in S |-> t + f[k]]]
<1>1. step \in [1 .. n -> [S -> S]] /\ 0 \in S
  OBVIOUS
<1>2. PICK g \in [0 .. n -> S] : Follows(g, n, 0, step)
  <2> HIDE DEF step
  <2> QED
    BY <1>1, Recursion
<1>3. ASSUME NEW k \in 1 .. n PROVE g[k] = g[k - 1] + f[k]
  <2>1. k - 1 \in 0 .. n
    OBVIOUS
  <2>2. g[k] = step[k][g[k - 1]] /\ g[k - 1] \in S
    BY <1>2, <2>1 DEF Follows
  <2> QED
    BY <2>2
<1> QED
  BY <1>2, <1>3 DEF Running, Follows

(* Two sequences that differ in one place, at most.                        *)
Twins(u, v, n, x) == \A k \in 1 .. n : k # x => v[k] = u[k]

LEMMA RunningChange ==
  ASSUME NEW n \in Nat, NEW u, NEW v, NEW g, NEW h,
         Running(u, n, g), Running(v, n, h),
         NEW x \in 1 .. n, Twins(u, v, n, x)
  PROVE  h[n] = g[n] + (v[x] - u[x])
<1>0. /\ u \in [1 .. n -> Int] /\ v \in [1 .. n -> Int]
      /\ g \in [0 .. n -> Int] /\ h \in [0 .. n -> Int]
  BY DEF Running
<1> DEFINE Apart == {k \in 0 .. n : h[k] = g[k] + (IF k < x THEN 0 ELSE v[x] - u[x])}
<1>1. 0 \in Apart
  BY <1>0 DEF Running
<1>2. ASSUME NEW k \in 0 .. n - 1, k \in Apart PROVE k + 1 \in Apart
  <2>1. k + 1 \in 1 .. n /\ (k + 1) - 1 = k /\ k \in 0 .. n
    OBVIOUS
  <2>2. g[k + 1] = g[k] + u[k + 1] /\ h[k + 1] = h[k] + v[k + 1]
    BY <2>1 DEF Running
  <2>3. u[k + 1] \in Int /\ v[k + 1] \in Int /\ g[k] \in Int /\ h[k] \in Int
    BY <1>0, <2>1
  <2>4. h[k] = g[k] + (IF k < x THEN 0 ELSE v[x] - u[x])
    BY <1>2
  <2>5. h[k + 1] = g[k + 1] + (IF k + 1 < x THEN 0 ELSE v[x] - u[x])
    <3>1. CASE k + 1 = x
      <4>1. u[k + 1] = u[x] /\ v[k + 1] = v[x]
        BY <3>1
      <4>2. k < x /\ ~ (k + 1 < x)
        BY <3>1
      <4>3. h[k] = g[k]
        BY <2>4, <2>3, <4>2
      <4>4. h[k + 1] = g[k + 1] + (v[x] - u[x])
        BY <2>2, <2>3, <4>1, <4>3
      <4> QED
        BY <4>2, <4>4
    <3>2. CASE k + 1 # x
      <4>1. v[k + 1] = u[k + 1]
        BY <2>1, <3>2 DEF Twins
      <4>2. k < x <=> k + 1 < x
        BY <3>2
      <4>3. v[x] \in Int /\ u[x] \in Int
        BY <1>0
      <4>4. CASE k < x
        BY <2>2, <2>3, <2>4, <4>1, <4>2, <4>4
      <4>5. CASE ~ (k < x)
        <5>1. h[k] = g[k] + (v[x] - u[x])
          BY <2>4, <4>5
        <5> DEFINE d == v[x] - u[x]
                   e == u[k + 1]
                   p == g[k]
        <5>2. d \in Int /\ e \in Int /\ p \in Int
          BY <2>3, <4>3
        <5>3. h[k + 1] = (p + d) + e /\ g[k + 1] = p + e
          BY <2>2, <4>1, <5>1
        <5> HIDE DEF d, e, p
        <5>4. (p + d) + e = (p + e) + d
          BY <5>2
        <5>5. h[k + 1] = g[k + 1] + d
          BY <5>3, <5>4
        <5> QED
          BY <4>2, <4>5, <5>5 DEF d
      <4> QED
        BY <4>4, <4>5
    <3> QED
      BY <3>1, <3>2
  <2> QED
    BY <2>1, <2>5
<1>3. 0 .. n \subseteq Apart
  <2> HIDE DEF Apart
  <2> QED
    BY <1>1, <1>2, Induction
<1> QED
  BY <1>3

LEMMA RunningUnique ==
  ASSUME NEW n \in Nat, NEW u, NEW g, NEW h, Running(u, n, g), Running(u, n, h)
  PROVE  h[n] = g[n]
<1>1. CASE n = 0
  BY <1>1 DEF Running
<1>2. CASE n # 0
  <2>1. n \in 1 .. n
    BY <1>2
  <2>2. Twins(u, u, n, n)
    BY DEF Twins
  <2>3. h[n] = g[n] + (u[n] - u[n])
    BY <2>1, <2>2, RunningChange
  <2>4. u[n] \in Int /\ g[n] \in Int
    BY <2>1 DEF Running
  <2> QED
    BY <2>3, <2>4
<1> QED
  BY <1>1, <1>2

(* The sum of a sequence is the last of its running totals: A[s] is the      *)
(* last running total of f with the values outside s taken for 0.          *)
LEMMA SumRunning ==
  ASSUME NEW n \in Nat, NEW f, NEW g, Running(f, n, g)
  PROVE  SumFunction(f) = g[n]
<1> DEFINE D == 1 .. n
           R == [0 .. n -> Int]
           F == [s \in SUBSET D |-> [k \in D |-> IF k \in s THEN f[k] ELSE 0]]
           T == [s \in SUBSET D |-> CHOOSE h \in R : Running(F[s], n, h)]
           A == [s \in SUBSET D |-> T[s][n]]
<1>0. f \in [1 .. n -> Int] /\ g \in [0 .. n -> Int]
  BY DEF Running
<1>1. /\ F \in [SUBSET D -> [1 .. n -> Int]]
      /\ F[D] = f
      /\ \A k \in 1 .. n : F[{}][k] = 0
      /\ \A s \in SUBSET D : \A x \in s :
           /\ F[s][x] = f[x] /\ F[s \ {x}][x] = 0
           /\ Twins(F[s], F[s \ {x}], n, x)
  BY <1>0 DEF Twins
<1> HIDE DEF F
<1>2. ASSUME NEW s \in SUBSET D
      PROVE  Running(F[s], n, T[s])
  <2>1. \E h \in R : Running(F[s], n, h)
    BY <1>1, RunningExists
  <2> HIDE DEF R
  <2> QED
    BY <2>1
<1> HIDE DEF T
<1>3. A \in [SUBSET D -> Int]
  BY <1>2 DEF Running
<1>4. A[{}] = 0
  <2> DEFINE zero == [k \in 0 .. n |-> 0]
  <2>1. {} \in SUBSET D /\ zero \in [0 .. n -> Int] /\ zero[n] = 0
    OBVIOUS
  <2>2. Running(F[{}], n, zero)
    BY <1>1, <2>1 DEF Running
  <2>3. Running(F[{}], n, T[{}])
    BY <1>2, <2>1
  <2> HIDE DEF zero
  <2>4. T[{}][n] = zero[n]
    BY <2>2, <2>3, RunningUnique
  <2> QED
    BY <2>1, <2>4
<1>5. A[D] = g[n]
  <2>1. D \in SUBSET D
    OBVIOUS
  <2>2. Running(f, n, T[D])
    BY <1>1, <1>2, <2>1
  <2>3. T[D][n] = g[n]
    BY <2>2, RunningUnique
  <2> QED
    BY <2>1, <2>3
<1>6. ASSUME NEW s \in SUBSET D, NEW x \in s
      PROVE  A[s] = f[x] + A[s \ {x}]
  <2> DEFINE r == s \ {x}
  <2>1. r \in SUBSET D /\ x \in 1 .. n /\ f[x] \in Int
    BY <1>0
  <2>2. F[s][x] = f[x] /\ F[r][x] = 0 /\ Twins(F[s], F[r], n, x)
    BY <1>1, <2>1
  <2> HIDE DEF r
  <2>3. Running(F[s], n, T[s]) /\ Running(F[r], n, T[r])
    BY <1>2, <2>1
  <2>4. T[r][n] = T[s][n] + (F[r][x] - F[s][x])
    BY <2>1, <2>2, <2>3, RunningChange
  <2>5. A[s] \in Int /\ A[r] \in Int /\ A[s] = T[s][n] /\ A[r] = T[r][n]
    BY <1>3, <2>1
  <2>6. A[r] = A[s] + (0 - f[x])
    BY <2>2, <2>4, <2>5
  <2> HIDE DEF A
  <2>7. A[s] = f[x] + A[r]
    BY <2>1, <2>5, <2>6
  <2> QED
    BY <2>7 DEF r
<1> HIDE DEF A
<1>7. DOMAIN f = D /\ IsFiniteSet(D)
  BY <1>0, FS_Interval
<1>8. SumFunction(f) = A[D]
  <2>1. A \in [SUBSET DOMAIN f -> Int] /\ IsFiniteSet(DOMAIN f)
    BY <1>3, <1>7
  <2>2. \A s \in SUBSET DOMAIN f : \A x \in s : A[s] = f[x] + A[s \ {x}]
    BY <1>6, <1>7
  <2> HIDE DEF D
  <2>3. SumFunction(f) = A[DOMAIN f]
    BY <1>4, <2>1, <2>2, SumIs, Zenon
  <2> QED
    BY <1>7, <2>3
<1> QED
  BY <1>5, <1>8

-----------------------------------------------------------------------------
(* The sums of words.                                                      *)

Weight(b, i) == IF i % 2 = 1 THEN 256 * b[i] ELSE b[i]
Weights(b) == [i \in 1 .. Len(b) |-> Weight(b, i)]

LEMMA ByteAt ==
  ASSUME NEW b \in Seq(Octet), NEW i \in 1 .. Len(b)
  PROVE  b[i] \in Octet /\ b[i] \in Nat /\ b[i] \in Int /\ b[i] <= 255
<1>1. b[i] \in Octet
  OBVIOUS
<1> DEFINE x == b[i]
<1> HIDE DEF x
<1>2. x \in Octet => x \in Nat /\ x \in Int /\ x <= 255
  BY DEF Octet
<1> QED
  BY <1>1, <1>2 DEF x

LEMMA WeightType ==
  ASSUME NEW b \in Seq(Octet), NEW i \in 1 .. Len(b)
  PROVE  Weight(b, i) \in Nat /\ Weight(b, i) \in Int
<1> DEFINE x == b[i]
<1>1. x \in Nat
  BY ByteAt
<1> HIDE DEF x
<1>2. 256 * x \in Nat
  BY <1>1
<1> QED
  BY <1>1, <1>2 DEF Weight, x

LEMMA WeightsType ==
  ASSUME NEW b \in Seq(Octet)
  PROVE  Weights(b) \in [1 .. Len(b) -> Nat] /\ Weights(b) \in [1 .. Len(b) -> Int]
  BY WeightType DEF Weights

LEMMA WordSumIs ==
  ASSUME NEW b \in Seq(Octet), NEW g, Running(Weights(b), Len(b), g)
  PROVE  WordSum(b) = g[Len(b)]
<1>1. DOMAIN b = 1 .. Len(b) /\ Len(b) \in Nat
  OBVIOUS
<1>2. WordSum(b) = SumFunction(Weights(b))
  BY <1>1 DEF WordSum, Weights, Weight
<1>3. SumFunction(Weights(b)) = g[Len(b)]
  BY <1>1, SumRunning
<1> QED
  BY <1>2, <1>3

LEMMA WordSumRuns ==
  ASSUME NEW b \in Seq(Octet)
  PROVE  /\ WordSum(b) \in Nat
         /\ \E g \in [0 .. Len(b) -> Nat] :
              Running(Weights(b), Len(b), g) /\ WordSum(b) = g[Len(b)]
<1>1. PICK g \in [0 .. Len(b) -> Nat] : Running(Weights(b), Len(b), g)
  BY WeightsType, RunningExists
<1>2. WordSum(b) = g[Len(b)]
  BY <1>1, WordSumIs
<1>3. Len(b) \in 0 .. Len(b)
  OBVIOUS
<1> QED
  BY <1>1, <1>2, <1>3

(* One byte changes.                                                       *)
LEMMA WordSumChange ==
  ASSUME NEW b \in Seq(Octet), NEW c \in Seq(Octet), NEW i \in 1 .. Len(b),
         Len(c) = Len(b), \A k \in 1 .. Len(b) : k # i => c[k] = b[k]
  PROVE  WordSum(c) = WordSum(b) + (Weight(c, i) - Weight(b, i))
<1> DEFINE n == Len(b)
<1>1. n \in Nat
  OBVIOUS
<1>2. PICK g \in [0 .. n -> Nat] : Running(Weights(b), n, g) /\ WordSum(b) = g[n]
  BY WordSumRuns
<1>3. PICK h \in [0 .. n -> Nat] : Running(Weights(c), n, h) /\ WordSum(c) = h[n]
  BY WordSumRuns
<1>4. Twins(Weights(b), Weights(c), n, i)
  BY DEF Twins, Weights, Weight
<1>5. h[n] = g[n] + (Weights(c)[i] - Weights(b)[i])
  BY <1>1, <1>2, <1>3, <1>4, RunningChange
<1> QED
  BY <1>2, <1>3, <1>5 DEF Weights

LEMMA ConcatBytes ==
  ASSUME NEW b \in Seq(Octet), NEW c \in Seq(Octet)
  PROVE  /\ b \o c \in Seq(Octet)
         /\ Len(b) \in Nat /\ Len(c) \in Nat /\ Len(b \o c) = Len(b) + Len(c)
         /\ \A i \in 1 .. Len(b) + Len(c) :
              (b \o c)[i] = IF i <= Len(b) THEN b[i] ELSE c[i - Len(b)]
<1>1. Len(b) \in Nat /\ Len(c) \in Nat
  OBVIOUS
<1> QED
  BY <1>1, ConcatProperties, Zenon

(* A part of even length comes first.                                      *)
LEMMA WordSumConcat ==
  ASSUME NEW b \in Seq(Octet), NEW c \in Seq(Octet), Len(b) % 2 = 0
  PROVE  /\ b \o c \in Seq(Octet)
         /\ WordSum(b \o c) = WordSum(b) + WordSum(c)
<1> DEFINE m == Len(b)
           n == Len(c)
           d == b \o c
<1>1. /\ m \in Nat /\ n \in Nat /\ d \in Seq(Octet) /\ Len(d) = m + n
      /\ \A i \in 1 .. m + n : d[i] = IF i <= m THEN b[i] ELSE c[i - m]
  BY ConcatBytes, Zenon
<1>2. PICK g \in [0 .. m -> Nat] : Running(Weights(b), m, g) /\ WordSum(b) = g[m]
  BY WordSumRuns
<1>3. PICK h \in [0 .. n -> Nat] : Running(Weights(c), n, h) /\ WordSum(c) = h[n]
  BY WordSumRuns
<1> DEFINE r == [k \in 0 .. m + n |-> IF k <= m THEN g[k] ELSE g[m] + h[k - m]]
<1>0. m % 2 = 0
  OBVIOUS
<1> HIDE DEF d, m, n
<1>4. g[m] \in Nat /\ h[0] = 0 /\ r \in [0 .. m + n -> Int]
  <2>1. g[m] \in Nat /\ h[0] = 0
    BY <1>1, <1>2, <1>3 DEF Running
  <2>2. ASSUME NEW k \in 0 .. m + n PROVE r[k] \in Int
    <3>1. CASE k <= m
      <4>1. k \in 0 .. m /\ g[k] \in Nat
        BY <1>1, <3>1
      <4> QED
        BY <3>1, <4>1
    <3>2. CASE k > m
      <4>1. k - m \in 0 .. n
        BY <1>1, <3>2
      <4>2. h[k - m] \in Nat
        BY <4>1
      <4>3. r[k] = g[m] + h[k - m]
        BY <1>1, <3>2
      <4> HIDE DEF r
      <4> QED
        BY <2>1, <4>2, <4>3
    <3> QED
      BY <1>1, <3>1, <3>2
  <2>3. r = [k \in 0 .. m + n |-> r[k]]
    OBVIOUS
  <2> HIDE DEF r
  <2> QED
    BY <2>1, <2>2, <2>3
<1>5. \A k \in 0 .. m : r[k] = g[k]
  BY <1>1
<1>6. \A k \in m .. m + n : r[k] = g[m] + h[k - m]
  BY <1>1, <1>4
<1> HIDE DEF r
<1>7. ASSUME NEW k \in 1 .. m + n
      PROVE  r[k] = r[k - 1] + Weights(d)[k]
  <2>1. k \in 1 .. Len(d) /\ Weights(d)[k] = Weight(d, k)
    BY <1>1 DEF Weights
  <2>2. CASE k <= m
    <3>1. k \in 1 .. m /\ k \in 0 .. m /\ k - 1 \in 0 .. m
      BY <1>1, <2>2
    <3>2. d[k] = b[k]
      BY <1>1, <2>2
    <3>3. Weights(b)[k] = Weight(d, k)
      BY <3>1, <3>2 DEF Weights, Weight, m
    <3>4. g[k] = g[k - 1] + Weights(b)[k]
      BY <1>2, <3>1 DEF Running
    <3> QED
      BY <1>5, <2>1, <3>1, <3>3, <3>4
  <2>3. CASE k > m
    <3> DEFINE j == k - m
    <3>1. /\ j \in 1 .. n /\ j \in 0 .. n /\ j - 1 \in 0 .. n
          /\ k - 1 \in m .. m + n /\ k \in m .. m + n /\ (k - 1) - m = j - 1
      BY <1>1, <2>3
    <3>2. d[k] = c[j]
      BY <1>1, <2>3
    <3>3. k % 2 = 1 <=> j % 2 = 1
      <4>1. PICK q \in Int : m = 2 * q
        BY <1>0, <1>1
      <4> QED
        BY <4>1
    <3>4. Weights(c)[j] = Weight(d, k)
      BY <3>1, <3>2, <3>3 DEF Weights, Weight, n
    <3>5. h[j] = h[j - 1] + Weights(c)[j]
      BY <1>3, <3>1 DEF Running
    <3>6. r[k] = g[m] + h[j] /\ r[k - 1] = g[m] + h[j - 1]
      BY <1>6, <3>1
    <3>7. h[j - 1] \in Nat /\ h[j] \in Nat
      BY <3>1
    <3>8. Weight(d, k) \in Int
      BY <1>1, <2>1, WeightType
    <3> HIDE DEF j
    <3> QED
      BY <1>4, <2>1, <3>4, <3>5, <3>6, <3>7, <3>8
  <2> QED
    BY <1>1, <2>2, <2>3
<1>8. r[0] = 0
  BY <1>1, <1>2, <1>5 DEF Running
<1>9. Running(Weights(d), Len(d), r)
  BY <1>1, <1>4, <1>7, <1>8, WeightsType DEF Running
<1>10. WordSum(d) = r[m + n]
  BY <1>1, <1>9, WordSumIs
<1>11. r[m + n] = g[m] + h[n]
  BY <1>1, <1>6
<1> QED
  BY <1>1, <1>2, <1>3, <1>10, <1>11 DEF d

(* RFC 1071 adds words, the code adds bytes with their weights.             *)
LEMMA SumOfWordsIs ==
  ASSUME NEW b \in Seq(Octet)
  PROVE  SumOfWords(b) = WordSum(b)
<1> DEFINE n == Len(b)
           m == (n + 1) \div 2
           at(k) == IF 2 * k <= n THEN 2 * k ELSE n
           f == [k \in 1 .. m |-> 256 * b[2 * k - 1] + (IF 2 * k <= n THEN b[2 * k] ELSE 0)]
<1>1. n \in Nat /\ m \in Nat /\ 2 * m >= n /\ 2 * m <= n + 1
  OBVIOUS
<1>2. PICK g \in [0 .. n -> Nat] : Running(Weights(b), n, g) /\ WordSum(b) = g[n]
  BY WordSumRuns
<1> DEFINE r == [k \in 0 .. m |-> g[at(k)]]
<1>3. r \in [0 .. m -> Int] /\ \A k \in 0 .. m : at(k) \in 0 .. n
  BY <1>1
<1>4. ASSUME NEW k \in 1 .. m
      PROVE  f[k] \in Int /\ r[k] = r[k - 1] + f[k]
  <2>1. 2 * k - 1 \in 1 .. n /\ k - 1 \in 0 .. m /\ at(k - 1) = 2 * k - 2 /\ k \in 0 .. m
    BY <1>1
  <2>2. (2 * k - 1) % 2 = 1 /\ (2 * k) % 2 = 0 /\ (2 * k - 1) - 1 = 2 * k - 2
    OBVIOUS
  <2>3. b[2 * k - 1] \in Nat /\ g[2 * k - 2] \in Nat
    <3>1. 2 * k - 2 \in 0 .. n
      BY <1>1, <2>1
    <3> QED
      BY <2>1, <3>1, ByteAt
  <2>4. g[2 * k - 1] = g[2 * k - 2] + 256 * b[2 * k - 1]
    <3>1. Weights(b)[2 * k - 1] = 256 * b[2 * k - 1]
      BY <2>1, <2>2 DEF Weights, Weight
    <3> QED
      BY <1>2, <2>1, <2>2, <3>1 DEF Running
  <2>5. r[k] = g[at(k)] /\ r[k - 1] = g[2 * k - 2]
    BY <2>1
  <2>6. CASE 2 * k <= n
    <3>1. 2 * k \in 1 .. n /\ at(k) = 2 * k /\ 2 * k - 1 = (2 * k) - 1
      BY <2>6
    <3>2. Weights(b)[2 * k] = b[2 * k] /\ b[2 * k] \in Nat
      BY <2>2, <3>1, ByteAt DEF Weights, Weight
    <3>3. g[2 * k] = g[2 * k - 1] + b[2 * k]
      BY <1>2, <3>1, <3>2 DEF Running
    <3>4. f[k] = 256 * b[2 * k - 1] + b[2 * k]
      BY <2>6
    <3> HIDE DEF f, r
    <3>5. r[k] = (r[k - 1] + 256 * b[2 * k - 1]) + b[2 * k]
      BY <2>4, <2>5, <3>1, <3>3
    <3> DEFINE p == b[2 * k - 1]
               q == b[2 * k]
               s == r[k - 1]
    <3>6. p \in Nat /\ q \in Nat /\ s \in Nat
      BY <2>3, <2>5, <3>2
    <3> HIDE DEF p, q, s
    <3>7. r[k] = (s + 256 * p) + q /\ f[k] = 256 * p + q
      BY <3>4, <3>5 DEF p, q, s
    <3>8. f[k] \in Int /\ r[k] = s + f[k]
      BY <3>6, <3>7
    <3> QED
      BY <3>8 DEF s
  <2>7. CASE ~ (2 * k <= n)
    <3>1. at(k) = n /\ n = 2 * k - 1
      BY <1>1, <2>1, <2>7
    <3>2. f[k] = 256 * b[2 * k - 1] + 0
      BY <2>7
    <3>3. r[k] = g[2 * k - 1]
      BY <2>5, <3>1
    <3> HIDE DEF f, r
    <3> DEFINE p == b[2 * k - 1]
               s == r[k - 1]
    <3>6. p \in Nat /\ s \in Nat
      BY <2>3, <2>5
    <3>7. r[k] = s + 256 * p /\ f[k] = 256 * p + 0
      BY <2>4, <2>5, <3>2, <3>3
    <3> HIDE DEF p, s
    <3>8. f[k] \in Int /\ r[k] = s + f[k]
      BY <3>6, <3>7
    <3> QED
      BY <3>8 DEF s
  <2> QED
    BY <2>6, <2>7
<1>5. r[0] = 0 /\ r[m] = g[n]
  <2>1. at(0) = 0 /\ at(m) = n /\ 0 \in 0 .. m /\ m \in 0 .. m
    BY <1>1
  <2> QED
    BY <1>2, <2>1 DEF Running
<1>6. f \in [1 .. m -> Int]
  <2>1. f = [k \in 1 .. m |-> f[k]]
    OBVIOUS
  <2> HIDE DEF f
  <2> QED
    BY <1>4, <2>1
<1>7. SumOfWords(b) = SumFunction(f)
  BY DEF SumOfWords
<1> HIDE DEF f, r, m
<1>8. Running(f, m, r)
  BY <1>3, <1>4, <1>5, <1>6 DEF Running
<1>9. SumFunction(f) = r[m]
  BY <1>1, <1>8, SumRunning
<1> QED
  BY <1>2, <1>5, <1>7, <1>9

-----------------------------------------------------------------------------
(* The checksum.                                                           *)

LEMMA WordIs ==
  ASSUME NEW w
  PROVE  w \in Word <=> w \in Int /\ 0 <= w /\ w <= 65535
<1> DEFINE q == 65535
<1>1. q = 65535
  BY SMT
<1>2. Word = 0 .. q
  BY SMT DEF Word
<1> HIDE DEF q
<1>3. q \in Int
  BY SMT, <1>1
<1>4. w \in Word <=> w \in Int /\ 0 <= w /\ w <= q
  BY SMT, <1>2, <1>3
<1> QED
  BY SMT, <1>4 DEF q

LEMMA Divided ==
  ASSUME NEW m \in Nat \ {0}, NEW n \in Int
  PROVE  /\ n % m \in Int /\ 0 <= n % m /\ n % m < m
         /\ n \div m \in Int /\ n = m * (n \div m) + (n % m)
  BY SMT, DivMod

LEMMA Remainder ==
  ASSUME NEW m \in Nat \ {0}, NEW n \in Int, NEW q \in Int, NEW r \in Int,
         0 <= r, r < m, n = m * q + r
  PROVE  n % m = r
<1>1. r \in 0 .. m - 1
  BY SMT
<1> QED
  BY SMT, <1>1, ModIs

(* Adding the carries leaves a number from 1 to 65535 that is congruent.    *)
Folded(n) == IF n = 0 THEN 0 ELSE ((n - 1) % 65535) + 1

LEMMA FoldedStep ==
  ASSUME NEW n \in Nat
  PROVE  /\ n < 65536 => Folded(n) = n
         /\ ~ (n < 65536) =>
              LET j == (n % 65536) + (n \div 65536)
              IN j \in Nat /\ j < n /\ Folded(j) = Folded(n)
<1>1. CASE n < 65536
  <2>1. n # 0 => (n - 1) % 65535 = n - 1
    BY SMT, <1>1
  <2> QED
    BY SMT, <1>1, <2>1 DEF Folded
<1>2. CASE ~ (n < 65536)
  <2> DEFINE q == n \div 65536
             r == n % 65536
             k == r + q - 1
             p == k \div 65535
             t == k % 65535
  <2>1. q \in Int /\ r \in Int /\ 0 <= r /\ n = 65536 * q + r /\ q >= 1
    BY SMT, <1>2, Divided
  <2> HIDE DEF q, r
  <2>2. k \in Nat /\ r + q \in Nat /\ r + q # 0 /\ r + q < n /\ k = r + q - 1
    BY SMT, <2>1
  <2> HIDE DEF k
  <2>3. p \in Int /\ t \in Int /\ 0 <= t /\ t < 65535 /\ k = 65535 * p + t
    <3>1. k \in Int
      BY SMT, <2>2
    <3> QED
      BY SMT, <3>1, Divided
  <2> HIDE DEF p, t
  <2>4. n - 1 = 65535 * (p + q) + t /\ p + q \in Int /\ n - 1 \in Int
    BY SMT, <2>1, <2>2, <2>3
  <2>5. (n - 1) % 65535 = t
    BY SMT, <2>3, <2>4, Remainder
  <2>6. Folded(r + q) = t + 1
    <3> DEFINE s == r + q
    <3>1. s # 0 /\ s - 1 = k
      BY SMT, <2>1, <2>2
    <3> HIDE DEF s
    <3>2. Folded(s) = t + 1
      BY SMT, <3>1 DEF Folded, t
    <3> QED
      BY SMT, <3>2 DEF s
  <2>7. Folded(n) = t + 1
    BY SMT, <1>2, <2>5 DEF Folded
  <2> QED
    BY SMT, <1>2, <2>2, <2>6, <2>7 DEF q, r
<1> QED
  BY SMT, <1>1, <1>2

LEMMA AddCarriesIs ==
  ASSUME NEW n \in Nat
  PROVE  AddCarries[n] = Folded(n)
<1> DEFINE Step(f, k) == IF k < 65536 THEN k ELSE f[(k % 65536) + (k \div 65536)]
           Fits(f) == f = [k \in Nat |-> Step(f, k)]
           closed == [k \in Nat |-> Folded(k)]
<1>1. Fits(closed)
  <2>1. ASSUME NEW k \in Nat PROVE closed[k] = Step(closed, k)
    BY SMT, FoldedStep
  <2> HIDE DEF Step
  <2>2. closed = [k \in Nat |-> closed[k]]
    BY SMT
  <2> HIDE DEF closed
  <2> QED
    BY SMT, <2>1, <2>2
<1>2. AddCarries = CHOOSE f : Fits(f)
  BY SMT DEF AddCarries
<1>3. Fits(AddCarries)
  <2> HIDE DEF Fits
  <2> QED
    BY <1>1, <1>2, Zenon
<1>4. \A k \in Nat : AddCarries[k] = Step(AddCarries, k)
  <2> HIDE DEF Step
  <2> QED
    BY SMT, <1>3
<1> DEFINE Bad == {k \in Nat : AddCarries[k] # Folded(k)}
<1> SUFFICES ASSUME Bad # {} PROVE FALSE
  BY SMT
<1>5. PICK k \in Bad : \A j \in Bad : k <= j
  <2>1. Bad \in SUBSET Nat /\ Bad # {}
    BY SMT
  <2> HIDE DEF Bad
  <2> QED
    BY SMT, <2>1, LeastNumber
<1>6. CASE k < 65536
  BY SMT, <1>4, <1>5, <1>6, FoldedStep
<1>7. CASE ~ (k < 65536)
  <2> DEFINE j == (k % 65536) + (k \div 65536)
  <2>1. k \in Nat /\ AddCarries[k] = AddCarries[j]
    BY SMT, <1>4, <1>5, <1>7
  <2>2. j \in Nat /\ j < k /\ Folded(j) = Folded(k)
    BY SMT, <1>5, <1>7, FoldedStep
  <2> HIDE DEF j
  <2>3. j \in Nat /\ j \notin Bad
    BY SMT, <1>5, <2>1, <2>2
  <2>4. AddCarries[j] = Folded(j)
    BY SMT, <2>3
  <2>5. AddCarries[k] # Folded(k)
    BY SMT, <1>5
  <2> QED
    BY SMT, <2>1, <2>2, <2>4, <2>5
<1> QED
  BY SMT, <1>6, <1>7

(* A sum with its checksum is a multiple of 65535, and the checksum is the    *)
(* word that makes it one.                                                 *)
LEMMA ChecksumCompletes ==
  ASSUME NEW n \in Nat
  PROVE  /\ Checksum(n) \in Word /\ Checksum(n) \in Nat
         /\ (n + Checksum(n)) % 65535 = 0
         /\ n > 0 => Checksum(n) = Completing(n)
<1>1. CASE n = 0
  <2>1. AddCarries[n] = 0
    BY SMT, <1>1, AddCarriesIs DEF Folded
  <2>2. Checksum(n) = 65535
    BY SMT, <2>1 DEF Checksum
  <2> QED
    BY SMT, <1>1, <2>2, WordIs
<1>2. CASE n # 0
  <2> DEFINE k == n - 1
             q == k \div 65535
             r == k % 65535
  <2>1. k \in Int
    BY SMT
  <2>2. q \in Int /\ r \in Int /\ 0 <= r /\ r < 65535 /\ k = 65535 * q + r
    BY SMT, <2>1, Divided
  <2>3. Checksum(n) = 65535 - (r + 1)
    BY SMT, <1>2, AddCarriesIs DEF Folded, Checksum
  <2>4. n = k + 1
    BY SMT
  <2> HIDE DEF q, r, k
  <2>5. Checksum(n) \in Int /\ 0 <= Checksum(n) /\ Checksum(n) <= 65535
    BY SMT, <2>2, <2>3
  <2>6. n + Checksum(n) = 65535 * (q + 1) + 0 /\ n + Checksum(n) \in Int /\ q + 1 \in Int
    BY SMT, <2>1, <2>2, <2>3, <2>4
  <2>7. (n + Checksum(n)) % 65535 = 0
    BY SMT, <2>6, Remainder
  <2>8. Checksum(n) = Completing(n)
    <3>1. CASE r = 65534
      <4>1. n = 65535 * (q + 1) + 0 /\ q + 1 \in Int /\ Checksum(n) = 0
        BY SMT, <2>1, <2>2, <2>3, <2>4, <3>1
      <4>2. n % 65535 = 0
        BY SMT, <4>1, Remainder
      <4> QED
        BY SMT, <4>1, <4>2 DEF Completing
    <3>2. CASE r # 65534
      <4> DEFINE s == r + 1
      <4>1. /\ n = 65535 * q + s /\ s \in Int /\ 0 <= s /\ s < 65535 /\ s # 0
            /\ Checksum(n) = 65535 - s
        BY SMT, <2>1, <2>2, <2>3, <2>4, <3>2
      <4> HIDE DEF s
      <4>2. n % 65535 = s
        BY SMT, <2>2, <4>1, Remainder
      <4> QED
        BY SMT, <4>1, <4>2 DEF Completing
    <3> QED
      BY SMT, <3>1, <3>2
  <2> QED
    BY SMT, <2>5, <2>7, <2>8, WordIs
<1> QED
  BY SMT, <1>1, <1>2

(* Two sums with the same checksum are not 1 to 65534 apart.                *)
LEMMA ChecksumTells ==
  ASSUME NEW m \in Nat, NEW n \in Nat, Checksum(m) = Checksum(n),
         -65535 < m - n, m - n < 65535
  PROVE  m = n
<1> DEFINE c == Checksum(m)
<1>1. c \in Nat /\ (m + c) % 65535 = 0 /\ (n + c) % 65535 = 0
  BY SMT, ChecksumCompletes
<1> HIDE DEF c
<1> DEFINE x == m + c
           y == n + c
           p == x \div 65535
           q == y \div 65535
<1>2. x \in Int /\ y \in Int /\ x - y = m - n
  BY SMT, <1>1
<1>3. x % 65535 = 0 /\ y % 65535 = 0
  BY SMT, <1>1
<1> HIDE DEF x, y
<1>4. p \in Int /\ q \in Int /\ x = 65535 * p + 0 /\ y = 65535 * q + 0
  BY SMT, <1>2, <1>3, Divided
<1> HIDE DEF p, q
<1>5. m - n = 65535 * (p - q)
  BY SMT, <1>2, <1>4
<1> QED
  BY SMT, <1>4, <1>5

-----------------------------------------------------------------------------
(* Bytes and words.                                                        *)

LEMMA OctetIs ==
  ASSUME NEW x
  PROVE  x \in Octet <=> x \in Int /\ 0 <= x /\ x <= 255
<1> DEFINE q == 255
<1>1. q \in Int
  BY SMT
<1>2. Octet = 0 .. q
  BY SMT DEF Octet
<1> HIDE DEF q
<1>3. x \in Octet <=> x \in Int /\ 0 <= x /\ x <= q
  BY SMT, <1>1, <1>2
<1> QED
  BY SMT, <1>3 DEF q

LEMMA Halves ==
  ASSUME NEW w \in Word
  PROVE  /\ w \in Int /\ 0 <= w /\ w <= 65535
         /\ w \div 256 \in Octet /\ w % 256 \in Octet
         /\ w \div 256 \in Int /\ w % 256 \in Int /\ 0 <= w % 256 /\ w % 256 < 256
         /\ 256 * (w \div 256) + (w % 256) = w
<1> DEFINE q == w \div 256
           r == w % 256
<1>1. w \in Int /\ 0 <= w /\ w <= 65535
  BY SMT, WordIs
<1>2. q \in Int /\ r \in Int /\ 0 <= r /\ r < 256 /\ w = 256 * q + r
  BY SMT, <1>1, Divided
<1> HIDE DEF q, r
<1>3. 0 <= q /\ q <= 255
  BY SMT, <1>1, <1>2
<1>4. q \in Octet /\ r \in Octet
  BY SMT, <1>2, <1>3, OctetIs
<1> QED
  BY SMT, <1>1, <1>2, <1>4 DEF q, r

LEMMA Joined ==
  ASSUME NEW x \in Octet, NEW y \in Octet
  PROVE  /\ 256 * x + y \in Word /\ 256 * x + y \in Int
         /\ (256 * x + y) \div 256 = x /\ (256 * x + y) % 256 = y
<1>1. x \in Int /\ 0 <= x /\ x <= 255 /\ y \in Int /\ 0 <= y /\ y <= 255
  BY SMT, OctetIs
<1>2. 256 * x + y \in Int /\ 0 <= 256 * x + y /\ 256 * x + y <= 65535
  BY SMT, <1>1
<1>3. (256 * x + y) \div 256 = x /\ (256 * x + y) % 256 = y
  BY SMT, <1>1
<1> QED
  BY SMT, <1>2, <1>3, WordIs

LEMMA WordAtType ==
  ASSUME NEW b \in Seq(Octet), NEW i \in 1 .. Len(b) - 1
  PROVE  WordAt(b, i) \in Word /\ WordAt(b, i) \in Int
<1>1. i \in 1 .. Len(b) /\ i + 1 \in 1 .. Len(b)
  BY SMT
<1> DEFINE x == b[i]
           y == b[i + 1]
<1>2. x \in Octet /\ y \in Octet
  BY SMT, <1>1
<1>3. WordAt(b, i) = 256 * x + y
  BY SMT DEF WordAt
<1> HIDE DEF x, y
<1> QED
  BY SMT, <1>2, <1>3, Joined

LEMMA QuadAtType ==
  ASSUME NEW b \in Seq(Octet), NEW i \in 1 .. Len(b) - 3
  PROVE  QuadAt(b, i) \in Quad
<1>1. i \in 1 .. Len(b) - 1 /\ i + 2 \in 1 .. Len(b) - 1
  BY SMT
<1>2. WordAt(b, i) \in Word /\ WordAt(b, i + 2) \in Word
  BY SMT, <1>1, WordAtType
<1> QED
  BY SMT, <1>2 DEF QuadAt, Quad

LEMMA BytesOfIs ==
  ASSUME NEW w \in Seq(Word)
  PROVE  /\ BytesOf(w) \in Seq(Octet) /\ Len(BytesOf(w)) = 2 * Len(w)
         /\ \A k \in 1 .. Len(w) :
              /\ BytesOf(w)[2 * k - 1] = w[k] \div 256
              /\ BytesOf(w)[2 * k] = w[k] % 256
              /\ WordAt(BytesOf(w), 2 * k - 1) = w[k]
<1> DEFINE n == 2 * Len(w)
           v(i) == w[(i + 1) \div 2]
           e(i) == IF i % 2 = 1 THEN v(i) \div 256 ELSE v(i) % 256
           b == [i \in 1 .. n |-> e(i)]
<1>1. BytesOf(w) = b /\ n \in Nat /\ Len(w) \in Nat
  BY SMT DEF BytesOf
<1>2. ASSUME NEW i \in 1 .. n
      PROVE  e(i) \in Octet
  <2>1. (i + 1) \div 2 \in 1 .. Len(w)
    BY SMT
  <2>2. v(i) \in Word
    BY SMT, <2>1
  <2> HIDE DEF v
  <2> QED
    BY SMT, <2>2, Halves
<1>3. b \in Seq(Octet) /\ Len(b) = n
  <2> HIDE DEF e
  <2> QED
    BY SMT, <1>1, <1>2
<1>4. ASSUME NEW k \in 1 .. Len(w)
      PROVE  /\ b[2 * k - 1] = w[k] \div 256
             /\ b[2 * k] = w[k] % 256
             /\ WordAt(b, 2 * k - 1) = w[k]
  <2>1. 2 * k - 1 \in 1 .. n /\ 2 * k \in 1 .. n /\ (2 * k - 1) + 1 = 2 * k
    BY SMT
  <2>2. /\ ((2 * k - 1) + 1) \div 2 = k /\ (2 * k + 1) \div 2 = k
        /\ (2 * k - 1) % 2 = 1 /\ (2 * k) % 2 = 0
    BY SMT
  <2>3. b[2 * k - 1] = w[k] \div 256
    BY SMT, <2>1, <2>2
  <2>4. b[2 * k] = w[k] % 256
    BY SMT, <2>1, <2>2
  <2>5. w[k] \in Word
    BY SMT
  <2> HIDE DEF b
  <2>6. WordAt(b, 2 * k - 1) = w[k]
    <3>1. WordAt(b, 2 * k - 1) = 256 * b[2 * k - 1] + b[2 * k]
      BY SMT, <2>1 DEF WordAt
    <3> DEFINE u == w[k]
    <3>2. u \in Word
      BY SMT, <2>5
    <3>3. WordAt(b, 2 * k - 1) = 256 * (u \div 256) + (u % 256)
      BY SMT, <2>3, <2>4, <3>1
    <3> HIDE DEF u
    <3>4. WordAt(b, 2 * k - 1) = u
      BY SMT, <3>2, <3>3, Halves
    <3> QED
      BY SMT, <3>4 DEF u
  <2> QED
    BY SMT, <2>3, <2>4, <2>6
<1> HIDE DEF b
<1> QED
  BY SMT, <1>1, <1>3, <1>4

LEMMA WithWordIs ==
  ASSUME NEW b \in Seq(Octet), NEW i \in 1 .. Len(b) - 1, NEW w \in Word
  PROVE  /\ WithWord(b, i, w) \in Seq(Octet) /\ Len(WithWord(b, i, w)) = Len(b)
         /\ WithWord(b, i, w)[i] = w \div 256 /\ WithWord(b, i, w)[i + 1] = w % 256
         /\ \A k \in 1 .. Len(b) : k # i /\ k # i + 1 => WithWord(b, i, w)[k] = b[k]
         /\ WordAt(WithWord(b, i, w), i) = w
<1> DEFINE x == w \div 256
           y == w % 256
           c == [b EXCEPT ![i] = x, ![i + 1] = y]
<1>1. x \in Octet /\ y \in Octet /\ 256 * x + y = w
  BY SMT, Halves
<1>2. WithWord(b, i, w) = c
  BY SMT DEF WithWord
<1> HIDE DEF x, y
<1>3. i \in 1 .. Len(b) /\ i + 1 \in 1 .. Len(b) /\ i # i + 1 /\ Len(b) \in Nat
  BY SMT
<1>4. c \in Seq(Octet) /\ Len(c) = Len(b)
  BY SMT, <1>1, <1>3
<1>5. /\ c[i] = x /\ c[i + 1] = y
      /\ \A k \in 1 .. Len(b) : k # i /\ k # i + 1 => c[k] = b[k]
  BY SMT, <1>3
<1> HIDE DEF c
<1>6. WordAt(c, i) = w
  BY SMT, <1>1, <1>5 DEF WordAt
<1> QED
  BY SMT, <1>2, <1>4, <1>5, <1>6 DEF x, y

(* A word at an odd place is one of those that are summed.                  *)
LEMMA WithWordSum ==
  ASSUME NEW b \in Seq(Octet), NEW i \in 1 .. Len(b) - 1, i % 2 = 1, NEW w \in Word
  PROVE  WordSum(WithWord(b, i, w)) = WordSum(b) + (w - WordAt(b, i))
<1> DEFINE x == w \div 256
           y == w % 256
           m == [b EXCEPT ![i] = x]
           c == WithWord(b, i, w)
<1>1. x \in Octet /\ y \in Octet /\ 256 * x + y = w
  BY SMT, Halves
<1>2. /\ c \in Seq(Octet) /\ Len(c) = Len(b) /\ c[i] = x /\ c[i + 1] = y
      /\ \A k \in 1 .. Len(b) : k # i /\ k # i + 1 => c[k] = b[k]
  BY SMT, WithWordIs
<1> HIDE DEF x, y, c
<1>3. i \in 1 .. Len(b) /\ i + 1 \in 1 .. Len(b) /\ i # i + 1 /\ Len(b) \in Nat
  BY SMT
<1>4. /\ m \in Seq(Octet) /\ Len(m) = Len(b) /\ m[i] = x
      /\ \A k \in 1 .. Len(b) : k # i => m[k] = b[k]
  BY SMT, <1>1, <1>3
<1> HIDE DEF m
<1>5. WordSum(m) = WordSum(b) + (Weight(m, i) - Weight(b, i))
  BY SMT, <1>3, <1>4, WordSumChange
<1>6. \A k \in 1 .. Len(m) : k # i + 1 => c[k] = m[k]
  BY SMT, <1>2, <1>3, <1>4
<1>7. WordSum(c) = WordSum(m) + (Weight(c, i + 1) - Weight(m, i + 1))
  BY SMT, <1>2, <1>3, <1>4, <1>6, WordSumChange
<1>8. /\ Weight(m, i) = 256 * x /\ Weight(b, i) = 256 * b[i]
      /\ Weight(c, i + 1) = y /\ Weight(m, i + 1) = b[i + 1]
  <2>1. (i + 1) % 2 # 1
    BY SMT
  <2> QED
    BY SMT, <1>2, <1>3, <1>4, <2>1 DEF Weight
<1>9. /\ b[i] \in Int /\ b[i + 1] \in Int /\ x \in Int /\ y \in Int
      /\ WordSum(b) \in Int /\ WordSum(m) \in Int /\ WordSum(c) \in Int
  BY SMT, <1>1, <1>2, <1>3, <1>4, ByteAt, OctetIs, WordSumRuns
<1> DEFINE u == b[i]
           v == b[i + 1]
<1>10. /\ WordSum(m) = WordSum(b) + (256 * x - 256 * u)
       /\ WordSum(c) = WordSum(m) + (y - v) /\ WordAt(b, i) = 256 * u + v
  BY SMT, <1>5, <1>7, <1>8 DEF WordAt
<1>11. u \in Int /\ v \in Int
  BY SMT, <1>9
<1> HIDE DEF u, v
<1>12. WordSum(c) = WordSum(b) + (w - WordAt(b, i))
  BY SMT, <1>1, <1>9, <1>10, <1>11
<1> QED
  BY SMT, <1>12 DEF c

(* The first sum of a sequence is at least that of any of its bytes.        *)
LEMMA WordSumPositive ==
  ASSUME NEW b \in Seq(Octet), NEW i \in 1 .. Len(b), b[i] # 0
  PROVE  WordSum(b) > 0
<1> DEFINE c == [b EXCEPT ![i] = 0]
<1>1. 0 \in Octet
  BY SMT, OctetIs
<1>2. /\ c \in Seq(Octet) /\ Len(c) = Len(b) /\ c[i] = 0
      /\ \A k \in 1 .. Len(b) : k # i => c[k] = b[k]
  BY SMT, <1>1
<1> HIDE DEF c
<1>3. WordSum(c) = WordSum(b) + (Weight(c, i) - Weight(b, i))
  BY SMT, <1>2, WordSumChange
<1>4. WordSum(c) \in Nat /\ WordSum(b) \in Nat
  BY SMT, <1>2, WordSumRuns
<1> DEFINE x == b[i]
<1>5. x \in Nat /\ x # 0
  BY SMT, ByteAt
<1>6. Weight(c, i) = 0 /\ (Weight(b, i) = 256 * x \/ Weight(b, i) = x)
  BY SMT, <1>2 DEF Weight
<1> HIDE DEF x
<1>7. Weight(b, i) \in Int /\ Weight(b, i) > 0
  BY SMT, <1>5, <1>6
<1> QED
  BY SMT, <1>3, <1>4, <1>6, <1>7

-----------------------------------------------------------------------------
(* Slices and headers.                                                     *)

LEMMA Slice ==
  ASSUME NEW b \in Seq(Octet), NEW i \in 1 .. Len(b) + 1, NEW j \in i - 1 .. Len(b)
  PROVE  /\ SubSeq(b, i, j) \in Seq(Octet) /\ Len(SubSeq(b, i, j)) = j - i + 1
         /\ \A k \in 1 .. j - i + 1 : SubSeq(b, i, j)[k] = b[i + k - 1]
<1>1. i \in Int /\ j \in Int /\ Len(b) \in Nat
  BY SMT
<1>2. \A k \in i .. j : b[k] \in Octet
  BY SMT
<1>3. i <= j + 1
  BY SMT
<1>4. /\ SubSeq(b, i, j) \in Seq(Octet)
      /\ Len(SubSeq(b, i, j)) = IF i <= j THEN j - i + 1 ELSE 0
      /\ \A k \in 1 .. j - i + 1 : SubSeq(b, i, j)[k] = b[i + k - 1]
  BY SMT, <1>1, <1>2, SubSeqProperties
<1> QED
  BY SMT, <1>1, <1>3, <1>4

LEMMA SameBytes ==
  ASSUME NEW b \in Seq(Octet), NEW c \in Seq(Octet), Len(b) = Len(c),
         \A k \in 1 .. Len(b) : b[k] = c[k]
  PROVE  b = c
  BY SMT

(* What follows a part of known length.                                    *)
LEMMA Rest ==
  ASSUME NEW b \in Seq(Octet), NEW c \in Seq(Octet)
  PROVE  /\ From(b \o c, Len(b) + 1) = c
         /\ SubSeq(b \o c, 1, Len(b)) = b
         /\ SubSeq(b \o c, Len(b) + 1, Len(b) + Len(c)) = c
<1> DEFINE d == b \o c
           m == Len(b)
           n == Len(c)
<1>1. /\ m \in Nat /\ n \in Nat /\ d \in Seq(Octet) /\ Len(d) = m + n
      /\ \A i \in 1 .. m + n : d[i] = IF i <= m THEN b[i] ELSE c[i - m]
  BY SMT, ConcatBytes
<1> HIDE DEF d, m, n
<1>2. m + 1 \in 1 .. Len(d) + 1 /\ m + n \in (m + 1) - 1 .. Len(d) /\ (m + n) - (m + 1) + 1 = n
  BY SMT, <1>1
<1> DEFINE e == SubSeq(d, m + 1, m + n)
           f == SubSeq(d, 1, m)
<1>3. /\ e \in Seq(Octet) /\ Len(e) = n
      /\ \A k \in 1 .. n : e[k] = d[m + 1 + k - 1]
  BY SMT, <1>1, <1>2, Slice
<1>4. 1 \in 1 .. Len(d) + 1 /\ m \in 1 - 1 .. Len(d) /\ m - 1 + 1 = m
  BY SMT, <1>1
<1>5. /\ f \in Seq(Octet) /\ Len(f) = m
      /\ \A k \in 1 .. m : f[k] = d[1 + k - 1]
  BY SMT, <1>1, <1>4, Slice
<1> HIDE DEF e, f
<1>6. ASSUME NEW k \in 1 .. n PROVE e[k] = c[k]
  <2> DEFINE i == m + k
  <2>1. i = m + 1 + k - 1 /\ i \in 1 .. m + n /\ ~ (i <= m) /\ i - m = k
    BY SMT, <1>1
  <2> HIDE DEF i
  <2>2. d[i] = c[k]
    <3>1. d[i] = IF i <= m THEN b[i] ELSE c[i - m]
      BY SMT, <1>1, <2>1
    <3> QED
      BY SMT, <2>1, <3>1
  <2>3. e[k] = d[i]
    BY SMT, <1>3, <2>1
  <2> QED
    BY SMT, <2>2, <2>3
<1>7. \A k \in 1 .. m : f[k] = b[k]
  BY SMT, <1>1, <1>5
<1>8. e = c /\ f = b
  BY SMT, <1>3, <1>5, <1>6, <1>7, SameBytes DEF m, n
<1> QED
  BY SMT, <1>1, <1>8 DEF e, f, d, m, n, From

LEMMA ConcatAgain ==
  ASSUME NEW b \in Seq(Octet), NEW c \in Seq(Octet), NEW d \in Seq(Octet)
  PROVE  (b \o c) \o d = b \o (c \o d)
  BY SMT, ConcatAssociative

(* A header of words, and what follows.                                    *)
HeaderFacts(w, rest, b) ==
  /\ b \in Seq(Octet) /\ Len(b) = 2 * Len(w) + Len(rest)
  /\ \A k \in 1 .. Len(w) :
       /\ b[2 * k - 1] = w[k] \div 256 /\ b[2 * k] = w[k] % 256
       /\ WordAt(b, 2 * k - 1) = w[k]
  /\ From(b, 2 * Len(w) + 1) = rest

LEMMA HeaderIs ==
  ASSUME NEW w \in Seq(Word), NEW rest \in Seq(Octet)
  PROVE  HeaderFacts(w, rest, BytesOf(w) \o rest)
<1> DEFINE h == BytesOf(w)
           b == h \o rest
<1>1. /\ h \in Seq(Octet) /\ Len(h) = 2 * Len(w) /\ Len(w) \in Nat
      /\ \A k \in 1 .. Len(w) :
           /\ h[2 * k - 1] = w[k] \div 256 /\ h[2 * k] = w[k] % 256
           /\ WordAt(h, 2 * k - 1) = w[k]
  BY SMT, BytesOfIs
<1> HIDE DEF h
<1>2. /\ b \in Seq(Octet) /\ Len(b) = 2 * Len(w) + Len(rest) /\ Len(rest) \in Nat
      /\ \A i \in 1 .. Len(h) + Len(rest) : b[i] = IF i <= Len(h) THEN h[i] ELSE rest[i - Len(h)]
  <2>1. /\ b \in Seq(Octet) /\ Len(h) \in Nat /\ Len(rest) \in Nat
        /\ Len(b) = Len(h) + Len(rest)
        /\ \A i \in 1 .. Len(h) + Len(rest) : b[i] = IF i <= Len(h) THEN h[i] ELSE rest[i - Len(h)]
    <3>1. h \in Seq(Octet)
      BY <1>1
    <3> QED
      BY <3>1, ConcatBytes, Zenon
  <2> HIDE DEF b
  <2> QED
    BY SMT, <1>1, <2>1
<1>3. From(b, 2 * Len(w) + 1) = rest
  BY SMT, <1>1, Rest
<1> HIDE DEF b
<1>4. ASSUME NEW k \in 1 .. Len(w)
      PROVE  /\ b[2 * k - 1] = w[k] \div 256 /\ b[2 * k] = w[k] % 256
             /\ WordAt(b, 2 * k - 1) = w[k]
  <2> DEFINE i == 2 * k - 1
             j == 2 * k
  <2>1. /\ i \in 1 .. Len(h) + Len(rest) /\ i <= Len(h)
        /\ j \in 1 .. Len(h) + Len(rest) /\ j <= Len(h)
        /\ i + 1 = j
    BY SMT, <1>1, <1>2
  <2>2. h[i] = w[k] \div 256 /\ h[j] = w[k] % 256 /\ WordAt(h, i) = w[k]
    BY <1>1
  <2> HIDE DEF i, j
  <2>3. b[i] = IF i <= Len(h) THEN h[i] ELSE rest[i - Len(h)]
    BY SMT, <1>2, <2>1
  <2>4. b[j] = IF j <= Len(h) THEN h[j] ELSE rest[j - Len(h)]
    BY SMT, <1>2, <2>1
  <2>5. b[i] = h[i] /\ b[j] = h[j]
    BY SMT, <2>1, <2>3, <2>4
  <2>6. WordAt(b, i) = WordAt(h, i)
    BY SMT, <2>1, <2>5 DEF WordAt
  <2> QED
    BY SMT, <2>2, <2>5, <2>6 DEF i, j
<1>5. HeaderFacts(w, rest, b)
  BY SMT, <1>2, <1>3, <1>4 DEF HeaderFacts
<1> QED
  BY <1>5, Zenon DEF b, h

-----------------------------------------------------------------------------
(* The words of a header.                                                  *)

LEMMA PairIs ==
  ASSUME NEW q \in Quad
  PROVE  /\ q \in Seq(Word) /\ Len(q) = 2 /\ q[1] \in Word /\ q[2] \in Word
         /\ q = <<q[1], q[2]>>
<1>1. PICK x \in Word, y \in Word : q = <<x, y>>
  BY SMT DEF Quad
<1> QED
  BY SMT, <1>1

LEMMA ConcatWords ==
  ASSUME NEW v \in Seq(Word), NEW w \in Seq(Word)
  PROVE  /\ v \o w \in Seq(Word) /\ Len(v \o w) = Len(v) + Len(w)
         /\ \A i \in 1 .. Len(v) + Len(w) :
              (v \o w)[i] = IF i <= Len(v) THEN v[i] ELSE w[i - Len(v)]
<1>1. Len(v) \in Nat /\ Len(w) \in Nat
  BY SMT
<1> QED
  BY SMT, <1>1, ConcatProperties

Words10(w) == w \in Seq(Word) /\ Len(w) = 10

IpWordsAre(w, a, b, c, d, e, f, src, dst) ==
  /\ Words10(w)
  /\ w[1] = a /\ w[2] = b /\ w[3] = c /\ w[4] = d /\ w[5] = e /\ w[6] = f
  /\ w[7] = src[1] /\ w[8] = src[2] /\ w[9] = dst[1] /\ w[10] = dst[2]

LEMMA IpWords ==
  ASSUME NEW a \in Word, NEW b \in Word, NEW c \in Word, NEW d \in Word,
         NEW e \in Word, NEW f \in Word, NEW src \in Quad, NEW dst \in Quad
  PROVE  IpWordsAre(<<a, b, c, d, e, f>> \o src \o dst, a, b, c, d, e, f, src, dst)
<1> DEFINE h == <<a, b, c, d, e, f>>
           g == h \o src
           w == g \o dst
<1>1. h \in Seq(Word) /\ Len(h) = 6
  BY SMT
<1>2. /\ src \in Seq(Word) /\ Len(src) = 2 /\ dst \in Seq(Word) /\ Len(dst) = 2
  BY SMT, PairIs
<1>3. h[1] = a /\ h[2] = b /\ h[3] = c /\ h[4] = d /\ h[5] = e /\ h[6] = f
  BY SMT
<1> HIDE DEF h
<1>4. /\ g \in Seq(Word) /\ Len(g) = 8
      /\ \A i \in 1 .. 8 : g[i] = IF i <= 6 THEN h[i] ELSE src[i - 6]
  <2>1. /\ g \in Seq(Word) /\ Len(g) = Len(h) + Len(src)
        /\ \A i \in 1 .. Len(h) + Len(src) : g[i] = IF i <= Len(h) THEN h[i] ELSE src[i - Len(h)]
    BY <1>1, <1>2, ConcatWords, Zenon
  <2> HIDE DEF g
  <2> QED
    BY SMT, <1>1, <1>2, <2>1
<1> HIDE DEF g
<1>5. /\ w \in Seq(Word) /\ Len(w) = 10
      /\ \A i \in 1 .. 10 : w[i] = IF i <= 8 THEN g[i] ELSE dst[i - 8]
  <2>1. /\ w \in Seq(Word) /\ Len(w) = Len(g) + Len(dst)
        /\ \A i \in 1 .. Len(g) + Len(dst) : w[i] = IF i <= Len(g) THEN g[i] ELSE dst[i - Len(g)]
    BY <1>2, <1>4, ConcatWords, Zenon
  <2> HIDE DEF w
  <2> QED
    BY SMT, <1>2, <1>4, <2>1
<1> HIDE DEF w
<1>6. /\ g[1] = a /\ g[2] = b /\ g[3] = c /\ g[4] = d /\ g[5] = e /\ g[6] = f
      /\ g[7] = src[1] /\ g[8] = src[2]
  BY SMT, <1>3, <1>4
<1>7. /\ w[1] = a /\ w[2] = b /\ w[3] = c /\ w[4] = d /\ w[5] = e /\ w[6] = f
      /\ w[7] = src[1] /\ w[8] = src[2] /\ w[9] = dst[1] /\ w[10] = dst[2]
  BY SMT, <1>5, <1>6
<1>8. IpWordsAre(w, a, b, c, d, e, f, src, dst)
  BY <1>5, <1>7, Zenon DEF IpWordsAre, Words10
<1> QED
  BY <1>8, Zenon DEF w, g, h

TcpWordsAre(w, a, b, seq, ack, c, d, e, f) ==
  /\ Words10(w)
  /\ w[1] = a /\ w[2] = b /\ w[3] = seq[1] /\ w[4] = seq[2]
  /\ w[5] = ack[1] /\ w[6] = ack[2]
  /\ w[7] = c /\ w[8] = d /\ w[9] = e /\ w[10] = f

LEMMA TcpWords ==
  ASSUME NEW a \in Word, NEW b \in Word, NEW seq \in Quad, NEW ack \in Quad,
         NEW c \in Word, NEW d \in Word, NEW e \in Word, NEW f \in Word
  PROVE  TcpWordsAre(<<a, b>> \o seq \o ack \o <<c, d, e, f>>,
                     a, b, seq, ack, c, d, e, f)
<1> DEFINE h == <<a, b>>
           g == h \o seq
           k == g \o ack
           t == <<c, d, e, f>>
           w == k \o t
<1>1. h \in Seq(Word) /\ Len(h) = 2 /\ t \in Seq(Word) /\ Len(t) = 4
  BY SMT
<1>2. seq \in Seq(Word) /\ Len(seq) = 2 /\ ack \in Seq(Word) /\ Len(ack) = 2
  BY SMT, PairIs
<1>3. /\ h[1] = a /\ h[2] = b
      /\ t[1] = c /\ t[2] = d /\ t[3] = e /\ t[4] = f
  BY SMT
<1> HIDE DEF h, t
<1>4. /\ g \in Seq(Word) /\ Len(g) = 4
      /\ \A i \in 1 .. 4 : g[i] = IF i <= 2 THEN h[i] ELSE seq[i - 2]
  <2>1. /\ g \in Seq(Word) /\ Len(g) = Len(h) + Len(seq)
        /\ \A i \in 1 .. Len(h) + Len(seq) : g[i] = IF i <= Len(h) THEN h[i] ELSE seq[i - Len(h)]
    BY <1>1, <1>2, ConcatWords, Zenon
  <2> HIDE DEF g
  <2> QED
    BY SMT, <1>1, <1>2, <2>1
<1> HIDE DEF g
<1>5. /\ k \in Seq(Word) /\ Len(k) = 6
      /\ \A i \in 1 .. 6 : k[i] = IF i <= 4 THEN g[i] ELSE ack[i - 4]
  <2>1. /\ k \in Seq(Word) /\ Len(k) = Len(g) + Len(ack)
        /\ \A i \in 1 .. Len(g) + Len(ack) : k[i] = IF i <= Len(g) THEN g[i] ELSE ack[i - Len(g)]
    BY <1>2, <1>4, ConcatWords, Zenon
  <2> HIDE DEF k
  <2> QED
    BY SMT, <1>2, <1>4, <2>1
<1> HIDE DEF k
<1>6. /\ w \in Seq(Word) /\ Len(w) = 10
      /\ \A i \in 1 .. 10 : w[i] = IF i <= 6 THEN k[i] ELSE t[i - 6]
  <2>1. /\ w \in Seq(Word) /\ Len(w) = Len(k) + Len(t)
        /\ \A i \in 1 .. Len(k) + Len(t) : w[i] = IF i <= Len(k) THEN k[i] ELSE t[i - Len(k)]
    BY <1>1, <1>5, ConcatWords, Zenon
  <2> HIDE DEF w
  <2> QED
    BY SMT, <1>1, <1>5, <2>1
<1> HIDE DEF w
<1>7. g[1] = a /\ g[2] = b /\ g[3] = seq[1] /\ g[4] = seq[2]
  BY SMT, <1>3, <1>4
<1>8. /\ k[1] = a /\ k[2] = b /\ k[3] = seq[1] /\ k[4] = seq[2]
      /\ k[5] = ack[1] /\ k[6] = ack[2]
  BY SMT, <1>5, <1>7
<1>9. /\ w[1] = a /\ w[2] = b /\ w[3] = seq[1] /\ w[4] = seq[2]
      /\ w[5] = ack[1] /\ w[6] = ack[2]
      /\ w[7] = c /\ w[8] = d /\ w[9] = e /\ w[10] = f
  BY SMT, <1>3, <1>6, <1>8
<1>10. TcpWordsAre(w, a, b, seq, ack, c, d, e, f)
  BY <1>6, <1>9, Zenon DEF TcpWordsAre, Words10
<1> QED
  BY <1>10, Zenon DEF w, k, g, h, t

(* The flags of a segment are five bits, next to those the stack ignores.    *)
LEMMA FlagBitsIs ==
  ASSUME NEW flags \in SUBSET Flag
  PROVE  FlagBits(flags) =
           (IF "FIN" \in flags THEN 1 ELSE 0) + (IF "SYN" \in flags THEN 2 ELSE 0)
             + (IF "RST" \in flags THEN 4 ELSE 0) + (IF "PSH" \in flags THEN 8 ELSE 0)
             + (IF "ACK" \in flags THEN 16 ELSE 0)
<1> DEFINE f == [x \in flags |-> Bit[x]]
           total(s) == (IF "FIN" \in s THEN 1 ELSE 0) + (IF "SYN" \in s THEN 2 ELSE 0)
                         + (IF "RST" \in s THEN 4 ELSE 0) + (IF "PSH" \in s THEN 8 ELSE 0)
                         + (IF "ACK" \in s THEN 16 ELSE 0)
           A == [s \in SUBSET flags |-> total(s)]
<1>1. /\ Flag = {"FIN", "SYN", "RST", "PSH", "ACK"}
      /\ Bit["FIN"] = 1 /\ Bit["SYN"] = 2 /\ Bit["RST"] = 4
      /\ Bit["PSH"] = 8 /\ Bit["ACK"] = 16
  BY SMT DEF Flag, Bit
<1>2. IsFiniteSet(Flag)
  <2>1. IsFiniteSet({})
    BY SMT, FS_EmptySet
  <2>2. IsFiniteSet({"FIN"})
    BY SMT, <2>1, FS_AddElement
  <2>3. IsFiniteSet({"FIN"} \cup {"SYN"})
    BY SMT, <2>2, FS_AddElement
  <2>4. IsFiniteSet({"FIN"} \cup {"SYN"} \cup {"RST"})
    BY SMT, <2>3, FS_AddElement
  <2>5. IsFiniteSet({"FIN"} \cup {"SYN"} \cup {"RST"} \cup {"PSH"})
    BY SMT, <2>4, FS_AddElement
  <2>6. IsFiniteSet({"FIN"} \cup {"SYN"} \cup {"RST"} \cup {"PSH"} \cup {"ACK"})
    BY SMT, <2>5, FS_AddElement
  <2>7. {"FIN"} \cup {"SYN"} \cup {"RST"} \cup {"PSH"} \cup {"ACK"} = Flag
    BY SMT, <1>1
  <2> QED
    BY SMT, <2>6, <2>7
<1>3. IsFiniteSet(flags) /\ DOMAIN f = flags
  BY SMT, <1>2, FS_Subset
<1>4. A \in [SUBSET flags -> Int] /\ A[{}] = 0 /\ A[flags] = total(flags)
  BY SMT
<1>5. ASSUME NEW s \in SUBSET flags, NEW x \in s
      PROVE  A[s] = f[x] + A[s \ {x}]
  <2>1. x \in Flag /\ x \in flags /\ f[x] = Bit[x]
    BY SMT
  <2>2. A[s] = total(s) /\ A[s \ {x}] = total(s \ {x})
    BY SMT
  <2>3. total(s) = Bit[x] + total(s \ {x})
    <3>1. CASE x = "FIN"
      BY SMT, <1>1, <3>1
    <3>2. CASE x = "SYN"
      BY SMT, <1>1, <3>2
    <3>3. CASE x = "RST"
      BY SMT, <1>1, <3>3
    <3>4. CASE x = "PSH"
      BY SMT, <1>1, <3>4
    <3>5. CASE x = "ACK"
      BY SMT, <1>1, <3>5
    <3> HIDE DEF total
    <3> QED
      BY SMT, <1>1, <2>1, <3>1, <3>2, <3>3, <3>4, <3>5
  <2> HIDE DEF total, A, f
  <2> QED
    BY SMT, <2>1, <2>2, <2>3
<1>6. SumFunction(f) = A[DOMAIN f]
  <2>1. A \in [SUBSET DOMAIN f -> Int] /\ A[{}] = 0 /\ IsFiniteSet(DOMAIN f)
    BY SMT, <1>3, <1>4
  <2> HIDE DEF A, f
  <2>2. \A s \in SUBSET DOMAIN f : \A x \in s : A[s] = f[x] + A[s \ {x}]
    BY <1>3, <1>5, Zenon
  <2> QED
    BY <2>1, <2>2, SumIs, Zenon
<1> QED
  BY SMT, <1>3, <1>4, <1>6 DEF FlagBits

(* The bits of FIN, SYN, RST, PSH and ACK in the thirteenth word of bytes.   *)
FlagsIn(w) == {f \in Flag : (w \div Bit[f]) % 2 = 1}

(* ECE and CWR, which the stack does not know.                             *)
UnknownFlags == {0, 64, 128, 192}

OffsetWord(n, flags, more) == n * 4096 + FlagBits(flags) + more

OffsetAndFlagsAre(w, n, flags) ==
  w \in Word /\ (w \div 256) \div 16 = n /\ FlagsIn(w) = flags

LEMMA OffsetAndFlags ==
  ASSUME NEW flags \in SUBSET Flag, NEW n \in 0 .. 15, NEW more \in UnknownFlags
  PROVE  /\ OffsetAndFlagsAre(OffsetWord(n, flags, more), n, flags)
         /\ FlagBits(flags) % 64 = FlagBits(flags)
         /\ FlagBits(flags) \in Nat
<1>1. PICK a \in 0 .. 1 : (a = 1 <=> "FIN" \in flags) /\ a = IF "FIN" \in flags THEN 1 ELSE 0
  BY SMT
<1>2. PICK b \in 0 .. 1 : (b = 1 <=> "SYN" \in flags) /\ 2 * b = IF "SYN" \in flags THEN 2 ELSE 0
  BY SMT
<1>3. PICK c \in 0 .. 1 : (c = 1 <=> "RST" \in flags) /\ 4 * c = IF "RST" \in flags THEN 4 ELSE 0
  BY SMT
<1>4. PICK d \in 0 .. 1 : (d = 1 <=> "PSH" \in flags) /\ 8 * d = IF "PSH" \in flags THEN 8 ELSE 0
  BY SMT
<1>5. PICK e \in 0 .. 1 : (e = 1 <=> "ACK" \in flags) /\ 16 * e = IF "ACK" \in flags THEN 16 ELSE 0
  BY SMT
<1>6. FlagBits(flags) = a + 2 * b + 4 * c + 8 * d + 16 * e
  BY SMT, <1>1, <1>2, <1>3, <1>4, <1>5, FlagBitsIs
<1>7. PICK m \in 0 .. 3 : more = 64 * m
  BY SMT DEF UnknownFlags
<1> DEFINE w == OffsetWord(n, flags, more)
<1>8. w = 4096 * n + 64 * m + a + 2 * b + 4 * c + 8 * d + 16 * e
  BY SMT, <1>6, <1>7 DEF OffsetWord
<1> HIDE DEF w
<1>9. w \in Int /\ 0 <= w /\ w <= 65535 /\ (w \div 256) \div 16 = n
  BY SMT, <1>8
<1>10. w \div 1 = w /\ w % 2 = a
  BY SMT, <1>8
<1>11. (w \div 2) % 2 = b
  BY SMT, <1>8
<1>12. (w \div 4) % 2 = c
  BY SMT, <1>8
<1>13. (w \div 8) % 2 = d
  BY SMT, <1>8
<1>14. (w \div 16) % 2 = e
  BY SMT, <1>8
<1>15. \A f \in Flag : (w \div Bit[f]) % 2 = 1 <=> f \in flags
  BY SMT, <1>1, <1>2, <1>3, <1>4, <1>5, <1>10, <1>11, <1>12, <1>13, <1>14 DEF Flag, Bit
<1>16. {f \in Flag : (w \div Bit[f]) % 2 = 1} = flags
  BY SMT, <1>15
<1>17. FlagBits(flags) % 64 = FlagBits(flags) /\ FlagBits(flags) \in Nat
  BY SMT, <1>6
<1>18. w \in Word
  BY SMT, <1>9, WordIs
<1>19. OffsetAndFlagsAre(w, n, flags)
  <2>1. (w \div 256) \div 16 = n
    BY SMT, <1>9
  <2> QED
    BY <1>16, <1>18, <2>1, Zenon DEF OffsetAndFlagsAre, FlagsIn
<1> QED
  BY <1>17, <1>19, Zenon DEF w

-----------------------------------------------------------------------------
(* What writing a word leaves alone.                                       *)

LEMMA OtherWords ==
  ASSUME NEW b \in Seq(Octet), NEW i \in 1 .. Len(b) - 1, NEW w \in Word,
         NEW j \in 1 .. Len(b) - 1, j + 1 < i \/ i + 1 < j
  PROVE  WordAt(WithWord(b, i, w), j) = WordAt(b, j)
<1> DEFINE c == WithWord(b, i, w)
<1>1. \A k \in 1 .. Len(b) : k # i /\ k # i + 1 => c[k] = b[k]
  BY SMT, WithWordIs
<1> HIDE DEF c
<1> DEFINE l == j + 1
<1>2. j \in 1 .. Len(b) /\ j # i /\ j # i + 1 /\ l \in 1 .. Len(b) /\ l # i /\ l # i + 1
  BY SMT
<1> HIDE DEF l
<1>3. c[j] = b[j] /\ c[l] = b[l]
  BY SMT, <1>1, <1>2
<1>4. WordAt(c, j) = WordAt(b, j)
  BY SMT, <1>3 DEF WordAt, l
<1> QED
  BY SMT, <1>4 DEF c

LEMMA FromWithWord ==
  ASSUME NEW b \in Seq(Octet), NEW i \in 1 .. Len(b) - 1, NEW w \in Word,
         NEW j \in i + 2 .. Len(b) + 1
  PROVE  From(WithWord(b, i, w), j) = From(b, j)
<1> DEFINE c == WithWord(b, i, w)
           e == SubSeq(b, j, Len(b))
           f == SubSeq(c, j, Len(b))
<1>1. /\ c \in Seq(Octet) /\ Len(c) = Len(b) /\ Len(b) \in Nat
      /\ \A k \in 1 .. Len(b) : k # i /\ k # i + 1 => c[k] = b[k]
  BY SMT, WithWordIs
<1> HIDE DEF c
<1>2. j \in 1 .. Len(b) + 1 /\ Len(b) \in j - 1 .. Len(b) /\ j \in Int
  BY SMT, <1>1
<1>3. /\ e \in Seq(Octet) /\ Len(e) = Len(b) - j + 1
      /\ \A k \in 1 .. Len(b) - j + 1 : e[k] = b[j + k - 1]
  BY SMT, <1>2, Slice
<1>4. /\ f \in Seq(Octet) /\ Len(f) = Len(b) - j + 1
      /\ \A k \in 1 .. Len(b) - j + 1 : f[k] = c[j + k - 1]
  BY SMT, <1>1, <1>2, Slice
<1> HIDE DEF e, f
<1>5. ASSUME NEW k \in 1 .. Len(b) - j + 1
      PROVE  f[k] = e[k]
  <2> DEFINE l == j + k - 1
  <2>1. l \in 1 .. Len(b) /\ l # i /\ l # i + 1
    BY SMT, <1>1, <1>2
  <2>2. f[k] = c[l] /\ e[k] = b[l]
    BY SMT, <1>3, <1>4
  <2> HIDE DEF l
  <2> QED
    BY SMT, <1>1, <2>1, <2>2
<1>6. f = e
  BY SMT, <1>3, <1>4, <1>5, SameBytes
<1> QED
  BY SMT, <1>1, <1>6 DEF e, f, c, From

(* All of it in one place.                                                 *)
Writable(b, i, w) == b \in Seq(Octet) /\ i \in 1 .. Len(b) - 1 /\ w \in Word

Wrote(b, i, w, c) ==
  /\ c \in Seq(Octet) /\ Len(c) = Len(b)
  /\ c[i] = w \div 256 /\ c[i + 1] = w % 256
  /\ \A k \in 1 .. Len(b) : k # i /\ k # i + 1 => c[k] = b[k]
  /\ WordAt(c, i) = w
  /\ \A j \in 1 .. Len(b) - 1 : j + 1 < i \/ i + 1 < j => WordAt(c, j) = WordAt(b, j)
  /\ \A j \in i + 2 .. Len(b) + 1 : From(c, j) = From(b, j)
  /\ i % 2 = 1 => WordSum(c) = WordSum(b) + (w - WordAt(b, i))

LEMMA Written ==
  ASSUME NEW b, NEW i, NEW w, Writable(b, i, w)
  PROVE  Wrote(b, i, w, WithWord(b, i, w))
<1>1. b \in Seq(Octet) /\ i \in 1 .. Len(b) - 1 /\ w \in Word
  BY SMT DEF Writable
<1>2. /\ WithWord(b, i, w) \in Seq(Octet) /\ Len(WithWord(b, i, w)) = Len(b)
      /\ WithWord(b, i, w)[i] = w \div 256 /\ WithWord(b, i, w)[i + 1] = w % 256
      /\ \A k \in 1 .. Len(b) : k # i /\ k # i + 1 => WithWord(b, i, w)[k] = b[k]
      /\ WordAt(WithWord(b, i, w), i) = w
  BY SMT, <1>1, WithWordIs
<1>3. \A j \in 1 .. Len(b) - 1 :
        j + 1 < i \/ i + 1 < j => WordAt(WithWord(b, i, w), j) = WordAt(b, j)
  BY SMT, <1>1, OtherWords
<1>4. \A j \in i + 2 .. Len(b) + 1 : From(WithWord(b, i, w), j) = From(b, j)
  BY SMT, <1>1, FromWithWord
<1>5. i % 2 = 1 => WordSum(WithWord(b, i, w)) = WordSum(b) + (w - WordAt(b, i))
  BY SMT, <1>1, WithWordSum
<1> QED
  BY <1>2, <1>3, <1>4, <1>5, Zenon DEF Wrote

LEMMA WithWordConcat ==
  ASSUME NEW b, NEW i, NEW w, Writable(b, i, w), NEW d \in Seq(Octet)
  PROVE  WithWord(b, i, w) \o d = WithWord(b \o d, i, w)
<1> DEFINE c == WithWord(b, i, w)
           x == c \o d
           m == b \o d
           y == WithWord(m, i, w)
           n == Len(b)
           l == Len(d)
<1>1. Wrote(b, i, w, c)
  BY Written, Zenon
<1>2. b \in Seq(Octet) /\ i \in 1 .. n - 1 /\ w \in Word
  BY SMT DEF Writable
<1>3. /\ m \in Seq(Octet) /\ n \in Nat /\ l \in Nat /\ Len(m) = n + l
      /\ \A k \in 1 .. n + l : m[k] = IF k <= n THEN b[k] ELSE d[k - n]
  BY <1>2, ConcatBytes, Zenon
<1> HIDE DEF c
<1>4. /\ c \in Seq(Octet) /\ Len(c) = n
      /\ c[i] = w \div 256 /\ c[i + 1] = w % 256
      /\ \A k \in 1 .. n : k # i /\ k # i + 1 => c[k] = b[k]
  BY <1>1, Zenon DEF Wrote
<1>5. /\ x \in Seq(Octet) /\ Len(x) = Len(c) + l
      /\ \A k \in 1 .. Len(c) + l : x[k] = IF k <= Len(c) THEN c[k] ELSE d[k - Len(c)]
  <2>1. c \in Seq(Octet)
    BY <1>4, Zenon
  <2> QED
    BY <2>1, ConcatBytes, Zenon
<1> HIDE DEF m, n, l
<1>6. i \in 1 .. Len(m) - 1
  BY SMT, <1>2, <1>3
<1>7. Writable(m, i, w)
  BY <1>2, <1>3, <1>6, Zenon DEF Writable
<1>8. Wrote(m, i, w, y)
  BY <1>7, Written, Zenon
<1> HIDE DEF x, y
<1>9. /\ y \in Seq(Octet) /\ Len(y) = Len(m)
      /\ y[i] = w \div 256 /\ y[i + 1] = w % 256
      /\ \A k \in 1 .. Len(m) : k # i /\ k # i + 1 => y[k] = m[k]
  BY <1>8, Zenon DEF Wrote
<1>10. ASSUME NEW k \in 1 .. n + l
      PROVE  x[k] = y[k]
  <2>1. x[k] = IF k <= n THEN c[k] ELSE d[k - n]
    BY SMT, <1>4, <1>5
  <2>2. m[k] = IF k <= n THEN b[k] ELSE d[k - n]
    BY SMT, <1>3
  <2>3. i <= n /\ i + 1 <= n /\ k \in Int
    BY SMT, <1>2, <1>3
  <2>4. CASE k = i
    BY SMT, <1>4, <1>9, <2>1, <2>3, <2>4
  <2>5. CASE k = i + 1
    BY SMT, <1>4, <1>9, <2>1, <2>3, <2>5
  <2>6. CASE k # i /\ k # i + 1
    <3>1. y[k] = m[k]
      BY SMT, <1>3, <1>9, <2>6
    <3>2. k <= n => c[k] = b[k]
      BY SMT, <1>3, <1>4, <2>6
    <3> QED
      BY SMT, <2>1, <2>2, <3>1, <3>2
  <2> QED
    BY SMT, <2>4, <2>5, <2>6
<1>11. x = y
  BY SMT, <1>3, <1>4, <1>5, <1>9, <1>10, SameBytes
<1> QED
  BY <1>11, Zenon DEF x, y, c, m

-----------------------------------------------------------------------------
(* Segments and datagrams that say what was meant.                          *)

SegmentAt(t, seg) ==
  /\ t \in Seq(Octet) /\ HeaderLen <= Len(t)
  /\ HeaderLen <= 4 * (t[13] \div 16) /\ 4 * (t[13] \div 16) <= Len(t)
  /\ WordAt(t, 1) = seg.sport /\ WordAt(t, 3) = seg.dport
  /\ QuadAt(t, 5) = seg.seq /\ QuadAt(t, 9) = seg.ack
  /\ FlagsIn(WordAt(t, 13)) = seg.flags
  /\ From(t, 4 * (t[13] \div 16) + 1) = seg.payload

LEMMA SegmentFieldsAre ==
  ASSUME NEW seg \in FrameSegment
  PROVE  /\ seg.src \in Quad /\ seg.dst \in Quad /\ seg.seq \in Quad /\ seg.ack \in Quad
         /\ seg.sport \in Word /\ seg.dport \in Word
         /\ seg.flags \in SUBSET Flag /\ seg.payload \in Seq(Octet)
  BY SMT DEF FrameSegment

LEMMA OptionsAre ==
  ASSUME NEW o \in Options
  PROVE  /\ o \in Seq(Octet) /\ Len(o) \in Nat
         /\ \E n \in 5 .. 15 : HeaderLen + Len(o) = 4 * n /\ (HeaderLen + Len(o)) \div 4 = n
<1>1. o \in Seq(Octet) /\ Len(o) \in Nat /\ Len(o) % 4 = 0 /\ Len(o) <= 40
  BY SMT DEF Options
<1> DEFINE l == Len(o)
           n == 5 + (l \div 4)
<1>2. l \in Nat /\ l % 4 = 0 /\ l <= 40
  BY SMT, <1>1
<1> HIDE DEF l
<1>3. n \in 5 .. 15 /\ 20 + l = 4 * n /\ (20 + l) \div 4 = n
  BY SMT, <1>2
<1> HIDE DEF n
<1>4. \E k \in 5 .. 15 : 20 + l = 4 * k /\ (20 + l) \div 4 = k
  BY SMT, <1>3
<1> QED
  BY SMT, <1>1, <1>4 DEF HeaderLen, l

(* Ten words of header, one of them written afterwards.                     *)
(* The words of a header are where they belong.                            *)
Carries(b, w, k) ==
  /\ WordAt(b, 2 * k - 1) = w[k]
  /\ b[2 * k - 1] = w[k] \div 256 /\ b[2 * k] = w[k] % 256

Headed(w, rest, t) ==
  /\ t \in Seq(Octet) /\ Len(t) = 20 + Len(rest) /\ Len(rest) \in Nat
  /\ \A k \in 1 .. 10 : Carries(t, w, k)
  /\ From(t, 21) = rest

LEMMA HeadedIs ==
  ASSUME NEW w, Words10(w), NEW rest \in Seq(Octet)
  PROVE  Headed(w, rest, BytesOf(w) \o rest)
<1> DEFINE t == BytesOf(w) \o rest
<1>1. w \in Seq(Word) /\ Len(w) = 10 /\ Len(rest) \in Nat
  BY SMT DEF Words10
<1>2. HeaderFacts(w, rest, t)
  BY <1>1, HeaderIs, Zenon
<1> HIDE DEF t
<1>3. 2 * Len(w) = 20 /\ 20 + 1 = 21
  BY SMT, <1>1
<1>4. Headed(w, rest, t)
  <2>1. ASSUME NEW k \in 1 .. 10
        PROVE  Carries(t, w, k)
    <3>1. k \in 1 .. Len(w)
      BY SMT, <1>3
    <3>2. /\ t[2 * k - 1] = w[k] \div 256 /\ t[2 * k] = w[k] % 256
          /\ WordAt(t, 2 * k - 1) = w[k]
      BY <1>2, <3>1, Zenon DEF HeaderFacts
    <3> QED
      BY <3>2, Zenon DEF Carries
  <2> QED
    BY SMT, <1>1, <1>2, <1>3, <2>1 DEF Headed, HeaderFacts
<1> QED
  BY <1>4, Zenon DEF t

StampedWith(w, i, c, t, u) ==
  /\ u \in Seq(Octet) /\ Len(u) = Len(t)
  /\ WordAt(u, 2 * i - 1) = c
  /\ \A k \in 1 .. 10 : k # i => Carries(u, w, k)
  /\ WordSum(u) = WordSum(t) + (c - w[i])
  /\ \A j \in 21 .. Len(t) + 1 : From(u, j) = From(t, j)

LEMMA Stamped ==
  ASSUME NEW w, NEW rest, NEW t, Headed(w, rest, t), NEW i \in 1 .. 10, NEW c \in Word
  PROVE  StampedWith(w, i, c, t, WithWord(t, 2 * i - 1, c))
<1> DEFINE p == 2 * i - 1
           u == WithWord(t, p, c)
<1>1. /\ t \in Seq(Octet) /\ Len(t) = 20 + Len(rest) /\ Len(rest) \in Nat
      /\ \A k \in 1 .. 10 : Carries(t, w, k)
  BY Zenon DEF Headed
<1>0. Len(t) \in Nat /\ 20 <= Len(t)
  BY SMT, <1>1
<1>2. /\ p \in 1 .. Len(t) - 1 /\ p % 2 = 1 /\ p <= 19 /\ p \in Nat
      /\ WordAt(t, p) = w[i]
  <2>1. WordAt(t, p) = w[i]
    BY <1>1, Zenon DEF Carries
  <2>2. p \in 1 .. Len(t) - 1 /\ p % 2 = 1 /\ p <= 19 /\ p \in Nat
    BY SMT, <1>0
  <2> QED
    BY <2>1, <2>2, Zenon
<1>3. ASSUME NEW k \in 1 .. 10, k # i
      PROVE  /\ 2 * k - 1 \in 1 .. Len(t) - 1 /\ 2 * k \in 1 .. Len(t) /\ 2 * k - 1 \in 1 .. Len(t)
             /\ 2 * k - 1 # p /\ 2 * k - 1 # p + 1 /\ 2 * k # p /\ 2 * k # p + 1
             /\ (2 * k - 1 + 1 < p \/ p + 1 < 2 * k - 1)
  BY SMT, <1>0, <1>3
<1>4. \A j \in 21 .. Len(t) + 1 : j \in p + 2 .. Len(t) + 1
  BY SMT, <1>1, <1>2
<1> HIDE DEF p
<1>5. Writable(t, p, c)
  BY <1>1, <1>2, Zenon DEF Writable
<1>6. Wrote(t, p, c, u)
  BY <1>5, Written, Zenon
<1> HIDE DEF u
<1>7. /\ u \in Seq(Octet) /\ Len(u) = Len(t) /\ WordAt(u, p) = c
      /\ WordSum(u) = WordSum(t) + (c - w[i])
  BY <1>2, <1>6, Zenon DEF Wrote
<1>8. ASSUME NEW k \in 1 .. 10, k # i
      PROVE  Carries(u, w, k)
  <2> DEFINE q == 2 * k - 1
             r == 2 * k
  <2>1. /\ q \in 1 .. Len(t) - 1 /\ r \in 1 .. Len(t) /\ q \in 1 .. Len(t)
        /\ q # p /\ q # p + 1 /\ r # p /\ r # p + 1 /\ (q + 1 < p \/ p + 1 < q)
    BY <1>3, <1>8, Zenon
  <2>2. t[q] = w[k] \div 256 /\ t[r] = w[k] % 256 /\ WordAt(t, q) = w[k]
    <3>1. Carries(t, w, k)
      BY <1>1, Zenon
    <3> QED
      BY <3>1, Zenon DEF Carries
  <2> HIDE DEF q, r
  <2>3. WordAt(u, q) = WordAt(t, q)
    BY <1>6, <2>1, Zenon DEF Wrote
  <2>4. u[q] = t[q] /\ u[r] = t[r]
    BY <1>6, <2>1, Zenon DEF Wrote
  <2>5. WordAt(u, q) = w[k] /\ u[q] = w[k] \div 256 /\ u[r] = w[k] % 256
    BY <2>2, <2>3, <2>4, Zenon
  <2> QED
    BY <2>5, Zenon DEF Carries, q, r
<1>9. \A j \in 21 .. Len(t) + 1 : From(u, j) = From(t, j)
  BY <1>4, <1>6, Zenon DEF Wrote
<1>10. StampedWith(w, i, c, t, u)
  BY <1>7, <1>8, <1>9, Zenon DEF StampedWith, p
<1> QED
  BY <1>10, Zenon DEF u, p

-----------------------------------------------------------------------------
(* A TCP segment.                                                          *)

(* The TCP segment with a checksum c: its header of n quads, and payload.    *)
TcpBytes(seg, n, more, win, opts) ==
  BytesOf(<<seg.sport, seg.dport>> \o seg.seq \o seg.ack
            \o <<OffsetWord(n, seg.flags, more), win, 0, 0>>)
    \o (opts \o seg.payload)

TcpChoice(n, more, win, opts) ==
  /\ n \in 5 .. 15 /\ more \in UnknownFlags /\ win \in Word
  /\ opts \in Seq(Octet) /\ 20 + Len(opts) = 4 * n

TcpBuilt(seg, n, t, c, u) ==
  /\ t \in Seq(Octet) /\ Len(t) = 4 * n + Len(seg.payload)
  /\ Writable(t, 17, c) /\ WordAt(t, 17) = 0
  /\ t[13] \div 16 = n
  /\ SegmentAt(u, seg) /\ Len(u) = Len(t)
  /\ WordSum(u) = WordSum(t) + c

LEMMA TcpBytesAre ==
  ASSUME NEW seg \in FrameSegment, NEW n, NEW more, NEW win, NEW opts, NEW c \in Word,
         TcpChoice(n, more, win, opts)
  PROVE  TcpBuilt(seg, n, TcpBytes(seg, n, more, win, opts), c,
                  WithWord(TcpBytes(seg, n, more, win, opts), 17, c))
<1> DEFINE x == OffsetWord(n, seg.flags, more)
           w == <<seg.sport, seg.dport>> \o seg.seq \o seg.ack \o <<x, win, 0, 0>>
           h == BytesOf(w)
           rest == opts \o seg.payload
           t == h \o rest
           u == WithWord(t, 17, c)
<1>1. /\ seg.src \in Quad /\ seg.dst \in Quad /\ seg.seq \in Quad /\ seg.ack \in Quad
      /\ seg.sport \in Word /\ seg.dport \in Word
      /\ seg.flags \in SUBSET Flag /\ seg.payload \in Seq(Octet)
  BY SegmentFieldsAre, Zenon
<1>2. /\ n \in 5 .. 15 /\ more \in UnknownFlags /\ win \in Word
      /\ opts \in Seq(Octet) /\ 20 + Len(opts) = 4 * n
  BY Zenon DEF TcpChoice
<1>3. 0 \in Word
  BY SMT, WordIs
<1>4. x \in Word /\ (x \div 256) \div 16 = n /\ FlagsIn(x) = seg.flags
  <2>1. n \in 0 .. 15
    BY SMT, <1>2
  <2>2. OffsetAndFlagsAre(x, n, seg.flags)
    BY <1>1, <1>2, <2>1, OffsetAndFlags, Zenon
  <2> HIDE DEF x
  <2> QED
    BY <2>2, Zenon DEF OffsetAndFlagsAre
<1> HIDE DEF x
<1>5. TcpWordsAre(w, seg.sport, seg.dport, seg.seq, seg.ack, x, win, 0, 0)
  BY <1>1, <1>2, <1>3, <1>4, TcpWords, Zenon
<1> HIDE DEF w
<1>6. /\ Words10(w)
      /\ w[1] = seg.sport /\ w[2] = seg.dport
      /\ w[3] = seg.seq[1] /\ w[4] = seg.seq[2]
      /\ w[5] = seg.ack[1] /\ w[6] = seg.ack[2] /\ w[7] = x /\ w[9] = 0
  BY <1>5, Zenon DEF TcpWordsAre
<1>7. /\ rest \in Seq(Octet) /\ Len(rest) = Len(opts) + Len(seg.payload)
      /\ Len(opts) \in Nat /\ Len(seg.payload) \in Nat
  BY <1>1, <1>2, ConcatBytes, Zenon
<1>8. h \in Seq(Octet) /\ Len(h) = 20
  <2>1. w \in Seq(Word) /\ Len(w) = 10
    BY <1>6, Zenon DEF Words10
  <2>2. h \in Seq(Octet) /\ Len(h) = 2 * Len(w)
    BY <2>1, BytesOfIs, Zenon
  <2> HIDE DEF h
  <2> QED
    BY SMT, <2>1, <2>2
<1>9. Headed(w, rest, t)
  BY <1>6, <1>7, HeadedIs, Zenon
<1> HIDE DEF h
<1>10. From(t, 4 * n + 1) = seg.payload
  <2> DEFINE b == h \o opts
             p == seg.payload
  <2>1. b \in Seq(Octet) /\ Len(b) = Len(h) + Len(opts) /\ p \in Seq(Octet)
    BY <1>1, <1>2, <1>8, ConcatBytes, Zenon
  <2>2. t = b \o p
    BY <1>1, <1>2, <1>8, ConcatAgain, Zenon
  <2>3. Len(b) + 1 = 4 * n + 1
    BY SMT, <1>2, <1>8, <2>1
  <2> HIDE DEF b, t, p
  <2>4. From(b \o p, Len(b) + 1) = p
    BY SMT, <2>1, Rest
  <2> QED
    BY <2>2, <2>3, <2>4, Zenon DEF p
<1> HIDE DEF rest
<1> HIDE DEF t
<1>11. StampedWith(w, 9, c, t, WithWord(t, 2 * 9 - 1, c))
  <2>1. 9 \in 1 .. 10
    BY SMT
  <2> QED
    BY <1>9, <2>1, Stamped, Zenon
<1>12. StampedWith(w, 9, c, t, u)
  <2>1. 2 * 9 - 1 = 17
    BY SMT
  <2> QED
    BY <1>11, <2>1, Zenon
<1> HIDE DEF u
<1>13. /\ t \in Seq(Octet) /\ Len(t) = 20 + Len(rest)
       /\ \A k \in 1 .. 10 : Carries(t, w, k)
  BY <1>9, Zenon DEF Headed
<1>14. /\ u \in Seq(Octet) /\ Len(u) = Len(t)
       /\ \A k \in 1 .. 10 : k # 9 => Carries(u, w, k)
       /\ WordSum(u) = WordSum(t) + (c - w[9])
       /\ \A j \in 21 .. Len(t) + 1 : From(u, j) = From(t, j)
  BY <1>12, Zenon DEF StampedWith
<1>15. Len(t) = 4 * n + Len(seg.payload) /\ 4 * n + 1 \in 21 .. Len(t) + 1
  <2> DEFINE m == Len(seg.payload)
             l == Len(opts)
             k == Len(t)
  <2>1. m \in Nat /\ l \in Nat /\ k = 20 + (l + m)
    BY <1>7, <1>13, Zenon
  <2>2. n \in 5 .. 15 /\ 20 + l = 4 * n
    BY <1>2, Zenon
  <2> HIDE DEF m, l, k
  <2>3. k = 4 * n + m /\ 4 * n + 1 \in 21 .. k + 1
    BY SMT, <2>1, <2>2
  <2> QED
    BY <2>3, Zenon DEF m, k
<1>16. /\ WordAt(t, 17) = 0 /\ t[13] \div 16 = n
  <2>1. 9 \in 1 .. 10 /\ 2 * 9 - 1 = 17 /\ 7 \in 1 .. 10 /\ 2 * 7 - 1 = 13
    BY SMT
  <2>4. Carries(t, w, 9) /\ Carries(t, w, 7)
    BY <1>13, <2>1, Zenon
  <2>2. WordAt(t, 2 * 9 - 1) = w[9] /\ t[2 * 7 - 1] = w[7] \div 256
    BY <2>4, Zenon DEF Carries
  <2>3. WordAt(t, 17) = w[9] /\ t[13] = w[7] \div 256
    BY SMT, <2>2
  <2> QED
    BY <1>4, <1>6, <2>3, Zenon
<1>17. /\ WordAt(u, 1) = w[1] /\ WordAt(u, 3) = w[2] /\ WordAt(u, 5) = w[3]
       /\ WordAt(u, 7) = w[4] /\ WordAt(u, 9) = w[5] /\ WordAt(u, 11) = w[6]
       /\ WordAt(u, 13) = w[7] /\ u[13] = w[7] \div 256
  <2>1. /\ 1 \in 1 .. 10 /\ 2 \in 1 .. 10 /\ 3 \in 1 .. 10 /\ 4 \in 1 .. 10
        /\ 5 \in 1 .. 10 /\ 6 \in 1 .. 10 /\ 7 \in 1 .. 10
        /\ 1 # 9 /\ 2 # 9 /\ 3 # 9 /\ 4 # 9 /\ 5 # 9 /\ 6 # 9 /\ 7 # 9
        /\ 2 * 1 - 1 = 1 /\ 2 * 2 - 1 = 3 /\ 2 * 3 - 1 = 5 /\ 2 * 4 - 1 = 7
        /\ 2 * 5 - 1 = 9 /\ 2 * 6 - 1 = 11 /\ 2 * 7 - 1 = 13
    BY SMT
  <2>2. \A k \in 1 .. 10 : k # 9 => Carries(u, w, k)
    BY <1>14, Zenon
  <2>3. /\ Carries(u, w, 1) /\ Carries(u, w, 2) /\ Carries(u, w, 3) /\ Carries(u, w, 4)
        /\ Carries(u, w, 5) /\ Carries(u, w, 6) /\ Carries(u, w, 7)
    BY <2>1, <2>2, Zenon
  <2> QED
    BY SMT, <2>3 DEF Carries
<1>18. QuadAt(u, 5) = seg.seq /\ QuadAt(u, 9) = seg.ack
  <2>1. /\ WordAt(u, 5) = seg.seq[1] /\ WordAt(u, 7) = seg.seq[2]
        /\ WordAt(u, 9) = seg.ack[1] /\ WordAt(u, 11) = seg.ack[2]
    BY <1>6, <1>17, Zenon
  <2>2. seg.seq = <<seg.seq[1], seg.seq[2]>> /\ seg.ack = <<seg.ack[1], seg.ack[2]>>
    BY <1>1, PairIs, Zenon
  <2>3. /\ QuadAt(u, 5) = <<WordAt(u, 5), WordAt(u, 7)>>
        /\ QuadAt(u, 9) = <<WordAt(u, 9), WordAt(u, 11)>>
    BY SMT DEF QuadAt
  <2> QED
    BY <2>1, <2>2, <2>3, Zenon
<1>19. u[13] \div 16 = n /\ FlagsIn(WordAt(u, 13)) = seg.flags
  BY <1>4, <1>6, <1>17, Zenon
<1>20. From(u, 4 * n + 1) = seg.payload
  BY <1>10, <1>14, <1>15, Zenon
<1>21. WordSum(u) = WordSum(t) + c
  <2>1. WordSum(t) \in Nat /\ c \in Int
    <3>1. WordSum(t) \in Nat
      BY <1>13, WordSumRuns, Zenon
    <3> QED
      BY SMT, <3>1, WordIs
  <2>2. WordSum(u) = WordSum(t) + (c - 0)
    BY <1>6, <1>14, Zenon
  <2> QED
    BY SMT, <2>1, <2>2
<1>22. HeaderLen <= 4 * n /\ 4 * n <= Len(t) /\ HeaderLen <= Len(t) /\ 17 \in 1 .. Len(t) - 1
  <2> DEFINE m == Len(seg.payload)
             k == Len(t)
  <2>1. n \in 5 .. 15 /\ m \in Nat /\ k = 4 * n + m
    BY <1>2, <1>7, <1>15, Zenon
  <2> HIDE DEF m, k
  <2>2. 20 <= 4 * n /\ 4 * n <= k /\ 20 <= k /\ 17 \in 1 .. k - 1
    BY SMT, <2>1
  <2> QED
    BY <2>2, Zenon DEF k, HeaderLen
<1>23. SegmentAt(u, seg)
  BY <1>6, <1>14, <1>17, <1>18, <1>19, <1>20, <1>22, Zenon DEF SegmentAt
<1>24. Writable(t, 17, c)
  BY <1>13, <1>22, Zenon DEF Writable
<1>25. TcpBuilt(seg, n, t, c, u)
  BY <1>13, <1>14, <1>15, <1>16, <1>21, <1>23, <1>24, Zenon DEF TcpBuilt
<1> QED
  BY <1>25, Zenon DEF u, t, rest, h, w, x, TcpBytes

-----------------------------------------------------------------------------
(* The bytes in front of other bytes.                                      *)
InFront(b, c, d) ==
  /\ d \in Seq(Octet) /\ Len(d) = Len(b) + Len(c)
  /\ \A i \in 1 .. Len(b) : d[i] = b[i]
  /\ \A i \in 1 .. Len(b) - 1 : WordAt(d, i) = WordAt(b, i)
  /\ \A i \in 1 .. Len(b) - 3 : QuadAt(d, i) = QuadAt(b, i)
  /\ \A i \in 1 .. Len(b) + 1 : \A j \in i - 1 .. Len(b) : SubSeq(d, i, j) = SubSeq(b, i, j)
  /\ \A i \in 1 .. Len(b) + 1 : From(d, i) = From(b, i) \o c

LEMMA InFrontIs ==
  ASSUME NEW b \in Seq(Octet), NEW c \in Seq(Octet)
  PROVE  InFront(b, c, b \o c)
<1> DEFINE d == b \o c
           m == Len(b)
           n == Len(c)
<1>1. /\ d \in Seq(Octet) /\ m \in Nat /\ n \in Nat /\ Len(d) = m + n
      /\ \A i \in 1 .. m + n : d[i] = IF i <= m THEN b[i] ELSE c[i - m]
  BY ConcatBytes, Zenon
<1>2. c \in Seq(Octet) /\ b \in Seq(Octet) /\ m = Len(b) /\ n = Len(c)
  BY Zenon
<1> HIDE DEF d, m, n
<1>3. \A i \in 1 .. m : d[i] = b[i]
  BY SMT, <1>1
<1>4. ASSUME NEW i \in 1 .. m - 1 PROVE WordAt(d, i) = WordAt(b, i)
  <2>1. i \in 1 .. m /\ i + 1 \in 1 .. m
    BY SMT, <1>1
  <2>2. d[i] = b[i] /\ d[i + 1] = b[i + 1]
    BY <1>3, <2>1, Zenon
  <2> QED
    BY <2>2, Zenon DEF WordAt
<1>5. ASSUME NEW i \in 1 .. m - 3 PROVE QuadAt(d, i) = QuadAt(b, i)
  <2>1. i \in 1 .. m - 1 /\ i + 2 \in 1 .. m - 1
    BY SMT, <1>1
  <2>2. WordAt(d, i) = WordAt(b, i) /\ WordAt(d, i + 2) = WordAt(b, i + 2)
    BY <1>4, <2>1, Zenon
  <2> QED
    BY <2>2, Zenon DEF QuadAt
<1>6. ASSUME NEW i \in 1 .. m + 1, NEW j \in i - 1 .. m
      PROVE  SubSeq(d, i, j) = SubSeq(b, i, j)
  <2> DEFINE x == SubSeq(d, i, j)
             y == SubSeq(b, i, j)
             l == j - i + 1
  <2>1. /\ i \in 1 .. Len(d) + 1 /\ j \in i - 1 .. Len(d)
        /\ i \in 1 .. Len(b) + 1 /\ j \in i - 1 .. Len(b)
    BY SMT, <1>1, <1>2
  <2>2. x \in Seq(Octet) /\ Len(x) = l /\ \A k \in 1 .. l : x[k] = d[i + k - 1]
    BY SMT, <1>1, <2>1, Slice
  <2>3. y \in Seq(Octet) /\ Len(y) = l /\ \A k \in 1 .. l : y[k] = b[i + k - 1]
    BY SMT, <1>2, <2>1, Slice
  <2>4. \A k \in 1 .. l : i + k - 1 \in 1 .. m
    BY SMT, <1>1
  <2> HIDE DEF x, y, l
  <2>5. \A k \in 1 .. l : x[k] = y[k]
    BY <1>3, <2>2, <2>3, <2>4, Zenon
  <2>6. x = y
    BY SMT, <2>2, <2>3, <2>5, SameBytes
  <2> QED
    BY <2>6, Zenon DEF x, y
<1>7. ASSUME NEW i \in 1 .. m + 1
      PROVE  From(d, i) = From(b, i) \o c
  <2> DEFINE x == SubSeq(d, i, m + n)
             y == SubSeq(b, i, m)
             z == y \o c
             l == m - i + 1
  <2>1. /\ i \in 1 .. Len(d) + 1 /\ m + n \in i - 1 .. Len(d) /\ m + n - i + 1 = l + n
        /\ i \in 1 .. Len(b) + 1 /\ m \in i - 1 .. Len(b) /\ l \in Nat
    BY SMT, <1>1, <1>2
  <2>2. x \in Seq(Octet) /\ Len(x) = l + n /\ \A k \in 1 .. l + n : x[k] = d[i + k - 1]
    <3> DEFINE e == m + n
    <3> HIDE DEF e, l
    <3>1. /\ SubSeq(d, i, e) \in Seq(Octet) /\ Len(SubSeq(d, i, e)) = e - i + 1
          /\ \A k \in 1 .. e - i + 1 : SubSeq(d, i, e)[k] = d[i + k - 1]
      <4>1. d \in Seq(Octet) /\ i \in 1 .. Len(d) + 1 /\ e \in i - 1 .. Len(d)
        BY <1>1, <2>1, Zenon DEF e
      <4> QED
        BY SMT, <4>1, Slice
    <3>2. e - i + 1 = l + n
      BY SMT, <1>1 DEF e, l
    <3> QED
      BY <3>1, <3>2, Zenon DEF e
  <2>3. y \in Seq(Octet) /\ Len(y) = l /\ \A k \in 1 .. l : y[k] = b[i + k - 1]
    BY SMT, <1>2, <2>1, Slice
  <2> HIDE DEF x, y
  <2>4. /\ z \in Seq(Octet) /\ Len(z) = Len(y) + n
        /\ \A k \in 1 .. Len(y) + n : z[k] = IF k <= Len(y) THEN y[k] ELSE c[k - Len(y)]
    BY <1>2, <2>3, ConcatBytes, Zenon
  <2> HIDE DEF z
  <2>5. ASSUME NEW k \in 1 .. l + n
        PROVE  x[k] = z[k]
    <3> DEFINE p == i + k - 1
    <3>1. p \in 1 .. m + n /\ (p <= m <=> k <= l) /\ p - m = k - l
      BY SMT, <1>1
    <3>2. x[k] = d[p]
      BY <2>2, Zenon
    <3>3. k <= l => y[k] = b[p]
      BY SMT, <2>3
    <3> HIDE DEF p, l
    <3>4. d[p] = IF p <= m THEN b[p] ELSE c[p - m]
      BY <1>1, <3>1, Zenon
    <3>5. z[k] = IF k <= l THEN y[k] ELSE c[k - l]
      BY <2>3, <2>4, Zenon
    <3>6. CASE k <= l
      BY SMT, <3>1, <3>2, <3>3, <3>4, <3>5, <3>6
    <3>7. CASE ~ (k <= l)
      BY SMT, <3>1, <3>2, <3>4, <3>5, <3>7
    <3> QED
      BY <3>6, <3>7, Zenon
  <2> HIDE DEF l
  <2>6. /\ x \in Seq(Octet) /\ z \in Seq(Octet) /\ Len(x) = Len(z)
        /\ \A k \in 1 .. Len(x) : x[k] = z[k]
    BY <2>2, <2>3, <2>4, <2>5, Zenon
  <2>7. x = z
    BY <2>6, SameBytes, Zenon
  <2> QED
    BY <1>1, <1>2, <2>7, Zenon DEF x, y, z, From
<1>8. InFront(b, c, d)
  BY <1>1, <1>2, <1>3, <1>4, <1>5, <1>6, <1>7, Zenon DEF InFront
<1> QED
  BY <1>8, Zenon DEF d

-----------------------------------------------------------------------------
(* What calculate_ip_checksum adds up is the header without its field.       *)
LEMMA IpChecksumIs ==
  ASSUME NEW d \in Seq(Octet), NEW hl \in 20 .. Len(d), HeaderLength(d) = hl
  PROVE  /\ calculate_ip_checksum(d) = Checksum(WordSum(SubSeq(d, 1, hl)) - WordAt(d, 11))
         /\ WordSum(SubSeq(d, 1, hl)) - WordAt(d, 11) \in Nat
<1> DEFINE s == SubSeq(d, 1, hl)
           z == WithWord(s, 11, 0)
<1>1. hl \in Int /\ 20 <= hl /\ hl <= Len(d) /\ Len(d) \in Nat
  BY SMT
<1>2. 1 \in 1 .. Len(d) + 1 /\ hl \in 1 - 1 .. Len(d) /\ hl - 1 + 1 = hl
  BY SMT, <1>1
<1>3. s \in Seq(Octet) /\ Len(s) = hl /\ \A k \in 1 .. hl : s[k] = d[1 + k - 1]
  BY SMT, <1>2, Slice
<1> HIDE DEF s
<1>4. 11 \in 1 .. Len(s) - 1 /\ 0 \in Word /\ 11 % 2 = 1
  BY SMT, <1>1, <1>3, WordIs
<1>5. Writable(s, 11, 0)
  BY <1>3, <1>4, Zenon DEF Writable
<1>6. Wrote(s, 11, 0, z)
  BY <1>5, Written, Zenon
<1>7. z \in Seq(Octet) /\ WordSum(z) = WordSum(s) + (0 - WordAt(s, 11))
  BY <1>4, <1>6, Zenon DEF Wrote
<1>8. WordSum(z) \in Nat /\ WordSum(s) \in Nat /\ WordAt(s, 11) \in Int
  <2>1. WordSum(z) \in Nat
    BY <1>7, WordSumRuns, Zenon
  <2>2. WordSum(s) \in Nat
    BY <1>3, WordSumRuns, Zenon
  <2>3. WordAt(s, 11) \in Int
    BY <1>3, <1>4, WordAtType, Zenon
  <2> QED
    BY <2>1, <2>2, <2>3, Zenon
<1>9. WordAt(s, 11) = WordAt(d, 11)
  <2>1. s[11] = d[11] /\ s[12] = d[12]
    BY SMT, <1>1, <1>3
  <2> QED
    BY SMT, <2>1 DEF WordAt
<1>10. WordSum(z) = WordSum(s) - WordAt(d, 11)
  BY SMT, <1>7, <1>8, <1>9
<1>11. calculate_ip_checksum(d) = Checksum(WordSum(z))
  BY Zenon DEF calculate_ip_checksum, z, s
<1> HIDE DEF z
<1>12. /\ calculate_ip_checksum(d) = Checksum(WordSum(s) - WordAt(d, 11))
       /\ WordSum(s) - WordAt(d, 11) \in Nat
  BY <1>8, <1>10, <1>11, Zenon
<1> QED
  BY <1>12, Zenon DEF s

-----------------------------------------------------------------------------
(* Datagrams.                                                              *)

(* The header of a datagram, before its checksum.                          *)
IpBytes(seg, n, total, ident, frag, ttl, opts) ==
  BytesOf(<<(64 + n) * 256, total, ident, frag, ttl * 256 + 6, 0>> \o seg.src \o seg.dst)
    \o opts

IpChoice(n, total, ident, frag, ttl, opts) ==
  /\ n \in 5 .. 15 /\ total \in Word /\ ident \in Word /\ frag \in Word /\ ttl \in Octet
  /\ opts \in Seq(Octet) /\ 20 + Len(opts) = 4 * n

IpBuilt(seg, n, total, h) ==
  /\ h \in Seq(Octet) /\ Len(h) = 4 * n
  /\ Writable(h, 11, Checksum(WordSum(h))) /\ WordAt(h, 11) = 0
  /\ HeaderLength(h) = 4 * n /\ WordSum(h) \in Nat /\ WordSum(h) > 0

IpStamped(seg, n, total, h, u) ==
  /\ u \in Seq(Octet) /\ Len(u) = 4 * n /\ HeaderLength(u) = 4 * n
  /\ WordAt(u, 3) = total /\ u[10] = 6
  /\ WordAt(u, 11) = Checksum(WordSum(h))
  /\ WordSum(u) = WordSum(h) + Checksum(WordSum(h))
  /\ QuadAt(u, 13) = seg.src /\ QuadAt(u, 17) = seg.dst

LEMMA IpBytesAre ==
  ASSUME NEW seg \in FrameSegment, NEW n, NEW total, NEW ident, NEW frag, NEW ttl,
         NEW opts, IpChoice(n, total, ident, frag, ttl, opts),
         NEW h, h = IpBytes(seg, n, total, ident, frag, ttl, opts)
  PROVE  /\ IpBuilt(seg, n, total, h)
         /\ IpStamped(seg, n, total, h, WithWord(h, 11, Checksum(WordSum(h))))
<1> DEFINE x == (64 + n) * 256
           y == ttl * 256 + 6
           w == <<x, total, ident, frag, y, 0>> \o seg.src \o seg.dst
           c == Checksum(WordSum(h))
           u == WithWord(h, 11, c)
<1>1. seg.src \in Quad /\ seg.dst \in Quad
  BY SegmentFieldsAre, Zenon
<1>2. /\ n \in 5 .. 15 /\ total \in Word /\ ident \in Word /\ frag \in Word /\ ttl \in Octet
      /\ opts \in Seq(Octet) /\ 20 + Len(opts) = 4 * n
  BY Zenon DEF IpChoice
<1>3. 0 \in Word
  BY SMT, WordIs
<1>4. x \in Word /\ x \div 256 = 64 + n
  <2>1. n \in 5 .. 15
    BY <1>2, Zenon
  <2>2. x \in Int /\ 0 <= x /\ x <= 65535 /\ x \div 256 = 64 + n
    BY SMT, <2>1
  <2> QED
    BY SMT, <2>2, WordIs
<1>5. y \in Word /\ y % 256 = 6
  <2>1. ttl \in Int /\ 0 <= ttl /\ ttl <= 255
    BY SMT, <1>2, OctetIs
  <2>2. y \in Int /\ 0 <= y /\ y <= 65535 /\ y % 256 = 6
    BY SMT, <2>1
  <2> QED
    BY SMT, <2>2, WordIs
<1> HIDE DEF x, y
<1>6. IpWordsAre(w, x, total, ident, frag, y, 0, seg.src, seg.dst)
  BY <1>1, <1>2, <1>3, <1>4, <1>5, IpWords, Zenon
<1>7. h = BytesOf(w) \o opts
  BY Zenon DEF IpBytes, x, y
<1> HIDE DEF w
<1>8. /\ Words10(w)
      /\ w[1] = x /\ w[2] = total /\ w[5] = y /\ w[6] = 0
      /\ w[7] = seg.src[1] /\ w[8] = seg.src[2]
      /\ w[9] = seg.dst[1] /\ w[10] = seg.dst[2]
  BY <1>6, Zenon DEF IpWordsAre
<1>9. Headed(w, opts, h)
  BY <1>2, <1>7, <1>8, HeadedIs, Zenon
<1>10. /\ h \in Seq(Octet) /\ Len(h) = 20 + Len(opts)
       /\ \A k \in 1 .. 10 : Carries(h, w, k)
  BY <1>9, Zenon DEF Headed
<1>11. /\ Len(h) = 4 * n
       /\ 1 \in 1 .. Len(h) /\ 11 \in 1 .. Len(h) - 1
  <2> DEFINE l == Len(h)
  <2>1. l = 4 * n /\ n \in 5 .. 15
    BY <1>2, <1>10, Zenon
  <2> HIDE DEF l
  <2>2. 1 \in 1 .. l /\ 11 \in 1 .. l - 1
    BY SMT, <2>1
  <2> QED
    BY <2>1, <2>2, Zenon DEF l
<1>12. WordAt(h, 11) = 0 /\ h[1] = 64 + n
  <2>1. 6 \in 1 .. 10 /\ 1 \in 1 .. 10
    BY SMT
  <2>4. Carries(h, w, 6) /\ Carries(h, w, 1)
    BY <1>10, <2>1, Zenon
  <2>2. WordAt(h, 2 * 6 - 1) = w[6] /\ h[2 * 1 - 1] = w[1] \div 256
    BY <2>4, Zenon DEF Carries
  <2>3. WordAt(h, 11) = w[6] /\ h[1] = w[1] \div 256
    BY SMT, <2>2
  <2> QED
    BY <1>4, <1>8, <2>3, Zenon
<1>13. 4 * ((64 + n) % 16) = 4 * n /\ 64 + n # 0
  BY SMT, <1>2
<1>14. WordSum(h) \in Nat /\ WordSum(h) > 0
  <2>1. h[1] # 0
    BY <1>12, <1>13, Zenon
  <2>2. WordSum(h) \in Nat
    BY <1>10, WordSumRuns, Zenon
  <2>3. WordSum(h) > 0
    BY <1>10, <1>11, <2>1, WordSumPositive, Zenon
  <2> QED
    BY <2>2, <2>3, Zenon
<1>15. c \in Word
  BY SMT, <1>14, ChecksumCompletes
<1>16. Writable(h, 11, c)
  BY <1>10, <1>11, <1>15, Zenon DEF Writable
<1>17. IpBuilt(seg, n, total, h)
  BY <1>10, <1>11, <1>12, <1>13, <1>14, <1>16, Zenon DEF IpBuilt, HeaderLength
<1> HIDE DEF c
<1>18. StampedWith(w, 6, c, h, u)
  <2>1. 6 \in 1 .. 10 /\ 2 * 6 - 1 = 11
    BY SMT
  <2>2. StampedWith(w, 6, c, h, WithWord(h, 2 * 6 - 1, c))
    BY <1>9, <1>15, <2>1, Stamped, Zenon
  <2> QED
    BY <2>1, <2>2, Zenon
<1> HIDE DEF u
<1>19. /\ u \in Seq(Octet) /\ Len(u) = Len(h)
       /\ WordAt(u, 2 * 6 - 1) = c
       /\ \A k \in 1 .. 10 : k # 6 => Carries(u, w, k)
       /\ WordSum(u) = WordSum(h) + (c - w[6])
  BY <1>18, Zenon DEF StampedWith
<1>20. /\ WordAt(u, 11) = c /\ WordAt(u, 3) = w[2]
       /\ u[1] = w[1] \div 256 /\ u[10] = w[5] % 256
       /\ WordAt(u, 13) = w[7] /\ WordAt(u, 15) = w[8]
       /\ WordAt(u, 17) = w[9] /\ WordAt(u, 19) = w[10]
  <2>1. /\ 1 \in 1 .. 10 /\ 2 \in 1 .. 10 /\ 5 \in 1 .. 10 /\ 7 \in 1 .. 10
        /\ 8 \in 1 .. 10 /\ 9 \in 1 .. 10 /\ 10 \in 1 .. 10
        /\ 1 # 6 /\ 2 # 6 /\ 5 # 6 /\ 7 # 6 /\ 8 # 6 /\ 9 # 6 /\ 10 # 6
    BY SMT
  <2>2. \A k \in 1 .. 10 : k # 6 => Carries(u, w, k)
    BY <1>19, Zenon
  <2>3. /\ Carries(u, w, 1) /\ Carries(u, w, 2) /\ Carries(u, w, 5) /\ Carries(u, w, 7)
        /\ Carries(u, w, 8) /\ Carries(u, w, 9) /\ Carries(u, w, 10)
    BY <2>1, <2>2, Zenon
  <2>4. WordAt(u, 2 * 6 - 1) = c
    BY <1>19, Zenon
  <2> QED
    BY SMT, <2>3, <2>4 DEF Carries
<1>21. QuadAt(u, 13) = seg.src /\ QuadAt(u, 17) = seg.dst
  <2>1. /\ WordAt(u, 13) = seg.src[1] /\ WordAt(u, 15) = seg.src[2]
        /\ WordAt(u, 17) = seg.dst[1] /\ WordAt(u, 19) = seg.dst[2]
    BY <1>8, <1>20, Zenon
  <2>2. seg.src = <<seg.src[1], seg.src[2]>> /\ seg.dst = <<seg.dst[1], seg.dst[2]>>
    BY <1>1, PairIs, Zenon
  <2>3. /\ QuadAt(u, 13) = <<WordAt(u, 13), WordAt(u, 15)>>
        /\ QuadAt(u, 17) = <<WordAt(u, 17), WordAt(u, 19)>>
    BY SMT DEF QuadAt
  <2> QED
    BY <2>1, <2>2, <2>3, Zenon
<1>22. WordSum(u) = WordSum(h) + c
  <2>1. WordSum(u) = WordSum(h) + (c - 0)
    BY <1>8, <1>19, Zenon
  <2>2. c \in Int
    BY SMT, <1>15, WordIs
  <2> QED
    BY SMT, <1>14, <2>1, <2>2
<1>23. HeaderLength(u) = 4 * n /\ u[10] = 6 /\ WordAt(u, 3) = total /\ WordAt(u, 11) = c
  <2>1. u[1] = 64 + n
    BY <1>4, <1>8, <1>20, Zenon
  <2>2. 4 * (u[1] % 16) = 4 * n
    BY <1>13, <2>1, Zenon
  <2>3. HeaderLength(u) = 4 * n
    BY <2>2, Zenon DEF HeaderLength
  <2>4. u[10] = 6
    BY <1>5, <1>8, <1>20, Zenon
  <2>5. WordAt(u, 3) = total /\ WordAt(u, 11) = c
    BY <1>8, <1>20, Zenon
  <2> QED
    BY <2>3, <2>4, <2>5, Zenon
<1>24. IpStamped(seg, n, total, h, u)
  BY <1>11, <1>19, <1>21, <1>22, <1>23, Zenon DEF IpStamped, c
<1> QED
  BY <1>17, <1>24, Zenon DEF u, c

(* What a datagram must be for the parsers to find the segment in it.        *)
DatagramAt(d, seg) ==
  /\ d \in Seq(Octet) /\ HeaderLen <= Len(d)
  /\ HeaderLen <= HeaderLength(d) /\ HeaderLength(d) <= WordAt(d, 3)
  /\ WordAt(d, 3) <= Len(d)
  /\ calculate_ip_checksum(d) = WordAt(d, 11)
  /\ d[10] = 6 /\ QuadAt(d, 13) = seg.src /\ QuadAt(d, 17) = seg.dst
  /\ SegmentAt(Ipv4Payload(d), seg)

(* A datagram put together: its header h, stamped to be u, and its payload t. *)
Parts(seg, n, total, h, u, t) ==
  /\ seg \in FrameSegment /\ n \in 5 .. 15 /\ total \in Word
  /\ IpBuilt(seg, n, total, h) /\ IpStamped(seg, n, total, h, u)
  /\ SegmentAt(t, seg) /\ total = 4 * n + Len(t)

Whole(seg, n, total, u, t, d) ==
  /\ DatagramAt(d, seg) /\ Len(d) = total /\ WordAt(d, 3) = total
  /\ SubSeq(d, 1, 4 * n) = u /\ SubSeq(d, 4 * n + 1, total) = t

LEMMA DatagramBuilt ==
  ASSUME NEW seg, NEW n, NEW total, NEW h, NEW u, NEW t, Parts(seg, n, total, h, u, t)
  PROVE  Whole(seg, n, total, u, t, u \o t)
<1> DEFINE d == u \o t
           c == Checksum(WordSum(h))
           k == 4 * n
           l == Len(t)
<1>1. /\ u \in Seq(Octet) /\ Len(u) = k /\ HeaderLength(u) = k
      /\ WordAt(u, 3) = total /\ u[10] = 6 /\ WordAt(u, 11) = c
      /\ WordSum(u) = WordSum(h) + c
      /\ QuadAt(u, 13) = seg.src /\ QuadAt(u, 17) = seg.dst
  BY Zenon DEF Parts, IpStamped
<1>2. t \in Seq(Octet) /\ SegmentAt(t, seg)
  BY Zenon DEF Parts, SegmentAt
<1>3. WordSum(h) \in Nat /\ WordSum(h) > 0
  BY Zenon DEF Parts, IpBuilt
<1>4. InFront(u, t, d)
  BY <1>1, <1>2, InFrontIs, Zenon
<1>5. l \in Nat /\ k \in Nat /\ 20 <= k
  <2>1. n \in 5 .. 15
    BY Zenon DEF Parts
  <2> QED
    BY SMT, <1>2, <2>1
<1>6. total = k + l
  BY Zenon DEF Parts
<1>7. /\ From(d, Len(u) + 1) = t /\ SubSeq(d, 1, Len(u)) = u
      /\ SubSeq(d, Len(u) + 1, Len(u) + Len(t)) = t
  BY <1>1, <1>2, Rest, Zenon
<1> HIDE DEF d, c, k, l
<1>8. d \in Seq(Octet) /\ Len(d) = total
  <2>1. d \in Seq(Octet) /\ Len(d) = Len(u) + Len(t)
    BY <1>4, Zenon DEF InFront
  <2> QED
    BY <1>1, <1>6, <2>1, Zenon DEF l
<1>9. SubSeq(d, 1, k) = u /\ SubSeq(d, k + 1, total) = t
  BY <1>1, <1>6, <1>7, Zenon DEF l
<1>10. /\ 1 \in 1 .. k /\ 10 \in 1 .. k /\ 3 \in 1 .. k - 1 /\ 11 \in 1 .. k - 1
       /\ 13 \in 1 .. k - 3 /\ 17 \in 1 .. k - 3 /\ k <= total /\ total <= total /\ k \in 20 .. total
  BY SMT, <1>5, <1>6
<1>11. d[1] = u[1] /\ d[10] = u[10]
  BY <1>1, <1>4, <1>10, Zenon DEF InFront
<1>12. WordAt(d, 3) = WordAt(u, 3) /\ WordAt(d, 11) = WordAt(u, 11)
  BY <1>1, <1>4, <1>10, Zenon DEF InFront
<1>13. QuadAt(d, 13) = QuadAt(u, 13) /\ QuadAt(d, 17) = QuadAt(u, 17)
  BY <1>1, <1>4, <1>10, Zenon DEF InFront
<1>14. HeaderLength(d) = k
  BY <1>1, <1>11, Zenon DEF HeaderLength
<1>15. calculate_ip_checksum(d) = c
  <2>1. calculate_ip_checksum(d) = Checksum(WordSum(SubSeq(d, 1, k)) - WordAt(d, 11))
    BY <1>8, <1>10, <1>14, IpChecksumIs, Zenon
  <2>2. c \in Int
    BY SMT, <1>3, ChecksumCompletes DEF c
  <2>3. WordSum(u) - c = WordSum(h)
    BY SMT, <1>1, <1>3, <2>2
  <2> QED
    BY <1>1, <1>9, <1>12, <2>1, <2>3, Zenon DEF c
<1>16. Ipv4Payload(d) = t
  BY <1>1, <1>9, <1>12, <1>14, Zenon DEF Ipv4Payload
<1>17. HeaderLen <= k /\ HeaderLen <= total
  BY SMT, <1>5, <1>6 DEF HeaderLen
<1>18. DatagramAt(d, seg)
  BY <1>1, <1>2, <1>8, <1>10, <1>11, <1>12, <1>13, <1>14, <1>15, <1>16, <1>17, Zenon
     DEF DatagramAt
<1>19. Whole(seg, n, total, u, t, d)
  BY <1>1, <1>8, <1>9, <1>12, <1>18, Zenon DEF Whole, k
<1> QED
  BY <1>19, Zenon DEF d

LEMMA HeaderLengthType ==
  ASSUME NEW d \in Seq(Octet), NEW i \in 1 .. Len(d)
  PROVE  /\ d[i] % 16 \in Nat /\ d[i] \div 16 \in Nat
         /\ 4 * (d[i] % 16) \in Nat /\ 4 * (d[i] \div 16) \in Nat
<1> DEFINE x == d[i]
<1>1. x \in Octet
  BY SMT
<1> HIDE DEF x
<1>2. x \in Int /\ 0 <= x /\ x <= 255
  BY SMT, <1>1, OctetIs
<1>3. x % 16 \in Nat /\ x \div 16 \in Nat /\ 4 * (x % 16) \in Nat /\ 4 * (x \div 16) \in Nat
  BY SMT, <1>2
<1> QED
  BY <1>3, Zenon DEF x

(* The numbers in a datagram.                                              *)
Measured(d) ==
  /\ d \in Seq(Octet) /\ Len(d) \in Nat
  /\ HeaderLength(d) \in 20 .. Len(d) /\ WordAt(d, 3) \in HeaderLength(d) .. Len(d)

LEMMA DatagramMeasured ==
  ASSUME NEW seg, NEW d, DatagramAt(d, seg)
  PROVE  Measured(d)
<1> DEFINE k == HeaderLength(d)
           total == WordAt(d, 3)
           l == Len(d)
<1>1. d \in Seq(Octet) /\ HeaderLen <= l /\ HeaderLen <= k /\ k <= total /\ total <= l
  BY Zenon DEF DatagramAt
<1>2. l \in Nat
  BY SMT, <1>1
<1>3. 1 \in 1 .. l /\ 3 \in 1 .. l - 1
  <2> HIDE DEF l, k, total
  <2>1. HeaderLen <= l
    BY <1>1, Zenon
  <2> QED
    BY SMT, <1>2, <2>1 DEF HeaderLen
<1>4. k \in Nat
  BY <1>1, <1>3, HeaderLengthType, Zenon DEF HeaderLength
<1>5. total \in Int
  BY <1>1, <1>3, WordAtType, Zenon
<1> HIDE DEF l, k, total
<1>6. HeaderLen <= k /\ k <= total /\ total <= l
  BY <1>1, Zenon
<1>7. k \in 20 .. l /\ total \in k .. l
  BY SMT, <1>2, <1>4, <1>5, <1>6 DEF HeaderLen
<1> QED
  BY <1>1, <1>2, <1>7, Zenon DEF l, k, total, Measured

(* Padding behind a datagram changes nothing the parsers look at.            *)
LEMMA DatagramPadded ==
  ASSUME NEW seg, NEW d, DatagramAt(d, seg), NEW p \in Seq(Octet)
  PROVE  DatagramAt(d \o p, seg)
<1> DEFINE e == d \o p
           k == HeaderLength(d)
           total == WordAt(d, 3)
           l == Len(d)
<1>1. /\ calculate_ip_checksum(d) = WordAt(d, 11)
      /\ HeaderLen <= l /\ HeaderLen <= k /\ k <= total
      /\ d[10] = 6 /\ QuadAt(d, 13) = seg.src /\ QuadAt(d, 17) = seg.dst
      /\ SegmentAt(Ipv4Payload(d), seg)
  BY Zenon DEF DatagramAt
<1>2. d \in Seq(Octet) /\ l \in Nat /\ k \in 20 .. l /\ total \in k .. l
  BY DatagramMeasured, Zenon DEF Measured
<1>3. InFront(d, p, e)
  BY <1>2, InFrontIs, Zenon
<1> DEFINE q == Len(p)
           m == Len(e)
<1>4. e \in Seq(Octet) /\ m = l + q
  BY <1>3, Zenon DEF InFront
<1>5. q \in Nat
  BY SMT
<1> HIDE DEF e, k, total, l, q, m
<1>6. /\ 1 \in 1 .. l /\ 10 \in 1 .. l /\ 3 \in 1 .. l - 1 /\ 11 \in 1 .. l - 1
      /\ 13 \in 1 .. l - 3 /\ 17 \in 1 .. l - 3
      /\ 1 \in 1 .. l + 1 /\ k \in 1 - 1 .. l
      /\ k + 1 \in 1 .. l + 1 /\ total \in (k + 1) - 1 .. l
      /\ k \in 20 .. m /\ total <= m /\ 20 <= m
  BY SMT, <1>2, <1>4, <1>5
<1>7. e[1] = d[1] /\ e[10] = d[10]
  BY <1>3, <1>6, Zenon DEF InFront, l
<1>8. WordAt(e, 3) = total /\ WordAt(e, 11) = WordAt(d, 11)
  BY <1>3, <1>6, Zenon DEF InFront, l, total
<1>9. QuadAt(e, 13) = QuadAt(d, 13) /\ QuadAt(e, 17) = QuadAt(d, 17)
  BY <1>3, <1>6, Zenon DEF InFront, l
<1>10. SubSeq(e, 1, k) = SubSeq(d, 1, k) /\ SubSeq(e, k + 1, total) = SubSeq(d, k + 1, total)
  BY <1>3, <1>6, Zenon DEF InFront, l
<1>11. HeaderLength(e) = k
  BY <1>7, Zenon DEF HeaderLength, k
<1>12. calculate_ip_checksum(e) = WordAt(d, 11)
  <2>1. calculate_ip_checksum(e) = Checksum(WordSum(SubSeq(e, 1, k)) - WordAt(e, 11))
    BY <1>4, <1>6, <1>11, IpChecksumIs, Zenon DEF m
  <2>2. calculate_ip_checksum(d) = Checksum(WordSum(SubSeq(d, 1, k)) - WordAt(d, 11))
    BY <1>2, IpChecksumIs, Zenon DEF k, l
  <2> QED
    BY <1>1, <1>8, <1>10, <2>1, <2>2, Zenon
<1>13. Ipv4Payload(e) = Ipv4Payload(d)
  BY <1>8, <1>10, <1>11, Zenon DEF Ipv4Payload, k, total
<1>14. HeaderLen <= m
  BY <1>6, Zenon DEF HeaderLen
<1>15. DatagramAt(e, seg)
  BY <1>1, <1>4, <1>6, <1>7, <1>8, <1>9, <1>11, <1>12, <1>13, <1>14, Zenon DEF DatagramAt, m
<1> QED
  BY <1>15, Zenon DEF e

-----------------------------------------------------------------------------
(* What a receiver verifies.                                               *)

LEMMA Verified ==
  ASSUME NEW b \in Seq(Octet), NEW n \in Nat, WordSum(b) = n + Checksum(n),
         WordSum(b) > 0
  PROVE  Verifies(b)
<1>1. SumOfWords(b) = WordSum(b)
  BY SumOfWordsIs, Zenon
<1>2. (n + Checksum(n)) % 65535 = 0
  BY SMT, ChecksumCompletes
<1> QED
  BY SMT, <1>1, <1>2 DEF Verifies

(* The pseudo header of a segment of a given length.                        *)
Pseudo(src, dst, length) == BytesOf(src \o dst \o <<6, length>>)

LEMMA PseudoIs ==
  ASSUME NEW src \in Quad, NEW dst \in Quad, NEW length \in Word
  PROVE  /\ Pseudo(src, dst, length) \in Seq(Octet) /\ Len(Pseudo(src, dst, length)) % 2 = 0
         /\ WordSum(Pseudo(src, dst, length)) \in Nat
         /\ WordSum(Pseudo(src, dst, length)) > 0
<1> DEFINE g == src \o dst
           t == <<6, length>>
           w == g \o t
           p == BytesOf(w)
<1>1. src \in Seq(Word) /\ Len(src) = 2 /\ dst \in Seq(Word) /\ Len(dst) = 2
  BY PairIs, Zenon
<1>2. t \in Seq(Word) /\ Len(t) = 2 /\ t[1] = 6
  <2>1. 6 \in Word
    BY SMT, WordIs
  <2> QED
    BY SMT, <2>1
<1> HIDE DEF t
<1>3. g \in Seq(Word) /\ Len(g) = Len(src) + Len(dst)
  BY <1>1, ConcatWords, Zenon
<1> HIDE DEF g
<1>4. /\ w \in Seq(Word) /\ Len(w) = Len(g) + Len(t)
      /\ \A i \in 1 .. Len(g) + Len(t) : w[i] = IF i <= Len(g) THEN g[i] ELSE t[i - Len(g)]
  BY <1>2, <1>3, ConcatWords, Zenon
<1> HIDE DEF w
<1>5. Len(w) = 6 /\ w[5] = 6 /\ 5 \in 1 .. Len(w)
  BY SMT, <1>1, <1>2, <1>3, <1>4
<1>6. /\ p \in Seq(Octet) /\ Len(p) = 2 * Len(w)
      /\ \A k \in 1 .. Len(w) :
           /\ p[2 * k - 1] = w[k] \div 256
           /\ p[2 * k] = w[k] % 256
           /\ WordAt(p, 2 * k - 1) = w[k]
  BY <1>4, BytesOfIs, Zenon
<1> HIDE DEF p
<1>7. Len(p) = 12 /\ p[10] = 6 % 256
  BY SMT, <1>5, <1>6
<1>8. Len(p) % 2 = 0 /\ 10 \in 1 .. Len(p) /\ p[10] # 0
  BY SMT, <1>7
<1>9. WordSum(p) \in Nat
  BY <1>6, WordSumRuns, Zenon
<1>10. WordSum(p) > 0
  <2>1. p \in Seq(Octet)
    BY <1>6, Zenon
  <2> QED
    BY <1>8, <2>1, WordSumPositive, Zenon
<1> QED
  BY <1>6, <1>8, <1>9, <1>10, Zenon DEF p, w, g, t, Pseudo

InjectedAt(d, seg) ==
  /\ WordAt(d, 3) = 40 + Len(seg.payload) /\ WordAt(d, 3) <= Len(d)
  /\ Verifies(SubSeq(d, 1, 20))
  /\ Verifies(Pseudo(QuadAt(d, 13), QuadAt(d, 17), Len(SubSeq(d, 21, WordAt(d, 3))))
                \o SubSeq(d, 21, WordAt(d, 3)))

LEMMA InjectedPadded ==
  ASSUME NEW seg, NEW d, Measured(d), InjectedAt(d, seg), NEW p \in Seq(Octet)
  PROVE  InjectedAt(d \o p, seg)
<1> DEFINE e == d \o p
           k == HeaderLength(d)
           total == WordAt(d, 3)
           l == Len(d)
           q == Len(p)
           m == Len(e)
<1>1. d \in Seq(Octet) /\ l \in Nat /\ k \in 20 .. l /\ total \in k .. l
  BY Zenon DEF Measured
<1>2. InFront(d, p, e)
  BY <1>1, InFrontIs, Zenon
<1>3. m = l + q
  BY <1>2, Zenon DEF InFront
<1>4. q \in Nat
  BY SMT
<1> HIDE DEF e, k, total, l, q, m
<1>5. /\ 3 \in 1 .. l - 1 /\ 13 \in 1 .. l - 3 /\ 17 \in 1 .. l - 3
      /\ 1 \in 1 .. l + 1 /\ 20 \in 1 - 1 .. l
      /\ 21 \in 1 .. l + 1 /\ total \in 21 - 1 .. l /\ total <= m
  BY SMT, <1>1, <1>3, <1>4
<1>6. WordAt(e, 3) = total
  BY <1>2, <1>5, Zenon DEF InFront, l, total
<1>7. QuadAt(e, 13) = QuadAt(d, 13) /\ QuadAt(e, 17) = QuadAt(d, 17)
  BY <1>2, <1>5, Zenon DEF InFront, l
<1>8. SubSeq(e, 1, 20) = SubSeq(d, 1, 20) /\ SubSeq(e, 21, total) = SubSeq(d, 21, total)
  BY <1>2, <1>5, Zenon DEF InFront, l
<1>9. /\ total = 40 + Len(seg.payload)
      /\ Verifies(SubSeq(d, 1, 20))
      /\ Verifies(Pseudo(QuadAt(d, 13), QuadAt(d, 17), Len(SubSeq(d, 21, total)))
                    \o SubSeq(d, 21, total))
  BY Zenon DEF InjectedAt, total
<1>10. InjectedAt(e, seg)
  BY <1>5, <1>6, <1>7, <1>8, <1>9, Zenon DEF InjectedAt, m
<1> QED
  BY <1>10, Zenon DEF e

-----------------------------------------------------------------------------
(* Frames.                                                                 *)
Genuine(fr, seg) ==
  /\ fr \in Seq(Octet) /\ Len(fr) \in Nat /\ 14 <= Len(fr) /\ WordAt(fr, 13) = EtherTypeIp
  /\ DatagramAt(From(fr, 15), seg)

LEMMA FramePadded ==
  ASSUME NEW seg, NEW fr, Genuine(fr, seg), NEW p \in Seq(Octet)
  PROVE  Genuine(fr \o p, seg) /\ From(fr \o p, 15) = From(fr, 15) \o p
<1> DEFINE e == fr \o p
           l == Len(fr)
           q == Len(p)
           m == Len(e)
<1>1. fr \in Seq(Octet) /\ l \in Nat /\ 14 <= l /\ WordAt(fr, 13) = EtherTypeIp
  BY Zenon DEF Genuine
<1>2. InFront(fr, p, e)
  BY <1>1, InFrontIs, Zenon
<1>3. e \in Seq(Octet) /\ m = l + q
  BY <1>2, Zenon DEF InFront
<1>4. q \in Nat
  BY SMT
<1> HIDE DEF e, l, q, m
<1>5. 13 \in 1 .. l - 1 /\ 15 \in 1 .. l + 1 /\ m \in Nat /\ 14 <= m
  BY SMT, <1>1, <1>3, <1>4
<1>6. WordAt(e, 13) = WordAt(fr, 13) /\ From(e, 15) = From(fr, 15) \o p
  BY <1>2, <1>5, Zenon DEF InFront, l
<1>7. DatagramAt(From(fr, 15) \o p, seg)
  BY DatagramPadded, Zenon DEF Genuine
<1>8. Genuine(e, seg)
  BY <1>1, <1>3, <1>5, <1>6, <1>7, Zenon DEF Genuine, m
<1> QED
  BY <1>6, <1>8, Zenon DEF e

LEMMA SixBytes ==
  ASSUME NEW a \in [1 .. 6 -> Octet]
  PROVE  a \in Seq(Octet) /\ Len(a) = 6
<1>1. 6 \in Nat
  BY SMT
<1>2. a \in Seq(Octet)
  <2>1. \E n \in Nat : a \in [1 .. n -> Octet]
    BY <1>1, Zenon
  <2> QED
    BY <2>1, SeqDef, Zenon
<1>3. Len(a) \in Nat /\ DOMAIN a = 1 .. Len(a)
  BY <1>2, LenProperties, Zenon
<1>4. DOMAIN a = 1 .. 6
  BY Zenon
<1> QED
  BY SMT, <1>2, <1>3, <1>4

LEMMA EthernetHeaderIs ==
  ASSUME NEW a \in [1 .. 6 -> Octet], NEW b \in [1 .. 6 -> Octet], NEW d \in Seq(Octet)
  PROVE  LET fr == a \o b \o BytesOf(<<EtherTypeIp>>) \o d
         IN /\ a \o b \o BytesOf(<<EtherTypeIp>>) \in Seq(Octet)
            /\ fr \in Seq(Octet) /\ Len(fr) \in Nat /\ 14 <= Len(fr)
            /\ WordAt(fr, 13) = EtherTypeIp /\ From(fr, 15) = d
<1> DEFINE g == a \o b
           w == <<EtherTypeIp>>
           t == BytesOf(w)
           h == g \o t
           fr == h \o d
           m == Len(h)
           l == Len(d)
<1>1. a \in Seq(Octet) /\ Len(a) = 6 /\ b \in Seq(Octet) /\ Len(b) = 6
  BY SixBytes, Zenon
<1>2. w \in Seq(Word) /\ Len(w) = 1 /\ w[1] = EtherTypeIp
  <2>1. EtherTypeIp \in Word
    BY SMT, WordIs DEF EtherTypeIp
  <2> QED
    BY SMT, <2>1
<1> HIDE DEF w
<1>3. /\ t \in Seq(Octet) /\ Len(t) = 2 * Len(w)
      /\ \A k \in 1 .. Len(w) :
           /\ t[2 * k - 1] = w[k] \div 256
           /\ t[2 * k] = w[k] % 256
           /\ WordAt(t, 2 * k - 1) = w[k]
  BY <1>2, BytesOfIs, Zenon
<1> HIDE DEF t
<1>4. Len(t) = 2 /\ WordAt(t, 1) = EtherTypeIp
  <2>1. 1 \in 1 .. Len(w)
    BY SMT, <1>2
  <2>2. WordAt(t, 2 * 1 - 1) = w[1]
    BY <1>3, <2>1, Zenon
  <2>3. WordAt(t, 1) = w[1] /\ Len(t) = 2
    BY SMT, <1>2, <1>3, <2>2
  <2> QED
    BY <1>2, <2>3, Zenon
<1>5. g \in Seq(Octet) /\ Len(g) = Len(a) + Len(b)
  BY <1>1, ConcatBytes, Zenon
<1> HIDE DEF g
<1>6. /\ h \in Seq(Octet) /\ Len(h) = Len(g) + Len(t)
      /\ \A i \in 1 .. Len(g) + Len(t) : h[i] = IF i <= Len(g) THEN g[i] ELSE t[i - Len(g)]
  <2>1. g \in Seq(Octet) /\ t \in Seq(Octet)
    BY <1>3, <1>5, Zenon
  <2> QED
    BY <2>1, ConcatBytes, Zenon
<1> HIDE DEF h
<1>7. Len(g) = 12 /\ m = 14
  BY SMT, <1>1, <1>4, <1>5, <1>6
<1>8. h[13] = t[1] /\ h[13 + 1] = t[1 + 1]
  BY SMT, <1>4, <1>6, <1>7
<1>9. WordAt(h, 13) = EtherTypeIp
  BY <1>4, <1>8, Zenon DEF WordAt
<1>10. InFront(h, d, fr)
  BY <1>6, InFrontIs, Zenon
<1>11. From(fr, m + 1) = d
  BY <1>6, Rest, Zenon
<1>12. l \in Nat
  BY SMT
<1> HIDE DEF m, l
<1>13. 13 \in 1 .. m - 1 /\ m + 1 = 15 /\ m + l \in Nat /\ 14 <= m + l
  BY SMT, <1>7, <1>12
<1> HIDE DEF fr
<1>14. fr \in Seq(Octet) /\ Len(fr) = m + l /\ WordAt(fr, 13) = WordAt(h, 13)
  BY <1>10, <1>13, Zenon DEF InFront, m, l
<1>15. From(fr, 15) = d
  BY <1>11, <1>13, Zenon
<1> QED
  BY <1>6, <1>9, <1>13, <1>14, <1>15, Zenon DEF fr, h, g, t, w

Short(m) == m \in Int /\ 0 <= m /\ m <= 65535
Stays(m) == Short(m) /\ m % 65536 = m

LEMMA TwentyLess ==
  ASSUME NEW l \in Nat, Short(40 + l)
  PROVE  Stays(20 + l)
<1>1. 20 + l \in Int /\ 0 <= 20 + l /\ 20 + l <= 65535
  BY SMT DEF Short
<1> DEFINE n == 20 + l
<1> HIDE DEF n
<1>2. n \in Int /\ 0 <= n /\ n <= 65535 /\ n = 65536 * 0 + n /\ 65536 \in Nat \ {0}
  BY SMT, <1>1 DEF n
<1>3. n % 65536 = n
  BY SMT, <1>2
<1> QED
  BY SMT, <1>1, <1>3 DEF n, Short, Stays

-----------------------------------------------------------------------------
(* The frames the stack injects.                                           *)

(* Nothing in front of, or behind, a sequence; and all of it.                *)
LEMMA NoBytes ==
  ASSUME NEW b \in Seq(Octet)
  PROVE  /\ b \o <<>> = b /\ <<>> \o b = b /\ <<>> \in Seq(Octet) /\ Len(<<>>) = 0
         /\ SubSeq(b, 1, Len(b)) = b
<1>1. b \o <<>> = b /\ <<>> \o b = b /\ <<>> \in Seq(Octet) /\ Len(<<>>) = 0
  BY SMT, ConcatEmptySeq
<1>2. SubSeq(b \o <<>>, 1, Len(b)) = b
  <2>1. <<>> \in Seq(Octet)
    BY <1>1, Zenon
  <2> QED
    BY <2>1, Rest, Zenon
<1>3. SubSeq(b, 1, Len(b)) = b
  BY <1>1, <1>2, Zenon
<1> QED
  BY <1>1, <1>3, Zenon

LEMMA TcpHeaderIs ==
  ASSUME NEW seg \in FrameSegment, NEW h,
         h = build_tcp_header(seg.sport, seg.dport, seg.seq, seg.ack, seg.flags, WindowSize)
  PROVE  /\ h \in Seq(Octet) /\ Len(h) = 20
         /\ h \o seg.payload = TcpBytes(seg, 5, 0, WindowSize, <<>>)
<1> DEFINE x == OffsetWord(5, seg.flags, 0)
           w == <<seg.sport, seg.dport>> \o seg.seq \o seg.ack \o <<x, WindowSize, 0, 0>>
<1>1. /\ seg.seq \in Quad /\ seg.ack \in Quad
      /\ seg.sport \in Word /\ seg.dport \in Word
      /\ seg.flags \in SUBSET Flag /\ seg.payload \in Seq(Octet)
  BY SegmentFieldsAre, Zenon
<1>2. 5 \in 0 .. 15 /\ 0 \in UnknownFlags /\ 0 \in Word /\ WindowSize \in Word
  BY SMT, WordIs DEF UnknownFlags, WindowSize
<1>3. /\ OffsetAndFlagsAre(x, 5, seg.flags)
      /\ FlagBits(seg.flags) % 64 = FlagBits(seg.flags) /\ FlagBits(seg.flags) \in Nat
  BY <1>1, <1>2, OffsetAndFlags, Zenon
<1>4. 5 * 4096 + (FlagBits(seg.flags) % 64) = x
  BY SMT, <1>3 DEF OffsetWord
<1> HIDE DEF x
<1>5. x \in Word
  BY <1>3, Zenon DEF OffsetAndFlagsAre
<1>6. TcpWordsAre(w, seg.sport, seg.dport, seg.seq, seg.ack, x, WindowSize, 0, 0)
  BY <1>1, <1>2, <1>5, TcpWords, Zenon
<1>7. h = BytesOf(w)
  BY SMT, <1>4 DEF build_tcp_header
<1> HIDE DEF w
<1>8. w \in Seq(Word) /\ Len(w) = 10
  BY <1>6, Zenon DEF TcpWordsAre, Words10
<1>9. h \in Seq(Octet) /\ Len(h) = 2 * Len(w)
  <2>1. BytesOf(w) \in Seq(Octet) /\ Len(BytesOf(w)) = 2 * Len(w)
    <3>1. w \in Seq(Word)
      BY <1>8, Zenon
    <3> QED
      BY <3>1, BytesOfIs, Zenon
  <2> QED
    BY <1>7, <2>1, Zenon
<1>10. Len(h) = 20
  BY SMT, <1>8, <1>9
<1>11. h \o seg.payload = TcpBytes(seg, 5, 0, WindowSize, <<>>)
  <2>1. <<>> \o seg.payload = seg.payload
    BY <1>1, NoBytes, Zenon
  <2> QED
    BY <1>7, <2>1, Zenon DEF TcpBytes, w, x
<1> QED
  BY <1>9, <1>10, <1>11, Zenon

LEMMA TcpChecksumIs ==
  ASSUME NEW seg \in FrameSegment, NEW h \in Seq(Octet), Len(h) = 20,
         h[13] \div 16 = 5, WordAt(h, 17) = 0,
         40 + Len(seg.payload) \in Word
  PROVE  LET n == WordSum(Pseudo(seg.src, seg.dst, 20 + Len(seg.payload)))
                    + WordSum(h \o seg.payload)
         IN calculate_tcp_checksum(seg.src, seg.dst, h, seg.payload) = Checksum(n) /\ n \in Nat
<1> DEFINE l == Len(seg.payload)
           s == SubSeq(h, 1, 20)
           z == WithWord(h, 17, 0)
           p == Pseudo(seg.src, seg.dst, 20 + l)
           a == WordSum(h)
           b == WordSum(seg.payload)
           e == WordSum(p)
<1>1. seg.src \in Quad /\ seg.dst \in Quad /\ seg.payload \in Seq(Octet)
  BY SegmentFieldsAre, Zenon
<1>2. l \in Nat
  BY SMT, <1>1
<1>3. /\ 20 + l \in Word
      /\ PseudoHeader(seg.src, seg.dst, 20 + l) = seg.src \o seg.dst \o <<6, 20 + l>>
  <2> HIDE DEF l
  <2>1. Short(40 + l)
    <3>1. 40 + l \in Word
      BY Zenon DEF l
    <3> QED
      BY SMT, <3>1, WordIs DEF Short
  <2>5. Stays(20 + l)
    BY <1>2, <2>1, TwentyLess, Zenon
  <2>2. Short(20 + l) /\ (20 + l) % 65536 = 20 + l
    BY SMT, <2>5 DEF Stays
  <2>3. 20 + l \in Word
    BY SMT, <2>2, WordIs DEF Short
  <2>4. PseudoHeader(seg.src, seg.dst, 20 + l) = seg.src \o seg.dst \o <<6, 20 + l>>
    <3> DEFINE m == 20 + l
               k == m % 65536
    <3>1. k = m
      BY SMT, <2>2
    <3>2. PseudoHeader(seg.src, seg.dst, m) = seg.src \o seg.dst \o <<6, k>>
      <4> HIDE DEF m
      <4> QED
        BY SMT DEF PseudoHeader, ProtocolTcp
    <3> HIDE DEF k
    <3> QED
      BY <3>1, <3>2, Zenon
  <2> QED
    BY <2>3, <2>4, Zenon
<1>4. s = h
  BY NoBytes, Zenon
<1>5. WordSum(z) = a
  <2>1. 17 \in 1 .. Len(h) - 1 /\ 0 \in Word /\ 17 % 2 = 1
    BY SMT, WordIs
  <2>2. Writable(h, 17, 0)
    BY <2>1, Zenon DEF Writable
  <2>3. Wrote(h, 17, 0, z)
    BY <2>2, Written, Zenon
  <2>4. WordSum(z) = WordSum(h) + (0 - WordAt(h, 17))
    BY <2>1, <2>3, Zenon DEF Wrote
  <2>5. WordSum(h) \in Nat
    BY WordSumRuns, Zenon
  <2> HIDE DEF z
  <2> QED
    BY SMT, <2>4, <2>5
<1>6. 4 * (h[13] \div 16) = 20
  BY SMT
<1>7. BytesOf(PseudoHeader(seg.src, seg.dst, 20 + l)) = p
  BY <1>3, Zenon DEF Pseudo
<1>8. a \in Nat /\ b \in Nat /\ e \in Nat
  <2>1. a \in Nat
    BY WordSumRuns, Zenon
  <2>2. b \in Nat
    BY <1>1, WordSumRuns, Zenon
  <2>3. e \in Nat
    BY <1>1, <1>3, PseudoIs, Zenon
  <2> QED
    BY <2>1, <2>2, <2>3, Zenon
<1>9. WordSum(h \o seg.payload) = a + b
  <2>1. Len(h) % 2 = 0
    BY SMT
  <2> QED
    BY <1>1, <2>1, WordSumConcat, Zenon
<1>10. calculate_tcp_checksum(seg.src, seg.dst, h, seg.payload) = Checksum(e + a + b)
  <2>1. calculate_tcp_checksum(seg.src, seg.dst, h, seg.payload)
          = Checksum(WordSum(BytesOf(PseudoHeader(seg.src, seg.dst, 20 + l)))
                       + WordSum(WithWord(SubSeq(h, 1, 20), 17, 0)) + b)
    <3>1. (IF 4 * (h[13] \div 16) < HeaderLen THEN HeaderLen ELSE 4 * (h[13] \div 16)) = 20
      BY SMT, <1>6 DEF HeaderLen
    <3> QED
      BY <3>1, Zenon DEF calculate_tcp_checksum
  <2> HIDE DEF p
  <2> QED
    BY <1>4, <1>5, <1>7, <2>1, Zenon
<1> HIDE DEF a, b, e
<1>11. e + a + b = e + (a + b) /\ e + (a + b) \in Nat
  BY SMT, <1>8
<1> QED
  BY <1>9, <1>10, <1>11, Zenon DEF e, p, l

LEMMA IpHeaderIs ==
  ASSUME NEW seg \in FrameSegment, NEW total \in Word, NEW ident \in Word, NEW h,
         h = IpBytes(seg, 5, total, ident, 0, 64, <<>>)
  PROVE  /\ build_ip_header(seg.src, seg.dst, total, ProtocolTcp, ident)
              = WithWord(h, 11, Checksum(WordSum(h)))
         /\ IpBuilt(seg, 5, total, h)
         /\ IpStamped(seg, 5, total, h, WithWord(h, 11, Checksum(WordSum(h))))
<1> DEFINE k == total % 65536
           w == <<(64 + 5) * 256, total, ident, 0, 64 * 256 + 6, 0>> \o seg.src \o seg.dst
           g == BytesOf(w)
           l == Len(h)
<1>1. seg.src \in Quad /\ seg.dst \in Quad
  BY SegmentFieldsAre, Zenon
<1>2. k = total
  <2>1. total \in Int /\ 0 <= total /\ total <= 65535
    BY SMT, WordIs
  <2> QED
    BY SMT, <2>1
<1>3. IpChoice(5, total, ident, 0, 64, <<>>)
  <2>1. 5 \in 5 .. 15 /\ 0 \in Word /\ 64 \in Octet
    BY SMT, WordIs, OctetIs
  <2>2. <<>> \in Seq(Octet) /\ 20 + Len(<<>>) = 4 * 5
    BY SMT
  <2> QED
    BY <2>1, <2>2, Zenon DEF IpChoice
<1>4. /\ IpBuilt(seg, 5, total, h)
      /\ IpStamped(seg, 5, total, h, WithWord(h, 11, Checksum(WordSum(h))))
  BY <1>3, IpBytesAre, Zenon
<1>5. /\ h \in Seq(Octet) /\ Len(h) = 4 * 5 /\ WordAt(h, 11) = 0
      /\ HeaderLength(h) = 4 * 5 /\ WordSum(h) \in Nat
  BY <1>4, Zenon DEF IpBuilt
<1>6. h = g \o <<>>
  BY Zenon DEF IpBytes
<1>7. g \in Seq(Octet)
  <2> DEFINE x == (64 + 5) * 256
             y == 64 * 256 + 6
             z == 0
  <2>1. x \in Word /\ y \in Word /\ z \in Word
    BY SMT, WordIs
  <2> HIDE DEF x, y, z
  <2> DEFINE v == <<x, total, ident, z, y, z>> \o seg.src \o seg.dst
  <2>2. IpWordsAre(v, x, total, ident, z, y, z, seg.src, seg.dst)
    BY <1>1, <2>1, IpWords, Zenon
  <2> HIDE DEF v
  <2>3. v \in Seq(Word)
    BY <2>2, Zenon DEF IpWordsAre, Words10
  <2>4. BytesOf(v) \in Seq(Octet)
    BY <2>3, BytesOfIs, Zenon
  <2> QED
    BY <2>4, Zenon DEF v, x, y, z
<1>8. h = g
  <2> HIDE DEF g
  <2>1. g \o <<>> = g
    BY <1>7, NoBytes, Zenon
  <2> QED
    BY <1>6, <2>1, Zenon
<1>9. calculate_ip_checksum(h) = Checksum(WordSum(h))
  <2>1. 20 \in 20 .. l /\ l = 20 /\ 4 * 5 = 20
    <3>1. l = 4 * 5
      BY <1>5, Zenon
    <3> HIDE DEF l
    <3> QED
      BY SMT, <3>1
  <2>2. calculate_ip_checksum(h) = Checksum(WordSum(SubSeq(h, 1, 20)) - WordAt(h, 11))
    BY <1>5, <2>1, IpChecksumIs, Zenon
  <2>3. SubSeq(h, 1, 20) = h
    <3>1. SubSeq(h, 1, l) = h
      BY <1>5, NoBytes, Zenon
    <3> QED
      BY <2>1, <3>1, Zenon
  <2>4. WordSum(h) - 0 = WordSum(h)
    BY SMT, <1>5
  <2> QED
    BY <1>5, <2>2, <2>3, <2>4, Zenon
<1>10. build_ip_header(seg.src, seg.dst, total, ProtocolTcp, ident)
         = WithWord(g, 11, calculate_ip_checksum(g))
  <2> DEFINE v(n) == BytesOf(<<(64 + 5) * 256, n, ident, 0, 64 * 256 + 6, 0>> \o seg.src \o seg.dst)
  <2>1. build_ip_header(seg.src, seg.dst, total, ProtocolTcp, ident)
          = WithWord(v(k), 11, calculate_ip_checksum(v(k)))
    BY SMT DEF build_ip_header, ProtocolTcp
  <2> HIDE DEF k
  <2> QED
    BY <1>2, <2>1, Zenon
<1>11. build_ip_header(seg.src, seg.dst, total, ProtocolTcp, ident)
         = WithWord(h, 11, Checksum(WordSum(h)))
  <2> HIDE DEF g
  <2> QED
    BY <1>8, <1>9, <1>10, Zenon
<1> QED
  BY <1>4, <1>11, Zenon

LEMMA EtherHeaderIs ==
  ASSUME NEW d \in Seq(Octet)
  PROVE  LET e == build_ethernet_header(GatewayMac, LocalMac, EtherTypeIp)
         IN /\ e \in Seq(Octet)
            /\ e \o d \in Seq(Octet) /\ Len(e \o d) \in Nat /\ 14 <= Len(e \o d)
            /\ WordAt(e \o d, 13) = EtherTypeIp /\ From(e \o d, 15) = d
<1>1. GatewayMac \in [1 .. 6 -> Octet] /\ LocalMac \in [1 .. 6 -> Octet]
  BY MacAssumption, Zenon
<1> QED
  BY <1>1, EthernetHeaderIs, Zenon DEF build_ethernet_header

(* A frame of the stack: what it means, and that a receiver accepts it.      *)
LEMMA FrameOfIs ==
  ASSUME NEW seg \in FrameSegment, 2 * HeaderLen + Len(seg.payload) \in Word,
         NEW ident \in Word
  PROVE  /\ Genuine(FrameOf(seg, ident), seg)
         /\ InjectedAt(From(FrameOf(seg, ident), 15), seg)
<1> DEFINE l == Len(seg.payload)
           total == 2 * HeaderLen + l
           g == build_tcp_header(seg.sport, seg.dport, seg.seq, seg.ack, seg.flags, WindowSize)
           t0 == TcpBytes(seg, 5, 0, WindowSize, <<>>)
           cc == calculate_tcp_checksum(seg.src, seg.dst, g, seg.payload)
           t == WithWord(t0, 17, cc)
           h == IpBytes(seg, 5, total, ident, 0, 64, <<>>)
           u == WithWord(h, 11, Checksum(WordSum(h)))
           e == build_ethernet_header(GatewayMac, LocalMac, EtherTypeIp)
           p == Pseudo(seg.src, seg.dst, 20 + l)
           d == u \o t
           n == WordSum(p) + WordSum(t0)
<1>1. seg.src \in Quad /\ seg.dst \in Quad /\ seg.payload \in Seq(Octet)
  BY SegmentFieldsAre, Zenon
<1>2. l \in Nat
  BY SMT, <1>1
<1>3. total = 40 + l /\ total = 4 * 5 + (20 + l) /\ 20 + l = 4 * 5 + l /\ 20 + l \in Word
  <2> HIDE DEF l
  <2>1. total = 40 + l /\ total \in Int /\ 0 <= total /\ total <= 65535
    BY SMT, <1>2, WordIs DEF HeaderLen, l
  <2>2. 20 + l \in Int /\ 0 <= 20 + l /\ 20 + l <= 65535
    BY SMT, <1>2, <2>1
  <2>3. 20 + l \in Word
    BY SMT, <2>2, WordIs
  <2>4. total = 4 * 5 + (20 + l) /\ 20 + l = 4 * 5 + l
    BY SMT, <1>2, <2>1
  <2> QED
    BY SMT, <2>1, <2>3, <2>4
<1>4. /\ g \in Seq(Octet) /\ Len(g) = 20 /\ g \o seg.payload = t0
  BY TcpHeaderIs, Zenon
<1>5. TcpChoice(5, 0, WindowSize, <<>>)
  <2>1. 5 \in 5 .. 15 /\ 0 \in UnknownFlags /\ WindowSize \in Word
    BY SMT, WordIs DEF UnknownFlags, WindowSize
  <2>2. <<>> \in Seq(Octet) /\ 20 + Len(<<>>) = 4 * 5
    BY SMT
  <2> QED
    BY <2>1, <2>2, Zenon DEF TcpChoice
<1>6. IpBuilt(seg, 5, total, h) /\ IpStamped(seg, 5, total, h, u)
      /\ build_ip_header(seg.src, seg.dst, total, ProtocolTcp, ident) = u
  <2>1. total \in Word
    BY Zenon
  <2> HIDE DEF total
  <2>5. h = IpBytes(seg, 5, total, ident, 0, 64, <<>>)
    BY Zenon
  <2> HIDE DEF h
  <2> DEFINE made == build_ip_header(seg.src, seg.dst, total, ProtocolTcp, ident)
  <2>2. made = WithWord(h, 11, Checksum(WordSum(h)))
    BY <2>1, <2>5, IpHeaderIs, Zenon
  <2>3. IpBuilt(seg, 5, total, h)
    BY <2>1, <2>5, IpHeaderIs, Zenon
  <2>4. IpStamped(seg, 5, total, h, WithWord(h, 11, Checksum(WordSum(h))))
    BY <2>1, <2>5, IpHeaderIs, Zenon
  <2> QED
    BY <2>2, <2>3, <2>4, Zenon
<1>7. t0[13] \div 16 = 5 /\ WordAt(t0, 17) = 0 /\ t0 \in Seq(Octet)
  <2>1. 0 \in Word
    BY SMT, WordIs
  <2>2. TcpBuilt(seg, 5, t0, 0, WithWord(t0, 17, 0))
    BY <1>5, <2>1, TcpBytesAre, Zenon
  <2> HIDE DEF t0
  <2> QED
    BY <2>2, Zenon DEF TcpBuilt
<1> HIDE DEF g
<1>8. g[13] \div 16 = 5 /\ WordAt(g, 17) = 0 /\ Writable(g, 17, 0)
  <2>1. InFront(g, seg.payload, t0)
    BY <1>1, <1>4, InFrontIs, Zenon
  <2>2. 13 \in 1 .. 20 /\ 17 \in 1 .. 20 - 1 /\ 0 \in Word
    BY SMT, WordIs
  <2> HIDE DEF t0
  <2>3. t0[13] = g[13] /\ WordAt(t0, 17) = WordAt(g, 17)
    BY <1>4, <2>1, <2>2, Zenon DEF InFront
  <2> QED
    BY <1>4, <1>7, <2>2, <2>3, Zenon DEF Writable
<1>9. cc = Checksum(n) /\ n \in Nat
  <2>1. 40 + l \in Word
    BY <1>3, Zenon
  <2> HIDE DEF t0
  <2> QED
    BY <1>4, <1>8, <2>1, TcpChecksumIs, Zenon
<1> HIDE DEF n
<1>10. cc \in Word
  BY SMT, <1>9, ChecksumCompletes
<1> HIDE DEF cc
<1>11. TcpBuilt(seg, 5, t0, cc, t)
  BY <1>5, <1>10, TcpBytesAre, Zenon
<1> HIDE DEF t0
<1>12. WithWord(g, 17, cc) \o seg.payload = t
  <2>1. Writable(g, 17, cc)
    BY <1>8, <1>10, Zenon DEF Writable
  <2> HIDE DEF t0
  <2>2. WithWord(g, 17, cc) \o seg.payload = WithWord(g \o seg.payload, 17, cc)
    <3> DEFINE y == seg.payload
    <3>1. y \in Seq(Octet)
      BY <1>1, Zenon
    <3> HIDE DEF y
    <3>2. WithWord(g, 17, cc) \o y = WithWord(g \o y, 17, cc)
      BY SMT, <2>1, <3>1, WithWordConcat
    <3> QED
      BY <3>2, Zenon DEF y
  <2> QED
    BY <1>4, <2>2, Zenon
<1> HIDE DEF t
<1>13. /\ SegmentAt(t, seg) /\ Len(t) = Len(t0) /\ Len(t0) = 4 * 5 + l
       /\ WordSum(t) = WordSum(t0) + cc
  BY <1>11, Zenon DEF TcpBuilt
<1>14. t \in Seq(Octet) /\ Len(t) = 20 + l
  BY <1>3, <1>13, Zenon DEF SegmentAt
<1> HIDE DEF h, u
<1>15. /\ u \in Seq(Octet) /\ Len(u) = 4 * 5
       /\ WordSum(u) = WordSum(h) + Checksum(WordSum(h)) /\ WordSum(h) \in Nat /\ WordSum(h) > 0
  BY <1>6, Zenon DEF IpStamped, IpBuilt
<1>16. /\ DatagramAt(d, seg) /\ Len(d) = total /\ WordAt(d, 3) = total
       /\ SubSeq(d, 1, 4 * 5) = u /\ SubSeq(d, 4 * 5 + 1, total) = t
  <2>1. 5 \in 5 .. 15
    BY SMT
  <2>2. total = 4 * 5 + Len(t)
    BY <1>3, <1>14, Zenon
  <2> HIDE DEF total
  <2>3. total \in Word
    BY Zenon DEF total
  <2>4. SegmentAt(t, seg)
    BY <1>13, Zenon
  <2>5. IpBuilt(seg, 5, total, h) /\ IpStamped(seg, 5, total, h, u)
    BY <1>6, Zenon
  <2>6. Parts(seg, 5, total, h, u, t)
    BY <2>1, <2>2, <2>3, <2>4, <2>5, Zenon DEF Parts
  <2>7. Whole(seg, 5, total, u, t, d)
    BY <2>6, DatagramBuilt, Zenon
  <2> HIDE DEF d
  <2> QED
    BY <2>7, Zenon DEF Whole
<1>17. FrameOf(seg, ident) = e \o d /\ e \in Seq(Octet) /\ d \in Seq(Octet)
  <2>1. d \in Seq(Octet)
    BY <1>16, Zenon DEF DatagramAt
  <2>2. e \in Seq(Octet)
    BY <2>1, EtherHeaderIs, Zenon
  <2> DEFINE v == WithWord(g, 17, cc)
  <2>3. FrameOf(seg, ident) = ((e \o u) \o v) \o seg.payload
    BY <1>6, Zenon DEF FrameOf, g, cc
  <2>4. v \in Seq(Octet)
    <3>1. Writable(g, 17, cc)
      BY <1>8, <1>10, Zenon DEF Writable
    <3>2. Wrote(g, 17, cc, v)
      BY <3>1, Written, Zenon
    <3> QED
      BY <3>2, Zenon DEF Wrote
  <2> HIDE DEF v, e
  <2>5. e \o u \in Seq(Octet)
    BY <1>15, <2>2, ConcatBytes, Zenon
  <2>6. ((e \o u) \o v) \o seg.payload = (e \o u) \o (v \o seg.payload)
    BY <1>1, <2>4, <2>5, ConcatAgain, Zenon
  <2>7. (e \o u) \o t = e \o (u \o t)
    BY <1>14, <1>15, <2>2, ConcatAgain, Zenon
  <2> QED
    BY <1>12, <2>1, <2>2, <2>3, <2>6, <2>7, Zenon DEF v
<1> DEFINE fr == e \o d
<1>18. /\ fr \in Seq(Octet) /\ Len(fr) \in Nat /\ 14 <= Len(fr)
       /\ WordAt(fr, 13) = EtherTypeIp /\ From(fr, 15) = d
  BY <1>17, EtherHeaderIs, Zenon
<1>19. Verifies(u)
  <2> DEFINE k == WordSum(h)
  <2>1. k \in Nat /\ k > 0 /\ WordSum(u) = k + Checksum(k)
    BY <1>15, Zenon
  <2> HIDE DEF k
  <2>2. WordSum(u) > 0
    BY SMT, <2>1, ChecksumCompletes
  <2> QED
    BY <1>15, <2>1, <2>2, Verified, Zenon
<1>20. Verifies(p \o t)
  <2>1. /\ p \in Seq(Octet) /\ Len(p) % 2 = 0 /\ WordSum(p) \in Nat /\ WordSum(p) > 0
    BY <1>1, <1>3, PseudoIs, Zenon
  <2> HIDE DEF p
  <2>2. p \o t \in Seq(Octet) /\ WordSum(p \o t) = WordSum(p) + WordSum(t)
    BY <1>14, <2>1, WordSumConcat, Zenon
  <2>3. WordSum(t0) \in Nat /\ cc \in Int /\ 0 <= cc
    <3>1. WordSum(t0) \in Nat
      BY <1>7, WordSumRuns, Zenon
    <3> QED
      BY SMT, <1>10, <3>1, WordIs
  <2>4. WordSum(p \o t) = n + Checksum(n)
    BY SMT, <1>9, <1>13, <2>1, <2>2, <2>3 DEF n
  <2>5. WordSum(p \o t) > 0
    BY SMT, <1>13, <2>1, <2>2, <2>3
  <2> QED
    BY <1>9, <2>2, <2>4, <2>5, Verified, Zenon
<1>21. Genuine(fr, seg)
  BY <1>16, <1>18, Zenon DEF Genuine
<1>22. InjectedAt(d, seg)
  <2>1. QuadAt(d, 13) = seg.src /\ QuadAt(d, 17) = seg.dst
    BY <1>16, Zenon DEF DatagramAt
  <2>2. 4 * 5 = 20 /\ 4 * 5 + 1 = 21
    BY SMT
  <2>3. total <= total
    BY SMT, <1>2 DEF HeaderLen
  <2>4. SubSeq(d, 1, 20) = u /\ SubSeq(d, 21, total) = t
    BY <1>16, <2>2, Zenon
  <2> HIDE DEF d, p, l
  <2>5. WordAt(d, 3) = 40 + l /\ WordAt(d, 3) <= Len(d)
    BY <1>3, <1>16, <2>3, Zenon
  <2>6. Pseudo(QuadAt(d, 13), QuadAt(d, 17), Len(SubSeq(d, 21, WordAt(d, 3)))) = p
    BY <1>14, <1>16, <2>1, <2>4, Zenon DEF p
  <2>7. SubSeq(d, 21, WordAt(d, 3)) = t
    BY <1>16, <2>4, Zenon
  <2> QED
    BY <1>19, <1>20, <2>4, <2>5, <2>6, <2>7, Zenon DEF InjectedAt, l
<1> QED
  BY <1>17, <1>18, <1>21, <1>22, Zenon

-----------------------------------------------------------------------------
(* The frames of a conforming host.                                        *)

LEMMA CompletingIs ==
  ASSUME NEW n \in Nat
  PROVE  Completing(n) \in Word
<1> DEFINE r == n % 65535
<1>1. r \in Int /\ 0 <= r /\ r < 65535
  BY SMT
<1>2. Completing(n) = IF r = 0 THEN 0 ELSE 65535 - r
  BY SMT DEF Completing
<1> HIDE DEF r
<1> DEFINE c == Completing(n)
<1>3. c \in Int /\ 0 <= c /\ c <= 65535
  BY SMT, <1>1, <1>2
<1> HIDE DEF c
<1>4. c \in Word
  BY SMT, <1>3, WordIs
<1> QED
  BY <1>4, Zenon DEF c

PeerChoice(seg, o) ==
  /\ seg \in FrameSegment
  /\ o.ip_options \in Options /\ o.tcp_options \in Options
  /\ o.id \in Word /\ o.window \in Word /\ o.frag_off \in Word
  /\ o.more_flags \in UnknownFlags
  /\ 2 * HeaderLen + Len(o.ip_options) + Len(o.tcp_options) + Len(seg.payload) \in Word

LEMMA PeerTcpIs ==
  ASSUME NEW seg, NEW o, PeerChoice(seg, o)
  PROVE  /\ SegmentAt(PeerTcp(seg, o), seg)
         /\ Len(PeerTcp(seg, o)) = HeaderLen + Len(o.tcp_options) + Len(seg.payload)
<1> DEFINE opts == o.tcp_options
           payload == seg.payload
           hl == HeaderLen + Len(opts)
           l == Len(payload)
           m == Len(o.ip_options)
           q == Len(opts)
<1>1. /\ seg.src \in Quad /\ seg.dst \in Quad /\ payload \in Seq(Octet)
      /\ seg.flags \in SUBSET Flag
  BY SegmentFieldsAre, Zenon DEF PeerChoice
<1>2. /\ opts \in Options /\ o.ip_options \in Options
      /\ o.window \in Word /\ o.more_flags \in UnknownFlags
  BY Zenon DEF PeerChoice
<1>3. opts \in Seq(Octet) /\ m \in Nat /\ q \in Nat /\ l \in Nat
  <2>1. opts \in Seq(Octet) /\ q \in Nat /\ m \in Nat
    BY <1>2, OptionsAre, Zenon
  <2>2. l \in Nat
    BY SMT, <1>1
  <2> QED
    BY <2>1, <2>2, Zenon
<1>4. PICK n \in 5 .. 15 : hl = 4 * n /\ hl \div 4 = n
  BY <1>2, OptionsAre, Zenon
<1>5. 20 + q = 4 * n /\ hl + l \in Word /\ 4 * n + l = hl + l
  <2>1. 2 * HeaderLen + m + q + l \in Word
    BY Zenon DEF PeerChoice
  <2>2. hl = HeaderLen + q
    BY Zenon
  <2> HIDE DEF hl, l, m, q
  <2> DEFINE v == 2 * HeaderLen + m + q + l
             w == hl + l
  <2>3. v \in Int /\ v <= 65535
    BY SMT, <2>1, WordIs
  <2>4. 20 + q = 4 * n /\ w \in Int /\ 0 <= w /\ w <= v /\ 4 * n + l = w
    BY SMT, <1>3, <1>4, <2>2 DEF HeaderLen
  <2> HIDE DEF v
  <2>5. w \in Int /\ 0 <= w /\ w <= 65535
    BY SMT, <2>3, <2>4
  <2> HIDE DEF w
  <2>6. w \in Word
    BY SMT, <2>5, WordIs
  <2> QED
    BY <2>4, <2>6, Zenon DEF w
<1> DEFINE x == OffsetWord(n, seg.flags, o.more_flags)
           y == (hl \div 4) * 4096 + FlagBits(seg.flags) + o.more_flags
           words(z) == <<seg.sport, seg.dport>> \o seg.seq \o seg.ack \o <<z, o.window, 0, 0>>
           t == TcpBytes(seg, n, o.more_flags, o.window, opts)
           t0 == BytesOf(words(y)) \o opts \o payload
           p == Pseudo(seg.src, seg.dst, Len(t))
           c == Completing(SumOfWords(p \o t))
<1>6. y = x
  <2> HIDE DEF hl
  <2> QED
    BY SMT, <1>4 DEF OffsetWord
<1>7. TcpChoice(n, o.more_flags, o.window, opts)
  BY <1>2, <1>3, <1>5, Zenon DEF TcpChoice
<1>8. t0 = t
  <2> HIDE DEF x, y
  <2> DEFINE h == BytesOf(words(x))
  <2>1. t0 = (h \o opts) \o payload /\ t = h \o (opts \o payload)
    BY <1>6, Zenon DEF TcpBytes, x
  <2>2. h \in Seq(Octet)
    <3>1. /\ seg.seq \in Quad /\ seg.ack \in Quad /\ seg.sport \in Word /\ seg.dport \in Word
      BY SegmentFieldsAre, Zenon DEF PeerChoice
    <3>2. 0 \in Word
      BY SMT, WordIs
    <3>3. x \in Word
      <4>1. n \in 0 .. 15
        BY SMT
      <4>2. OffsetAndFlagsAre(x, n, seg.flags)
        BY <1>1, <1>2, <4>1, OffsetAndFlags, Zenon DEF x
      <4> QED
        BY <4>2, Zenon DEF OffsetAndFlagsAre
    <3>4. TcpWordsAre(words(x), seg.sport, seg.dport, seg.seq, seg.ack, x, o.window, 0, 0)
      BY <1>2, <3>1, <3>2, <3>3, TcpWords, Zenon
    <3> HIDE DEF words
    <3>5. words(x) \in Seq(Word)
      BY <3>4, Zenon DEF TcpWordsAre, Words10
    <3> QED
      BY <3>5, BytesOfIs, Zenon
  <2> HIDE DEF h, t0, t, opts, payload
  <2>3. (h \o opts) \o payload = h \o (opts \o payload)
    BY <1>1, <1>3, <2>2, ConcatAgain, Zenon
  <2> QED
    BY <2>1, <2>3, Zenon
<1>9. PeerTcp(seg, o) = WithWord(t, 17, c)
  <2> DEFINE f(b) == WithWord(b, 17, Completing(SumOfWords(Pseudo(seg.src, seg.dst, Len(b)) \o b)))
  <2>1. PeerTcp(seg, o) = f(t0)
    BY SMT DEF PeerTcp, Pseudo
  <2> HIDE DEF t0, t
  <2> QED
    BY <1>8, <2>1, Zenon
<1> HIDE DEF x, y, words, t0
<1>10. t \in Seq(Octet) /\ Len(t) = 4 * n + l
  <2>1. 0 \in Word
    BY SMT, WordIs
  <2>2. seg \in FrameSegment
    BY Zenon DEF PeerChoice
  <2>3. TcpBuilt(seg, n, t, 0, WithWord(t, 17, 0))
    BY <1>7, <2>1, <2>2, TcpBytesAre, Zenon
  <2> HIDE DEF t
  <2> QED
    BY <2>3, Zenon DEF TcpBuilt
<1>11. c \in Word
  <2> HIDE DEF t
  <2>1. Len(t) \in Word
    BY <1>5, <1>10, Zenon
  <2>2. p \in Seq(Octet)
    BY <1>1, <2>1, PseudoIs, Zenon
  <2> HIDE DEF p
  <2>3. p \o t \in Seq(Octet)
    BY <1>10, <2>2, ConcatBytes, Zenon
  <2>4. SumOfWords(p \o t) \in Nat
    <3>1. SumOfWords(p \o t) = WordSum(p \o t)
      BY <2>3, SumOfWordsIs, Zenon
    <3>2. WordSum(p \o t) \in Nat
      BY <2>3, WordSumRuns, Zenon
    <3> QED
      BY <3>1, <3>2, Zenon
  <2> QED
    BY <2>4, CompletingIs, Zenon
<1> HIDE DEF c
<1>12. TcpBuilt(seg, n, t, c, WithWord(t, 17, c))
  <2>1. seg \in FrameSegment
    BY Zenon DEF PeerChoice
  <2> QED
    BY <1>7, <1>11, <2>1, TcpBytesAre, Zenon
<1> HIDE DEF t
<1> DEFINE u == WithWord(t, 17, c)
<1> HIDE DEF u
<1>13. SegmentAt(u, seg) /\ Len(u) = Len(t)
  BY <1>12, Zenon DEF TcpBuilt, u
<1>14. Len(u) = hl + l
  BY <1>5, <1>10, <1>13, Zenon
<1> QED
  BY <1>9, <1>13, <1>14, Zenon DEF u

LEMMA PeerFrameIs ==
  ASSUME NEW seg, NEW o, PeerChoice(seg, o)
  PROVE  Genuine(LocalMac \o GatewayMac \o BytesOf(<<2048>>)
                   \o PeerIp(seg, o, PeerTcp(seg, o)), seg)
<1> DEFINE opts == o.ip_options
           t == PeerTcp(seg, o)
           hl == HeaderLen + Len(opts)
           total == hl + Len(t)
           l == Len(seg.payload)
           m == Len(o.tcp_options)
           q == Len(opts)
<1>1. /\ seg.src \in Quad /\ seg.dst \in Quad /\ seg.payload \in Seq(Octet)
      /\ seg \in FrameSegment
  BY SegmentFieldsAre, Zenon DEF PeerChoice
<1>2. opts \in Options /\ o.tcp_options \in Options /\ o.id \in Word /\ o.frag_off \in Word
  BY Zenon DEF PeerChoice
<1>3. opts \in Seq(Octet) /\ m \in Nat /\ q \in Nat /\ l \in Nat
  <2>1. opts \in Seq(Octet) /\ q \in Nat /\ m \in Nat
    BY <1>2, OptionsAre, Zenon
  <2>2. l \in Nat
    BY SMT, <1>1
  <2> QED
    BY <2>1, <2>2, Zenon
<1>4. PICK n \in 5 .. 15 : hl = 4 * n /\ hl \div 4 = n
  BY <1>2, OptionsAre, Zenon
<1>5. SegmentAt(t, seg) /\ Len(t) = HeaderLen + m + l
  BY PeerTcpIs, Zenon
<1> HIDE DEF t
<1>6. 20 + q = 4 * n /\ total \in Word /\ total = 4 * n + Len(t)
  <2>1. 2 * HeaderLen + q + m + l \in Word
    BY Zenon DEF PeerChoice
  <2>2. hl = HeaderLen + q /\ total = hl + Len(t)
    BY Zenon
  <2> DEFINE k == Len(t)
  <2>3. k = HeaderLen + m + l
    BY <1>5, Zenon
  <2>4. total = hl + k
    BY Zenon
  <2> HIDE DEF hl, l, m, q, k, total
  <2>5. 20 + q = 4 * n /\ total = 4 * n + k /\ total = 2 * HeaderLen + q + m + l
    BY SMT, <1>3, <1>4, <2>2, <2>3, <2>4 DEF HeaderLen
  <2>6. total \in Word
    BY <2>1, <2>5, Zenon
  <2> QED
    BY <2>5, <2>6, Zenon DEF k
<1> DEFINE h == IpBytes(seg, n, total, o.id, o.frag_off, 57, opts)
           x == (4 * 16 + hl \div 4) * 256
           words(z) == <<z, total, o.id, o.frag_off, 57 * 256 + 6, 0>> \o seg.src \o seg.dst
           h0 == BytesOf(words(x)) \o opts
           c == Completing(SumOfWords(h))
           u == WithWord(h, 11, Checksum(WordSum(h)))
<1>7. h0 = h
  <2> DEFINE y == (64 + n) * 256
  <2>1. x = y
    <3> HIDE DEF hl
    <3> QED
      BY SMT, <1>4
  <2> HIDE DEF x
  <2> QED
    BY <2>1, Zenon DEF IpBytes
<1>8. IpBuilt(seg, n, total, h) /\ IpStamped(seg, n, total, h, u)
  <2>1. 57 \in Octet
    BY SMT, OctetIs
  <2> HIDE DEF total
  <2>2. IpChoice(n, total, o.id, o.frag_off, 57, opts)
    BY <1>2, <1>3, <1>6, <2>1, Zenon DEF IpChoice
  <2> QED
    BY <1>1, <2>2, IpBytesAre, Zenon
<1>9. c = Checksum(WordSum(h))
  <2> HIDE DEF h
  <2>1. h \in Seq(Octet) /\ WordSum(h) \in Nat /\ WordSum(h) > 0
    BY <1>8, Zenon DEF IpBuilt
  <2>2. SumOfWords(h) = WordSum(h)
    BY <2>1, SumOfWordsIs, Zenon
  <2>3. Checksum(WordSum(h)) = Completing(WordSum(h))
    <3> DEFINE k == WordSum(h)
    <3>1. k \in Nat /\ k > 0
      BY <2>1, Zenon
    <3> HIDE DEF k
    <3>2. Checksum(k) = Completing(k)
      BY SMT, <3>1, ChecksumCompletes
    <3> QED
      BY <3>2, Zenon DEF k
  <2> QED
    BY <2>2, <2>3, Zenon
<1>10. PeerIp(seg, o, t) = u \o t
  <2> DEFINE f(b) == WithWord(b, 11, Completing(SumOfWords(b))) \o t
  <2>1. PeerIp(seg, o, t) = f(h0)
    BY Zenon DEF PeerIp
  <2> HIDE DEF h0, h
  <2>2. f(h0) = WithWord(h, 11, c) \o t
    BY <1>7, Zenon
  <2> QED
    BY <1>9, <2>1, <2>2, Zenon
<1> HIDE DEF h0, h, c, u, x
<1> DEFINE d == u \o t
<1>11. DatagramAt(d, seg)
  <2> HIDE DEF total
  <2>1. Parts(seg, n, total, h, u, t)
    BY <1>1, <1>5, <1>6, <1>8, Zenon DEF Parts
  <2>2. Whole(seg, n, total, u, t, d)
    BY <2>1, DatagramBuilt, Zenon
  <2> HIDE DEF d
  <2> QED
    BY <2>2, Zenon DEF Whole
<1> HIDE DEF d
<1>12. d \in Seq(Octet)
  BY <1>11, Zenon DEF DatagramAt
<1> DEFINE fr == LocalMac \o GatewayMac \o BytesOf(<<EtherTypeIp>>) \o d
<1>13. /\ fr \in Seq(Octet) /\ Len(fr) \in Nat /\ 14 <= Len(fr)
       /\ WordAt(fr, 13) = EtherTypeIp /\ From(fr, 15) = d
  BY <1>12, MacAssumption, EthernetHeaderIs, Zenon
<1>14. fr = LocalMac \o GatewayMac \o BytesOf(<<2048>>) \o d
  BY SMT DEF EtherTypeIp
<1> HIDE DEF fr
<1>15. Genuine(fr, seg)
  BY <1>11, <1>13, Zenon DEF Genuine
<1>16. d = PeerIp(seg, o, PeerTcp(seg, o))
  BY <1>10, Zenon DEF t, d
<1> QED
  BY SMT, <1>14, <1>15, <1>16

-----------------------------------------------------------------------------
(* The capture loop.                                                       *)

IsLayer(x, type, raw, payload) ==
  x.type = type /\ x.raw = raw /\ x.payload = payload /\ x # NoLayer

LEMMA LayerIs ==
  ASSUME NEW type, type # "none", NEW raw, NEW payload
  PROVE  IsLayer(Layer(type, raw, payload), type, raw, payload)
  BY SMT DEF Layer, NoLayer, IsLayer

LEMMA FoundIn ==
  ASSUME NEW packet, NEW type, NEW i \in DOMAIN packet, DOMAIN packet \subseteq Nat,
         packet[i].type = type,
         \A j \in DOMAIN packet : j # i => packet[j].type # type
  PROVE  find_layer(packet, type) = packet[i]
<1> DEFINE found == {j \in DOMAIN packet : packet[j].type = type}
<1>1. found = {i} /\ found # {}
  BY SMT
<1>2. i <= i
  BY SMT
<1>3. (CHOOSE j \in {i} : \A k \in {i} : j <= k) = i
  BY SMT, <1>2
<1> HIDE DEF found
<1>4. (CHOOSE j \in found : \A k \in found : j <= k) = i
  BY <1>1, <1>3, Zenon
<1> QED
  BY <1>1, <1>4, Zenon DEF find_layer, found

LEMMA NotFoundIn ==
  ASSUME NEW packet, NEW type, \A j \in DOMAIN packet : packet[j].type # type
  PROVE  find_layer(packet, type) = NoLayer
  BY Zenon DEF find_layer

LEMMA FoundInThree ==
  ASSUME NEW e, NEW i, NEW t, e.type = "ETHERNET", i.type = "IPv4", t.type = "TCP"
  PROVE  /\ find_layer(<<e, i, t>>, "IPv4") = i /\ find_layer(<<e, i, t>>, "TCP") = t
<1> DEFINE p == <<e, i, t>>
<1>1. /\ DOMAIN p = 1 .. 3 /\ p[1] = e /\ p[2] = i /\ p[3] = t
  BY SMT
<1> HIDE DEF p
<1>2. /\ DOMAIN p \subseteq Nat /\ 2 \in DOMAIN p /\ 3 \in DOMAIN p
      /\ p[2].type = "IPv4" /\ p[3].type = "TCP"
      /\ \A j \in DOMAIN p : j # 2 => p[j].type # "IPv4"
      /\ \A j \in DOMAIN p : j # 3 => p[j].type # "TCP"
  BY SMT, <1>1
<1>3. find_layer(p, "IPv4") = p[2]
  <2>1. /\ DOMAIN p \subseteq Nat /\ 2 \in DOMAIN p /\ p[2].type = "IPv4"
        /\ \A j \in DOMAIN p : j # 2 => p[j].type # "IPv4"
    BY <1>2, Zenon
  <2> QED
    BY SMT, <2>1, FoundIn
<1>4. find_layer(p, "TCP") = p[3]
  <2>1. /\ DOMAIN p \subseteq Nat /\ 3 \in DOMAIN p /\ p[3].type = "TCP"
        /\ \A j \in DOMAIN p : j # 3 => p[j].type # "TCP"
    BY <1>2, Zenon
  <2> QED
    BY SMT, <2>1, FoundIn
<1> QED
  BY <1>1, <1>3, <1>4, Zenon DEF p

LEMMA NoTcpInTwo ==
  ASSUME NEW e, NEW i, e.type = "ETHERNET", i.type = "IPv4"
  PROVE  /\ find_layer(<<e, i>>, "TCP") = NoLayer /\ find_layer(<<e>>, "TCP") = NoLayer
         /\ find_layer(<<>>, "TCP") = NoLayer
<1>1. \A j \in DOMAIN <<e, i>> : <<e, i>>[j].type # "TCP"
  BY SMT
<1>2. \A j \in DOMAIN <<e>> : <<e>>[j].type # "TCP"
  BY SMT
<1>3. \A j \in DOMAIN <<>> : <<>>[j].type # "TCP"
  BY SMT
<1>4. find_layer(<<e, i>>, "TCP") = NoLayer
  BY <1>1, NotFoundIn, Zenon
<1>5. find_layer(<<e>>, "TCP") = NoLayer
  BY <1>2, NotFoundIn, Zenon
<1>6. find_layer(<<>>, "TCP") = NoLayer
  BY <1>3, NotFoundIn, Zenon
<1> QED
  BY <1>4, <1>5, <1>6, Zenon

(* The frames the loop takes up to process_packet.                          *)
TcpRejects(t) == Len(t) < HeaderLen \/ Len(t) < 4 * (t[13] \div 16)

Taken(fr) ==
  LET d == From(fr, 15)
  IN /\ ~ (Len(fr) < EthernetHeaderLen) /\ WordAt(fr, 13) = EtherTypeIp
     /\ ~ Ipv4Rejects(d) /\ d[10] = ProtocolTcp
     /\ ~ TcpRejects(Ipv4Payload(d))

TakenSegment(d, t) ==
  [src |-> QuadAt(d, 13), sport |-> WordAt(t, 1),
   dst |-> QuadAt(d, 17), dport |-> WordAt(t, 3),
   flags |-> FlagsIn(WordAt(t, 13)), seq |-> QuadAt(t, 5), ack |-> QuadAt(t, 9),
   payload |-> From(t, 4 * (t[13] \div 16) + 1)]

Handed(fr) == IF Reaches(PacketOf(fr)) THEN SegmentIn(PacketOf(fr)) ELSE NoSegment

LEMMA HandedIs ==
  ASSUME NEW fr
  PROVE  /\ ~ Taken(fr) => Handed(fr) = NoSegment
         /\ Taken(fr) => Handed(fr) = TakenSegment(From(fr, 15), Ipv4Payload(From(fr, 15)))
<1> DEFINE d == From(fr, 15)
           t == Ipv4Payload(d)
           pay == From(t, 4 * (t[13] \div 16) + 1)
           E == Layer("ETHERNET", fr, d)
           I == Layer("IPv4", d, t)
           T == Layer("TCP", t, pay)
           eth == EthernetParser(fr)
           ip == Ipv4Parser(eth.payload)
           tcp == TcpParser(ip.payload)
           packet == PacketOf(fr)
<1>1. /\ E.type = "ETHERNET" /\ E.raw = fr /\ E.payload = d /\ E # NoLayer
      /\ I.type = "IPv4" /\ I.raw = d /\ I.payload = t /\ I # NoLayer
      /\ T.type = "TCP" /\ T.raw = t /\ T.payload = pay /\ T # NoLayer
  <2>1. "ETHERNET" # "none" /\ "IPv4" # "none" /\ "TCP" # "none"
    BY SMT
  <2> HIDE DEF d, t, pay
  <2>2. E.type = "ETHERNET" /\ E.raw = fr /\ E.payload = d /\ E # NoLayer
    <3>1. IsLayer(E, "ETHERNET", fr, d)
      BY <2>1, LayerIs, Zenon
    <3> QED
      BY <3>1, Zenon DEF IsLayer
  <2>3. I.type = "IPv4" /\ I.raw = d /\ I.payload = t /\ I # NoLayer
    <3>1. IsLayer(I, "IPv4", d, t)
      BY <2>1, LayerIs, Zenon
    <3> QED
      BY <3>1, Zenon DEF IsLayer
  <2>4. T.type = "TCP" /\ T.raw = t /\ T.payload = pay /\ T # NoLayer
    <3>1. IsLayer(T, "TCP", t, pay)
      BY <2>1, LayerIs, Zenon
    <3> QED
      BY <3>1, Zenon DEF IsLayer
  <2> QED
    BY <2>2, <2>3, <2>4, Zenon
<1>2. eth = IF Len(fr) < EthernetHeaderLen THEN NoLayer ELSE E
  <2>1. EthernetHeaderLen + 1 = 15
    BY SMT DEF EthernetHeaderLen
  <2> QED
    BY <2>1, Zenon DEF EthernetParser
<1>3. Ipv4Parser(d) = IF Ipv4Rejects(d) THEN NoLayer ELSE I
  BY Zenon DEF Ipv4Parser
<1>4. TcpParser(t) = IF TcpRejects(t) THEN NoLayer ELSE T
  BY Zenon DEF TcpParser, TcpRejects
<1>5. packet =
        CASE eth = NoLayer -> <<>>
          [] eth # NoLayer /\ (ether_type(eth) # EtherTypeIp \/ ip = NoLayer) -> <<eth>>
          [] eth # NoLayer /\ ether_type(eth) = EtherTypeIp /\ ip # NoLayer
               /\ (protocol(ip) # ProtocolTcp \/ tcp = NoLayer) -> <<eth, ip>>
          [] OTHER -> <<eth, ip, tcp>>
  BY Zenon DEF PacketOf
<1> HIDE DEF d, t, pay, E, I, T, packet
<1>6. CASE ~ Taken(fr)
  <2>1. packet \in {<<>>, <<E>>, <<E, I>>}
    <3>1. CASE Len(fr) < EthernetHeaderLen
      <4>1. eth = NoLayer
        BY <1>2, <3>1, Zenon
      <4> HIDE DEF eth, ip, tcp
      <4> QED
        BY SMT, <1>5, <4>1
    <3>2. CASE ~ (Len(fr) < EthernetHeaderLen)
      <4>1. eth = E /\ eth # NoLayer
        BY <1>1, <1>2, <3>2, Zenon
      <4> HIDE DEF eth
      <4>2. ether_type(eth) = WordAt(fr, 13)
        BY <1>1, <4>1, Zenon DEF ether_type
      <4>3. CASE WordAt(fr, 13) # EtherTypeIp \/ Ipv4Rejects(d)
        <5>1. ether_type(eth) # EtherTypeIp \/ ip = NoLayer
          BY <1>1, <1>3, <4>1, <4>2, <4>3, Zenon
        <5> HIDE DEF ip, tcp
        <5> QED
          BY SMT, <1>5, <4>1, <5>1
      <4>4. CASE ~ (WordAt(fr, 13) # EtherTypeIp \/ Ipv4Rejects(d))
        <5>1. ip = I /\ ip # NoLayer
          BY <1>1, <1>3, <4>1, <4>4, Zenon
        <5>2. d[10] # ProtocolTcp \/ TcpRejects(t)
          BY <1>6, <3>2, <4>4, Zenon DEF Taken, d, t
        <5> HIDE DEF ip
        <5>3. protocol(ip) # ProtocolTcp \/ tcp = NoLayer
          BY <1>1, <1>4, <5>1, <5>2, Zenon DEF protocol
        <5>4. ether_type(eth) = EtherTypeIp
          BY <4>2, <4>4, Zenon
        <5> HIDE DEF tcp
        <5> QED
          BY SMT, <1>5, <4>1, <5>1, <5>3, <5>4
      <4> QED
        BY <4>3, <4>4, Zenon
    <3> QED
      BY <3>1, <3>2, Zenon
  <2>2. find_layer(packet, "TCP") = NoLayer
    <3>1. /\ find_layer(<<E, I>>, "TCP") = NoLayer /\ find_layer(<<E>>, "TCP") = NoLayer
          /\ find_layer(<<>>, "TCP") = NoLayer
      BY <1>1, NoTcpInTwo, Zenon
    <3>2. packet = <<>> \/ packet = <<E>> \/ packet = <<E, I>>
      BY <2>1, Zenon
    <3> QED
      BY <3>1, <3>2, Zenon
  <2>3. Handed(fr) = NoSegment
    BY <2>2, Zenon DEF Handed, Reaches, packet
  <2> QED
    BY <1>6, <2>3, Zenon
<1>7. CASE Taken(fr)
  <2>1. /\ ~ (Len(fr) < EthernetHeaderLen) /\ WordAt(fr, 13) = EtherTypeIp
        /\ ~ Ipv4Rejects(d) /\ d[10] = ProtocolTcp /\ ~ TcpRejects(t)
    BY <1>7, Zenon DEF Taken, d, t
  <2>2. eth = E /\ eth # NoLayer
    BY <1>1, <1>2, <2>1, Zenon
  <2> HIDE DEF eth
  <2>3. ip = I /\ ip # NoLayer
    BY <1>1, <1>3, <2>1, <2>2, Zenon
  <2> HIDE DEF ip
  <2>4. tcp = T /\ tcp # NoLayer
    BY <1>1, <1>4, <2>1, <2>3, Zenon
  <2> HIDE DEF tcp
  <2>5. ether_type(eth) = EtherTypeIp /\ protocol(ip) = ProtocolTcp
    BY <1>1, <2>1, <2>2, <2>3, Zenon DEF ether_type, protocol
  <2>6. packet = <<eth, ip, tcp>>
    BY SMT, <1>5, <2>2, <2>3, <2>4, <2>5
  <2>7. find_layer(packet, "IPv4") = I /\ find_layer(packet, "TCP") = T
    <3>1. find_layer(<<E, I, T>>, "IPv4") = I /\ find_layer(<<E, I, T>>, "TCP") = T
      BY <1>1, FoundInThree, Zenon
    <3> QED
      BY <2>2, <2>3, <2>4, <2>6, <3>1, Zenon
  <2>8. Handed(fr) = SegmentIn(packet)
    BY <1>1, <2>7, Zenon DEF Handed, Reaches, packet
  <2>9. SegmentIn(packet) =
          [src |-> source_ip(I), sport |-> source_port(T),
           dst |-> dest_ip(I), dport |-> dest_port(T), flags |-> flags_of(T),
           seq |-> sequence_number(T), ack |-> ack_number(T), payload |-> T.payload]
    BY <2>7, Zenon DEF SegmentIn
  <2>10. /\ source_ip(I) = QuadAt(d, 13) /\ dest_ip(I) = QuadAt(d, 17)
         /\ source_port(T) = WordAt(t, 1) /\ dest_port(T) = WordAt(t, 3)
         /\ sequence_number(T) = QuadAt(t, 5) /\ ack_number(T) = QuadAt(t, 9)
         /\ flags_of(T) = FlagsIn(WordAt(t, 13)) /\ T.payload = pay
    BY <1>1, Zenon DEF source_ip, dest_ip, source_port, dest_port, sequence_number,
                       ack_number, flags_of, FlagsIn
  <2>11. SegmentIn(packet) = TakenSegment(d, t)
    BY <2>9, <2>10, Zenon DEF TakenSegment, pay
  <2> QED
    BY <1>7, <2>8, <2>11, Zenon DEF d, t
<1> QED
  BY <1>6, <1>7, Zenon DEF d, t

(* An undamaged frame hands over what it means.                             *)
LEMMA GenuineHanded ==
  ASSUME NEW seg \in FrameSegment, NEW fr, Genuine(fr, seg)
  PROVE  Handed(fr) = seg
<1> DEFINE d == From(fr, 15)
           t == Ipv4Payload(d)
           k == HeaderLength(d)
           l == Len(d)
           n == 4 * (t[13] \div 16)
           m == Len(t)
           q == Len(fr)
<1>1. /\ fr \in Seq(Octet) /\ q \in Nat /\ 14 <= q /\ WordAt(fr, 13) = EtherTypeIp
      /\ DatagramAt(d, seg)
  BY Zenon DEF Genuine
<1> HIDE DEF d
<1>2. d \in Seq(Octet) /\ l \in Nat /\ k \in 20 .. l
  BY <1>1, DatagramMeasured, Zenon DEF Measured
<1>3. /\ calculate_ip_checksum(d) = WordAt(d, 11) /\ d[10] = 6
      /\ QuadAt(d, 13) = seg.src /\ QuadAt(d, 17) = seg.dst /\ SegmentAt(t, seg)
  BY <1>1, Zenon DEF DatagramAt
<1> HIDE DEF t
<1>4. /\ t \in Seq(Octet) /\ HeaderLen <= m /\ HeaderLen <= n /\ n <= m
      /\ WordAt(t, 1) = seg.sport /\ WordAt(t, 3) = seg.dport
      /\ QuadAt(t, 5) = seg.seq /\ QuadAt(t, 9) = seg.ack
      /\ FlagsIn(WordAt(t, 13)) = seg.flags
      /\ From(t, n + 1) = seg.payload
  BY <1>3, Zenon DEF SegmentAt
<1>5. m \in Nat /\ 13 \in 1 .. m
  <2>1. t \in Seq(Octet) /\ HeaderLen <= m
    BY <1>4, Zenon
  <2>2. m \in Nat
    BY SMT, <2>1
  <2> HIDE DEF m
  <2> QED
    BY SMT, <2>1, <2>2 DEF HeaderLen
<1>6. n \in Nat
  BY <1>4, <1>5, HeaderLengthType, Zenon
<1> HIDE DEF k, l, n, m, q
<1>7. ~ (l < HeaderLen) /\ ~ (l < k) /\ ~ (q < EthernetHeaderLen)
  BY SMT, <1>1, <1>2 DEF HeaderLen, EthernetHeaderLen
<1>8. ~ (m < HeaderLen) /\ ~ (m < n)
  <2>1. HeaderLen <= m /\ n <= m
    BY <1>4, Zenon
  <2> QED
    BY SMT, <1>5, <1>6, <2>1 DEF HeaderLen
<1>9. Taken(fr)
  BY <1>1, <1>3, <1>7, <1>8, Zenon
     DEF Taken, Ipv4Rejects, TcpRejects, ProtocolTcp, d, t, k, l, n, m, q
<1>10. Handed(fr) = TakenSegment(d, t)
  BY <1>9, HandedIs, Zenon DEF d, t
<1>11. TakenSegment(d, t) =
         [src |-> seg.src, sport |-> seg.sport, dst |-> seg.dst, dport |-> seg.dport,
          flags |-> seg.flags, seq |-> seg.seq, ack |-> seg.ack, payload |-> seg.payload]
  BY <1>3, <1>4, Zenon DEF TakenSegment, n
<1>12. seg = [src |-> seg.src, sport |-> seg.sport, dst |-> seg.dst, dport |-> seg.dport,
              flags |-> seg.flags, seq |-> seg.seq, ack |-> seg.ack, payload |-> seg.payload]
  BY SMT DEF FrameSegment
<1> QED
  BY <1>10, <1>11, <1>12, Zenon

(* Whatever the loop takes is at least a segment.                           *)
LEMMA HandedType ==
  ASSUME NEW fr \in Seq(Octet), Measured(From(fr, 15)), Taken(fr)
  PROVE  Handed(fr) \in FrameSegment
<1> DEFINE d == From(fr, 15)
           t == Ipv4Payload(d)
           k == HeaderLength(d)
           total == WordAt(d, 3)
           l == Len(d)
           n == 4 * (t[13] \div 16)
           m == Len(t)
<1>1. d \in Seq(Octet) /\ l \in Nat /\ k \in 20 .. l /\ total \in k .. l
  BY Zenon DEF Measured
<1>2. ~ TcpRejects(t)
  BY Zenon DEF Taken
<1>3. Handed(fr) = TakenSegment(d, t)
  BY HandedIs, Zenon
<1> HIDE DEF d
<1>4. t \in Seq(Octet)
  <2> HIDE DEF k, total, l
  <2>1. k + 1 \in 1 .. l + 1 /\ total \in (k + 1) - 1 .. l
    BY SMT, <1>1
  <2>2. SubSeq(d, k + 1, total) \in Seq(Octet)
    BY <1>1, <2>1, Slice, Zenon DEF l
  <2> QED
    BY <2>2, Zenon DEF Ipv4Payload, k, total
<1> HIDE DEF t
<1>5. m \in Nat
  BY SMT, <1>4
<1>6. ~ (m < HeaderLen) /\ ~ (m < n)
  BY <1>2, Zenon DEF TcpRejects
<1> HIDE DEF m, l
<1>7. /\ 13 \in 1 .. m /\ 13 \in 1 .. m - 1 /\ 1 \in 1 .. m - 1 /\ 3 \in 1 .. m - 1
      /\ 5 \in 1 .. m - 3 /\ 9 \in 1 .. m - 3
      /\ 13 \in 1 .. l - 3 /\ 17 \in 1 .. l - 3
  <2>1. ~ (m < HeaderLen)
    BY <1>6, Zenon
  <2> HIDE DEF k
  <2> QED
    BY SMT, <1>1, <1>5, <2>1 DEF HeaderLen
<1>8. n \in Nat
  BY <1>4, <1>7, HeaderLengthType, Zenon DEF m
<1> HIDE DEF n
<1>9. n + 1 \in 1 .. m + 1 /\ m \in (n + 1) - 1 .. m
  <2>1. ~ (m < n)
    BY <1>6, Zenon
  <2> QED
    BY SMT, <1>5, <1>8, <2>1
<1>10. From(t, n + 1) \in Seq(Octet)
  BY <1>4, <1>9, Slice, Zenon DEF From, m
<1>11. QuadAt(d, 13) \in Quad /\ QuadAt(d, 17) \in Quad
  BY <1>1, <1>7, QuadAtType, Zenon DEF l
<1>12. QuadAt(t, 5) \in Quad /\ QuadAt(t, 9) \in Quad
  BY <1>4, <1>7, QuadAtType, Zenon DEF m
<1>13. WordAt(t, 1) \in Word /\ WordAt(t, 3) \in Word
  BY <1>4, <1>7, WordAtType, Zenon DEF m
<1>14. FlagsIn(WordAt(t, 13)) \in SUBSET Flag
  BY Zenon DEF FlagsIn
<1>15. TakenSegment(d, t) \in FrameSegment
  <2>1. From(t, 4 * (t[13] \div 16) + 1) \in Seq(Octet)
    BY <1>10, Zenon DEF n
  <2> DEFINE pay == From(t, 4 * (t[13] \div 16) + 1)
             flags == FlagsIn(WordAt(t, 13))
  <2> HIDE DEF pay, flags
  <2>2. TakenSegment(d, t) =
          [src |-> QuadAt(d, 13), sport |-> WordAt(t, 1),
           dst |-> QuadAt(d, 17), dport |-> WordAt(t, 3),
           flags |-> flags, seq |-> QuadAt(t, 5), ack |-> QuadAt(t, 9), payload |-> pay]
    BY Zenon DEF TakenSegment, pay, flags
  <2>3. pay \in Seq(Octet) /\ flags \in SUBSET Flag
    BY <1>14, <2>1, Zenon DEF pay, flags
  <2> QED
    BY SMT, <1>11, <1>12, <1>13, <2>2, <2>3 DEF FrameSegment
<1> QED
  BY <1>3, <1>15, Zenon

-----------------------------------------------------------------------------
(* Damage.                                                                 *)

(* One byte of b is another one in c.                                      *)
Differs(b, c, i) ==
  /\ b \in Seq(Octet) /\ c \in Seq(Octet) /\ Len(c) = Len(b) /\ i \in 1 .. Len(b)
  /\ c[i] # b[i] /\ \A k \in 1 .. Len(b) : k # i => c[k] = b[k]

LEMMA DiffersIs ==
  ASSUME NEW b \in Seq(Octet), NEW i \in 1 .. Len(b), NEW v \in Octet, v # b[i]
  PROVE  Differs(b, [b EXCEPT ![i] = v], i)
  BY SMT DEF Differs

(* A byte that is added to, modulo 256, changes.                            *)
LEMMA AddedIs ==
  ASSUME NEW x \in Octet, NEW k \in 1 .. 255
  PROVE  (x + k) % 256 \in Octet /\ (x + k) % 256 # x
<1>1. x \in Int /\ 0 <= x /\ x <= 255
  BY SMT, OctetIs
<1> DEFINE y == (x + k) % 256
<1>2. y \in Int /\ 0 <= y /\ y <= 255 /\ y # x
  BY SMT, <1>1
<1> HIDE DEF y
<1>3. y \in Octet
  BY SMT, <1>2, OctetIs
<1> QED
  BY <1>2, <1>3, Zenon DEF y

(* The sums of two sequences that differ in a byte are less than 65535 apart, *)
(* and not the same.                                                       *)
LEMMA SumsDiffer ==
  ASSUME NEW b, NEW c, NEW i, Differs(b, c, i)
  PROVE  /\ WordSum(b) \in Nat /\ WordSum(c) \in Nat /\ WordSum(b) # WordSum(c)
         /\ WordSum(c) - WordSum(b) < 65535 /\ -65535 < WordSum(c) - WordSum(b)
<1> DEFINE m == WordSum(b)
           n == WordSum(c)
           x == b[i]
           y == c[i]
<1>1. /\ b \in Seq(Octet) /\ c \in Seq(Octet) /\ Len(c) = Len(b) /\ i \in 1 .. Len(b)
      /\ y # x /\ \A k \in 1 .. Len(b) : k # i => c[k] = b[k]
  BY Zenon DEF Differs
<1>2. m \in Nat /\ n \in Nat
  BY <1>1, WordSumRuns, Zenon
<1>3. n = m + (Weight(c, i) - Weight(b, i))
  BY <1>1, WordSumChange, Zenon
<1>4. i \in 1 .. Len(c)
  BY <1>1, Zenon
<1>5. x \in Octet /\ y \in Octet
  BY <1>1, <1>4, ByteAt, Zenon
<1>6. x \in Int /\ 0 <= x /\ x <= 255 /\ y \in Int /\ 0 <= y /\ y <= 255
  BY SMT, <1>5, OctetIs
<1>7. \/ Weight(b, i) = 256 * x /\ Weight(c, i) = 256 * y
      \/ Weight(b, i) = x /\ Weight(c, i) = y
  BY SMT DEF Weight
<1>8. y # x
  BY <1>1, Zenon
<1> HIDE DEF m, n, x, y
<1>9. n = m + (256 * y - 256 * x) \/ n = m + (y - x)
  BY SMT, <1>3, <1>7
<1>10. m # n /\ n - m < 65535 /\ -65535 < n - m
  <2>1. CASE n = m + (256 * y - 256 * x)
    BY SMT, <1>2, <1>6, <1>8, <2>1
  <2>2. CASE n = m + (y - x)
    BY SMT, <1>2, <1>6, <1>8, <2>2
  <2> QED
    BY SMT, <1>9, <2>1, <2>2
<1> QED
  BY SMT, <1>2, <1>10 DEF m, n

(* What differs in a byte differs in a slice at most there.                  *)
LEMMA SliceDiffers ==
  ASSUME NEW b, NEW c, NEW i, Differs(b, c, i),
         NEW f \in 1 .. Len(b) + 1, NEW l \in f - 1 .. Len(b)
  PROVE  /\ f <= i /\ i <= l => Differs(SubSeq(b, f, l), SubSeq(c, f, l), i - f + 1)
         /\ i < f \/ l < i => SubSeq(c, f, l) = SubSeq(b, f, l)
<1> DEFINE x == SubSeq(b, f, l)
           y == SubSeq(c, f, l)
           n == l - f + 1
           m == Len(b)
           j == i - f + 1
<1>1. /\ b \in Seq(Octet) /\ c \in Seq(Octet) /\ Len(c) = m /\ i \in 1 .. m
      /\ c[i] # b[i] /\ \A k \in 1 .. m : k # i => c[k] = b[k]
  BY Zenon DEF Differs
<1>2. m \in Nat
  BY SMT, <1>1
<1>3. x \in Seq(Octet) /\ Len(x) = n /\ \A k \in 1 .. n : x[k] = b[f + k - 1]
  <2>1. b \in Seq(Octet)
    BY <1>1, Zenon
  <2> QED
    BY <2>1, Slice, Zenon
<1>4. y \in Seq(Octet) /\ Len(y) = n /\ \A k \in 1 .. n : y[k] = c[f + k - 1]
  <2>1. f \in 1 .. Len(c) + 1 /\ l \in f - 1 .. Len(c)
    BY <1>1, Zenon
  <2>2. c \in Seq(Octet)
    BY <1>1, Zenon
  <2> QED
    BY <2>1, <2>2, Slice, Zenon
<1> HIDE DEF x, y
<1>5. \A k \in 1 .. n : f + k - 1 \in 1 .. m
  <2> HIDE DEF m
  <2> QED
    BY SMT, <1>2 DEF m
<1>6. CASE f <= i /\ i <= l
  <2>1. j \in 1 .. n /\ f + j - 1 = i /\ \A k \in 1 .. n : k # j => f + k - 1 # i
    BY SMT, <1>1, <1>2, <1>6
  <2> HIDE DEF j, n, m
  <2>2. x[j] = b[i] /\ y[j] = c[i]
    BY <1>3, <1>4, <2>1, Zenon
  <2>3. \A k \in 1 .. n : k # j => y[k] = x[k]
    BY <1>1, <1>3, <1>4, <1>5, <2>1, Zenon
  <2>4. Differs(x, y, j)
    BY <1>1, <1>3, <1>4, <2>1, <2>2, <2>3, Zenon DEF Differs
  <2>5. ~ (i < f \/ l < i)
    BY SMT, <1>1, <1>2, <1>6
  <2> QED
    BY <2>4, <2>5, Zenon DEF x, y, j
<1>7. CASE i < f \/ l < i
  <2>1. \A k \in 1 .. n : f + k - 1 # i
    BY SMT, <1>1, <1>2, <1>7
  <2> HIDE DEF n, m
  <2>2. \A k \in 1 .. n : x[k] = y[k]
    BY <1>1, <1>3, <1>4, <1>5, <2>1, Zenon
  <2>3. Len(x) = Len(y) /\ \A k \in 1 .. Len(x) : x[k] = y[k]
    BY <1>3, <1>4, <2>2, Zenon
  <2>4. x = y
    BY <1>3, <1>4, <2>3, SameBytes, Zenon
  <2>5. ~ (f <= i /\ i <= l)
    BY SMT, <1>1, <1>2, <1>7
  <2> QED
    BY <2>4, <2>5, Zenon DEF x, y
<1> QED
  BY SMT, <1>1, <1>2, <1>6, <1>7 DEF x, y, j

(* A byte changed in the checksum field changes the sum by as much.          *)
LEMMA FieldDiffers ==
  ASSUME NEW b, NEW c, NEW j \in {11, 12}, Differs(b, c, j),
         NEW f \in 12 .. Len(b)
  PROVE  /\ WordAt(c, 11) # WordAt(b, 11)
         /\ WordSum(SubSeq(c, 1, f)) - WordAt(c, 11)
              = WordSum(SubSeq(b, 1, f)) - WordAt(b, 11)
<1> DEFINE u == SubSeq(b, 1, f)
           v == SubSeq(c, 1, f)
           l == Len(b)
           m == WordSum(u)
           n == WordSum(v)
<1>1. /\ b \in Seq(Octet) /\ c \in Seq(Octet) /\ Len(c) = l /\ j \in 1 .. l
      /\ c[j] # b[j] /\ \A k \in 1 .. l : k # j => c[k] = b[k]
  BY Zenon DEF Differs
<1>2. l \in Nat
  BY SMT, <1>1
<1>3. u \in Seq(Octet) /\ Len(u) = f /\ \A k \in 1 .. f : u[k] = b[k]
  <2>1. 1 \in 1 .. l + 1 /\ f \in 1 - 1 .. l
    BY SMT, <1>2
  <2>2. u \in Seq(Octet) /\ Len(u) = f - 1 + 1 /\ \A k \in 1 .. f - 1 + 1 : u[k] = b[1 + k - 1]
    BY <1>1, <2>1, Slice, Zenon
  <2> HIDE DEF u
  <2> QED
    BY SMT, <1>2, <2>2
<1>4. v \in Seq(Octet) /\ Len(v) = f /\ \A k \in 1 .. f : v[k] = c[k]
  <2>1. 1 \in 1 .. Len(c) + 1 /\ f \in 1 - 1 .. Len(c)
    BY SMT, <1>1, <1>2
  <2>2. v \in Seq(Octet) /\ Len(v) = f - 1 + 1 /\ \A k \in 1 .. f - 1 + 1 : v[k] = c[1 + k - 1]
    BY <1>1, <2>1, Slice, Zenon
  <2> HIDE DEF v
  <2> QED
    BY SMT, <1>2, <2>2
<1>5. /\ 11 \in 1 .. l /\ 12 \in 1 .. l /\ 11 \in 1 .. f /\ 12 \in 1 .. f /\ j \in 1 .. f
      /\ \A k \in 1 .. f : k \in 1 .. l
  BY SMT, <1>2
<1>6. /\ b[11] \in Octet /\ b[12] \in Octet /\ c[11] \in Octet /\ c[12] \in Octet
  <2>1. 11 \in 1 .. Len(c) /\ 12 \in 1 .. Len(c)
    BY <1>1, <1>5, Zenon
  <2>2. c[11] \in Octet /\ c[12] \in Octet
    <3>1. c \in Seq(Octet)
      BY <1>1, Zenon
    <3> QED
      BY <2>1, <3>1, ByteAt, Zenon
  <2>3. b[11] \in Octet /\ b[12] \in Octet
    <3>1. b \in Seq(Octet)
      BY <1>1, Zenon
    <3>2. 11 \in 1 .. Len(b) /\ 12 \in 1 .. Len(b)
      BY <1>5, Zenon
    <3> QED
      BY <3>1, <3>2, ByteAt, Zenon
  <2> QED
    BY <2>2, <2>3, Zenon
<1>7. /\ b[11] \in Int /\ b[12] \in Int /\ c[11] \in Int /\ c[12] \in Int
  BY SMT, <1>6, OctetIs
<1>8. \A k \in 1 .. f : k # j => v[k] = u[k]
  BY <1>1, <1>3, <1>4, <1>5, Zenon
<1> HIDE DEF u, v, l
<1>9. n = m + (Weight(v, j) - Weight(u, j))
  <2>1. j \in 1 .. Len(u) /\ Len(v) = Len(u) /\ \A k \in 1 .. Len(u) : k # j => v[k] = u[k]
    BY <1>3, <1>4, <1>5, <1>8, Zenon
  <2> QED
    BY <1>3, <1>4, <2>1, WordSumChange, Zenon
<1>10. m \in Int /\ n \in Int
  <2>1. m \in Nat /\ n \in Nat
    BY <1>3, <1>4, WordSumRuns, Zenon
  <2> HIDE DEF m, n
  <2> QED
    BY SMT, <2>1
<1>11. u[j] = b[j] /\ v[j] = c[j]
  BY <1>3, <1>4, <1>5, Zenon
<1> HIDE DEF m, n
<1>12. CASE j = 11
  <2>1. 12 # 11
    BY SMT
  <2>2. c[12] = b[12] /\ c[11] # b[11] /\ u[11] = b[11] /\ v[11] = c[11]
    BY <1>1, <1>5, <1>11, <1>12, <2>1, Zenon
  <2>3. Weight(v, j) = 256 * c[11] /\ Weight(u, j) = 256 * b[11]
    BY SMT, <1>12, <2>2 DEF Weight
  <2>4. /\ WordAt(c, 11) = 256 * c[11] + c[12] /\ WordAt(b, 11) = 256 * b[11] + b[12]
    BY SMT DEF WordAt
  <2>5. WordAt(c, 11) # WordAt(b, 11) /\ n - WordAt(c, 11) = m - WordAt(b, 11)
    <3> DEFINE p == b[11]
               q == b[12]
               x == c[11]
               y == c[12]
               f1 == WordAt(b, 11)
               g1 == WordAt(c, 11)
    <3>1. n = m + (256 * x - 256 * p)
      BY <1>9, <2>3, Zenon
    <3>2. /\ p \in Int /\ q \in Int /\ x \in Int /\ y \in Int
          /\ y = q /\ x # p /\ g1 = 256 * x + y /\ f1 = 256 * p + q
      BY <1>7, <2>2, <2>4, Zenon
    <3> HIDE DEF p, q, x, y, f1, g1
    <3>3. g1 # f1 /\ n - g1 = m - f1
      BY SMT, <1>10, <3>1, <3>2
    <3> QED
      BY <3>3, Zenon DEF f1, g1
  <2> QED
    BY <2>5, Zenon DEF m, n, u, v
<1>13. CASE j = 12
  <2>1. 12 # 11
    BY SMT
  <2>2. c[11] = b[11] /\ c[12] # b[12] /\ u[12] = b[12] /\ v[12] = c[12]
    BY <1>1, <1>5, <1>11, <1>13, <2>1, Zenon
  <2>3. Weight(v, j) = c[12] /\ Weight(u, j) = b[12]
    BY SMT, <1>13, <2>2 DEF Weight
  <2>4. /\ WordAt(c, 11) = 256 * c[11] + c[12] /\ WordAt(b, 11) = 256 * b[11] + b[12]
    BY SMT DEF WordAt
  <2>5. WordAt(c, 11) # WordAt(b, 11) /\ n - WordAt(c, 11) = m - WordAt(b, 11)
    <3> DEFINE p == b[11]
               q == b[12]
               x == c[11]
               y == c[12]
               f1 == WordAt(b, 11)
               g1 == WordAt(c, 11)
    <3>1. n = m + (y - q)
      BY <1>9, <2>3, Zenon
    <3>2. /\ p \in Int /\ q \in Int /\ x \in Int /\ y \in Int
          /\ x = p /\ y # q /\ g1 = 256 * x + y /\ f1 = 256 * p + q
      BY <1>7, <2>2, <2>4, Zenon
    <3> HIDE DEF p, q, x, y, f1, g1
    <3>3. g1 # f1 /\ n - g1 = m - f1
      BY SMT, <1>10, <3>1, <3>2
    <3> QED
      BY <3>3, Zenon DEF f1, g1
  <2> QED
    BY <2>5, Zenon DEF m, n, u, v
<1> QED
  BY <1>12, <1>13, Zenon

(* A word that has not been touched.                                       *)
LEMMA WordUntouched ==
  ASSUME NEW b, NEW c, NEW j, Differs(b, c, j), NEW i \in 1 .. Len(b) - 1,
         i # j, i + 1 # j
  PROVE  WordAt(c, i) = WordAt(b, i)
<1> DEFINE l == Len(b)
<1>1. b \in Seq(Octet) /\ \A k \in 1 .. l : k # j => c[k] = b[k]
  BY Zenon DEF Differs
<1>2. l \in Nat
  BY SMT, <1>1
<1> HIDE DEF l
<1>3. i \in 1 .. l /\ i + 1 \in 1 .. l
  BY SMT, <1>2 DEF l
<1>4. c[i] = b[i] /\ c[i + 1] = b[i + 1]
  BY <1>1, <1>3, Zenon
<1> QED
  BY <1>4, Zenon DEF WordAt

(* The length of the header is in its first byte.                           *)
LEMMA LengthUntouched ==
  ASSUME NEW b, NEW c, NEW j, Differs(b, c, j), 1 # j
  PROVE  HeaderLength(c) = HeaderLength(b)
<1>1. b \in Seq(Octet) /\ j \in 1 .. Len(b) /\ \A k \in 1 .. Len(b) : k # j => c[k] = b[k]
  BY Zenon DEF Differs
<1>2. 1 \in 1 .. Len(b)
  BY SMT, <1>1
<1>3. c[1] = b[1]
  BY <1>1, <1>2, Zenon
<1> QED
  BY <1>3, Zenon DEF HeaderLength

(* A header damaged in one byte behind the first does not verify.            *)
LEMMA DamagedHeader ==
  ASSUME NEW d, NEW e, NEW j, Differs(d, e, j), Measured(d),
         calculate_ip_checksum(d) = WordAt(d, 11),
         j # 1, j <= HeaderLength(d)
  PROVE  HeaderLength(e) = HeaderLength(d) /\ Ipv4Rejects(e)
<1> DEFINE k == HeaderLength(d)
           l == Len(d)
           u == SubSeq(d, 1, k)
           v == SubSeq(e, 1, k)
           m == WordSum(u)
           n == WordSum(v)
           f == WordAt(d, 11)
           g == WordAt(e, 11)
<1>1. d \in Seq(Octet) /\ e \in Seq(Octet) /\ Len(e) = l /\ j \in 1 .. l
  BY Zenon DEF Differs
<1>2. l \in Nat /\ k \in 20 .. l
  BY Zenon DEF Measured
<1>3. HeaderLength(e) = k
  BY LengthUntouched, Zenon
<1>4. calculate_ip_checksum(d) = Checksum(m - f) /\ m - f \in Nat
  BY <1>1, <1>2, IpChecksumIs, Zenon
<1>5. calculate_ip_checksum(e) = Checksum(n - g) /\ n - g \in Nat
  <2>1. k \in 20 .. Len(e)
    BY <1>1, <1>2, Zenon
  <2> QED
    BY <1>1, <1>3, <2>1, IpChecksumIs, Zenon
<1>6. j <= k
  OBVIOUS
<1> HIDE DEF k, l
<1>7. /\ 1 <= j /\ j <= k /\ j - 1 + 1 = j /\ 1 \in 1 .. l + 1 /\ k \in 1 - 1 .. l
      /\ 11 \in 1 .. l - 1 /\ k \in 12 .. l
  BY SMT, <1>1, <1>2, <1>6
<1>8. Differs(u, v, j)
  <2>1. Differs(u, v, j - 1 + 1)
    BY <1>7, SliceDiffers, Zenon DEF l
  <2> QED
    BY <1>7, <2>1, Zenon
<1>9. m \in Nat /\ n \in Nat /\ m # n /\ n - m < 65535 /\ -65535 < n - m
  <2> HIDE DEF u, v
  <2> QED
    BY SMT, <1>8, SumsDiffer
<1>10. f \in Int /\ g \in Int
  <2>1. 11 \in 1 .. Len(e) - 1
    BY <1>1, <1>7, Zenon
  <2> QED
    BY <1>1, <1>7, <2>1, WordAtType, Zenon DEF l
<1>11. calculate_ip_checksum(d) = f
  BY Zenon
<1> HIDE DEF u, v
<1>12. calculate_ip_checksum(e) # g
  <2>1. CASE j \in {11, 12}
    <3>1. g # f /\ n - g = m - f
      BY <1>7, <2>1, FieldDiffers, Zenon DEF l, u, v
    <3> HIDE DEF m, n, f, g
    <3> QED
      BY <1>4, <1>5, <1>11, <3>1, Zenon
  <2>2. CASE j \notin {11, 12}
    <3>1. 11 # j /\ 11 + 1 # j
      BY SMT, <1>1, <2>2
    <3>2. g = f
      BY <1>7, <3>1, WordUntouched, Zenon DEF l
    <3> HIDE DEF m, n, f, g
    <3>3. SUFFICES ASSUME calculate_ip_checksum(e) = g PROVE FALSE
      BY Zenon
    <3> DEFINE x == m - f
               y == n - g
    <3>4. Checksum(x) = Checksum(y)
      BY <1>4, <1>5, <1>11, <3>2, <3>3, Zenon
    <3>5. -65535 < x - y /\ x - y < 65535
      BY SMT, <1>9, <1>10, <3>2
    <3>8. x # y
      BY SMT, <1>9, <1>10, <3>2
    <3>6. x \in Nat /\ y \in Nat
      BY <1>4, <1>5, Zenon
    <3> HIDE DEF x, y
    <3>7. x = y
      BY SMT, <3>4, <3>5, <3>6, ChecksumTells
    <3> QED
      BY <3>7, <3>8, Zenon
  <2> QED
    BY <2>1, <2>2, Zenon
<1> QED
  BY <1>3, <1>12, Zenon DEF Ipv4Rejects, g, k

(* Damage behind the header leaves its measures alone.                      *)
LEMMA DamagedBehind ==
  ASSUME NEW d, NEW e, NEW j, Differs(d, e, j), Measured(d), ~ (j <= HeaderLength(d))
  PROVE  Measured(e) /\ HeaderLength(e) = HeaderLength(d)
<1> DEFINE k == HeaderLength(d)
           l == Len(d)
<1>1. d \in Seq(Octet) /\ e \in Seq(Octet) /\ Len(e) = l /\ j \in 1 .. l
  BY Zenon DEF Differs
<1>2. l \in Nat /\ k \in 20 .. l /\ WordAt(d, 3) \in k .. l
  BY Zenon DEF Measured
<1>3. ~ (j <= k)
  OBVIOUS
<1> HIDE DEF k, l
<1>4. 1 # j /\ 3 # j /\ 3 + 1 # j /\ 3 \in 1 .. l - 1
  BY SMT, <1>1, <1>2, <1>3
<1>5. HeaderLength(e) = k
  BY <1>4, LengthUntouched, Zenon DEF k
<1>6. WordAt(e, 3) = WordAt(d, 3)
  BY <1>4, WordUntouched, Zenon DEF l
<1> QED
  BY <1>1, <1>2, <1>5, <1>6, Zenon DEF Measured, k

(* Damage to a frame, seen from the datagram in it.                          *)
LEMMA DamagedFrame ==
  ASSUME NEW b, NEW c, NEW i, Differs(b, c, i), 14 <= Len(b)
  PROVE  /\ 15 <= i => Differs(From(b, 15), From(c, 15), i - 15 + 1)
         /\ i < 15 => From(c, 15) = From(b, 15)
<1> DEFINE l == Len(b)
<1>1. b \in Seq(Octet) /\ c \in Seq(Octet) /\ Len(c) = l /\ i \in 1 .. l
  BY Zenon DEF Differs
<1>2. l \in Nat
  BY SMT, <1>1
<1>3. 14 <= l
  OBVIOUS
<1>4. From(b, 15) = SubSeq(b, 15, l) /\ From(c, 15) = SubSeq(c, 15, l)
  BY <1>1, Zenon DEF From
<1> HIDE DEF l
<1>5. 15 \in 1 .. l + 1 /\ l \in 15 - 1 .. l /\ i <= l
  BY SMT, <1>1, <1>2, <1>3
<1>6. /\ 15 <= i /\ i <= l => Differs(SubSeq(b, 15, l), SubSeq(c, 15, l), i - 15 + 1)
      /\ i < 15 \/ l < i => SubSeq(c, 15, l) = SubSeq(b, 15, l)
  BY <1>5, SliceDiffers, Zenon DEF l
<1> QED
  BY <1>4, <1>5, <1>6, Zenon

-----------------------------------------------------------------------------
(* The link.                                                               *)

(* The frame is one that means what was sent, up to one byte that is not the *)
(* first of its IP header.                                                 *)
Means(fr, seg, i) ==
  /\ seg \in FrameSegment /\ seg \in StackSegment \union PeerSegment
  /\ \E u : /\ Genuine(u, seg)
            /\ i = 0 => fr = u
            /\ i # 0 => i # 15 /\ Differs(u, fr, i)

Quiet == origin = "none" =>
  sent = NoSegment /\ frame = <<>> /\ damaged = 0 /\ handed = NoSegment

Meant == origin # "none" => Means(frame, sent, damaged)

Untouched == origin = "stack" /\ damaged = 0 => InjectedAt(From(frame, 15), sent)

HandedOver ==
  /\ UnderWay => handed = NoSegment
  /\ origin = "captured" => handed = Handed(frame)

LinkInv ==
  /\ id \in Word /\ origin \in {"none", "stack", "peer", "captured"}
  /\ Quiet /\ Meant /\ Untouched /\ HandedOver

LEMMA MeansIntact ==
  ASSUME NEW fr, NEW seg, Genuine(fr, seg), seg \in FrameSegment,
         seg \in StackSegment \union PeerSegment
  PROVE  Means(fr, seg, 0)
<1>1. 0 = 0 => fr = fr
  OBVIOUS
<1> QED
  BY <1>1, Zenon DEF Means

LEMMA LinkInvInit == LinkInit => LinkInv
<1> SUFFICES ASSUME LinkInit PROVE LinkInv
  OBVIOUS
<1>1. /\ id = FirstId /\ origin = "none" /\ sent = NoSegment /\ frame = <<>>
      /\ damaged = 0 /\ handed = NoSegment
  BY Zenon DEF LinkInit
<1>2. id \in Word
  BY <1>1, LinkAssumption, Zenon
<1>3. "none" # "stack" /\ "none" # "peer" /\ "none" # "captured"
  BY SMT
<1> QED
  BY <1>1, <1>2, <1>3, Zenon DEF LinkInv, Quiet, Meant, Untouched, HandedOver, UnderWay

LEMMA StackSendsInv == LinkInv /\ StackSends => LinkInv'
<1> SUFFICES ASSUME LinkInv, StackSends PROVE LinkInv'
  OBVIOUS
<1>1. id' = NextId(id) /\ origin' = "stack" /\ damaged' = 0 /\ handed' = NoSegment
  BY Zenon DEF StackSends
<1>2. PICK seg \in StackSegment : sent' = seg /\ frame' = FrameOf(seg, id')
  BY Zenon DEF StackSends
<1>3. id' \in Word
  <2>1. id \in Word
    BY Zenon DEF LinkInv
  <2>2. id \in Int /\ 0 <= id /\ id <= 65535
    BY SMT, <2>1, WordIs
  <2> DEFINE n == NextId(id)
  <2>3. n \in Int /\ 0 <= n /\ n <= 65535
    BY SMT, <2>2 DEF NextId
  <2> HIDE DEF n
  <2>4. n \in Word
    BY SMT, <2>3, WordIs
  <2> QED
    BY <1>1, <2>4, Zenon DEF n
<1>4. /\ seg \in FrameSegment /\ 2 * HeaderLen + Len(seg.payload) \in Word
      /\ seg \in StackSegment \union PeerSegment
  BY LinkAssumption, Zenon
<1>5. Genuine(frame', seg) /\ InjectedAt(From(frame', 15), seg)
  BY <1>2, <1>3, <1>4, FrameOfIs, Zenon
<1>6. Means(frame', seg, 0)
  BY <1>4, <1>5, MeansIntact, Zenon
<1>7. "stack" # "none" /\ "stack" # "captured"
  BY SMT
<1> QED
  BY <1>1, <1>2, <1>3, <1>5, <1>6, <1>7, Zenon
     DEF LinkInv, Quiet, Meant, Untouched, HandedOver

LEMMA PeerSendsInv == LinkInv /\ PeerSends => LinkInv'
<1> SUFFICES ASSUME LinkInv, PeerSends PROVE LinkInv'
  OBVIOUS
<1>1. id' = id /\ origin' = "peer" /\ damaged' = 0 /\ handed' = NoSegment
  BY SMT DEF PeerSends
<1>2. PICK seg \in PeerSegment, o \in PeerChoices :
        /\ sent' = seg
        /\ frame' = LocalMac \o GatewayMac \o BytesOf(<<2048>>)
                      \o PeerIp(seg, o, PeerTcp(seg, o))
  BY Zenon DEF PeerSends
<1>3. id' \in Word
  BY <1>1, Zenon DEF LinkInv
<1>4. seg \in FrameSegment /\ seg \in StackSegment \union PeerSegment
  BY LinkAssumption, Zenon
<1>5. PeerChoice(seg, o)
  <2>1. /\ o.ip_options \in Options /\ o.tcp_options \in Options
        /\ {o.id, o.window, o.frag_off} \subseteq Word
        /\ o.more_flags \in {0, 64, 128, 192}
        /\ 2 * HeaderLen + Len(o.ip_options) + Len(o.tcp_options) + Len(seg.payload) \in Word
    <3>1. \A ch \in PeerChoices :
            /\ ch.ip_options \in Options /\ ch.tcp_options \in Options
            /\ {ch.id, ch.window, ch.frag_off} \subseteq Word
            /\ ch.more_flags \in {0, 64, 128, 192}
            /\ \A sg \in PeerSegment :
                 2 * HeaderLen + Len(ch.ip_options) + Len(ch.tcp_options) + Len(sg.payload)
                   \in Word
      BY LinkAssumption, SMT
    <3> QED
      BY <3>1, SMT
  <2>2. o.id \in Word /\ o.window \in Word /\ o.frag_off \in Word
    BY <2>1, Zenon
  <2>3. o.more_flags \in UnknownFlags
    BY <2>1, Zenon DEF UnknownFlags
  <2> QED
    BY <1>4, <2>1, <2>2, <2>3, Zenon DEF PeerChoice
<1>6. sent' = seg /\ Genuine(frame', seg)
  <2> DEFINE fr == LocalMac \o GatewayMac \o BytesOf(<<2048>>)
                     \o PeerIp(seg, o, PeerTcp(seg, o))
  <2>1. Genuine(fr, seg)
    BY SMT, <1>5, PeerFrameIs
  <2>2. sent' = seg /\ frame' = fr
    BY <1>2, SMT
  <2> HIDE DEF fr
  <2> QED
    BY <2>1, <2>2, Zenon
<1>7. Means(frame', seg, 0)
  BY <1>4, <1>6, MeansIntact, Zenon
<1>8. "peer" # "none" /\ "peer" # "captured" /\ "peer" # "stack"
  BY SMT
<1> QED
  BY <1>1, <1>3, <1>6, <1>7, <1>8, Zenon
     DEF LinkInv, Quiet, Meant, Untouched, HandedOver

LEMMA PadInv == LinkInv /\ Pad => LinkInv'
<1> SUFFICES ASSUME LinkInv, Pad PROVE LinkInv'
  OBVIOUS
<1>1. /\ UnderWay /\ damaged = 0 /\ id' = id /\ sent' = sent /\ origin' = origin
      /\ damaged' = damaged
  BY Zenon DEF Pad
<1>2. PICK b \in PadBytes : frame' = frame \o [i \in 1 .. 60 - Len(frame) |-> b]
  BY Zenon DEF Pad
<1>3. handed' = handed
  BY Zenon DEF Pad
<1>4. origin # "none" /\ origin # "captured"
  <2>1. "stack" # "none" /\ "stack" # "captured" /\ "peer" # "none" /\ "peer" # "captured"
    BY SMT
  <2>2. origin = "stack" \/ origin = "peer"
    BY <1>1, Zenon DEF UnderWay
  <2> QED
    BY <2>1, <2>2, Zenon
<1>5. /\ id \in Word /\ origin \in {"none", "stack", "peer", "captured"}
      /\ Means(frame, sent, 0) /\ handed = NoSegment
      /\ origin = "stack" => InjectedAt(From(frame, 15), sent)
  BY <1>1, <1>4, Zenon DEF LinkInv, Meant, Untouched, HandedOver
<1>6. Genuine(frame, sent) /\ sent \in FrameSegment /\ sent \in StackSegment \union PeerSegment
  <2>1. 0 = 0
    OBVIOUS
  <2> QED
    BY <1>5, <2>1, Zenon DEF Means
<1> DEFINE p == [i \in 1 .. 60 - Len(frame) |-> b]
<1>7. p \in Seq(Octet)
  <2>1. Len(frame) \in Nat /\ Len(frame) < 60
    BY <1>6, Zenon DEF Genuine, Pad
  <2> DEFINE n == 60 - Len(frame)
  <2>2. n \in Nat
    BY SMT, <2>1
  <2>3. b \in Octet
    BY LinkAssumption, Zenon
  <2> HIDE DEF n
  <2>4. [i \in 1 .. n |-> b] \in Seq(Octet)
    BY SMT, <2>2, <2>3
  <2> QED
    BY <2>4, Zenon DEF n
<1>8. frame' = frame \o p
  BY <1>2, Zenon
<1> HIDE DEF p
<1>9. Genuine(frame', sent) /\ From(frame', 15) = From(frame, 15) \o p
  BY <1>6, <1>7, <1>8, FramePadded, Zenon
<1>10. Means(frame', sent, 0)
  BY <1>6, <1>9, MeansIntact, Zenon
<1>11. origin = "stack" => InjectedAt(From(frame', 15), sent)
  <2> SUFFICES ASSUME origin = "stack" PROVE InjectedAt(From(frame', 15), sent)
    OBVIOUS
  <2>1. Measured(From(frame, 15))
    BY <1>6, DatagramMeasured, Zenon DEF Genuine
  <2>2. InjectedAt(From(frame, 15), sent)
    BY <1>5, Zenon
  <2>3. InjectedAt(From(frame, 15) \o p, sent)
    BY <1>7, <2>1, <2>2, InjectedPadded, Zenon
  <2> QED
    BY <1>9, <2>3, Zenon
<1> QED
  BY <1>1, <1>3, <1>4, <1>5, <1>10, <1>11, Zenon
     DEF LinkInv, Quiet, Meant, Untouched, HandedOver, UnderWay

LEMMA DamageInv == LinkInv /\ Damage => LinkInv'
<1> SUFFICES ASSUME LinkInv, Damage PROVE LinkInv'
  OBVIOUS
<1>1. /\ UnderWay /\ damaged = 0 /\ id' = id /\ sent' = sent /\ origin' = origin
      /\ handed' = handed
  BY Zenon DEF Damage
<1>2. PICK i \in DOMAIN frame \ {EthernetHeaderLen + 1}, k \in Damages :
        frame' = [frame EXCEPT ![i] = (@ + k) % 256] /\ damaged' = i
  BY Zenon DEF Damage
<1>3. origin # "none" /\ origin # "captured"
  <2>1. "stack" # "none" /\ "stack" # "captured" /\ "peer" # "none" /\ "peer" # "captured"
    BY SMT
  <2>2. origin = "stack" \/ origin = "peer"
    BY <1>1, Zenon DEF UnderWay
  <2> QED
    BY <2>1, <2>2, Zenon
<1>4. /\ id \in Word /\ origin \in {"none", "stack", "peer", "captured"}
      /\ Means(frame, sent, 0) /\ handed = NoSegment
  BY <1>1, <1>3, Zenon DEF LinkInv, Meant, HandedOver
<1>5. Genuine(frame, sent) /\ sent \in FrameSegment /\ sent \in StackSegment \union PeerSegment
  <2>1. 0 = 0
    OBVIOUS
  <2> QED
    BY <1>4, <2>1, Zenon DEF Means
<1>6. frame \in Seq(Octet)
  BY <1>5, Zenon DEF Genuine
<1>7. i \in 1 .. Len(frame) /\ i # 15 /\ i # 0
  <2>1. DOMAIN frame = 1 .. Len(frame) /\ Len(frame) \in Nat
    BY SMT, <1>6
  <2>2. EthernetHeaderLen + 1 = 15
    BY SMT DEF EthernetHeaderLen
  <2>3. i \in 1 .. Len(frame) /\ i # 15
    BY <2>1, <2>2, Zenon
  <2> QED
    BY SMT, <2>1, <2>3
<1> DEFINE v == (frame[i] + k) % 256
<1>8. frame' = [frame EXCEPT ![i] = v]
  BY <1>2, SMT
<1>9. v \in Octet /\ v # frame[i]
  <2>1. frame[i] \in Octet
    BY <1>6, <1>7, ByteAt, Zenon
  <2>2. k \in 1 .. 255
    BY LinkAssumption, Zenon
  <2> QED
    BY <2>1, <2>2, AddedIs, Zenon
<1> HIDE DEF v
<1>10. Differs(frame, frame', i)
  BY <1>6, <1>7, <1>8, <1>9, DiffersIs, Zenon
<1>11. Means(frame', sent, i)
  BY <1>5, <1>7, <1>10, Zenon DEF Means
<1> QED
  BY <1>1, <1>2, <1>3, <1>4, <1>7, <1>11, Zenon
     DEF LinkInv, Quiet, Meant, Untouched, HandedOver, UnderWay

LEMMA CaptureInv == LinkInv /\ Capture => LinkInv'
<1> SUFFICES ASSUME LinkInv, Capture PROVE LinkInv'
  OBVIOUS
<1>1. /\ UnderWay /\ origin' = "captured" /\ id' = id /\ sent' = sent
      /\ frame' = frame /\ damaged' = damaged
  BY Zenon DEF Capture
<1>2. handed' = Handed(frame)
  BY Zenon DEF Capture, Handed
<1>3. "captured" # "none" /\ "captured" # "stack" /\ "captured" # "peer"
      /\ "stack" # "none" /\ "peer" # "none"
  BY SMT
<1>4. origin # "none"
  BY <1>1, <1>3, Zenon DEF UnderWay
<1>5. id \in Word /\ Means(frame, sent, damaged)
  BY <1>4, Zenon DEF LinkInv, Meant
<1> QED
  BY <1>1, <1>2, <1>3, <1>5, Zenon DEF LinkInv, Quiet, Meant, Untouched, HandedOver, UnderWay

LEMMA RoundEndsInv == LinkInv /\ RoundEnds => LinkInv'
<1> SUFFICES ASSUME LinkInv, RoundEnds PROVE LinkInv'
  OBVIOUS
<1>1. /\ id' = id /\ origin' = "none" /\ sent' = NoSegment /\ frame' = <<>>
      /\ damaged' = 0 /\ handed' = NoSegment
  BY Zenon DEF RoundEnds
<1>2. "none" # "stack" /\ "none" # "peer" /\ "none" # "captured"
  BY SMT
<1>3. id \in Word
  BY Zenon DEF LinkInv
<1> QED
  BY <1>1, <1>2, <1>3, Zenon DEF LinkInv, Quiet, Meant, Untouched, HandedOver, UnderWay

LEMMA LinkInvHolds == LinkSpec => []LinkInv
<1>1. LinkInv /\ UNCHANGED linkVars => LinkInv'
  BY Zenon DEF LinkInv, Quiet, Meant, Untouched, HandedOver, UnderWay, linkVars
<1>2. LinkInv /\ [LinkNext]_linkVars => LinkInv'
  BY <1>1, StackSendsInv, PeerSendsInv, PadInv, DamageInv, CaptureInv, RoundEndsInv, Zenon
     DEF LinkNext
<1> QED
  BY <1>2, LinkInvInit, PTL DEF LinkSpec

(* What such a frame is for the capture loop.                              *)
LEMMA MeansType ==
  ASSUME NEW fr, NEW seg, NEW i, Means(fr, seg, i)
  PROVE  fr \in Seq(Octet) /\ i \in 0 .. Len(fr)
<1>1. PICK u : /\ Genuine(u, seg)
               /\ i = 0 => fr = u
               /\ i # 0 => i # 15 /\ Differs(u, fr, i)
  BY Zenon DEF Means
<1>2. CASE i = 0
  <2>1. fr \in Seq(Octet)
    BY <1>1, <1>2, Zenon DEF Genuine
  <2> QED
    BY SMT, <1>2, <2>1
<1>3. CASE i # 0
  <2>1. fr \in Seq(Octet) /\ i \in 1 .. Len(fr)
    BY <1>1, <1>3, Zenon DEF Differs
  <2> QED
    BY SMT, <2>1
<1> QED
  BY <1>2, <1>3, Zenon

(* The datagram in a frame damaged at i, as it was sent.                     *)
LEMMA MeansDamaged ==
  ASSUME NEW fr, NEW seg, NEW i, Means(fr, seg, i), i # 0
  PROVE  \E d : /\ DatagramAt(d, seg) /\ i \in Nat /\ i # 15
                /\ i < 15 => From(fr, 15) = d
                /\ 15 <= i => Differs(d, From(fr, 15), i - 15 + 1)
<1>1. PICK u : Genuine(u, seg) /\ i # 15 /\ Differs(u, fr, i)
  BY Zenon DEF Means
<1>2. 14 <= Len(u) /\ DatagramAt(From(u, 15), seg)
  BY <1>1, Zenon DEF Genuine
<1>3. i \in Nat
  <2>1. u \in Seq(Octet) /\ i \in 1 .. Len(u)
    BY <1>1, Zenon DEF Differs
  <2> QED
    BY SMT, <2>1
<1>4. /\ 15 <= i => Differs(From(u, 15), From(fr, 15), i - 15 + 1)
      /\ i < 15 => From(fr, 15) = From(u, 15)
  BY <1>1, <1>2, DamagedFrame, Zenon
<1> QED
  BY <1>1, <1>2, <1>3, <1>4, Zenon

LEMMA MeansHanded ==
  ASSUME NEW fr, NEW seg, NEW i, Means(fr, seg, i)
  PROVE  Handed(fr) = NoSegment \/ Handed(fr) \in FrameSegment
<1> SUFFICES ASSUME Taken(fr) PROVE Handed(fr) \in FrameSegment
  BY HandedIs, Zenon
<1>1. fr \in Seq(Octet)
  BY MeansType, Zenon
<1>2. CASE i = 0
  <2>1. Genuine(fr, seg) /\ seg \in FrameSegment
    BY <1>2, Zenon DEF Means
  <2>2. Handed(fr) = seg
    BY <2>1, GenuineHanded, Zenon
  <2> QED
    BY <2>1, <2>2, Zenon
<1>3. CASE i # 0
  <2> DEFINE e == From(fr, 15)
             j == i - 15 + 1
  <2>1. PICK d : /\ DatagramAt(d, seg) /\ i \in Nat /\ i # 15
                 /\ i < 15 => e = d
                 /\ 15 <= i => Differs(d, e, j)
    BY <1>3, MeansDamaged, Zenon
  <2>2. Measured(d) /\ calculate_ip_checksum(d) = WordAt(d, 11)
    BY <2>1, DatagramMeasured, Zenon DEF DatagramAt
  <2>3. ~ Ipv4Rejects(e)
    BY Zenon DEF Taken
  <2> HIDE DEF e
  <2>4. j # 1
    BY SMT, <2>1
  <2>5. i < 15 \/ 15 <= i
    BY SMT, <2>1
  <2> HIDE DEF j
  <2>6. Measured(e)
    <3>1. CASE i < 15
      BY <2>1, <2>2, <3>1, Zenon
    <3>2. CASE 15 <= i
      <4>1. Differs(d, e, j)
        BY <2>1, <3>2, Zenon
      <4>2. ~ (j <= HeaderLength(d))
        BY <2>2, <2>3, <2>4, <4>1, DamagedHeader, Zenon
      <4> QED
        BY <2>2, <4>1, <4>2, DamagedBehind, Zenon
    <3> QED
      BY <2>5, <3>1, <3>2, Zenon
  <2>7. Measured(From(fr, 15))
    BY <2>6, Zenon DEF e
  <2> QED
    BY <1>1, <2>7, HandedType, Zenon
<1> QED
  BY <1>2, <1>3, Zenon

LEMMA MeansDropped ==
  ASSUME NEW fr, NEW seg, NEW i, Means(fr, seg, i),
         i \in 15 .. 14 + HeaderLength(From(fr, 15))
  PROVE  Handed(fr) = NoSegment
<1> DEFINE e == From(fr, 15)
           j == i - 15 + 1
           k == HeaderLength(e)
<1>1. i # 0
  BY SMT
<1>2. PICK d : /\ DatagramAt(d, seg) /\ i \in Nat /\ i # 15
               /\ i < 15 => e = d
               /\ 15 <= i => Differs(d, e, j)
  BY <1>1, MeansDamaged, Zenon
<1>3. Measured(d) /\ calculate_ip_checksum(d) = WordAt(d, 11)
  BY <1>2, DatagramMeasured, Zenon DEF DatagramAt
<1>4. i \in 15 .. 14 + k
  BY Zenon
<1> HIDE DEF e, k
<1>5. 15 <= i /\ j # 1 /\ 1 # j
  BY SMT, <1>2, <1>4
<1>6. Differs(d, e, j)
  BY <1>2, <1>5, Zenon
<1>7. k = HeaderLength(d)
  <2> HIDE DEF j
  <2> QED
    BY <1>5, <1>6, LengthUntouched, Zenon DEF k
<1>8. k \in Nat
  <2>1. HeaderLength(d) \in 20 .. Len(d) /\ Len(d) \in Nat
    BY <1>3, Zenon DEF Measured
  <2> QED
    BY SMT, <1>7, <2>1
<1>9. j <= k
  BY SMT, <1>2, <1>4, <1>8
<1> HIDE DEF j
<1>10. Ipv4Rejects(e)
  <2>1. j <= HeaderLength(d)
    BY <1>7, <1>9, Zenon
  <2> QED
    BY <1>3, <1>5, <1>6, <2>1, DamagedHeader, Zenon
<1>11. ~ Taken(fr)
  BY <1>10, Zenon DEF Taken, e
<1> QED
  BY <1>11, HandedIs, Zenon

-----------------------------------------------------------------------------
(* The variables stay in their types; in particular, whatever the parsers    *)
(* let through to process_packet, also of a frame damaged behind its IP      *)
(* header, is a segment with fields of the right width and a payload of      *)
(* bytes that were captured.                                               *)
THEOREM LinkTypeCorrect == LinkSpec => []LinkTypeOK
<1>1. LinkInv => LinkTypeOK
  <2> SUFFICES ASSUME LinkInv PROVE LinkTypeOK
    OBVIOUS
  <2>1. CASE origin = "none"
    <3>1. /\ id \in Word /\ sent = NoSegment /\ frame = <<>> /\ damaged = 0
          /\ handed = NoSegment
      BY <2>1, Zenon DEF LinkInv, Quiet
    <3>2. frame \in Seq(Octet) /\ damaged \in 0 .. Len(frame)
      BY SMT, <3>1
    <3> QED
      BY <2>1, <3>1, <3>2, Zenon DEF LinkTypeOK
  <2>2. CASE origin # "none"
    <3>1. /\ id \in Word /\ origin \in {"none", "stack", "peer", "captured"}
          /\ Means(frame, sent, damaged)
      BY <2>2, Zenon DEF LinkInv, Meant
    <3>2. sent \in StackSegment \union PeerSegment \union {NoSegment}
      BY <3>1, Zenon DEF Means
    <3>3. frame \in Seq(Octet) /\ damaged \in 0 .. Len(frame)
      BY <3>1, MeansType, Zenon
    <3>4. handed = NoSegment \/ handed \in FrameSegment
      <4>1. CASE origin = "captured"
        <5>1. handed = Handed(frame)
          BY <4>1, Zenon DEF LinkInv, HandedOver
        <5> QED
          BY <3>1, <5>1, MeansHanded, Zenon
      <4>2. CASE origin # "captured"
        <5>1. UnderWay
          BY <2>2, <3>1, <4>2, Zenon DEF UnderWay
        <5> QED
          BY <5>1, Zenon DEF LinkInv, HandedOver
      <4> QED
        BY <4>1, <4>2, Zenon
    <3> QED
      BY <3>1, <3>2, <3>3, <3>4, Zenon DEF LinkTypeOK
  <2> QED
    BY <2>1, <2>2, Zenon
<1> QED
  BY <1>1, LinkInvHolds, PTL

(* What send_tcp_packet injects is accepted by a conforming receiver: the    *)
(* length fields fit the frame and both checksums come out, for every        *)
(* payload of up to 65535 - 40 bytes, with every value of the fields.       *)
THEOREM InjectedVerifiesHolds == LinkSpec => []InjectedVerifies
<1>1. LinkInv => InjectedVerifies
  <2> SUFFICES ASSUME LinkInv PROVE InjectedVerifies
    OBVIOUS
  <2> DEFINE ip == From(frame, 15)
  <2>1. origin = "stack" /\ damaged = 0 => InjectedAt(ip, sent)
    BY Zenon DEF LinkInv, Untouched
  <2> HIDE DEF ip
  <2>2. InjectedAt(ip, sent) =>
          /\ WordAt(ip, 3) = 40 + Len(sent.payload) /\ WordAt(ip, 3) <= Len(ip)
          /\ Verifies(SubSeq(ip, 1, 20))
          /\ Verifies(BytesOf(QuadAt(ip, 13) \o QuadAt(ip, 17)
                                \o <<6, Len(SubSeq(ip, 21, WordAt(ip, 3)))>>)
                        \o SubSeq(ip, 21, WordAt(ip, 3)))
    BY Zenon DEF InjectedAt, Pseudo
  <2> QED
    BY <2>1, <2>2, Zenon DEF InjectedVerifies, ip
<1> QED
  BY <1>1, LinkInvHolds, PTL

(* An undamaged frame, padded or not, with options or without, is handed to  *)
(* process_packet as exactly the segment its sender meant, whichever side it *)
(* comes from: the headers send_tcp_packet builds are read back by the       *)
(* parsers as they were written.                                           *)
THEOREM CapturedIsSentHolds == LinkSpec => []CapturedIsSent
<1>1. LinkInv => CapturedIsSent
  <2> SUFFICES ASSUME LinkInv, origin = "captured", damaged = 0 PROVE handed = sent
    BY Zenon DEF CapturedIsSent
  <2>1. "captured" # "none" /\ 0 = 0
    BY SMT
  <2>2. handed = Handed(frame) /\ Means(frame, sent, 0)
    BY <2>1, Zenon DEF LinkInv, Meant, HandedOver
  <2>3. Genuine(frame, sent) /\ sent \in FrameSegment
    BY <2>1, <2>2, Zenon DEF Means
  <2> QED
    BY <2>2, <2>3, GenuineHanded, Zenon
<1> QED
  BY <1>1, LinkInvHolds, PTL

(* A frame with one byte of its IP header changed never gets to              *)
(* process_packet, whichever byte behind the first it is, whatever it was    *)
(* changed to, with or without options, and when it is the checksum itself. *)
THEOREM BadHeaderDroppedHolds == LinkSpec => []BadHeaderDropped
<1>1. LinkInv => BadHeaderDropped
  <2> SUFFICES ASSUME LinkInv, origin = "captured",
                      damaged \in 15 .. 14 + HeaderLength(From(frame, 15))
               PROVE  handed = NoSegment
    BY Zenon DEF BadHeaderDropped
  <2>1. "captured" # "none"
    BY SMT
  <2>2. handed = Handed(frame) /\ Means(frame, sent, damaged)
    BY <2>1, Zenon DEF LinkInv, Meant, HandedOver
  <2> QED
    BY <2>2, MeansDropped, Zenon
<1> QED
  BY <1>1, LinkInvHolds, PTL

=============================================================================

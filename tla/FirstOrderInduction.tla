------------------------ MODULE FirstOrderInduction ------------------------
(***************************************************************************)
(* Induction and recursion on the natural numbers in a form without          *)
(* operator parameters: a property is the set of numbers that have it, a     *)
(* step of a recursion is a function.  And what division with remainder does *)
(* to sums.                                                                *)
(***************************************************************************)
EXTENDS SequenceTheorems, WellFoundedInduction, TLAPS

(* A set of natural numbers has a least element.                           *)
LEMMA LeastNumber ==
  ASSUME NEW S \in SUBSET Nat, S # {}
  PROVE  \E x \in S : \A y \in S : x <= y
<1>1. IsWellFoundedOn({p \in Nat \X Nat : p[1] < p[2]}, Nat)
  BY NatLessThanWellFounded DEF OpToRel
<1> DEFINE Less == {p \in Nat \X Nat : p[1] < p[2]}
<1>2. PICK x \in S : \A y \in S : ~ (<<y, x>> \in Less)
  <2> HIDE DEF Less
  <2>1. IsWellFoundedOn(Less, Nat) /\ S \subseteq Nat
    BY <1>1 DEF Less
  <2> QED
    BY <2>1, WFMin, Zenon
<1>3. ASSUME NEW y \in S
      PROVE  x <= y
  <2> SUFFICES ASSUME y < x PROVE FALSE
    OBVIOUS
  <2>1. <<y, x>> \in Less
    BY DEF Less
  <2> QED
    BY <1>2, <2>1
<1> QED
  BY <1>3

(* One that is bounded has a greatest element.                             *)
LEMMA GreatestNumber ==
  ASSUME NEW n \in Nat, NEW S \in SUBSET (0 .. n), S # {}
  PROVE  \E x \in S : \A y \in S : x >= y
<1> DEFINE Up == {u \in Nat : \A y \in S : y <= u}
<1>1. Up \in SUBSET Nat /\ n \in Up
  OBVIOUS
<1>2. PICK u \in Up : \A v \in Up : u <= v
  BY <1>1, LeastNumber
<1>3. CASE u \in S
  BY <1>2, <1>3
<1>4. CASE u \notin S
  <2>1. PICK y \in S : TRUE
    OBVIOUS
  <2>2. \A z \in S : z < u
    BY <1>2, <1>4
  <2>3. u - 1 \in Up
    BY <1>2, <2>1, <2>2
  <2> QED
    BY <1>2, <2>3
<1> QED
  BY <1>3, <1>4

(* What holds of 0, and of n + 1 if of n, holds up to any number.          *)
LEMMA Induction ==
  ASSUME NEW S, NEW n \in Nat,
         0 \in S, \A k \in 0 .. n - 1 : k \in S => k + 1 \in S
  PROVE  0 .. n \subseteq S
<1> DEFINE Bad == {k \in 0 .. n : k \notin S}
<1> SUFFICES ASSUME Bad # {} PROVE FALSE
  OBVIOUS
<1>1. PICK k \in Bad : \A j \in Bad : k <= j
  <2>1. Bad \in SUBSET Nat
    OBVIOUS
  <2> QED
    BY <2>1, LeastNumber
<1>2. k # 0 /\ k - 1 \in 0 .. n - 1
  BY <1>1
<1>3. k - 1 \in S
  BY <1>1, <1>2
<1>4. (k - 1) + 1 = k
  BY <1>2
<1> QED
  BY <1>1, <1>2, <1>3, <1>4

(* f starts with base and goes on with step, up to n.                      *)
Follows(f, n, base, step) ==
  f[0] = base /\ \A k \in 1 .. n : f[k] = step[k][f[k - 1]]

(* There is such a function.                                               *)
LEMMA Recursion ==
  ASSUME NEW n \in Nat, NEW T, NEW base \in T, NEW step \in [1 .. n -> [T -> T]]
  PROVE  \E f \in [0 .. n -> T] : Follows(f, n, base, step)
<1> DEFINE Fits(g, m) ==
             g[0] = base /\ \A k \in 1 .. m : g[k] = step[k][g[k - 1]]
           Good == {m \in 0 .. n : \E g \in [0 .. n -> T] : Fits(g, m)}
<1>1. 0 \in Good
  <2> DEFINE g == [k \in 0 .. n |-> base]
  <2>1. g \in [0 .. n -> T] /\ Fits(g, 0) /\ 0 \in 0 .. n
    OBVIOUS
  <2> HIDE DEF g, Fits
  <2> QED
    BY <2>1
<1>2. ASSUME NEW m \in 0 .. n - 1, m \in Good
      PROVE  m + 1 \in Good
  <2>1. PICK g \in [0 .. n -> T] : Fits(g, m)
    BY <1>2
  <2> DEFINE next == step[m + 1][g[m]]
             h == [g EXCEPT ![m + 1] = next]
  <2>2. next \in T /\ m + 1 \in 0 .. n
    OBVIOUS
  <2>3. h \in [0 .. n -> T]
    BY <2>2
  <2>4. /\ h[m + 1] = next
        /\ \A k \in 0 .. m : h[k] = g[k]
    BY <2>2
  <2> HIDE DEF h
  <2>5. ASSUME NEW k \in 1 .. m + 1
        PROVE  h[k] = step[k][h[k - 1]]
    <3>1. CASE k = m + 1
      BY <2>4, <3>1
    <3>2. CASE k # m + 1
      <4>1. k \in 1 .. m /\ k - 1 \in 0 .. m /\ k \in 0 .. m
        BY <3>2
      <4> QED
        BY <2>1, <2>4, <4>1
    <3> QED
      BY <3>1, <3>2
  <2>6. h[0] = base
    BY <2>1, <2>4
  <2> QED
    BY <2>2, <2>3, <2>5, <2>6
<1>3. n \in Good
  <2> HIDE DEF Good
  <2>1. 0 .. n \subseteq Good
    BY <1>1, <1>2, Induction
  <2> QED
    BY <2>1
<1> QED
  BY <1>3 DEF Follows

-----------------------------------------------------------------------------
(* Division with remainder.                                                *)
LEMMA DivMod ==
  ASSUME NEW m \in Nat \ {0}, NEW n \in Int
  PROVE  n % m \in 0 .. m - 1 /\ n \div m \in Int /\ n = m * (n \div m) + (n % m)
  OBVIOUS

(* There is only one remainder.                                            *)
LEMMA ModIs ==
  ASSUME NEW m \in Nat \ {0}, NEW n \in Int, NEW q \in Int, NEW r \in 0 .. m - 1,
         n = m * q + r
  PROVE  n % m = r /\ n \div m = q
<1> DEFINE p == n \div m
           s == n % m
<1>1. s \in 0 .. m - 1 /\ p \in Int /\ n = m * p + s
  BY DivMod
<1> HIDE DEF p, s
<1>2. m * (q - p) = s - r
  BY <1>1
<1>3. CASE q - p >= 1
  <2>1. m * (q - p) >= m
    BY <1>1, <1>3
  <2> QED
    BY <1>1, <1>2, <2>1
<1>4. CASE q - p <= -1
  <2>1. m * (p - q) >= m
    BY <1>1, <1>4
  <2>2. m * (p - q) = r - s
    BY <1>1, <1>2
  <2> QED
    BY <1>1, <2>1, <2>2
<1>5. CASE q - p = 0
  BY <1>1, <1>2, <1>5 DEF p, s
<1> QED
  BY <1>1, <1>3, <1>4, <1>5

(* A remainder may be taken before adding as well.                          *)
LEMMA ModAdds ==
  ASSUME NEW m \in Nat \ {0}, NEW x \in Int, NEW y \in Int
  PROVE  ((x % m) + y) % m = (x + y) % m
<1> DEFINE k == x \div m
           u == x % m
           q == (u + y) \div m
           r == (u + y) % m
<1>1. u \in Int /\ k \in Int /\ x = m * k + u
  BY DivMod
<1> HIDE DEF u
<1>2. r \in 0 .. m - 1 /\ q \in Int /\ u + y = m * q + r
  BY <1>1, DivMod
<1> HIDE DEF k, q, r
<1> DEFINE n == x + y
           p == q + k
<1>3. n \in Int /\ p \in Int /\ n = m * p + r
  BY <1>1, <1>2
<1> HIDE DEF n, p
<1>4. n % m = r
  BY <1>2, <1>3, ModIs
<1> QED
  BY <1>4 DEF n, r, u
=============================================================================

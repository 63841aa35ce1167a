------------------------------ MODULE DataLemmas ------------------------------
(***************************************************************************)
(* Facts about data that the proofs of several components need: induction  *)
(* over the natural numbers, functions defined by recursion over a range   *)
(* of them, and the bits of numbers (BitUtil).                             *)
(*                                                                         *)
(* The provers cannot instantiate the library's induction theorems, which  *)
(* take a predicate as a parameter. Here induction is over the set of the  *)
(* numbers a fact holds for, and rests on the library's facts about        *)
(* well-founded relations, which are about sets: the intervals 0..n are    *)
(* finite sets, each strictly smaller than the next.                       *)
(***************************************************************************)
EXTENDS BitUtil, FiniteSetTheorems, WellFoundedInduction, TLAPS

-----------------------------------------------------------------------------
(* Induction. *)

LEMMA LeastElement ==
  ASSUME NEW T \in SUBSET Nat, T # {}
  PROVE  \E n \in T : \A m \in T : n <= m
<1> DEFINE U == {0..n : n \in T}
           R == StrictSubsetOrdering(Nat)
           F == FiniteSubsetsOf(Nat)
<1>1. IsWellFoundedOn(R, F)
  BY FS_StrictSubsetOrderingWellFounded
<1>2. U \subseteq F
  <2>1. \A n \in Nat : IsFiniteSet(0..n)
    BY FS_Interval
  <2> QED BY <2>1 DEF FiniteSubsetsOf
<1>3. U # {}
  OBVIOUS
<1>4. \E x \in U : \A y \in U : ~ (<<y, x>> \in R)
  <2> HIDE DEF U, R, F
  <2> QED BY <1>1, <1>2, <1>3, WFMin
<1>5. PICK n \in T : \A m \in T : ~ (<<0..m, 0..n>> \in R)
  BY <1>4
<1>6. ASSUME NEW m \in T, m < n PROVE FALSE
  <2>1. 0..m \subseteq 0..n /\ 0..m # 0..n
    <3>1. n \in 0..n /\ n \notin 0..m
      BY <1>6
    <3> QED BY <3>1, <1>6
  <2>2. <<0..m, 0..n>> \in R
    BY <2>1 DEF StrictSubsetOrdering
  <2> QED BY <2>2, <1>5
<1> QED BY <1>5, <1>6

\* A set of numbers that has 0, and with every number the next, has them all.
THEOREM InductionOnSets ==
  ASSUME NEW T, 0 \in T, \A n \in Nat : n \in T => n + 1 \in T
  PROVE  \A n \in Nat : n \in T
<1> SUFFICES ASSUME ~ \A n \in Nat : n \in T PROVE FALSE
  OBVIOUS
<1> DEFINE C == {n \in Nat : n \notin T}
<1>1. PICK n \in C : \A m \in C : n <= m
  <2>1. C \in SUBSET Nat /\ C # {}
    OBVIOUS
  <2> HIDE DEF C
  <2> QED BY <2>1, LeastElement
<1>2. n # 0
  OBVIOUS
<1>3. n - 1 \in Nat /\ n - 1 \in T
  BY <1>1, <1>2
<1> QED BY <1>3, <1>1

-----------------------------------------------------------------------------
(* Recursion. *)

\* What the steps from base on make: a function whose every value comes from the
\* one before.
Recurs(g, N, base, step) == g[0] = base /\ \A n \in 1..N : g[n] = step[n][g[n - 1]]

\* Such a function exists.
THEOREM RecursionOnNat ==
  ASSUME NEW N \in Nat, NEW S, NEW base \in S, NEW step \in [1..N -> [S -> S]]
  PROVE  \E g \in [0..N -> S] : Recurs(g, N, base, step)
<1> DEFINE T == {m \in Nat : m <= N => \E g \in [0..m -> S] : Recurs(g, m, base, step)}
<1>1. 0 \in T
  <2> DEFINE g == [i \in 0..0 |-> base]
  <2>1. g \in [0..0 -> S] /\ Recurs(g, 0, base, step)
    BY DEF Recurs
  <2> QED BY <2>1
<1>2. ASSUME NEW m \in Nat, m \in T PROVE m + 1 \in T
  <2> SUFFICES ASSUME m + 1 <= N
               PROVE  \E g \in [0..(m + 1) -> S] : Recurs(g, m + 1, base, step)
    OBVIOUS
  <2>1. PICK f \in [0..m -> S] : Recurs(f, m, base, step)
    BY <1>2
  <2> DEFINE g == [i \in 0..(m + 1) |-> IF i <= m THEN f[i] ELSE step[m + 1][f[m]]]
  <2>2. step[m + 1][f[m]] \in S
    <3>1. m + 1 \in 1..N /\ f[m] \in S
      OBVIOUS
    <3> QED BY <3>1
  <2>3. g \in [0..(m + 1) -> S]
    BY <2>2
  <2>4. g[0] = base
    BY <2>1 DEF Recurs
  <2>5. ASSUME NEW n \in 1..(m + 1) PROVE g[n] = step[n][g[n - 1]]
    <3>1. CASE n <= m
      BY <3>1, <2>1 DEF Recurs
    <3>2. CASE n = m + 1
      BY <3>2
    <3> QED BY <3>1, <3>2
  <2> HIDE DEF g
  <2> QED BY <2>3, <2>4, <2>5 DEF Recurs
<1>3. \A m \in Nat : m \in T
  <2> HIDE DEF T
  <2> QED BY <1>1, <1>2, InductionOnSets
<1> QED BY <1>3

-----------------------------------------------------------------------------
(* Bits. *)

\* Halving a number again and again gives its bits.
LEMMA BitsAre ==
  ASSUME NEW number \in Nat, NEW k \in Nat
  PROVE  \E half \in [0..k -> Nat] :
           /\ half[0] = number /\ \A i \in 1..k : half[i] = half[i - 1] \div 2
           /\ Bits(number, k) = [i \in 1..k |-> half[i - 1] % 2]
<1> DEFINE of(h) == [i \in 0..k |-> IF i = 0 THEN number ELSE h[i - 1] \div 2]
           step  == [i \in 1..k |-> [h \in Nat |-> h \div 2]]
           half  == CHOOSE h : h = of(h)
<1>1. step \in [1..k -> [Nat -> Nat]]
  OBVIOUS
<1>2. PICK g \in [0..k -> Nat] : Recurs(g, k, number, step)
  <2> HIDE DEF step
  <2> QED BY <1>1, RecursionOnNat
<1>3. g = of(g)
  <2>1. g[0] = number /\ \A i \in 1..k : g[i] = g[i - 1] \div 2
    <3>1. g[0] = number /\ \A i \in 1..k : g[i] = step[i][g[i - 1]]
      <4> HIDE DEF step
      <4> QED BY <1>2 DEF Recurs
    <3>2. \A i \in 1..k : g[i - 1] \in Nat
      OBVIOUS
    <3> QED BY <3>1, <3>2
  <2>2. \A i \in 0..k : g[i] = IF i = 0 THEN number ELSE g[i - 1] \div 2
    BY <2>1
  <2> HIDE DEF step, half
  <2> QED BY <2>2
<1>4. half = of(half)
  BY <1>3
<1>5. Bits(number, k) = [i \in 1..k |-> half[i - 1] % 2]
  BY DEF Bits
<1> HIDE DEF half
<1>6. half[0] = number /\ \A i \in 1..k : half[i] = half[i - 1] \div 2
  BY <1>4
<1> DEFINE T == {i \in Nat : i <= k => half[i] \in Nat}
<1>7. \A i \in Nat : i \in T
  <2>1. 0 \in T
    BY <1>6
  <2>2. ASSUME NEW i \in Nat, i \in T PROVE i + 1 \in T
    <3> SUFFICES ASSUME i + 1 <= k PROVE half[i + 1] \in Nat
      OBVIOUS
    <3> i + 1 \in 1..k /\ half[i] \in Nat
      BY <2>2
    <3> half[i + 1] = half[i] \div 2
      BY <1>6
    <3> QED OBVIOUS
  <2> HIDE DEF T
  <2> QED BY <2>1, <2>2, InductionOnSets
<1>8. half \in [0..k -> Nat]
  <2>1. \A i \in 0..k : half[i] \in Nat
    BY <1>7
  <2>2. half = [i \in 0..k |-> half[i]]
    BY <1>4
  <2> HIDE DEF T, of
  <2> QED BY <2>1, <2>2
<1> QED BY <1>5, <1>6, <1>8

\* A number is summed up from its highest bit.
LEMMA NumberIs ==
  ASSUME NEW bits \in Seq(Nat)
  PROVE  \E sum \in [0..Len(bits) -> Nat] :
           /\ sum[0] = 0 /\ \A i \in 1..Len(bits) : sum[i] = 2 * sum[i - 1] + bits[Len(bits) + 1 - i]
           /\ Number(bits) = sum[Len(bits)]
<1> DEFINE k == Len(bits)
           bit(i) == bits[k + 1 - i]
           of(s) == [i \in 0..k |-> IF i = 0 THEN 0 ELSE 2 * s[i - 1] + bit(i)]
           step  == [i \in 1..k |-> [s \in Nat |-> 2 * s + bit(i)]]
           sum   == CHOOSE s : s = of(s)
<1>0. k \in Nat /\ \A i \in 1..k : bit(i) \in Nat
  OBVIOUS
<1>5. Number(bits) = sum[k]
  BY DEF Number
<1> HIDE DEF k, bit
<1>1. step \in [1..k -> [Nat -> Nat]]
  BY <1>0
<1>2. PICK g \in [0..k -> Nat] : Recurs(g, k, 0, step)
  <2> HIDE DEF step
  <2> QED BY <1>0, <1>1, RecursionOnNat
<1>3. g = of(g)
  <2>1. g[0] = 0 /\ \A i \in 1..k : g[i] = 2 * g[i - 1] + bit(i)
    <3>1. g[0] = 0 /\ \A i \in 1..k : g[i] = step[i][g[i - 1]]
      <4> HIDE DEF step
      <4> QED BY <1>2 DEF Recurs
    <3>2. \A i \in 1..k : g[i - 1] \in Nat
      BY <1>0
    <3> QED BY <3>1, <3>2
  <2>2. \A i \in 0..k : g[i] = IF i = 0 THEN 0 ELSE 2 * g[i - 1] + bit(i)
    BY <2>1
  <2> HIDE DEF step, sum
  <2> QED BY <2>2
<1>4. sum = of(sum)
  BY <1>3
<1> HIDE DEF sum
<1>6. sum[0] = 0 /\ \A i \in 1..k : sum[i] = 2 * sum[i - 1] + bit(i)
  BY <1>0, <1>4
<1> DEFINE T == {i \in Nat : i <= k => sum[i] \in Nat}
<1>7. \A i \in Nat : i \in T
  <2>1. 0 \in T
    BY <1>6
  <2>2. ASSUME NEW i \in Nat, i \in T PROVE i + 1 \in T
    <3> SUFFICES ASSUME i + 1 <= k PROVE sum[i + 1] \in Nat
      OBVIOUS
    <3> i + 1 \in 1..k /\ sum[i] \in Nat
      BY <2>2, <1>0
    <3> sum[i + 1] = 2 * sum[i] + bit(i + 1)
      BY <1>6
    <3> QED BY <1>0
  <2> HIDE DEF T
  <2> QED BY <2>1, <2>2, InductionOnSets
<1>8. sum \in [0..k -> Nat]
  <2>1. \A i \in 0..k : sum[i] \in Nat
    BY <1>7, <1>0
  <2>2. sum = [i \in 0..k |-> sum[i]]
    BY <1>4
  <2> HIDE DEF T, of
  <2> QED BY <2>1, <2>2
<1> QED BY <1>5, <1>6, <1>8 DEF k, bit

\* A number is twice its half and its lowest bit.
LEMMA Halves ==
  ASSUME NEW number \in Nat, NEW k \in Nat
  PROVE  \E half \in [0..k -> Nat] :
           /\ half[0] = number
           /\ \A i \in 1..k : half[i - 1] = 2 * half[i] + Bits(number, k)[i]
<1>1. PICK half \in [0..k -> Nat] :
        /\ half[0] = number /\ \A i \in 1..k : half[i] = half[i - 1] \div 2
        /\ Bits(number, k) = [i \in 1..k |-> half[i - 1] % 2]
  BY BitsAre
<1>2. ASSUME NEW i \in 1..k PROVE half[i - 1] = 2 * half[i] + Bits(number, k)[i]
  <2>1. half[i - 1] \in Nat /\ half[i] = half[i - 1] \div 2 /\ Bits(number, k)[i] = half[i - 1] % 2
    BY <1>1
  <2> QED BY <2>1
<1> QED BY <1>1, <1>2

LEMMA BitsType ==
  ASSUME NEW number \in Nat, NEW k \in Nat
  PROVE  Bits(number, k) \in [1..k -> 0..1]
<1>1. PICK half \in [0..k -> Nat] : Bits(number, k) = [i \in 1..k |-> half[i - 1] % 2]
  BY BitsAre
<1>2. \A i \in 1..k : half[i - 1] % 2 \in 0..1
  <2>1. \A i \in 1..k : half[i - 1] \in Nat
    OBVIOUS
  <2>2. \A n \in Nat : n % 2 \in 0..1
    OBVIOUS
  <2> QED BY <2>1, <2>2
<1> QED BY <1>1, <1>2

LEMMA LengthOf ==
  ASSUME NEW n \in Nat, NEW S, NEW f \in [1..n -> S]
  PROVE  f \in Seq(S) /\ Len(f) = n
OBVIOUS

\* z is s and then t.
Joins(z, S, s, m, t, n) ==
  /\ z \in [1..(m + n) -> S]
  /\ \A i \in 1..m : z[i] = s[i]
  /\ \A i \in 1..n : z[m + i] = t[i]

\* What is in a sequence put together from two.
LEMMA Joined ==
  ASSUME NEW S, NEW m \in Nat, NEW n \in Nat, NEW s \in [1..m -> S], NEW t \in [1..n -> S]
  PROVE  Joins(s \o t, S, s, m, t, n)
<1>1. s \in Seq(S) /\ t \in Seq(S) /\ Len(s) = m /\ Len(t) = n
  BY LengthOf
<1>2. s \o t \in Seq(S) /\ Len(s \o t) = m + n
  BY <1>1
<1>3. s \o t \in [1..(m + n) -> S]
  <2> \A q \in Seq(S) : q \in [1..Len(q) -> S]
    OBVIOUS
  <2> QED BY <1>2
<1>4. \A i \in 1..(m + n) : (s \o t)[i] = IF i <= m THEN s[i] ELSE t[i - m]
  BY <1>1
<1>5. \A i \in 1..m : i \in 1..(m + n)
  OBVIOUS
<1>6. \A i \in 1..n : m + i \in 1..(m + n) /\ ~(m + i <= m) /\ m + i - m = i
  OBVIOUS
<1> QED BY <1>3, <1>4, <1>5, <1>6 DEF Joins

-----------------------------------------------------------------------------
(* BitUtil::reverse. *)

\* f is in the bits from place p + 1 to place p + n, highest bit first.
InPlace(b, S, N, p, n, from, to, f) ==
  /\ N \in Nat /\ p \in Nat /\ n \in Nat /\ p + n <= N /\ from = p + 1 /\ to = p + n
  /\ b \in [1..N -> S] /\ f \in [1..n -> S]
  /\ \A j \in 1..n : b[to + 1 - j] = f[j]

\* Reversing those bits gives it.
LEMMA FieldIs ==
  ASSUME NEW b, NEW S, NEW N, NEW p, NEW n, NEW from, NEW to, NEW f, InPlace(b, S, N, p, n, from, to, f)
  PROVE  SubSeq(Reversed(b, from, to), from, to) = f
<1> USE DEF InPlace
<1> DEFINE r == Reversed(b, from, to)
<1>1. /\ r \in [1..N -> S]
      /\ \A j \in 1..n : r[p + j] = f[j]
  <2>1. ASSUME NEW i \in 1..N PROVE r[i] \in S
    BY DEF Reversed
  <2>2. r \in [1..N -> S]
    BY <2>1 DEF Reversed
  <2>3. ASSUME NEW j \in 1..n PROVE r[p + j] = f[j]
    <3> p + j \in 1..N /\ p + j \in from..to /\ from + to - (p + j) = to + 1 - j
      OBVIOUS
    <3> QED BY DEF Reversed
  <2> QED BY <2>2, <2>3
<1> HIDE DEF r
<1>2. r \in Seq(S) /\ Len(r) = N
  BY <1>1, LengthOf
<1> DEFINE q == SubSeq(r, from, to)
<1>3. q \in Seq(S) /\ Len(q) = n
  BY <1>2
<1>4. ASSUME NEW j \in 1..n PROVE q[j] = f[j]
  <2>1. q[j] = r[from + j - 1]
    BY <1>2
  <2>2. from + j - 1 = p + j
    OBVIOUS
  <2> QED BY <1>1, <2>1, <2>2
<1>5. q = [j \in 1..n |-> q[j]] /\ f = [j \in 1..n |-> f[j]]
  <2> HIDE DEF q
  <2> QED BY <1>3
<1> HIDE DEF q
<1> QED BY <1>4, <1>5 DEF q, r

\* b is n bytes.
IsBytes(b, S, n) == n \in Nat /\ b \in [1..(8 * n) -> S]

\* Every byte of the set is turned, the others are not.
BytesTurned(z, S, n, b, bytes) ==
  /\ z \in [1..(8 * n) -> S]
  /\ \A y \in 0..(n - 1), i \in 1..8 : z[8 * y + i] = IF y \in bytes THEN b[8 * y + 9 - i] ELSE b[8 * y + i]

LEMMA PlaceInByte ==
  ASSUME NEW n \in Nat, NEW k \in 1..(8 * n)
  PROVE  \E y \in 0..(n - 1), i \in 1..8 : k = 8 * y + i
<1> DEFINE y == (k - 1) \div 8
           i == k - 8 * y
<1>1. y \in 0..(n - 1) /\ i \in 1..8 /\ k = 8 * y + i
  OBVIOUS
<1> QED BY <1>1

LEMMA ReverseBytesIs ==
  ASSUME NEW S, NEW n, NEW b, IsBytes(b, S, n), NEW bytes
  PROVE  BytesTurned(ReverseBytes(b, bytes), S, n, b, bytes)
<1> USE DEF IsBytes
<1> DEFINE z == ReverseBytes(b, bytes)
<1>1. ASSUME NEW y \in 0..(n - 1), NEW i \in 1..8
      PROVE  z[8 * y + i] = (IF y \in bytes THEN b[8 * y + 9 - i] ELSE b[8 * y + i]) /\ z[8 * y + i] \in S
  <2>1. /\ 8 * y + i \in 1..(8 * n) /\ 8 * y + 9 - i \in 1..(8 * n)
        /\ (8 * y + i - 1) \div 8 = y /\ 8 * y + 9 - (8 * y + i - 8 * y) = 8 * y + 9 - i
    OBVIOUS
  <2>2. z[8 * y + i] = IF y \in bytes THEN b[8 * y + 9 - i] ELSE b[8 * y + i]
    BY <2>1 DEF ReverseBytes
  <2> QED BY <2>1, <2>2
<1>2. ASSUME NEW k \in 1..(8 * n) PROVE z[k] \in S
  <2> PICK y \in 0..(n - 1), i \in 1..8 : k = 8 * y + i
    BY PlaceInByte
  <2> QED BY <1>1
<1>3. z = [k \in 1..(8 * n) |-> z[k]]
  BY DEF ReverseBytes
<1> HIDE DEF z
<1>4. z \in [1..(8 * n) -> S]
  BY <1>2, <1>3
<1> QED BY <1>1, <1>4 DEF BytesTurned, z

\* Turned twice, the bytes are as they were.
LEMMA TurnedBack ==
  ASSUME NEW S, NEW n, NEW b, IsBytes(b, S, n), NEW bytes
  PROVE  ReverseBytes(ReverseBytes(b, bytes), bytes) = b
<1> USE DEF IsBytes
<1> DEFINE z == ReverseBytes(b, bytes)
           w == ReverseBytes(z, bytes)
<1>1. BytesTurned(z, S, n, b, bytes)
  BY ReverseBytesIs
<1> HIDE DEF z
<1>2. z \in [1..(8 * n) -> S]
  BY <1>1 DEF BytesTurned
<1>3. BytesTurned(w, S, n, z, bytes)
  BY <1>2, ReverseBytesIs
<1> HIDE DEF w
<1>4. ASSUME NEW y \in 0..(n - 1), NEW i \in 1..8 PROVE w[8 * y + i] = b[8 * y + i]
  <2>1. 9 - i \in 1..8 /\ 8 * y + (9 - i) = 8 * y + 9 - i /\ 8 * y + 9 - (9 - i) = 8 * y + i
    OBVIOUS
  <2>2. w[8 * y + i] = IF y \in bytes THEN z[8 * y + 9 - i] ELSE z[8 * y + i]
    BY <1>3 DEF BytesTurned
  <2>3. z[8 * y + i] = IF y \in bytes THEN b[8 * y + 9 - i] ELSE b[8 * y + i]
    BY <1>1 DEF BytesTurned
  <2>4. z[8 * y + (9 - i)] = IF y \in bytes THEN b[8 * y + 9 - (9 - i)] ELSE b[8 * y + (9 - i)]
    BY <1>1, <2>1 DEF BytesTurned
  <2> QED BY <2>1, <2>2, <2>3, <2>4
<1>5. ASSUME NEW k \in 1..(8 * n) PROVE w[k] = b[k]
  <2> PICK y \in 0..(n - 1), i \in 1..8 : k = 8 * y + i
    BY PlaceInByte
  <2> QED BY <1>4
<1>6. w \in [1..(8 * n) -> S]
  BY <1>3 DEF BytesTurned
<1> QED BY <1>5, <1>6 DEF w, z

-----------------------------------------------------------------------------
(* Numbers of bits. *)

\* A number of k bits, from its highest.
LEMMA Sums ==
  ASSUME NEW k \in Nat, NEW b \in [1..k -> Nat]
  PROVE  \E sum \in [0..k -> Nat] :
           /\ sum[0] = 0 /\ \A i \in 1..k : sum[i] = 2 * sum[i - 1] + b[k + 1 - i]
           /\ Number(b) = sum[k]
<1>1. b \in Seq(Nat) /\ Len(b) = k
  BY LengthOf
<1> QED BY <1>1, NumberIs

LEMMA NumberType ==
  ASSUME NEW k \in Nat, NEW b \in [1..k -> Nat]
  PROVE  Number(b) \in Nat
BY Sums

-----------------------------------------------------------------------------
(* What a bit is worth. *)

Weight(k) == LET w[i \in 0..k] == IF i = 0 THEN 1 ELSE 2 * w[i - 1] IN w[k]

LEMMA WeightIs ==
  ASSUME NEW k \in Nat
  PROVE  \E w \in [0..k -> Nat] : w[0] = 1 /\ (\A i \in 1..k : w[i] = 2 * w[i - 1]) /\ Weight(k) = w[k]
<1> DEFINE of(w) == [i \in 0..k |-> IF i = 0 THEN 1 ELSE 2 * w[i - 1]]
           step  == [i \in 1..k |-> [w \in Nat |-> 2 * w]]
           w     == CHOOSE w : w = of(w)
<1>1. step \in [1..k -> [Nat -> Nat]]
  OBVIOUS
<1>2. PICK g \in [0..k -> Nat] : Recurs(g, k, 1, step)
  <2> HIDE DEF step
  <2> QED BY <1>1, RecursionOnNat
<1>3. g = of(g)
  <2>1. g[0] = 1 /\ \A i \in 1..k : g[i] = 2 * g[i - 1]
    <3>1. g[0] = 1 /\ \A i \in 1..k : g[i] = step[i][g[i - 1]]
      <4> HIDE DEF step
      <4> QED BY <1>2 DEF Recurs
    <3>2. \A i \in 1..k : g[i - 1] \in Nat
      OBVIOUS
    <3> QED BY <3>1, <3>2
  <2>2. \A i \in 0..k : g[i] = IF i = 0 THEN 1 ELSE 2 * g[i - 1]
    BY <2>1
  <2> HIDE DEF step, w
  <2> QED BY <2>2
<1>4. w = of(w)
  BY <1>3
<1>5. Weight(k) = w[k]
  BY DEF Weight
<1> HIDE DEF w
<1>6. w[0] = 1 /\ \A i \in 1..k : w[i] = 2 * w[i - 1]
  BY <1>4
<1> DEFINE T == {i \in Nat : i <= k => w[i] \in Nat}
<1>7. \A i \in Nat : i \in T
  <2>1. 0 \in T
    BY <1>6
  <2>2. ASSUME NEW i \in Nat, i \in T PROVE i + 1 \in T
    <3> SUFFICES ASSUME i + 1 <= k PROVE w[i + 1] \in Nat
      OBVIOUS
    <3> i + 1 \in 1..k /\ w[i] \in Nat
      BY <2>2
    <3> w[i + 1] = 2 * w[i]
      BY <1>6
    <3> QED OBVIOUS
  <2> HIDE DEF T
  <2> QED BY <2>1, <2>2, InductionOnSets
<1>8. w \in [0..k -> Nat]
  <2>1. \A i \in 0..k : w[i] \in Nat
    BY <1>7
  <2>2. w = [i \in 0..k |-> w[i]]
    BY <1>4
  <2> HIDE DEF T, of
  <2> QED BY <2>1, <2>2
<1> QED BY <1>5, <1>6, <1>8

LEMMA WeightNext ==
  ASSUME NEW k \in Nat
  PROVE  Weight(0) = 1 /\ Weight(k) \in Nat /\ Weight(k + 1) = 2 * Weight(k)
<1>1. Weight(0) = 1
  BY WeightIs
<1>2. PICK w \in [0..k -> Nat] : w[0] = 1 /\ (\A i \in 1..k : w[i] = 2 * w[i - 1]) /\ Weight(k) = w[k]
  BY WeightIs
<1>3. PICK v \in [0..(k + 1) -> Nat] :
        v[0] = 1 /\ (\A i \in 1..(k + 1) : v[i] = 2 * v[i - 1]) /\ Weight(k + 1) = v[k + 1]
  <2> k + 1 \in Nat
    OBVIOUS
  <2> QED BY WeightIs
<1> DEFINE T == {i \in Nat : i <= k => v[i] = w[i]}
<1>4. \A i \in Nat : i \in T
  <2>1. 0 \in T
    BY <1>2, <1>3
  <2>2. ASSUME NEW i \in Nat, i \in T PROVE i + 1 \in T
    <3> SUFFICES ASSUME i + 1 <= k PROVE v[i + 1] = w[i + 1]
      OBVIOUS
    <3>1. i + 1 \in 1..k /\ i + 1 \in 1..(k + 1) /\ v[i] = w[i] /\ i + 1 - 1 = i
      BY <2>2
    <3> QED BY <3>1, <1>2, <1>3
  <2> HIDE DEF T
  <2> QED BY <2>1, <2>2, InductionOnSets
<1>5. v[k] = w[k]
  BY <1>4
<1>6. v[k + 1] = 2 * v[k]
  <2> k + 1 \in 1..(k + 1) /\ k + 1 - 1 = k
    OBVIOUS
  <2> QED BY <1>3
<1>7. w[k] \in Nat
  OBVIOUS
<1> QED BY <1>1, <1>2, <1>3, <1>5, <1>6, <1>7

-----------------------------------------------------------------------------
(* Bits and numbers are each other's inverse. *)

\* A number below the weight of the next bit is what its bits say.
THEOREM NumberOfBits ==
  ASSUME NEW k \in Nat, NEW number \in Nat, number < Weight(k)
  PROVE  Number(Bits(number, k)) = number
<1> DEFINE b == Bits(number, k)
<1>1. b \in [1..k -> 0..1] /\ b \in [1..k -> Nat]
  <2> b \in [1..k -> 0..1]
    BY BitsType
  <2> HIDE DEF b
  <2> QED OBVIOUS
<1>2. PICK half \in [0..k -> Nat] :
        half[0] = number /\ \A i \in 1..k : half[i - 1] = 2 * half[i] + b[i]
  BY Halves
<1> HIDE DEF b
<1>3. PICK sum \in [0..k -> Nat] :
        /\ sum[0] = 0 /\ \A i \in 1..k : sum[i] = 2 * sum[i - 1] + b[k + 1 - i]
        /\ Number(b) = sum[k]
  BY <1>1, Sums
<1>4. PICK w \in [0..k -> Nat] : w[0] = 1 /\ (\A i \in 1..k : w[i] = 2 * w[i - 1]) /\ Weight(k) = w[k]
  BY WeightIs
<1>5. half[k] = 0
  <2> DEFINE T == {i \in Nat : i <= k => half[i] < w[k - i]}
  <2>1. 0 \in T
    BY <1>2, <1>4
  <2>2. ASSUME NEW i \in Nat, i \in T PROVE i + 1 \in T
    <3> SUFFICES ASSUME i + 1 <= k PROVE half[i + 1] < w[k - (i + 1)]
      OBVIOUS
    <3>1. half[i] < w[k - i] /\ i + 1 \in 1..k /\ k - i \in 1..k /\ i + 1 - 1 = i /\ k - i - 1 = k - (i + 1)
      BY <2>2
    <3>2. half[i] = 2 * half[i + 1] + b[i + 1] /\ w[k - i] = 2 * w[k - (i + 1)]
      BY <3>1, <1>2, <1>4
    <3>3. i \in 0..k /\ i + 1 \in 0..k /\ k - i \in 0..k /\ k - (i + 1) \in 0..k
      BY <3>1
    <3> DEFINE h == half[i]  h2 == half[i + 1]  v == w[k - i]  v2 == w[k - (i + 1)]  c == b[i + 1]
    <3>4. h \in Nat /\ h2 \in Nat /\ v \in Nat /\ v2 \in Nat /\ c \in Nat
      BY <3>1, <3>3, <1>1
    <3>5. h = 2 * h2 + c /\ v = 2 * v2 /\ h < v
      BY <3>1, <3>2
    <3> HIDE DEF h, h2, v, v2, c
    <3>6. h2 < v2
      BY ONLY <3>4, <3>5
    <3> QED BY <3>6 DEF h2, v2
  <2>3. k \in T
    <3> HIDE DEF T
    <3> QED BY <2>1, <2>2, InductionOnSets
  <2>4. half[k] < w[0] /\ half[k] \in Nat
    BY <2>3
  <2> QED BY <2>4, <1>4
<1>6. sum[k] = half[0]
  <2> DEFINE T == {i \in Nat : i <= k => sum[i] = half[k - i]}
  <2>1. 0 \in T
    BY <1>3, <1>5
  <2>2. ASSUME NEW i \in Nat, i \in T PROVE i + 1 \in T
    <3> SUFFICES ASSUME i + 1 <= k PROVE sum[i + 1] = half[k - (i + 1)]
      OBVIOUS
    <3>1. sum[i] = half[k - i] /\ i + 1 \in 1..k /\ k - i \in 1..k /\ i + 1 - 1 = i /\ k - i - 1 = k - (i + 1)
          /\ k + 1 - (i + 1) = k - i
      BY <2>2
    <3>2. sum[i + 1] = 2 * sum[i] + b[k - i]
      BY <3>1, <1>3
    <3>3. half[k - (i + 1)] = 2 * half[k - i] + b[k - i]
      BY <3>1, <1>2
    <3> QED BY <3>1, <3>2, <3>3
  <2>3. k \in T
    <3> HIDE DEF T
    <3> QED BY <2>1, <2>2, InductionOnSets
  <2> QED BY <2>3
<1> QED BY <1>2, <1>3, <1>6 DEF b

\* The bits of a number that was summed up are the ones it was summed up from.
THEOREM BitsOfNumber ==
  ASSUME NEW k \in Nat, NEW b \in [1..k -> 0..1]
  PROVE  Bits(Number(b), k) = b /\ Number(b) < Weight(k)
<1>1. b \in [1..k -> Nat]
  OBVIOUS
<1>2. PICK sum \in [0..k -> Nat] :
        /\ sum[0] = 0 /\ \A i \in 1..k : sum[i] = 2 * sum[i - 1] + b[k + 1 - i]
        /\ Number(b) = sum[k]
  BY <1>1, Sums
<1>3. PICK half \in [0..k -> Nat] :
        /\ half[0] = Number(b) /\ \A i \in 1..k : half[i] = half[i - 1] \div 2
        /\ Bits(Number(b), k) = [i \in 1..k |-> half[i - 1] % 2]
  <2> Number(b) \in Nat
    BY <1>1, NumberType
  <2> QED BY BitsAre
<1>4. PICK w \in [0..k -> Nat] : w[0] = 1 /\ (\A i \in 1..k : w[i] = 2 * w[i - 1]) /\ Weight(k) = w[k]
  BY WeightIs
<1>5. ASSUME NEW i \in Nat, i < k
      PROVE  /\ i + 1 \in 1..k /\ k - i \in 1..k /\ i + 1 - 1 = i /\ k - i - 1 = k - (i + 1) /\ k + 1 - (k - i) = i + 1
             /\ sum[k - i] = 2 * sum[k - (i + 1)] + b[i + 1] /\ half[i + 1] = half[i] \div 2
             /\ sum[k - i] \in Nat /\ sum[k - (i + 1)] \in Nat /\ half[i] \in Nat /\ b[i + 1] \in 0..1
  <2>1. i + 1 \in 1..k /\ k - i \in 1..k /\ i + 1 - 1 = i /\ k - i - 1 = k - (i + 1) /\ k + 1 - (k - i) = i + 1
    BY <1>5
  <2>2. sum[k - i] = 2 * sum[k - (i + 1)] + b[i + 1]
    BY <1>2, <2>1
  <2>3. half[i + 1] = half[i] \div 2
    BY <1>3, <2>1
  <2>4. sum[k - i] \in Nat /\ sum[k - (i + 1)] \in Nat /\ half[i] \in Nat /\ b[i + 1] \in 0..1
    <3> i \in 0..k /\ k - i \in 0..k /\ k - (i + 1) \in 0..k /\ i + 1 \in 1..k
      BY <1>5
    <3> QED OBVIOUS
  <2> QED BY <2>1, <2>2, <2>3, <2>4
<1> DEFINE T == {i \in Nat : i <= k => half[i] = sum[k - i]}
<1>6. \A i \in Nat : i \in T
  <2>1. 0 \in T
    BY <1>2, <1>3
  <2>2. ASSUME NEW i \in Nat, i \in T PROVE i + 1 \in T
    <3> SUFFICES ASSUME i < k PROVE half[i + 1] = sum[k - (i + 1)]
      OBVIOUS
    <3>1. half[i] = sum[k - i]
      BY <2>2
    <3> DEFINE s == sum[k - i]  t == sum[k - (i + 1)]  c == b[i + 1]
    <3>2. s \in Nat /\ t \in Nat /\ c \in 0..1 /\ s = 2 * t + c /\ half[i + 1] = s \div 2
      BY <3>1, <1>5
    <3> HIDE DEF s, t, c
    <3>3. s \div 2 = t
      BY ONLY <3>2
    <3> QED BY <3>2, <3>3 DEF t
  <2> HIDE DEF T
  <2> QED BY <2>1, <2>2, InductionOnSets
<1>7. ASSUME NEW j \in 1..k PROVE half[j - 1] % 2 = b[j]
  <2> DEFINE i == j - 1
  <2>1. i \in Nat /\ i < k /\ i + 1 = j
    OBVIOUS
  <2> HIDE DEF i
  <2>2. half[i] = sum[k - i]
    BY <2>1, <1>6
  <2>3. half[i] % 2 = b[i + 1]
    <3> DEFINE s == sum[k - i]  t == sum[k - (i + 1)]  c == b[i + 1]
    <3>1. s \in Nat /\ t \in Nat /\ c \in 0..1 /\ s = 2 * t + c
      BY <2>1, <2>2, <1>5
    <3> HIDE DEF s, t, c
    <3>2. CASE c = 0
      <4> s % 2 = 0
        BY ONLY <3>1, <3>2
      <4> QED BY <2>2, <3>2 DEF s, c
    <3>3. CASE c = 1
      <4> s % 2 = 1
        BY ONLY <3>1, <3>3
      <4> QED BY <2>2, <3>3 DEF s, c
    <3> QED BY <3>1, <3>2, <3>3
  <2> QED BY <2>1, <2>3 DEF i
<1> DEFINE U == {i \in Nat : i <= k => sum[i] < w[i]}
<1>8. k \in U
  <2>1. 0 \in U
    BY <1>2, <1>4
  <2>2. ASSUME NEW i \in Nat, i \in U PROVE i + 1 \in U
    <3> SUFFICES ASSUME i + 1 <= k PROVE sum[i + 1] < w[i + 1]
      OBVIOUS
    <3>1. sum[i] < w[i] /\ i + 1 \in 1..k /\ k - i \in 1..k /\ i + 1 - 1 = i /\ k + 1 - (i + 1) = k - i
      BY <2>2
    <3>2. sum[i + 1] = 2 * sum[i] + b[k - i]
      BY <3>1, <1>2
    <3>3. w[i + 1] = 2 * w[i]
      BY <3>1, <1>4
    <3>4. i \in 0..k /\ i + 1 \in 0..k
      BY <3>1
    <3> DEFINE s == sum[i]  s2 == sum[i + 1]  v == w[i]  v2 == w[i + 1]  c == b[k - i]
    <3>5. s \in Nat /\ s2 \in Nat /\ v \in Nat /\ v2 \in Nat /\ c \in 0..1
      BY <3>1, <3>4
    <3>6. s2 = 2 * s + c /\ v2 = 2 * v /\ s < v
      BY <3>1, <3>2, <3>3
    <3> HIDE DEF s, s2, v, v2, c
    <3>7. s2 < v2
      BY ONLY <3>5, <3>6
    <3> QED BY <3>7 DEF s2, v2
  <2> HIDE DEF U
  <2> QED BY <2>1, <2>2, InductionOnSets
<1>9. Bits(Number(b), k) = b
  <2> b = [i \in 1..k |-> b[i]]
    OBVIOUS
  <2> QED BY <1>3, <1>7
<1> QED BY <1>2, <1>4, <1>8, <1>9

\* The bits of a number leave out what is above them.
THEOREM LowBits ==
  ASSUME NEW k \in Nat, NEW number \in Nat
  PROVE  /\ Number(Bits(number, k)) \in Nat /\ Number(Bits(number, k)) < Weight(k)
         /\ \E rest \in Nat : number = Number(Bits(number, k)) + Weight(k) * rest
<1> DEFINE b == Bits(number, k)
<1>1. b \in [1..k -> 0..1] /\ b \in [1..k -> Nat]
  <2> b \in [1..k -> 0..1]
    BY BitsType
  <2> HIDE DEF b
  <2> QED OBVIOUS
<1>2. PICK half \in [0..k -> Nat] :
        half[0] = number /\ \A i \in 1..k : half[i - 1] = 2 * half[i] + b[i]
  BY Halves
<1> HIDE DEF b
<1>3. PICK sum \in [0..k -> Nat] :
        /\ sum[0] = 0 /\ \A i \in 1..k : sum[i] = 2 * sum[i - 1] + b[k + 1 - i]
        /\ Number(b) = sum[k]
  BY <1>1, Sums
<1>4. PICK w \in [0..k -> Nat] : w[0] = 1 /\ (\A i \in 1..k : w[i] = 2 * w[i - 1]) /\ Weight(k) = w[k]
  BY WeightIs
<1> DEFINE rest == half[k]
<1>5. rest \in Nat
  OBVIOUS
<1>6. half[k - 0] = rest
  OBVIOUS
<1> HIDE DEF rest
<1>7. half[0] = sum[k] + w[k] * rest
  <2> DEFINE T == {i \in Nat : i <= k => half[k - i] = sum[i] + w[i] * rest}
  <2>1. 0 \in T
    <3>1. w[0] * rest = rest /\ 0 + rest = rest
      BY <1>4, <1>5
    <3> QED BY <1>3, <1>6, <3>1
  <2>2. ASSUME NEW i \in Nat, i \in T PROVE i + 1 \in T
    <3> SUFFICES ASSUME i + 1 <= k PROVE half[k - (i + 1)] = sum[i + 1] + w[i + 1] * rest
      OBVIOUS
    <3>1. half[k - i] = sum[i] + w[i] * rest /\ i + 1 \in 1..k /\ k - i \in 1..k /\ i + 1 - 1 = i
          /\ k - i - 1 = k - (i + 1) /\ k + 1 - (i + 1) = k - i
      BY <2>2
    <3>2. sum[i + 1] = 2 * sum[i] + b[k - i] /\ w[i + 1] = 2 * w[i] /\ half[k - (i + 1)] = 2 * half[k - i] + b[k - i]
      BY <3>1, <1>2, <1>3, <1>4
    <3>3. i \in 0..k /\ i + 1 \in 0..k /\ k - i \in 0..k /\ k - (i + 1) \in 0..k
      BY <3>1
    <3> DEFINE h == half[k - i]  h2 == half[k - (i + 1)]  s == sum[i]  s2 == sum[i + 1]
               v == w[i]  v2 == w[i + 1]  c == b[k - i]
    <3>4. h \in Nat /\ h2 \in Nat /\ s \in Nat /\ s2 \in Nat /\ v \in Nat /\ v2 \in Nat /\ c \in Nat
      BY <3>1, <3>3, <1>1
    <3>5. h = s + v * rest /\ s2 = 2 * s + c /\ v2 = 2 * v /\ h2 = 2 * h + c
      BY <3>1, <3>2
    <3> HIDE DEF h, h2, s, s2, v, v2, c
    <3>6. v * rest \in Nat /\ v2 * rest = 2 * (v * rest)
      BY ONLY <1>5, <3>4, <3>5, SMT
    <3>7. h2 = s2 + v2 * rest
      <4> DEFINE p == v * rest  p2 == v2 * rest
      <4>1. p \in Nat /\ p2 = 2 * p /\ h = s + p /\ s2 = 2 * s + c /\ h2 = 2 * h + c
        BY <3>5, <3>6
      <4> HIDE DEF p, p2
      <4>2. h2 = s2 + p2
        BY ONLY <3>4, <4>1
      <4> QED BY <4>2 DEF p2
    <3> QED BY <3>7 DEF h2, s2, v2
  <2>3. k \in T
    <3> HIDE DEF T
    <3> QED BY <2>1, <2>2, InductionOnSets
  <2>4. half[k - k] = sum[k] + w[k] * rest
    BY <2>3
  <2> QED BY <2>4
<1>8. number = Number(b) + Weight(k) * rest
  BY <1>2, <1>3, <1>4, <1>7
<1>9. Number(b) \in Nat /\ Number(b) < Weight(k)
  BY <1>1, NumberType, BitsOfNumber
<1> QED BY <1>5, <1>8, <1>9 DEF b

\* The low bits of a number and the high ones.
THEOREM NumberSplit ==
  ASSUME NEW m \in Nat, NEW n \in Nat, NEW b \in [1..(m + n) -> Nat]
  PROVE  Number(b) = Number([i \in 1..m |-> b[i]]) + Weight(m) * Number([i \in 1..n |-> b[m + i]])
<1> DEFINE lo == [i \in 1..m |-> b[i]]
           hi == [i \in 1..n |-> b[m + i]]
<1>1. lo \in [1..m -> Nat] /\ hi \in [1..n -> Nat] /\ m + n \in Nat
  OBVIOUS
<1>2. /\ \A i \in 1..m : lo[i] = b[i] /\ b[i] \in Nat
      /\ \A i \in 1..n : hi[i] = b[m + i] /\ b[m + i] \in Nat
  OBVIOUS
<1> HIDE DEF lo, hi
<1>3. PICK S \in [0..(m + n) -> Nat] :
        /\ S[0] = 0 /\ \A i \in 1..(m + n) : S[i] = 2 * S[i - 1] + b[m + n + 1 - i]
        /\ Number(b) = S[m + n]
  BY <1>1, Sums
<1>4. PICK L \in [0..m -> Nat] :
        /\ L[0] = 0 /\ \A i \in 1..m : L[i] = 2 * L[i - 1] + lo[m + 1 - i]
        /\ Number(lo) = L[m]
  BY <1>1, Sums
<1>5. PICK H \in [0..n -> Nat] :
        /\ H[0] = 0 /\ \A i \in 1..n : H[i] = 2 * H[i - 1] + hi[n + 1 - i]
        /\ Number(hi) = H[n]
  BY <1>1, Sums
<1>6. PICK w \in [0..m -> Nat] : w[0] = 1 /\ (\A i \in 1..m : w[i] = 2 * w[i - 1]) /\ Weight(m) = w[m]
  BY WeightIs
<1> DEFINE T == {i \in Nat : i <= n => S[i] = H[i]}
<1>7. n \in T
  <2>1. 0 \in T
    BY <1>3, <1>5
  <2>2. ASSUME NEW i \in Nat, i \in T PROVE i + 1 \in T
    <3> SUFFICES ASSUME i + 1 <= n PROVE S[i + 1] = H[i + 1]
      OBVIOUS
    <3>1. S[i] = H[i] /\ i + 1 \in 1..(m + n) /\ i + 1 \in 1..n /\ i + 1 - 1 = i /\ m + n + 1 - (i + 1) = m + (n - i)
          /\ n + 1 - (i + 1) = n - i /\ n - i \in 1..n
      BY <2>2
    <3>2. S[i + 1] = 2 * S[i] + b[m + (n - i)]
      BY <3>1, <1>3
    <3>3. H[i + 1] = 2 * H[i] + hi[n - i]
      BY <3>1, <1>5
    <3> QED BY <3>1, <3>2, <3>3, <1>2
  <2> HIDE DEF T
  <2> QED BY <2>1, <2>2, InductionOnSets
<1>8. S[n] = H[n]
  BY <1>7
<1> DEFINE h == H[n]
           U == {i \in Nat : i <= m => S[n + i] = L[i] + w[i] * h}
<1>9. h \in Nat
  OBVIOUS
<1>10. m \in U
  <2>1. 0 \in U
    <3>1. S[n + 0] = S[n] /\ L[0] = 0 /\ w[0] = 1 /\ S[n] = h
      BY <1>4, <1>6, <1>8
    <3> HIDE DEF h
    <3>2. 0 + 1 * h = h
      BY <1>9
    <3> QED BY <3>1, <3>2
  <2>2. ASSUME NEW i \in Nat, i \in U PROVE i + 1 \in U
    <3> SUFFICES ASSUME i + 1 <= m PROVE S[n + (i + 1)] = L[i + 1] + w[i + 1] * h
      OBVIOUS
    <3>1. S[n + i] = L[i] + w[i] * h
      BY <2>2
    <3>2. /\ i + 1 \in 1..m /\ n + (i + 1) \in 1..(m + n) /\ i + 1 - 1 = i /\ n + (i + 1) - 1 = n + i
          /\ m + n + 1 - (n + (i + 1)) = m - i /\ m + 1 - (i + 1) = m - i /\ m - i \in 1..m
          /\ i \in 0..m /\ i + 1 \in 0..m /\ n + i \in 0..(m + n) /\ n + (i + 1) \in 0..(m + n)
      OBVIOUS
    <3>3. S[n + (i + 1)] = 2 * S[n + i] + b[m - i]
      BY <3>2, <1>3
    <3>4. L[i + 1] = 2 * L[i] + b[m - i]
      BY <3>2, <1>4, <1>2
    <3>5. w[i + 1] = 2 * w[i]
      BY <3>2, <1>6
    <3> DEFINE s == S[n + i]  s2 == S[n + (i + 1)]  l == L[i]  l2 == L[i + 1]  v == w[i]  v2 == w[i + 1]  c == b[m - i]
    <3>6. s \in Nat /\ s2 \in Nat /\ l \in Nat /\ l2 \in Nat /\ v \in Nat /\ v2 \in Nat /\ c \in Nat
      BY <3>2, <1>2
    <3>7. s = l + v * h /\ v2 = 2 * v
      BY <3>1, <3>5
    <3>8. s2 = 2 * s + c /\ l2 = 2 * l + c
      BY <3>3, <3>4
    <3> HIDE DEF s, s2, l, l2, v, v2, c, h
    <3>9. v2 * h = 2 * (v * h) /\ v * h \in Nat
      BY <3>6, <3>7, <1>9
    <3> DEFINE p == v * h  q == v2 * h
    <3>10. p \in Nat /\ q = 2 * p /\ s = l + p
      BY <3>7, <3>9
    <3> HIDE DEF p, q
    <3>11. s2 = l2 + q
      BY ONLY <3>6, <3>8, <3>10
    <3> QED BY <3>11 DEF s2, l2, v2, q
  <2> HIDE DEF U
  <2> QED BY <2>1, <2>2, InductionOnSets
<1>11. S[n + m] = L[m] + w[m] * h
  BY <1>10
<1>12. n + m = m + n
  OBVIOUS
<1> HIDE DEF U
<1>13. Number(b) = Number(lo) + Weight(m) * Number(hi)
  BY <1>3, <1>4, <1>5, <1>6, <1>11, <1>12
<1> QED BY <1>13 DEF lo, hi

\* The weights that the code's numbers have.
LEMMA Weights ==
  /\ Weight(0) = 1 /\ Weight(1) = 2 /\ Weight(2) = 4 /\ Weight(3) = 8 /\ Weight(8) = 256
  /\ Weight(9) = 512 /\ Weight(10) = 1024 /\ Weight(12) = 4096 /\ Weight(15) = 32768 /\ Weight(16) = 65536
<1>1. \A k \in Nat : Weight(0) = 1 /\ Weight(k + 1) = 2 * Weight(k)
  BY WeightNext
<1>2. Weight(1) = 2
  <2> Weight(0 + 1) = 2 * Weight(0)
    BY <1>1
  <2> QED BY <1>1
<1>3. Weight(2) = 4
  <2> Weight(1 + 1) = 2 * Weight(1)
    BY <1>1
  <2> QED BY <1>2
<1>4. Weight(3) = 8
  <2> Weight(2 + 1) = 2 * Weight(2)
    BY <1>1
  <2> QED BY <1>3
<1>5. Weight(4) = 16
  <2> Weight(3 + 1) = 2 * Weight(3)
    BY <1>1
  <2> QED BY <1>4
<1>6. Weight(5) = 32
  <2> Weight(4 + 1) = 2 * Weight(4)
    BY <1>1
  <2> QED BY <1>5
<1>7. Weight(6) = 64
  <2> Weight(5 + 1) = 2 * Weight(5)
    BY <1>1
  <2> QED BY <1>6
<1>8. Weight(7) = 128
  <2> Weight(6 + 1) = 2 * Weight(6)
    BY <1>1
  <2> QED BY <1>7
<1>9. Weight(8) = 256
  <2> Weight(7 + 1) = 2 * Weight(7)
    BY <1>1
  <2> QED BY <1>8
<1>10. Weight(9) = 512
  <2> Weight(8 + 1) = 2 * Weight(8)
    BY <1>1
  <2> QED BY <1>9
<1>11. Weight(10) = 1024
  <2> Weight(9 + 1) = 2 * Weight(9)
    BY <1>1
  <2> QED BY <1>10
<1>12. Weight(11) = 2048
  <2> Weight(10 + 1) = 2 * Weight(10)
    BY <1>1
  <2> QED BY <1>11
<1>13. Weight(12) = 4096
  <2> Weight(11 + 1) = 2 * Weight(11)
    BY <1>1
  <2> QED BY <1>12
<1>14. Weight(13) = 8192
  <2> Weight(12 + 1) = 2 * Weight(12)
    BY <1>1
  <2> QED BY <1>13
<1>15. Weight(14) = 16384
  <2> Weight(13 + 1) = 2 * Weight(13)
    BY <1>1
  <2> QED BY <1>14
<1>16. Weight(15) = 32768
  <2> Weight(14 + 1) = 2 * Weight(14)
    BY <1>1
  <2> QED BY <1>15
<1>17. Weight(16) = 65536
  <2> Weight(15 + 1) = 2 * Weight(15)
    BY <1>1
  <2> QED BY <1>16
<1> QED BY <1>1, <1>2, <1>3, <1>4, <1>5, <1>6, <1>7, <1>8, <1>9, <1>10, <1>11, <1>12, <1>13, <1>14, <1>15, <1>16, <1>17

=============================================================================

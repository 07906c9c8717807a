------------------------- MODULE DenseHashtable_proofs -------------------------
(***************************************************************************)
(* Proofs about DenseHashtable, for every hash function and all sizes: the *)
(* counters are right, probes end, and the table is a finite map.          *)
(***************************************************************************)
EXTENDS DenseHashtable, SequenceFacts, FiniteSetTheorems, TLAPS

-------------------------------------------------------------------------------
(* Numbers.                                                                *)

Divides(n, a) == \E q \in Int : a = n * q

(* An odd factor does not help n to divide a product.                      *)
OddFree(n) == \A a, b \in Int : Divides(n, (2 * a + 1) * b) => Divides(n, b)

LEMMA OddFreeOne == OddFree(1)
<1>1. ASSUME NEW b \in Int PROVE Divides(1, b)
  <2>1. b = 1 * b
    OBVIOUS
  <2> QED
    BY <2>1 DEF Divides
<1> QED
  BY <1>1 DEF OddFree

LEMMA OddFreeTwice ==
    ASSUME NEW n \in Nat \ {0}, OddFree(n)
    PROVE  OddFree(2 * n)
<1> SUFFICES ASSUME NEW a \in Int, NEW b \in Int, Divides(2 * n, (2 * a + 1) * b)
             PROVE  Divides(2 * n, b)
  BY DEF OddFree
<1> PICK q \in Int : (2 * a + 1) * b = (2 * n) * q
  BY DEF Divides
<1> DEFINE c == n * q - a * b
<1>1. c \in Int /\ n * q \in Int /\ a * b \in Int
  OBVIOUS
<1>2. (2 * a + 1) * b = 2 * (a * b) + b /\ (2 * n) * q = 2 * (n * q)
  OBVIOUS
<1>3. b = 2 * c
  BY <1>1, <1>2
<1>4. (2 * a + 1) * b = 2 * ((2 * a + 1) * c)
  <2> HIDE DEF c
  <2>1. (2 * a + 1) * (2 * c) = 2 * ((2 * a + 1) * c)
    BY <1>1
  <2> QED
    BY <1>3, <2>1
<1>5. (2 * a + 1) * c = n * q
  <2> HIDE DEF c
  <2>1. (2 * a + 1) * c \in Int
    BY <1>1
  <2> QED
    BY <1>1, <1>2, <1>4, <2>1
<1>6. PICK r \in Int : c = n * r
  <2> HIDE DEF c
  <2>1. Divides(n, (2 * a + 1) * c)
    BY <1>5 DEF Divides
  <2> QED
    BY <1>1, <2>1 DEF OddFree, Divides
<1>7. b = (2 * n) * r
  BY <1>3, <1>6
<1> QED
  BY <1>7 DEF Divides

LEMMA DoubledIs ==
    /\ Doubled \in [0..MaxDoublings -> Nat]
    /\ Doubled[0] = HT_MIN_BUCKETS
    /\ \A i \in 1..MaxDoublings : Doubled[i] = 2 * Doubled[i - 1]
<1> DEFINE g == [n \in 1..MaxDoublings |-> [x \in Nat |-> 2 * x]]
<1>1. MaxDoublings \in Nat /\ HT_MIN_BUCKETS \in Nat
  BY SizesAssumption
<1>2. StepIn(Nat, MaxDoublings, g)
  BY DEF StepIn
<1>3. PICK f \in [0..MaxDoublings -> Nat] : Follows(f, MaxDoublings, HT_MIN_BUCKETS, g)
  <2> HIDE DEF g
  <2> QED
    BY <1>1, <1>2, RecursionExists
<1>4. f = [i \in 0..MaxDoublings |-> IF i = 0 THEN HT_MIN_BUCKETS ELSE 2 * f[i - 1]]
  <2>1. ASSUME NEW i \in 0..MaxDoublings
        PROVE  f[i] = IF i = 0 THEN HT_MIN_BUCKETS ELSE 2 * f[i - 1]
    <3>1. CASE i = 0
      <4>1. f[0] = HT_MIN_BUCKETS
        BY <1>3 DEF Follows
      <4> QED
        BY <3>1, <4>1
    <3>2. CASE i # 0
      <4>1. i \in 1..MaxDoublings /\ f[i - 1] \in Nat
        BY <1>1, <3>2
      <4> QED
        <5>1. f[i] = g[i][f[i - 1]]
          BY <1>3, <4>1 DEF Follows
        <5> QED
          BY <3>2, <4>1, <5>1
    <3> QED
      BY <3>1, <3>2
  <2> QED
    BY <1>3, <2>1
<1>5. Doubled = [i \in 0..MaxDoublings |-> IF i = 0 THEN HT_MIN_BUCKETS ELSE 2 * Doubled[i - 1]]
  BY <1>4 DEF Doubled
<1>6. ASSUME Doubled \notin [0..MaxDoublings -> Nat] PROVE FALSE
  <2> DEFINE T == {i \in 0..MaxDoublings : Doubled[i] \notin Nat}
  <2>1. T # {} /\ T \subseteq Nat
    BY <1>5, <1>6
  <2>2. PICK i \in T : \A j \in T : i <= j
    <3> HIDE DEF T
    <3> QED
      BY <2>1, SmallestNat
  <2>3. i # 0
    BY <1>1, <1>5, <2>2
  <2>4. i - 1 \in 0..MaxDoublings /\ i - 1 \notin T
    BY <1>1, <2>2, <2>3
  <2> QED
    BY <1>5, <2>2, <2>3, <2>4
<1> QED
  BY <1>1, <1>5, <1>6

LEMMA SizeIs ==
    ASSUME NEW sz \in Sizes
    PROVE  sz \in Nat /\ sz >= HT_MIN_BUCKETS /\ sz >= 4 /\ OddFree(sz) /\ OddFree(2 * sz)
<1> USE DoubledIs, SizesAssumption
<1> DEFINE Right(x) == x \in Nat /\ x >= HT_MIN_BUCKETS /\ OddFree(x)
<1>1. OddFree(4) /\ OddFree(8) /\ OddFree(16)
  <2>1. OddFree(2 * 1)
    BY OddFreeOne, OddFreeTwice
  <2>2. OddFree(2 * 2)
    BY <2>1, OddFreeTwice
  <2>3. OddFree(2 * 4)
    BY <2>2, OddFreeTwice
  <2>4. OddFree(2 * 8)
    BY <2>3, OddFreeTwice
  <2> QED
    BY <2>2, <2>3, <2>4
<1>2. Right(HT_MIN_BUCKETS) /\ HT_MIN_BUCKETS >= 4
  BY <1>1
<1> DEFINE T == {i \in 0..MaxDoublings : ~Right(Doubled[i])}
<1>3. T = {}
  <2> SUFFICES ASSUME T # {} PROVE FALSE
    OBVIOUS
  <2>1. T \subseteq Nat
    OBVIOUS
  <2>2. PICK i \in T : \A j \in T : i <= j
    <3> HIDE DEF T
    <3> QED
      BY <2>1, SmallestNat
  <2>3. i \in 0..MaxDoublings /\ i # 0
    BY <1>2, <2>2
  <2>4. i \in 1..MaxDoublings /\ i - 1 \in 0..MaxDoublings /\ i - 1 \notin T
    BY <2>2, <2>3
  <2>5. Right(Doubled[i - 1])
    BY <2>4
  <2>6. Doubled[i] = 2 * Doubled[i - 1]
    BY <2>4
  <2>7. Doubled[i - 1] \in Nat \ {0}
    BY <1>2, <2>5
  <2>8. OddFree(Doubled[i])
    BY <2>5, <2>6, <2>7, OddFreeTwice
  <2>9. Right(Doubled[i])
    BY <2>5, <2>6, <2>7, <2>8
  <2> QED
    BY <2>2, <2>9
<1>4. PICK i \in 0..MaxDoublings : sz = Doubled[i]
  BY DEF Sizes
<1>5. Right(sz)
  BY <1>3, <1>4
<1>6. sz \in Nat \ {0}
  BY <1>2, <1>5
<1> QED
  BY <1>2, <1>5, <1>6, OddFreeTwice

LEMMA SizesDouble ==
    ASSUME NEW x \in Sizes, NEW y \in Sizes, x < y
    PROVE  2 * x <= y /\ 2 * x \in Sizes
<1> USE DoubledIs, SizesAssumption
<1>1. PICK i \in 0..MaxDoublings : x = Doubled[i]
  BY DEF Sizes
<1>2. PICK k \in 0..MaxDoublings : y = Doubled[k]
  BY DEF Sizes
<1>3. x \in Nat /\ y \in Nat /\ \A j \in 0..MaxDoublings : Doubled[j] \in Nat
  BY SizeIs
<1>4. ASSUME NEW a \in 0..MaxDoublings, NEW b \in 0..MaxDoublings, a < b
      PROVE  2 * Doubled[a] <= Doubled[b]
  <2> DEFINE T == {j \in 0..MaxDoublings : a < j /\ ~(2 * Doubled[a] <= Doubled[j])}
  <2>1. T = {}
    <3> SUFFICES ASSUME T # {} PROVE FALSE
      OBVIOUS
    <3>1. T \subseteq Nat
      OBVIOUS
    <3>2. PICK j \in T : \A m \in T : j <= m
      <4> HIDE DEF T
      <4> QED
        BY <3>1, SmallestNat
    <3>3. j \in 1..MaxDoublings /\ j - 1 \in 0..MaxDoublings /\ j - 1 \notin T /\ a <= j - 1
      BY <3>2
    <3>4. Doubled[j] = 2 * Doubled[j - 1] /\ Doubled[j - 1] \in Nat /\ Doubled[a] \in Nat
      BY <3>3
    <3>5. a = j - 1 \/ 2 * Doubled[a] <= Doubled[j - 1]
      <4>1. a = j - 1 \/ a < j - 1
        BY <3>3
      <4>2. CASE a < j - 1
        BY <3>3, <4>2
      <4> QED
        BY <4>1, <4>2
    <3>6. 2 * Doubled[a] <= Doubled[j]
      <4>1. CASE a = j - 1
        BY <3>4, <4>1
      <4>2. CASE 2 * Doubled[a] <= Doubled[j - 1]
        BY <3>4, <4>2
      <4> QED
        BY <3>5, <4>1, <4>2
    <3> QED
      BY <3>2, <3>6
  <2> QED
    BY <1>4, <2>1
<1>5. i < k
  <2>1. CASE k < i
    <3>1. 2 * Doubled[k] <= Doubled[i]
      BY <1>4, <2>1
    <3> QED
      BY <1>1, <1>2, <1>3, <3>1
  <2>2. CASE k = i
    BY <1>1, <1>2, <1>3, <2>2
  <2> QED
    BY <2>1, <2>2
<1>6. i + 1 \in 1..MaxDoublings /\ i + 1 \in 0..MaxDoublings /\ (i + 1) - 1 = i
  BY <1>5
<1>7. Doubled[i + 1] = 2 * x
  BY <1>1, <1>6
<1>8. 2 * x \in Sizes
  BY <1>6, <1>7 DEF Sizes
<1> QED
  BY <1>1, <1>2, <1>4, <1>5, <1>8

LEMMA MinNat ==
    ASSUME NEW T, T \subseteq Nat, T # {}
    PROVE  Min(T) \in T /\ \A y \in T : Min(T) <= y
<1>1. \E x \in T : \A y \in T : x <= y
  BY SmallestNat
<1> QED
  BY <1>1 DEF Min

LEMMA MaxNat ==
    ASSUME NEW n \in Nat, NEW T, T \subseteq 0..n, T # {}
    PROVE  Max(T) \in T /\ \A y \in T : y <= Max(T)
<1>1. \E x \in T : \A y \in T : y <= x
  BY GreatestNat
<1>2. \E x \in T : \A y \in T : x >= y
  BY <1>1
<1>3. Max(T) \in T /\ \A y \in T : Max(T) >= y
  BY <1>2 DEF Max
<1> QED
  BY <1>3

-------------------------------------------------------------------------------
(* Sizes.                                                                  *)

LEMMA EnlargeSize ==
    ASSUME NEW n \in Nat
    PROVE  /\ enlarge_size(n) \in Nat /\ shrink_size(n) \in Nat
           /\ n > 0 => enlarge_size(n) < n
           /\ \A m \in Nat : n <= m => enlarge_size(n) <= enlarge_size(m)
<1> USE SizesAssumption DEF enlarge_size, shrink_size
<1>1. n * HT_OCCUPANCY_PCT \in Nat /\ n * HT_EMPTY_PCT \in Nat
  OBVIOUS
<1>2. enlarge_size(n) \in Nat /\ shrink_size(n) \in Nat
  BY <1>1
<1>3. ASSUME n > 0 PROVE enlarge_size(n) < n
  <2>1. n * HT_OCCUPANCY_PCT < n * 100
    BY <1>3
  <2> QED
    BY <1>1, <2>1
<1>4. ASSUME NEW m \in Nat, n <= m PROVE enlarge_size(n) <= enlarge_size(m)
  <2>1. n * HT_OCCUPANCY_PCT <= m * HT_OCCUPANCY_PCT /\ m * HT_OCCUPANCY_PCT \in Nat
    BY <1>4
  <2> QED
    BY <1>1, <2>1
<1> QED
  BY <1>2, <1>3, <1>4

(* As long as the bound has room, there is a table of a size that fits.    *)
LEMMA MinBuckets ==
    ASSUME NEW n \in Nat, Fits(n), NEW wanted \in Sizes \union {0}
    PROVE  /\ min_buckets(n, wanted) \in Sizes
           /\ min_buckets(n, wanted) >= wanted
           /\ n < enlarge_size(min_buckets(n, wanted))
           /\ \A sz \in Sizes : sz >= wanted /\ n < enlarge_size(sz) => min_buckets(n, wanted) <= sz
<1> DEFINE T == {sz \in Sizes : sz >= wanted /\ n < enlarge_size(sz)}
<1>1. T \subseteq Nat
  BY SizeIs
<1>2. T # {}
  <2>1. PICK sz \in Sizes : n < enlarge_size(sz)
    BY DEF Fits
  <2>2. sz \in Nat /\ wanted \in Nat
    BY SizeIs
  <2>3. CASE sz >= wanted
    BY <2>1, <2>3
  <2>4. CASE ~(sz >= wanted)
    <3>1. wanted \in Sizes /\ sz <= wanted
      BY <2>2, <2>4
    <3>2. /\ enlarge_size(sz) \in Nat /\ enlarge_size(wanted) \in Nat
          /\ enlarge_size(sz) <= enlarge_size(wanted)
      BY <2>2, <3>1, EnlargeSize
    <3>3. n < enlarge_size(wanted) /\ wanted >= wanted
      BY <2>1, <2>2, <3>2
    <3> QED
      BY <3>1, <3>3
  <2> QED
    BY <2>3, <2>4
<1>3. min_buckets(n, wanted) = Min(T)
  BY DEF min_buckets
<1>4. Min(T) \in T /\ \A y \in T : Min(T) <= y
  <2> HIDE DEF T
  <2> QED
    BY <1>1, <1>2, MinNat
<1> QED
  BY <1>3, <1>4

(* What fits more elements fits fewer.                                     *)
LEMMA FitsFewer ==
    ASSUME NEW n \in Nat, Fits(n), NEW m \in Nat, m <= n
    PROVE  Fits(m)
<1>1. PICK sz \in Sizes : n < enlarge_size(sz)
  BY DEF Fits
<1>2. enlarge_size(sz) \in Nat
  BY SizeIs, EnlargeSize
<1>3. m < enlarge_size(sz)
  BY <1>1, <1>2
<1> QED
  BY <1>3 DEF Fits

-------------------------------------------------------------------------------
(* Probes.                                                                 *)

Triangle(i) == (i * (i + 1)) \div 2

LEMMA TriangleIs ==
    ASSUME NEW i \in Nat
    PROVE  Triangle(i) \in Nat /\ 2 * Triangle(i) = i * (i + 1)
<1>1. PICK c \in Nat : i * (i + 1) = 2 * c
  <2>1. PICK m \in Nat : i = 2 * m \/ i = 2 * m + 1
    <3>1. i \div 2 \in Nat /\ (i = 2 * (i \div 2) \/ i = 2 * (i \div 2) + 1)
      OBVIOUS
    <3> QED
      BY <3>1
  <2>2. CASE i = 2 * m
    <3>1. i * (i + 1) = 2 * (m * (i + 1)) /\ m * (i + 1) \in Nat
      BY <2>2
    <3> QED
      BY <3>1
  <2>3. CASE i = 2 * m + 1
    <3>1. i + 1 = 2 * (m + 1)
      BY <2>3
    <3>2. i * (i + 1) = 2 * (i * (m + 1)) /\ i * (m + 1) \in Nat
      BY <3>1
    <3> QED
      BY <3>2
  <2> QED
    BY <2>1, <2>2, <2>3
<1>2. Triangle(i) = c
  BY <1>1 DEF Triangle
<1> QED
  BY <1>1, <1>2

LEMMA Remainder ==
    ASSUME NEW a \in Nat, NEW n \in Nat \ {0}
    PROVE  a % n \in 0..n - 1 /\ a \div n \in Nat /\ a = n * (a \div n) + (a % n)
<1>1. a % n \in 0..n - 1
  OBVIOUS
<1>2. a \div n \in Nat
  OBVIOUS
<1>3. a = n * (a \div n) + (a % n)
  OBVIOUS
<1> QED
  BY <1>1, <1>2, <1>3

(* No two probes out of as many as there are buckets meet.                 *)
LEMMA ProbesDiffer ==
    ASSUME NEW n \in Nat \ {0}, OddFree(2 * n), NEW x \in Nat,
           NEW i \in 0..n - 1, NEW k \in 0..n - 1, i < k
    PROVE  (x + Triangle(i)) % n # (x + Triangle(k)) % n
<1> SUFFICES ASSUME (x + Triangle(i)) % n = (x + Triangle(k)) % n PROVE FALSE
  OBVIOUS
<1> DEFINE a == x + Triangle(i)
           b == x + Triangle(k)
           p == k - i
           s == k + i + 1
<1>1. a \in Nat /\ b \in Nat /\ 2 * (b - a) = k * (k + 1) - i * (i + 1)
  <2>1. Triangle(i) \in Nat /\ 2 * Triangle(i) = i * (i + 1)
    BY TriangleIs
  <2>2. Triangle(k) \in Nat /\ 2 * Triangle(k) = k * (k + 1)
    BY TriangleIs
  <2>3. i * (i + 1) \in Int /\ k * (k + 1) \in Int
    OBVIOUS
  <2> QED
    BY <2>1, <2>2, <2>3
<1>2. k * (k + 1) - i * (i + 1) = p * s
  OBVIOUS
<1>3. PICK q \in Int : b - a = n * q
  <2>1. a = n * (a \div n) + (a % n) /\ b = n * (b \div n) + (b % n)
        /\ a \div n \in Nat /\ b \div n \in Nat /\ a % n \in Int /\ b % n \in Int
    <3> HIDE DEF a, b
    <3>1. a \in Nat /\ b \in Nat
      BY <1>1
    <3>2. a % n \in 0..n - 1 /\ a \div n \in Nat /\ a = n * (a \div n) + (a % n)
      BY <3>1, Remainder
    <3>3. b % n \in 0..n - 1 /\ b \div n \in Nat /\ b = n * (b \div n) + (b % n)
      BY <3>1, Remainder
    <3> QED
      BY <3>2, <3>3
  <2>2. a % n = b % n
    OBVIOUS
  <2> HIDE DEF a, b
  <2>3. n * (b \div n) - n * (a \div n) = n * ((b \div n) - (a \div n))
    BY <2>1
  <2>4. n * (b \div n) \in Int /\ n * (a \div n) \in Int
    BY <2>1
  <2>5. b - a = n * ((b \div n) - (a \div n))
    BY <1>1, <2>1, <2>2, <2>3, <2>4
  <2>6. (b \div n) - (a \div n) \in Int
    BY <2>1
  <2> QED
    BY <2>5, <2>6
<1>4. p * s = (2 * n) * q
  <2> HIDE DEF a, b, p, s
  <2>1. (2 * n) * q = 2 * (n * q)
    OBVIOUS
  <2> QED
    BY <1>1, <1>2, <1>3, <2>1
<1>5. p \in 1..n - 1 /\ s \in 1..2 * n - 1 /\ s = p + 2 * i + 1
  OBVIOUS
<1> HIDE DEF a, b, p, s
<1>6. ASSUME NEW c \in 1..2 * n - 1 PROVE ~Divides(2 * n, c)
  <2> SUFFICES ASSUME NEW r \in Int, c = (2 * n) * r PROVE FALSE
    BY DEF Divides
  <2>1. CASE r <= 0
    <3>1. (2 * n) * r <= 0
      BY <2>1
    <3> QED
      BY <3>1
  <2>2. CASE r >= 1
    <3>1. (2 * n) * r >= 2 * n
      BY <2>2
    <3> QED
      BY <3>1
  <2> QED
    BY <2>1, <2>2
<1>7. PICK m \in Int : p = 2 * m \/ p = 2 * m + 1
  <2>1. p \div 2 \in Int /\ (p = 2 * (p \div 2) \/ p = 2 * (p \div 2) + 1)
    BY <1>5
  <2> QED
    BY <2>1
<1>8. CASE p = 2 * m + 1
  <2>1. Divides(2 * n, (2 * m + 1) * s)
    BY <1>4, <1>8 DEF Divides
  <2>2. Divides(2 * n, s)
    <3>1. m \in Int /\ s \in Int
      BY <1>5
    <3> QED
      BY <3>1, <2>1, Zenon DEF OddFree
  <2> QED
    BY <1>5, <1>6, <2>2
<1>9. CASE p = 2 * m
  <2>1. s = 2 * (m + i) + 1 /\ m + i \in Int
    BY <1>5, <1>9
  <2>2. (2 * (m + i) + 1) * p = p * s
    BY <1>5, <2>1
  <2>3. Divides(2 * n, (2 * (m + i) + 1) * p)
    BY <1>4, <2>2 DEF Divides
  <2>4. Divides(2 * n, p)
    <3>1. m + i \in Int /\ p \in Int
      BY <1>5, <2>1
    <3> QED
      BY <3>1, <2>3, Zenon DEF OddFree
  <2>5. p \in 1..2 * n - 1
    BY <1>5
  <2> QED
    BY <1>6, <2>4, <2>5
<1> QED
  BY <1>7, <1>8, <1>9

(* So the probes come to every bucket.                                     *)
LEMMA ProbesReach ==
    ASSUME NEW n \in Nat \ {0}, OddFree(2 * n), NEW x \in Nat, NEW b \in 0..n - 1
    PROVE  \E i \in 0..n - 1 : (x + Triangle(i)) % n = b
<1> DEFINE S == 0..n - 1
           f == [i \in S |-> (x + Triangle(i)) % n]
<1>1. f \in [S -> S]
  <2>1. ASSUME NEW i \in S PROVE (x + Triangle(i)) % n \in S
    <3>1. x + Triangle(i) \in Nat
      BY TriangleIs
    <3> QED
      BY <3>1, Remainder
  <2> QED
    BY <2>1
<1>2. ASSUME NEW i \in S, NEW k \in S, f[i] = f[k] PROVE i = k
  <2>1. CASE i < k
    BY <1>2, <2>1, ProbesDiffer
  <2>2. CASE k < i
    BY <1>2, <2>2, ProbesDiffer
  <2> QED
    BY <2>1, <2>2
<1>3. IsFiniteSet(S)
  BY FS_Interval
<1> HIDE DEF f, S
<1>4. f \in Injection(S, S)
  BY <1>1, <1>2 DEF Injection, IsInjective
<1>5. f \in Surjection(S, S)
  BY <1>3, <1>4, FS_Injection
<1>6. \E i \in S : f[i] = b
  BY <1>5 DEF Surjection, S
<1> QED
  BY <1>6 DEF f, S

-------------------------------------------------------------------------------
(* The invariant.                                                          *)

Entry == [key : AllKeys, val : Values \union {T0}]
Tables == [table : Seq(Entry), num_elements : Nat, num_deleted : Nat,
           consider_shrink : BOOLEAN, use_deleted : BOOLEAN]

Erased(h) == {b \in Buckets(h) : key(h, b) = DeletedKey}
Used(h) == {b \in Buckets(h) : ~test_empty(h, b)}

Shape(h) == h \in Tables /\ num_buckets(h) \in Sizes

(* The counters are those of the buckets.                                  *)
Counted(h) ==
    /\ h.num_deleted = Cardinality(Erased(h)) /\ h.num_elements = Cardinality(Used(h))
    /\ h.num_deleted > 0 => h.use_deleted

(* The table is not crowded.                                               *)
Roomy(h) == h.num_elements <= enlarge_size(num_buckets(h)) /\ Fits(h.num_elements)

(* A bucket that the i-th probe for k comes to, past no empty one.         *)
OnTheWay(h, k, b) ==
    \E i \in Buckets(h) : /\ Probe(h, k, i) = b
                          /\ \A j \in 0..i - 1 : ~test_empty(h, Probe(h, k, j))

(* Each key is where a search for it comes to, and nowhere else.           *)
Reached(h) == \A b \in Full(h) : OnTheWay(h, key(h, b), b)
KeysOnce(h) == \A b, c \in Full(h) : key(h, b) = key(h, c) => b = c

Good(h) == Shape(h) /\ Counted(h) /\ Roomy(h) /\ Reached(h) /\ KeysOnce(h)

IInv == hasher \in Hashers /\ Good(ht)

-------------------------------------------------------------------------------
(* Buckets and contents.                                                   *)

LEMMA BucketsAre ==
    ASSUME NEW h, Shape(h)
    PROVE  /\ num_buckets(h) \in Nat \ {0} /\ Buckets(h) = 0..num_buckets(h) - 1
           /\ \A b \in Buckets(h) : /\ b \in Nat /\ b + 1 \in DOMAIN h.table
                                    /\ h.table[b + 1] \in Entry /\ key(h, b) \in AllKeys
           /\ IsFiniteSet(Buckets(h)) /\ Cardinality(Buckets(h)) = num_buckets(h)
<1>1. num_buckets(h) \in Nat \ {0}
  BY SizeIs DEF Shape
<1>2. h.table \in Seq(Entry) /\ num_buckets(h) = Len(h.table)
  BY DEF Shape, Tables, num_buckets
<1>3. Buckets(h) = 0..num_buckets(h) - 1
  BY DEF Buckets
<1>4. ASSUME NEW b \in Buckets(h)
      PROVE  /\ b \in Nat /\ b + 1 \in DOMAIN h.table
             /\ h.table[b + 1] \in Entry /\ key(h, b) \in AllKeys
  <2>1. b \in Nat /\ b + 1 \in 1..Len(h.table)
    BY <1>1, <1>2, <1>3
  <2>2. h.table[b + 1] \in Entry /\ DOMAIN h.table = 1..Len(h.table)
    BY <1>2, <2>1
  <2>3. h.table[b + 1].key \in AllKeys
    BY <2>2 DEF Entry
  <2> QED
    BY <2>1, <2>2, <2>3 DEF key
<1>5. IsFiniteSet(Buckets(h)) /\ Cardinality(Buckets(h)) = num_buckets(h)
  BY <1>1, <1>3, FS_Interval
<1> QED
  BY <1>1, <1>3, <1>4, <1>5

LEMMA FullIs ==
    ASSUME NEW h, Shape(h), Counted(h)
    PROVE  /\ \A b \in Buckets(h) : test_deleted(h, b) <=> key(h, b) = DeletedKey
           /\ Full(h) = {b \in Buckets(h) : key(h, b) \in Keys}
           /\ IsFiniteSet(Erased(h)) /\ IsFiniteSet(Used(h)) /\ IsFiniteSet(Full(h))
           /\ Cardinality(Full(h)) = size(h)
<1>1. IsFiniteSet(Erased(h)) /\ IsFiniteSet(Used(h)) /\ IsFiniteSet(Full(h))
  <2>1. IsFiniteSet(Buckets(h))
    BY BucketsAre
  <2>2. Erased(h) \in SUBSET Buckets(h) /\ Used(h) \in SUBSET Buckets(h)
        /\ Full(h) \in SUBSET Buckets(h)
    BY DEF Erased, Used, Full
  <2> QED
    BY <2>1, <2>2, FS_Subset
<1>2. ASSUME NEW b \in Buckets(h) PROVE test_deleted(h, b) <=> key(h, b) = DeletedKey
  <2>1. ASSUME key(h, b) = DeletedKey PROVE h.num_deleted > 0
    <3>1. Erased(h) # {}
      BY <2>1 DEF Erased
    <3>2. Cardinality(Erased(h)) # 0 /\ Cardinality(Erased(h)) \in Nat
      BY <1>1, <3>1, FS_EmptySet, FS_CardinalityType
    <3> QED
      BY <3>2 DEF Counted
  <2> QED
    BY <2>1 DEF test_deleted
<1>3. Full(h) = {b \in Buckets(h) : key(h, b) \in Keys}
  <2>1. ASSUME NEW b \in Buckets(h)
        PROVE  key(h, b) \in Keys <=> ~test_empty(h, b) /\ ~test_deleted(h, b)
    <3>1. key(h, b) \in Keys \union {EmptyKey, DeletedKey}
      BY BucketsAre DEF AllKeys
    <3> QED
      BY <1>2, <3>1, KeysAssumption DEF test_empty
  <2> QED
    BY <2>1 DEF Full
<1>4. Cardinality(Full(h)) = size(h)
  <2>1. Used(h) = Full(h) \union Erased(h)
    BY <1>2, <1>3, KeysAssumption, BucketsAre DEF Used, Erased, test_empty, AllKeys
  <2>2. Full(h) \cap Erased(h) = {}
    BY <1>3, KeysAssumption DEF Erased
  <2>3. Cardinality(Used(h)) = Cardinality(Full(h)) + Cardinality(Erased(h)) - 0
    BY <1>1, <2>1, <2>2, FS_Union, FS_EmptySet
  <2>4. Cardinality(Full(h)) \in Nat /\ Cardinality(Erased(h)) \in Nat
    BY <1>1, FS_CardinalityType
  <2> QED
    BY <2>3, <2>4 DEF Counted, size
<1> QED
  BY <1>1, <1>2, <1>3, <1>4

LEMMA ContentsOf ==
    ASSUME NEW h, KeysOnce(h)
    PROVE  /\ DOMAIN contents(h) = {key(h, b) : b \in Full(h)}
           /\ contents(h) = [x \in DOMAIN contents(h) |-> contents(h)[x]]
           /\ \A b \in Full(h) : contents(h)[key(h, b)] = h.table[b + 1].val
<1>1. ASSUME NEW b \in Full(h) PROVE contents(h)[key(h, b)] = h.table[b + 1].val
  <2>1. (CHOOSE c \in Full(h) : key(h, c) = key(h, b)) = b
    BY DEF KeysOnce
  <2> QED
    BY <2>1 DEF contents
<1> QED
  BY <1>1 DEF contents

LEMMA ContentsAre ==
    ASSUME NEW h, KeysOnce(h), NEW m, m = [x \in DOMAIN m |-> m[x]],
           DOMAIN m = {key(h, b) : b \in Full(h)},
           \A b \in Full(h) : m[key(h, b)] = h.table[b + 1].val
    PROVE  contents(h) = m
<1>1. ASSUME NEW x \in DOMAIN m PROVE contents(h)[x] = m[x]
  <2>1. PICK b \in Full(h) : x = key(h, b)
    OBVIOUS
  <2> QED
    BY <2>1, ContentsOf
<1> QED
  BY <1>1, ContentsOf

-------------------------------------------------------------------------------
(* Searches.                                                               *)

LEMMA ProbesAre ==
    ASSUME NEW h, Shape(h), hasher \in Hashers, NEW k \in AllKeys
    PROVE  /\ \A i \in Nat : Probe(h, k, i) \in Buckets(h)
           /\ \A b \in Buckets(h) : \E i \in Buckets(h) : Probe(h, k, i) = b
<1> DEFINE n == num_buckets(h)
<1>1. n \in Nat \ {0} /\ Buckets(h) = 0..n - 1 /\ OddFree(2 * n)
  BY BucketsAre, SizeIs DEF Shape
<1>2. hash(k) \in Nat
  <2>1. hasher[k] \in Nat
    BY HashersAssumption
  <2>2. KeySize \in Nat \ {0}
    BY SizesAssumption
  <2>3. hasher[k] \div KeySize \in Nat
    BY <2>1, <2>2, Remainder
  <2> QED
    BY <2>3 DEF hash, MungedHash, mur
<1>3. \A i \in Nat : Probe(h, k, i) = (hash(k) + Triangle(i)) % n
  BY DEF Probe, Triangle
<1> HIDE DEF n
<1>4. ASSUME NEW i \in Nat PROVE Probe(h, k, i) \in Buckets(h)
  <2>1. hash(k) + Triangle(i) \in Nat
    BY <1>2, TriangleIs
  <2> QED
    BY <1>1, <1>3, <2>1, Remainder
<1>5. ASSUME NEW b \in Buckets(h) PROVE \E i \in Buckets(h) : Probe(h, k, i) = b
  <2>1. b \in 0..n - 1
    BY <1>1
  <2>2. PICK i \in 0..n - 1 : (hash(k) + Triangle(i)) % n = b
    BY <1>1, <1>2, <2>1, ProbesReach
  <2>3. i \in Nat /\ i \in Buckets(h)
    BY <1>1
  <2> QED
    BY <1>3, <2>2, <2>3
<1> QED
  BY <1>4, <1>5

LEMMA HasEmpty ==
    ASSUME NEW h, Shape(h), Counted(h), Roomy(h)
    PROVE  h.num_elements < num_buckets(h) /\ \E b \in Buckets(h) : test_empty(h, b)
<1>1. num_buckets(h) \in Nat \ {0} /\ h.num_elements \in Nat
  BY BucketsAre DEF Shape, Tables
<1>2. enlarge_size(num_buckets(h)) < num_buckets(h) /\ enlarge_size(num_buckets(h)) \in Nat
  BY <1>1, EnlargeSize
<1>3. h.num_elements < num_buckets(h)
  BY <1>1, <1>2 DEF Roomy
<1>4. Used(h) # Buckets(h)
  BY <1>1, <1>3, BucketsAre DEF Counted
<1> QED
  BY <1>3, <1>4 DEF Used

LEMMA SearchEnds ==
    ASSUME NEW h, Good(h), hasher \in Hashers, NEW k \in AllKeys
    PROVE  /\ Ends(h, k) # {} /\ Min(Ends(h, k)) \in Ends(h, k)
           /\ Ends(h, k) \subseteq Buckets(h)
           /\ \A i \in Ends(h, k) : Min(Ends(h, k)) <= i
<1>1. PICK b \in Buckets(h) : test_empty(h, b)
  BY HasEmpty DEF Good
<1>2. PICK i \in Buckets(h) : Probe(h, k, i) = b
  BY ProbesAre DEF Good
<1>3. i \in Ends(h, k)
  BY <1>1, <1>2 DEF Ends
<1>4. Ends(h, k) \subseteq Buckets(h) /\ Buckets(h) \subseteq Nat
  BY BucketsAre DEF Ends, Good
<1>5. Ends(h, k) \subseteq Nat /\ Ends(h, k) # {}
  BY <1>3, <1>4
<1> QED
  BY <1>4, <1>5, MinNat

(* A key that is there is found where it is.                               *)
LEMMA FindPresent ==
    ASSUME NEW h, Good(h), hasher \in Hashers, NEW b \in Full(h)
    PROVE  /\ find_position(h, key(h, b)) = [first |-> {b}, second |-> {}]
           /\ b \in Buckets(h) /\ key(h, b) \in Keys
<1> DEFINE k == key(h, b)
           last == Min(Ends(h, k))
<1>1. Shape(h) /\ Counted(h) /\ Full(h) = {c \in Buckets(h) : key(h, c) \in Keys}
  BY FullIs DEF Good
<1>2. b \in Buckets(h) /\ k \in Keys /\ k \in AllKeys
  BY <1>1 DEF AllKeys
<1>3. PICK i \in Buckets(h) : /\ Probe(h, k, i) = b
                              /\ \A j \in 0..i - 1 : ~test_empty(h, Probe(h, k, j))
  BY DEF Good, Reached, OnTheWay
<1>4. i \in Ends(h, k)
  BY <1>3 DEF Ends, Full
<1>5. last \in Ends(h, k) /\ last <= i /\ last \in Buckets(h)
  BY <1>2, <1>4, SearchEnds
<1>6. i \in Nat /\ last \in Nat
  BY <1>1, <1>5, BucketsAre
<1>7. ~test_empty(h, Probe(h, k, last))
  <2>1. CASE last = i
    BY <1>3, <2>1 DEF Full
  <2>2. CASE last # i
    <3>1. last \in 0..i - 1
      BY <1>5, <1>6, <2>2
    <3> QED
      BY <1>3, <3>1
  <2> QED
    BY <2>1, <2>2
<1>8. Probe(h, k, last) = b
  <2>1. Probe(h, k, last) \in Buckets(h)
    BY <1>1, <1>2, <1>6, ProbesAre
  <2>2. key(h, Probe(h, k, last)) = k
    BY <1>5, <1>7 DEF Ends
  <2>3. Probe(h, k, last) \in Full(h)
    BY <1>1, <1>2, <2>1, <2>2
  <2> QED
    BY <2>2, <2>3 DEF Good, KeysOnce
<1>9. find_position(h, k) = [first |-> {b}, second |-> {}]
  BY <1>7, <1>8 DEF find_position
<1> QED
  BY <1>2, <1>9

(* Where a key that is not there goes.                                     *)
Place(h, k, c) == c \in Buckets(h) /\ c \notin Full(h) /\ OnTheWay(h, k, c)

LEMMA FindAbsent ==
    ASSUME NEW h, Good(h), hasher \in Hashers, NEW k \in AllKeys,
           \A b \in Full(h) : key(h, b) # k
    PROVE  \E c : find_position(h, k) = [first |-> {}, second |-> {c}] /\ Place(h, k, c)
<1> DEFINE last == Min(Ends(h, k))
           free == {i \in 0..last : test_deleted(h, Probe(h, k, i))}
<1>1. last \in Ends(h, k) /\ last \in Buckets(h) /\ \A i \in Ends(h, k) : last <= i
  BY SearchEnds
<1>2. Shape(h) /\ Counted(h) /\ last \in Nat /\ last \in 0..num_buckets(h) - 1
  BY <1>1, BucketsAre DEF Good
<1>3. \A i \in Nat : Probe(h, k, i) \in Buckets(h)
  BY <1>2, ProbesAre
<1>4. test_empty(h, Probe(h, k, last))
  <2> SUFFICES ASSUME ~test_empty(h, Probe(h, k, last)) PROVE FALSE
    OBVIOUS
  <2>1. ~test_deleted(h, Probe(h, k, last)) /\ key(h, Probe(h, k, last)) = k
    BY <1>1 DEF Ends
  <2>2. Probe(h, k, last) \in Full(h)
    BY <1>2, <1>3, <2>1 DEF Full
  <2> QED
    BY <2>1, <2>2
<1>5. ASSUME NEW j \in 0..last - 1 PROVE ~test_empty(h, Probe(h, k, j))
  <2>1. j \in Nat /\ j \in Buckets(h) /\ ~(last <= j)
    BY <1>2, BucketsAre
  <2>2. j \notin Ends(h, k)
    BY <1>1, <2>1
  <2> QED
    BY <2>1, <2>2 DEF Ends
<1>6. CASE free = {}
  <2>1. find_position(h, k) = [first |-> {}, second |-> {Probe(h, k, last)}]
    BY <1>4, <1>6 DEF find_position
  <2>2. Probe(h, k, last) \in Buckets(h) /\ Probe(h, k, last) \notin Full(h)
    BY <1>2, <1>3, <1>4 DEF Full
  <2>3. OnTheWay(h, k, Probe(h, k, last))
    BY <1>1, <1>5 DEF OnTheWay
  <2> QED
    BY <2>1, <2>2, <2>3 DEF Place
<1>7. CASE free # {}
  <2> DEFINE f == Min(free)
  <2>1. f \in free
    <3>1. free \subseteq Nat
      BY <1>2
    <3> HIDE DEF free
    <3> QED
      BY <1>7, <3>1, MinNat
  <2>2. f \in 0..last /\ test_deleted(h, Probe(h, k, f))
    BY <2>1
  <2>3. find_position(h, k) = [first |-> {}, second |-> {Probe(h, k, f)}]
    BY <1>4, <1>7 DEF find_position
  <2> HIDE DEF f, free, last
  <2>4. f \in Nat /\ f \in Buckets(h) /\ \A j \in 0..f - 1 : j \in 0..last - 1
    BY <1>2, <2>2, BucketsAre
  <2>5. Probe(h, k, f) \in Buckets(h) /\ Probe(h, k, f) \notin Full(h)
    BY <1>3, <2>2, <2>4 DEF Full
  <2>6. OnTheWay(h, k, Probe(h, k, f))
    BY <1>5, <2>4 DEF OnTheWay
  <2> QED
    BY <2>3, <2>5, <2>6 DEF Place
<1> QED
  BY <1>6, <1>7

(* Both of them, of the contents.                                          *)
LEMMA Finding ==
    ASSUME NEW h, Good(h), hasher \in Hashers, NEW k \in AllKeys
    PROVE  /\ k \in DOMAIN contents(h) =>
                 \E b \in Full(h) : /\ key(h, b) = k
                                    /\ find_position(h, k) = [first |-> {b}, second |-> {}]
           /\ k \notin DOMAIN contents(h) =>
                 \E c : find_position(h, k) = [first |-> {}, second |-> {c}] /\ Place(h, k, c)
           /\ found(h, k) # {} <=> k \in DOMAIN contents(h)
           /\ found(h, k) # {} <=> find_position(h, k).first # {}
           /\ found(h, k) = {b \in Full(h) : key(h, b) = k}
           /\ value(h, k) = IF k \in DOMAIN contents(h) THEN contents(h)[k] ELSE None
<1>1. DOMAIN contents(h) = {key(h, b) : b \in Full(h)}
      /\ \A b \in Full(h) : contents(h)[key(h, b)] = h.table[b + 1].val
  BY ContentsOf DEF Good
<1>2. CASE k \in DOMAIN contents(h)
  <2>1. PICK b \in Full(h) : key(h, b) = k
    BY <1>1, <1>2
  <2>2. find_position(h, k) = [first |-> {b}, second |-> {}]
    BY <2>1, FindPresent
  <2>3. size(h) # 0
    <3>1. Cardinality(Full(h)) = size(h) /\ IsFiniteSet(Full(h))
      BY FullIs DEF Good
    <3> QED
      BY <3>1, FS_EmptySet
  <2>4. found(h, k) = {b}
    BY <2>2, <2>3 DEF found
  <2>5. value(h, k) = h.table[b + 1].val
    BY <2>4 DEF value
  <2>6. {c \in Full(h) : key(h, c) = k} = {b}
    BY <2>1 DEF Good, KeysOnce
  <2>7. found(h, k) # {} /\ find_position(h, k).first # {}
    BY <2>2, <2>4
  <2>8. value(h, k) = contents(h)[k]
    BY <1>1, <2>1, <2>5
  <2>9. found(h, k) = {c \in Full(h) : key(h, c) = k}
    BY <2>4, <2>6
  <2> QED
    BY <1>2, <2>1, <2>2, <2>7, <2>8, <2>9, Zenon
<1>3. CASE k \notin DOMAIN contents(h)
  <2>1. PICK c : find_position(h, k) = [first |-> {}, second |-> {c}] /\ Place(h, k, c)
    BY <1>1, <1>3, FindAbsent
  <2>2. found(h, k) = {}
    BY <2>1 DEF found
  <2>3. value(h, k) = None
    BY <2>2 DEF value
  <2>4. {b \in Full(h) : key(h, b) = k} = {}
    BY <1>1, <1>3
  <2>5. find_position(h, k).first = {}
    BY <2>1
  <2> QED
    BY <1>3, <2>1, <2>2, <2>3, <2>4, <2>5, Zenon
<1> QED
  BY <1>2, <1>3

-------------------------------------------------------------------------------
(* An element comes in.                                                    *)

(* A map with a pair more, if the key is not there.                        *)
With(m, k, v) == [x \in DOMAIN m \union {k} |-> IF x \in DOMAIN m THEN m[x] ELSE v]

(* What an insertion does to a table.                                      *)
Joins(g, h, k, v) ==
    /\ Good(g) /\ contents(g) = With(contents(h), k, v)
    /\ num_buckets(g) = num_buckets(h)
    /\ g.num_elements <= h.num_elements + 1
    /\ g.consider_shrink = h.consider_shrink /\ g.use_deleted = h.use_deleted
    /\ h.num_deleted = 0 => g.num_deleted = 0 /\ g.num_elements = h.num_elements + 1

LEMMA InsertingAt ==
    ASSUME NEW h, Good(h), hasher \in Hashers, NEW k \in Keys, k \notin DOMAIN contents(h),
           NEW v \in Values \union {T0}, NEW c, Place(h, k, c),
           h.num_elements + 1 <= enlarge_size(num_buckets(h)), Fits(h.num_elements + 1),
           NEW g, g = insert_at(h, [key |-> k, val |-> v], c)
    PROVE  Joins(g, h, k, v) /\ c \in Full(g) /\ key(g, c) = k
<1> DEFINE obj == [key |-> k, val |-> v]
<1>1. /\ Shape(h) /\ Counted(h) /\ Roomy(h) /\ Reached(h) /\ KeysOnce(h)
      /\ c \in Buckets(h) /\ c \notin Full(h) /\ OnTheWay(h, k, c)
      /\ Full(h) = {b \in Buckets(h) : key(h, b) \in Keys}
      /\ \A b \in Buckets(h) : test_deleted(h, b) <=> key(h, b) = DeletedKey
      /\ IsFiniteSet(Erased(h)) /\ IsFiniteSet(Used(h))
  BY FullIs DEF Good, Place
<1>2. h \in Tables /\ h.table \in Seq(Entry) /\ h.num_elements \in Nat /\ h.num_deleted \in Nat
  BY <1>1 DEF Shape, Tables
<1>3. obj \in Entry
  BY DEF Entry, AllKeys
<1>4. c \in Nat /\ c + 1 \in 1..Len(h.table) /\ DOMAIN h.table = 1..Len(h.table)
  <2>1. c \in Nat /\ c + 1 \in DOMAIN h.table
    BY <1>1, BucketsAre
  <2> QED
    BY <1>2, <2>1
<1>5. /\ g.table = [h.table EXCEPT ![c + 1] = obj]
      /\ g.consider_shrink = h.consider_shrink /\ g.use_deleted = h.use_deleted
      /\ g.num_deleted = IF test_deleted(h, c) THEN h.num_deleted - 1 ELSE h.num_deleted
      /\ g.num_elements = IF test_deleted(h, c) THEN h.num_elements ELSE h.num_elements + 1
      /\ g = [table |-> g.table, num_elements |-> g.num_elements, num_deleted |-> g.num_deleted,
              consider_shrink |-> g.consider_shrink, use_deleted |-> g.use_deleted]
  BY <1>2 DEF insert_at, set_value, Tables
<1>6. g.table \in Seq(Entry) /\ Len(g.table) = Len(h.table)
  <2>1. Len(h.table) \in Nat /\ h.table \in [1..Len(h.table) -> Entry]
    BY <1>2
  <2>2. g.table \in [1..Len(h.table) -> Entry]
    <3> HIDE DEF obj
    <3> QED
      BY <1>3, <1>5, <2>1
  <2> QED
    BY <2>1, <2>2
<1> HIDE DEF obj
<1>7. num_buckets(g) = num_buckets(h) /\ Buckets(g) = Buckets(h)
  BY <1>6 DEF num_buckets, Buckets
<1>8. \A b \in Buckets(h) : g.table[b + 1] = IF b = c THEN obj ELSE h.table[b + 1]
  <2> SUFFICES ASSUME NEW b \in Buckets(h)
               PROVE  g.table[b + 1] = IF b = c THEN obj ELSE h.table[b + 1]
    OBVIOUS
  <2>1. b \in Nat /\ b + 1 \in DOMAIN h.table
    BY <1>1, BucketsAre
  <2> QED
    BY <1>4, <1>5, <2>1
<1>9. \A b \in Buckets(h) : key(g, b) = IF b = c THEN k ELSE key(h, b)
  BY <1>8 DEF key, obj
<1>10. h.num_deleted = 0 => ~test_deleted(h, c)
  BY DEF test_deleted
<1>11. Shape(g)
  <2>1. g.num_deleted \in Nat /\ g.num_elements \in Nat
    BY <1>2, <1>5 DEF test_deleted
  <2> QED
    BY <1>1, <1>2, <1>5, <1>6, <1>7, <2>1 DEF Shape, Tables
<1>12. /\ IsFiniteSet(Erased(g)) /\ IsFiniteSet(Used(g))
       /\ Erased(g) = Erased(h) \ {c} /\ Used(g) = Used(h) \union {c}
  <2>1. Erased(g) = Erased(h) \ {c}
    BY <1>7, <1>9, KeysAssumption DEF Erased
  <2>2. Used(g) = Used(h) \union {c}
    BY <1>1, <1>7, <1>9, KeysAssumption DEF Used, test_empty
  <2>3. IsFiniteSet(Erased(h) \ {c}) /\ IsFiniteSet(Used(h) \union {c})
    BY <1>1, FS_RemoveElement, FS_AddElement
  <2> QED
    BY <2>1, <2>2, <2>3
<1>13. Counted(g)
  <2>1. CASE test_deleted(h, c)
    <3>1. c \in Erased(h) /\ c \in Used(h)
      BY <1>1, <2>1, KeysAssumption DEF Erased, Used, test_empty
    <3>2. Cardinality(Erased(g)) = Cardinality(Erased(h)) - 1 /\ Used(g) = Used(h)
      <4>1. Cardinality(Erased(h) \ {c}) = Cardinality(Erased(h)) - 1
        BY <1>1, <3>1, FS_RemoveElement
      <4>2. Used(h) \union {c} = Used(h)
        BY <3>1
      <4> QED
        BY <1>12, <4>1, <4>2
    <3> QED
      BY <1>1, <1>2, <1>5, <2>1, <3>2 DEF Counted, test_deleted
  <2>2. CASE ~test_deleted(h, c)
    <3>1. c \notin Erased(h) /\ c \notin Used(h)
      BY <1>1, <2>2 DEF Erased, Used, Full
    <3>2. Cardinality(Used(g)) = Cardinality(Used(h)) + 1 /\ Erased(g) = Erased(h)
      <4>1. Cardinality(Used(h) \union {c}) = Cardinality(Used(h)) + 1
        BY <1>1, <3>1, FS_AddElement
      <4>2. Erased(h) \ {c} = Erased(h)
        BY <3>1
      <4> QED
        BY <1>12, <4>1, <4>2
    <3> QED
      BY <1>1, <1>2, <1>5, <2>2, <3>2 DEF Counted
  <2> QED
    BY <2>1, <2>2
<1>14. Full(g) = Full(h) \union {c}
  <2>1. Full(g) = {b \in Buckets(g) : key(g, b) \in Keys}
    BY <1>11, <1>13, FullIs
  <2> QED
    BY <1>1, <1>7, <1>9, <2>1
<1>15. Roomy(g)
  <2>1. g.num_elements \in Nat /\ g.num_elements <= h.num_elements + 1
    BY <1>2, <1>5
  <2>2. enlarge_size(num_buckets(h)) \in Nat
    BY <1>1, BucketsAre, EnlargeSize
  <2>3. Fits(g.num_elements)
    BY <1>2, <2>1, FitsFewer
  <2> QED
    BY <1>2, <1>7, <2>1, <2>2, <2>3 DEF Roomy
<1>16. ASSUME NEW x, NEW b \in Buckets(h), OnTheWay(h, x, b), x \in AllKeys PROVE OnTheWay(g, x, b)
  <2>1. PICK i \in Buckets(h) : /\ Probe(h, x, i) = b
                                /\ \A j \in 0..i - 1 : ~test_empty(h, Probe(h, x, j))
    BY <1>16 DEF OnTheWay
  <2>2. \A j : Probe(g, x, j) = Probe(h, x, j)
    BY <1>7 DEF Probe
  <2>3. ASSUME NEW j \in 0..i - 1 PROVE ~test_empty(g, Probe(g, x, j))
    <3>1. i \in Nat /\ j \in Nat
      BY <1>1, BucketsAre
    <3>2. Probe(h, x, j) \in Buckets(h)
      BY <1>1, <1>16, <3>1, ProbesAre
    <3> QED
      BY <1>9, <2>1, <2>2, <3>2, KeysAssumption DEF test_empty
  <2> QED
    BY <1>7, <2>1, <2>2, <2>3 DEF OnTheWay
<1>17. Reached(g)
  <2> SUFFICES ASSUME NEW b \in Full(g) PROVE OnTheWay(g, key(g, b), b)
    BY DEF Reached
  <2>1. CASE b = c
    <3>1. k \in AllKeys /\ key(g, b) = k
      BY <1>1, <1>9, <2>1 DEF AllKeys
    <3> QED
      BY <1>1, <1>16, <2>1, <3>1
  <2>2. CASE b # c
    <3>1. b \in Full(h) /\ b \in Buckets(h) /\ key(g, b) = key(h, b) /\ key(h, b) \in AllKeys
      BY <1>1, <1>9, <1>14, <2>2 DEF AllKeys
    <3>2. OnTheWay(h, key(h, b), b)
      BY <1>1, <3>1 DEF Reached
    <3> QED
      BY <1>16, <3>1, <3>2
  <2> QED
    BY <2>1, <2>2
<1>18. \A b \in Full(h) : key(h, b) # k /\ b # c /\ b \in Buckets(h) /\ key(g, b) = key(h, b)
                          /\ g.table[b + 1] = h.table[b + 1]
  <2> SUFFICES ASSUME NEW b \in Full(h)
               PROVE  /\ key(h, b) # k /\ b # c /\ b \in Buckets(h) /\ key(g, b) = key(h, b)
                      /\ g.table[b + 1] = h.table[b + 1]
    OBVIOUS
  <2>1. key(h, b) \in DOMAIN contents(h)
    <3>1. DOMAIN contents(h) = {key(h, d) : d \in Full(h)}
      BY <1>1, ContentsOf
    <3> QED
      BY <3>1
  <2>2. b # c /\ b \in Buckets(h)
    BY <1>1
  <2> QED
    BY <1>8, <1>9, <2>1, <2>2
<1>19. key(g, c) = k /\ g.table[c + 1] = obj
  BY <1>1, <1>8, <1>9
<1>20. KeysOnce(g)
  BY <1>1, <1>14, <1>18, <1>19 DEF KeysOnce
<1>21. contents(g) = With(contents(h), k, v)
  <2> DEFINE m == With(contents(h), k, v)
  <2>1. DOMAIN contents(h) = {key(h, b) : b \in Full(h)}
        /\ \A b \in Full(h) : contents(h)[key(h, b)] = h.table[b + 1].val
    BY <1>1, ContentsOf
  <2>2. m = [x \in DOMAIN m |-> m[x]] /\ DOMAIN m = {key(h, b) : b \in Full(h)} \union {k}
    BY <2>1 DEF With
  <2>3. DOMAIN m = {key(g, b) : b \in Full(g)}
    BY <1>14, <1>18, <1>19, <2>2
  <2>4. ASSUME NEW b \in Full(g) PROVE m[key(g, b)] = g.table[b + 1].val
    <3>1. CASE b = c
      BY <1>19, <3>1 DEF With, obj
    <3>2. CASE b # c
      <4>1. b \in Full(h)
        BY <1>14, <3>2
      <4>2. key(h, b) \in DOMAIN contents(h)
        BY <2>1, <4>1
      <4>3. m[key(h, b)] = contents(h)[key(h, b)]
        BY <4>2 DEF With
      <4> QED
        BY <1>18, <2>1, <4>1, <4>3
    <3> QED
      BY <3>1, <3>2
  <2> HIDE DEF m
  <2>5. contents(g) = m
    BY <1>20, <2>2, <2>3, <2>4, ContentsAre
  <2> QED
    BY <2>5 DEF m
<1>22. g.num_elements <= h.num_elements + 1
       /\ (h.num_deleted = 0 => g.num_deleted = 0 /\ g.num_elements = h.num_elements + 1)
  BY <1>2, <1>5, <1>10
<1>23. Joins(g, h, k, v) /\ c \in Full(g) /\ key(g, c) = k
  BY <1>5, <1>7, <1>11, <1>13, <1>14, <1>15, <1>17, <1>19, <1>20, <1>21, <1>22 DEF Joins, Good
<1> QED
  BY <1>23

-------------------------------------------------------------------------------
(* Recursion along a loop.  S[n] is where the loop can be after n rounds.  *)

LEMMA LoopExists ==
    ASSUME NEW k \in Nat, NEW a, NEW g, NEW S, a \in S[0],
           \A n \in 1..k : \A x \in S[n - 1] : g[n][x] \in S[n]
    PROVE  \E f : /\ f = [n \in 0..k |-> f[n]] /\ Follows(f, k, a, g)
                  /\ \A n \in 0..k : f[n] \in S[n]
<1> USE DEF Follows
<1> DEFINE Runs(f, n) == /\ f = [i \in 0..n |-> f[i]] /\ Follows(f, n, a, g)
                         /\ \A i \in 0..n : f[i] \in S[i]
           T == {n \in 0..k : ~\E f : Runs(f, n)}
<1>1. ASSUME NEW n \in T, \A m \in T : n <= m PROVE FALSE
  <2>1. CASE n = 0
    <3> DEFINE f == [i \in 0..0 |-> a]
    <3>1. f = [i \in 0..0 |-> f[i]] /\ f[0] = a /\ \A i \in 0..0 : f[i] \in S[i]
      OBVIOUS
    <3>2. \A m \in 1..0 : FALSE
      OBVIOUS
    <3>3. Runs(f, 0)
      <4> HIDE DEF f
      <4> QED
        BY <3>1, <3>2
    <3> QED
      BY <1>1, <2>1, <3>3
  <2>2. CASE n # 0
    <3>1. n - 1 \in 0..k /\ n \in 1..k /\ ~(n <= n - 1)
      BY <2>2
    <3>2. PICK f : Runs(f, n - 1)
      BY <1>1, <3>1
    <3> DEFINE h == [i \in 0..n |-> IF i = n THEN g[n][f[n - 1]] ELSE f[i]]
    <3>3. n - 1 \in 0..n - 1 /\ f[n - 1] \in S[n - 1] /\ g[n][f[n - 1]] \in S[n]
      BY <3>1, <3>2
    <3>4. h = [i \in 0..n |-> h[i]]
      OBVIOUS
    <3>5. h[n] = g[n][f[n - 1]] /\ \A i \in 0..n - 1 : h[i] = f[i]
      BY <3>1
    <3> HIDE DEF h
    <3>6. h[0] = a
      BY <3>1, <3>2, <3>5
    <3>7. ASSUME NEW m \in 1..n PROVE h[m] = g[m][h[m - 1]]
      <4>1. CASE m = n
        BY <3>1, <3>3, <3>5, <4>1
      <4>2. CASE m # n
        <5>1. m \in 1..n - 1 /\ m \in 0..n - 1 /\ m - 1 \in 0..n - 1
          BY <3>1, <4>2
        <5> QED
          BY <3>2, <3>5, <5>1
      <4> QED
        BY <4>1, <4>2
    <3>8. ASSUME NEW i \in 0..n PROVE h[i] \in S[i]
      <4>1. CASE i = n
        BY <3>3, <3>5, <4>1
      <4>2. CASE i # n
        <5>1. i \in 0..n - 1
          BY <3>1, <4>2
        <5> QED
          BY <3>2, <3>5, <5>1
      <4> QED
        BY <4>1, <4>2
    <3>9. Runs(h, n)
      BY <3>4, <3>6, <3>7, <3>8
    <3> QED
      BY <1>1, <3>9
  <2> QED
    BY <2>1, <2>2
<1>2. T = {}
  <2> SUFFICES ASSUME T # {} PROVE FALSE
    OBVIOUS
  <2>1. T \subseteq Nat
    OBVIOUS
  <2>2. PICK n \in T : \A m \in T : n <= m
    <3> HIDE DEF T
    <3> QED
      BY <2>1, SmallestNat
  <2> QED
    BY <1>1, <2>2
<1>3. k \in 0..k
  OBVIOUS
<1> QED
  BY <1>2, <1>3

LEMMA LoopStays ==
    ASSUME NEW k \in Nat, NEW f, NEW S, f[0] \in S[0],
           \A n \in 1..k : f[n - 1] \in S[n - 1] => f[n] \in S[n]
    PROVE  \A n \in 0..k : f[n] \in S[n]
<1> DEFINE T == {n \in 0..k : f[n] \notin S[n]}
<1>1. T = {}
  <2> SUFFICES ASSUME T # {} PROVE FALSE
    OBVIOUS
  <2>1. T \subseteq Nat
    OBVIOUS
  <2>2. PICK n \in T : \A m \in T : n <= m
    <3> HIDE DEF T
    <3> QED
      BY <2>1, SmallestNat
  <2>3. n # 0 /\ n \in 0..k
    BY <2>2
  <2>4. n \in 1..k /\ n - 1 \in 0..k /\ ~(n <= n - 1)
    BY <2>3
  <2>5. n - 1 \notin T
    BY <2>2, <2>4
  <2> QED
    BY <2>2, <2>4, <2>5
<1> QED
  BY <1>1

-------------------------------------------------------------------------------
(* Tables with nothing in them.                                            *)

NoPairs == [k \in {} |-> T0]

LEMMA NothingIsThere ==
    ASSUME NEW g, g \in Tables, NEW n \in Sizes, g.table = [i \in 1..n |-> Marker(EmptyKey)],
           g.num_elements = 0, g.num_deleted = 0
    PROVE  Good(g) /\ contents(g) = NoPairs /\ num_buckets(g) = n
<1>1. n \in Nat
  BY SizeIs
<1>2. num_buckets(g) = n
  <2>1. g.table \in Seq(Entry) /\ DOMAIN g.table = 1..n
    BY DEF Tables
  <2> QED
    BY <1>1, <2>1 DEF num_buckets
<1>3. Shape(g)
  BY <1>2 DEF Shape
<1>4. \A b \in Buckets(g) : key(g, b) = EmptyKey
  <2> SUFFICES ASSUME NEW b \in Buckets(g) PROVE key(g, b) = EmptyKey
    OBVIOUS
  <2>1. b + 1 \in 1..n
    BY <1>1, <1>2, <1>3, BucketsAre
  <2> QED
    BY <2>1 DEF key, Marker
<1>5. Erased(g) = {} /\ Used(g) = {} /\ Full(g) = {}
  BY <1>4, KeysAssumption DEF Erased, Used, Full, test_empty
<1>6. Counted(g)
  BY <1>5, FS_EmptySet DEF Counted
<1>7. Roomy(g)
  <2>1. Cardinality(Keys) \in Nat
    BY KeysAssumption, FS_CardinalityType
  <2>2. Fits(0)
    BY <2>1, SizesAssumption, FitsFewer
  <2>3. enlarge_size(num_buckets(g)) \in Nat
    BY <1>1, <1>2, EnlargeSize
  <2> QED
    BY <2>2, <2>3 DEF Roomy
<1>8. Reached(g) /\ KeysOnce(g)
  BY <1>5 DEF Reached, KeysOnce
<1>9. contents(g) = NoPairs
  BY <1>5 DEF contents, NoPairs
<1> QED
  BY <1>2, <1>3, <1>6, <1>7, <1>8, <1>9 DEF Good

LEMMA Cleared ==
    ASSUME NEW h \in Tables, NEW n \in Sizes, NEW g, g = clear_to_size(h, n)
    PROVE  /\ g \in Tables /\ Good(g) /\ contents(g) = NoPairs /\ num_buckets(g) = n
           /\ g.num_elements = 0 /\ g.num_deleted = 0
           /\ g.consider_shrink = FALSE /\ g.use_deleted = h.use_deleted
<1>1. /\ g.table = [i \in 1..n |-> Marker(EmptyKey)]
      /\ g.num_elements = 0 /\ g.num_deleted = 0
      /\ g.consider_shrink = FALSE /\ g.use_deleted = h.use_deleted
      /\ g = [table |-> g.table, num_elements |-> g.num_elements, num_deleted |-> g.num_deleted,
              consider_shrink |-> g.consider_shrink, use_deleted |-> g.use_deleted]
  BY DEF clear_to_size, reset_thresholds, Tables
<1>2. g.table \in Seq(Entry)
  <2>1. n \in Nat
    BY SizeIs
  <2>2. Marker(EmptyKey) \in Entry
    BY DEF Marker, Entry, AllKeys
  <2>3. g.table \in [1..n -> Entry]
    BY <1>1, <2>2
  <2> QED
    BY <2>1, <2>3
<1>3. g \in Tables
  <2>1. g.use_deleted \in BOOLEAN /\ g.consider_shrink \in BOOLEAN
        /\ g.num_elements \in Nat /\ g.num_deleted \in Nat
    <3>1. h.use_deleted \in BOOLEAN
      BY DEF Tables
    <3>2. g.use_deleted = h.use_deleted /\ g.consider_shrink = FALSE
      BY <1>1, Zenon
    <3>3. g.use_deleted \in BOOLEAN /\ g.consider_shrink \in BOOLEAN
      BY <3>1, <3>2, Zenon
    <3>4. g.num_elements \in Nat /\ g.num_deleted \in Nat
      BY <1>1
    <3> QED
      BY <3>3, <3>4
  <2>2. g = [table |-> g.table, num_elements |-> g.num_elements, num_deleted |-> g.num_deleted,
             consider_shrink |-> g.consider_shrink, use_deleted |-> g.use_deleted]
    BY <1>1
  <2> QED
    BY <1>2, <2>1, <2>2 DEF Tables
<1> QED
  BY <1>1, <1>3, NothingIsThere

-------------------------------------------------------------------------------
(* Copies.                                                                 *)

(* What copy_from promises.                                                *)
CopyOf(g, h) ==
    /\ Good(g) /\ contents(g) = contents(h)
    /\ g.num_elements = size(h) /\ g.num_deleted = 0
    /\ g.consider_shrink = FALSE /\ g.use_deleted = h.use_deleted

Before(h, n) == {b \in Full(h) : b < n}

(* The copy x when n buckets of h have been looked at.                     *)
CopiedSome(h, to, n, x) ==
    /\ x \in Tables /\ Good(x) /\ num_buckets(x) = to
    /\ x.num_elements = Cardinality(Before(h, n)) /\ x.num_deleted = 0
    /\ x.consider_shrink = FALSE /\ x.use_deleted = h.use_deleted
    /\ DOMAIN contents(x) = {key(h, b) : b \in Before(h, n)}
    /\ \A b \in Before(h, n) : contents(x)[key(h, b)] = contents(h)[key(h, b)]

CopyRound(h, n, x) == IF n - 1 \in Full(h) THEN PutCopy(x, h.table[n]) ELSE x

LEMMA CopyPut ==
    ASSUME NEW x, Good(x), hasher \in Hashers, x.num_deleted = 0,
           NEW k \in Keys, k \notin DOMAIN contents(x), NEW v \in Values \union {T0},
           x.num_elements + 1 <= enlarge_size(num_buckets(x)), Fits(x.num_elements + 1)
    PROVE  Joins(PutCopy(x, [key |-> k, val |-> v]), x, k, v)
<1> DEFINE obj == [key |-> k, val |-> v]
           U == {i \in Buckets(x) : test_empty(x, Probe(x, k, i))}
           i == Min(U)
           c == Probe(x, k, i)
<1>1. Shape(x) /\ Counted(x) /\ Roomy(x) /\ k \in AllKeys
  BY DEF Good, AllKeys
<1>2. U # {} /\ U \subseteq Nat
  <2>1. PICK b \in Buckets(x) : test_empty(x, b)
    BY <1>1, HasEmpty
  <2>2. PICK m \in Buckets(x) : Probe(x, k, m) = b
    BY <1>1, ProbesAre
  <2>3. \A m2 \in Buckets(x) : m2 \in Nat
    BY <1>1, BucketsAre
  <2> QED
    BY <2>1, <2>2, <2>3
<1>3. i \in U /\ \A j \in U : i <= j
  <2> HIDE DEF U
  <2> QED
    BY <1>2, MinNat
<1>4. i \in Buckets(x) /\ i \in Nat /\ test_empty(x, c)
  BY <1>2, <1>3
<1> HIDE DEF i
<1>5. c \in Buckets(x)
  BY <1>1, <1>4, ProbesAre
<1>6. ASSUME NEW j \in 0..i - 1 PROVE ~test_empty(x, Probe(x, k, j))
  <2>1. j \in Buckets(x) /\ ~(i <= j)
    BY <1>1, <1>4, BucketsAre
  <2> QED
    BY <1>3, <2>1
<1>7. Place(x, k, c)
  BY <1>4, <1>5, <1>6 DEF Place, OnTheWay, Full
<1>8. PutCopy(x, obj) = insert_at(x, obj, c)
  <2>1. ~test_deleted(x, c)
    BY DEF test_deleted
  <2>2. PutCopy(x, obj) = [set_value(x, c, obj) EXCEPT !.num_elements = @ + 1]
    BY DEF PutCopy, i
  <2>3. insert_at(x, obj, c) = set_value([x EXCEPT !.num_elements = @ + 1], c, obj)
    BY <2>1 DEF insert_at
  <2>4. x \in Tables
    BY <1>1 DEF Shape
  <2>5. [set_value(x, c, obj) EXCEPT !.num_elements = @ + 1]
          = set_value([x EXCEPT !.num_elements = @ + 1], c, obj)
    <3> HIDE DEF c, obj
    <3> QED
      BY <2>4 DEF set_value, Tables
  <2> QED
    BY <2>2, <2>3, <2>5
<1> HIDE DEF c, U
<1> QED
  BY <1>7, <1>8, InsertingAt

LEMMA BeforeGrows ==
    ASSUME NEW h, Good(h), NEW n \in 1..num_buckets(h)
    PROVE  /\ IsFiniteSet(Before(h, n - 1)) /\ Cardinality(Before(h, n - 1)) \in Nat
           /\ n - 1 \in Full(h) =>
                 /\ Before(h, n) = Before(h, n - 1) \union {n - 1}
                 /\ n - 1 \notin Before(h, n - 1)
                 /\ Cardinality(Before(h, n)) = Cardinality(Before(h, n - 1)) + 1
                 /\ Cardinality(Before(h, n)) <= size(h)
           /\ n - 1 \notin Full(h) => Before(h, n) = Before(h, n - 1)
<1>1. Shape(h) /\ Counted(h) /\ IsFiniteSet(Full(h)) /\ Cardinality(Full(h)) = size(h)
      /\ num_buckets(h) \in Nat /\ Full(h) \subseteq Nat
  BY FullIs, BucketsAre DEF Good
<1>2. Before(h, n - 1) \in SUBSET Full(h) /\ Before(h, n) \in SUBSET Full(h)
  BY DEF Before
<1>3. IsFiniteSet(Before(h, n - 1)) /\ IsFiniteSet(Before(h, n))
      /\ Cardinality(Before(h, n - 1)) \in Nat /\ Cardinality(Before(h, n)) <= size(h)
  BY <1>1, <1>2, FS_Subset, FS_CardinalityType
<1>4. n - 1 \notin Before(h, n - 1)
  BY <1>1 DEF Before
<1>5. \A b \in Full(h) : b < n <=> b < n - 1 \/ b = n - 1
  BY <1>1
<1>6. ASSUME n - 1 \in Full(h)
      PROVE  /\ Before(h, n) = Before(h, n - 1) \union {n - 1}
             /\ Cardinality(Before(h, n)) = Cardinality(Before(h, n - 1)) + 1
  <2>1. Before(h, n) = Before(h, n - 1) \union {n - 1}
    BY <1>5, <1>6 DEF Before
  <2>2. Cardinality(Before(h, n - 1) \union {n - 1}) = Cardinality(Before(h, n - 1)) + 1
    BY <1>3, <1>4, FS_AddElement
  <2> QED
    BY <2>1, <2>2
<1>7. n - 1 \notin Full(h) => Before(h, n) = Before(h, n - 1)
  BY <1>5 DEF Before
<1> QED
  BY <1>3, <1>4, <1>6, <1>7

LEMMA CopyRounds ==
    ASSUME NEW h, Good(h), hasher \in Hashers, NEW to \in Sizes, size(h) < enlarge_size(to),
           NEW n \in 1..num_buckets(h), NEW x, CopiedSome(h, to, n - 1, x)
    PROVE  CopiedSome(h, to, n, CopyRound(h, n, x))
<1> DEFINE b == n - 1
<1>1. Shape(h) /\ Counted(h) /\ KeysOnce(h) /\ num_buckets(h) \in Nat
      /\ Full(h) = {d \in Buckets(h) : key(h, d) \in Keys}
  BY FullIs, BucketsAre DEF Good
<1>2. CASE b \notin Full(h)
  <2>1. CopyRound(h, n, x) = x /\ Before(h, n) = Before(h, n - 1)
    BY <1>2, BeforeGrows DEF CopyRound
  <2> QED
    BY <2>1 DEF CopiedSome
<1>3. CASE b \in Full(h)
  <2> DEFINE k == key(h, b)
             v == h.table[n].val
             y == PutCopy(x, [key |-> k, val |-> v])
  <2>1. b \in Buckets(h) /\ b + 1 = n /\ k \in Keys
    BY <1>1, <1>3
  <2>2. h.table[n] = [key |-> k, val |-> v] /\ v \in Values \union {T0}
    <3>1. h.table[n] \in Entry
      BY <1>1, <2>1, BucketsAre
    <3> QED
      BY <2>1, <3>1 DEF Entry, key
  <2>3. CopyRound(h, n, x) = y
    BY <1>3, <2>2 DEF CopyRound
  <2>4. /\ Before(h, n) = Before(h, b) \union {b} /\ b \notin Before(h, b)
        /\ Cardinality(Before(h, n)) = Cardinality(Before(h, b)) + 1
        /\ Cardinality(Before(h, n)) <= size(h) /\ Cardinality(Before(h, b)) \in Nat
    BY <1>3, BeforeGrows
  <2>5. /\ Good(x) /\ num_buckets(x) = to /\ x.num_elements = Cardinality(Before(h, b))
        /\ x.num_deleted = 0 /\ x.consider_shrink = FALSE /\ x.use_deleted = h.use_deleted
        /\ DOMAIN contents(x) = {key(h, d) : d \in Before(h, b)}
        /\ \A d \in Before(h, b) : contents(x)[key(h, d)] = contents(h)[key(h, d)]
    BY DEF CopiedSome
  <2>6. k \notin DOMAIN contents(x)
    BY <1>1, <1>3, <2>4, <2>5 DEF KeysOnce, Before
  <2>7. size(h) \in Nat /\ enlarge_size(to) \in Nat
    <3>1. h.num_elements \in Int /\ h.num_deleted \in Int
      BY <1>1 DEF Shape, Tables
    <3>2. size(h) \in Int
      BY <3>1 DEF size
    <3>3. Cardinality(Full(h)) = size(h) /\ IsFiniteSet(Full(h))
      BY <1>1, FullIs
    <3> QED
      BY <3>3, FS_CardinalityType, SizeIs, EnlargeSize
  <2>8. x.num_elements + 1 <= enlarge_size(num_buckets(x)) /\ Fits(x.num_elements + 1)
    <3>1. Fits(size(h))
      BY DEF Fits
    <3>2. x.num_elements + 1 \in Nat /\ x.num_elements + 1 <= size(h)
      BY <2>4, <2>5, <2>7
    <3> QED
      BY <2>5, <2>7, <3>1, <3>2, FitsFewer
  <2>9. Joins(y, x, k, v)
    <3> HIDE DEF k, v, b
    <3> QED
      BY <2>1, <2>2, <2>5, <2>6, <2>8, CopyPut
  <2> HIDE DEF y
  <2>10. DOMAIN contents(y) = {key(h, d) : d \in Before(h, n)}
    BY <2>4, <2>5, <2>9 DEF Joins, With
  <2>11. ASSUME NEW d \in Before(h, n) PROVE contents(y)[key(h, d)] = contents(h)[key(h, d)]
    <3>1. CASE d \in Before(h, b)
      <4>1. key(h, d) \in DOMAIN contents(x)
        BY <2>5, <3>1
      <4>2. contents(y)[key(h, d)] = contents(x)[key(h, d)]
        BY <2>9, <4>1 DEF Joins, With
      <4> QED
        BY <2>5, <3>1, <4>2
    <3>2. CASE d = b
      <4>1. contents(y)[k] = v
        BY <2>6, <2>9 DEF Joins, With
      <4>2. contents(h)[k] = v
        BY <1>1, <1>3, <2>1, ContentsOf
      <4> QED
        BY <3>2, <4>1, <4>2
    <3> QED
      BY <2>4, <2>11, <3>1, <3>2
  <2>12. y \in Tables /\ Good(y) /\ num_buckets(y) = to
    BY <2>5, <2>9 DEF Joins, Good, Shape
  <2>13. y.num_elements = Cardinality(Before(h, n)) /\ y.num_deleted = 0
    BY <2>4, <2>5, <2>9 DEF Joins
  <2>14. y.consider_shrink = FALSE /\ y.use_deleted = h.use_deleted
    BY <2>5, <2>9 DEF Joins
  <2> QED
    BY <2>3, <2>10, <2>11, <2>12, <2>13, <2>14 DEF CopiedSome
<1> QED
  BY <1>2, <1>3

LEMMA CopiedIs ==
    ASSUME NEW h, Good(h), hasher \in Hashers, NEW to \in Sizes, size(h) < enlarge_size(to)
    PROVE  \A n \in 0..num_buckets(h) : CopiedSome(h, to, n, Copied(h, to)[n])
<1> DEFINE k == num_buckets(h)
           a == clear_to_size(h, to)
           S == [n \in 0..k |-> {x \in Tables : CopiedSome(h, to, n, x)}]
           g == [n \in 1..k |-> [x \in S[n - 1] |-> CopyRound(h, n, x)]]
           Loop(f) == f = [b \in 0..k |-> IF b = 0 THEN a ELSE CopyRound(h, b, f[b - 1])]
<1>1. k \in Nat /\ h \in Tables
  BY BucketsAre DEF Good, Shape
<1>2. a \in S[0]
  <2>1. Before(h, 0) = {}
    BY BucketsAre DEF Before, Full, Good
  <2>2. /\ a \in Tables /\ Good(a) /\ contents(a) = NoPairs /\ num_buckets(a) = to
        /\ a.num_elements = 0 /\ a.num_deleted = 0
        /\ a.consider_shrink = FALSE /\ a.use_deleted = h.use_deleted
    BY <1>1, Cleared
  <2> HIDE DEF a
  <2>3. DOMAIN contents(a) = {}
    BY <2>2 DEF NoPairs
  <2>4. CopiedSome(h, to, 0, a)
    BY <2>1, <2>2, <2>3, FS_EmptySet DEF CopiedSome
  <2> QED
    BY <1>1, <2>2, <2>4
<1>3. ASSUME NEW n \in 1..k, NEW x \in S[n - 1]
      PROVE  CopyRound(h, n, x) \in S[n]
  <2>1. n - 1 \in 0..k /\ n \in 0..k
    BY <1>1
  <2>2. CopiedSome(h, to, n - 1, x)
    BY <2>1
  <2>3. CopiedSome(h, to, n, CopyRound(h, n, x))
    BY <2>2, CopyRounds
  <2> QED
    BY <2>1, <2>3 DEF CopiedSome
<1>4. \E f : Loop(f)
  <2>1. \A n \in 1..k : \A x \in S[n - 1] : g[n][x] \in S[n]
    <3> SUFFICES ASSUME NEW n \in 1..k, NEW x \in S[n - 1] PROVE g[n][x] \in S[n]
      OBVIOUS
    <3> HIDE DEF S
    <3> QED
      BY <1>3
  <2> HIDE DEF S, g, a
  <2>2. PICK f : /\ f = [n \in 0..k |-> f[n]] /\ Follows(f, k, a, g)
                 /\ \A n \in 0..k : f[n] \in S[n]
    BY <1>1, <1>2, <2>1, LoopExists
  <2>3. ASSUME NEW b \in 0..k PROVE f[b] = IF b = 0 THEN a ELSE CopyRound(h, b, f[b - 1])
    <3>1. CASE b = 0
      BY <2>2, <3>1 DEF Follows
    <3>2. CASE b # 0
      <4>1. b \in 1..k /\ b - 1 \in 0..k
        BY <1>1, <3>2
      <4>2. f[b] = g[b][f[b - 1]] /\ f[b - 1] \in S[b - 1]
        BY <2>2, <4>1 DEF Follows
      <4> QED
        BY <3>2, <4>1, <4>2 DEF g
    <3> QED
      BY <3>1, <3>2
  <2>4. Loop(f)
    BY <2>2, <2>3
  <2> QED
    BY <2>4
<1>5. Loop(Copied(h, to))
  <2>1. Copied(h, to) = CHOOSE f : Loop(f)
    BY DEF Copied, CopyRound
  <2> HIDE DEF Loop
  <2> QED
    BY <1>4, <2>1
<1>6. \A n \in 0..k : Copied(h, to)[n] \in S[n]
  <2> DEFINE f == Copied(h, to)
  <2>1. f[0] = a /\ \A n \in 1..k : f[n] = CopyRound(h, n, f[n - 1])
    <3>1. ASSUME NEW n \in 1..k PROVE n \in 0..k /\ n # 0
      BY <1>1
    <3> HIDE DEF a
    <3> QED
      BY <1>1, <1>5, <3>1
  <2>2. ASSUME NEW n \in 1..k, f[n - 1] \in S[n - 1] PROVE f[n] \in S[n]
    <3> HIDE DEF S, f
    <3> QED
      BY <1>3, <2>1, <2>2
  <2> HIDE DEF S, f, a
  <2>3. f[0] \in S[0]
    BY <1>2, <2>1
  <2>4. \A n \in 0..k : f[n] \in S[n]
    BY <1>1, <2>2, <2>3, LoopStays
  <2> QED
    BY <2>4 DEF f
<1> QED
  BY <1>6

LEMMA SizeOf ==
    ASSUME NEW h, Good(h)
    PROVE  /\ size(h) \in Nat /\ size(h) <= h.num_elements /\ Fits(size(h))
           /\ h.num_elements \in Nat /\ h.num_deleted \in Nat
           /\ size(h) = h.num_elements - h.num_deleted
<1>1. Shape(h) /\ Counted(h) /\ h.num_elements \in Nat /\ h.num_deleted \in Nat
  BY DEF Good, Shape, Tables
<1>2. Cardinality(Full(h)) = size(h) /\ IsFiniteSet(Full(h))
  BY <1>1, FullIs
<1>3. size(h) \in Nat
  BY <1>2, FS_CardinalityType
<1>4. size(h) = h.num_elements - h.num_deleted
  BY DEF size
<1>5. Fits(size(h))
  BY <1>1, <1>3, <1>4, FitsFewer DEF Good, Roomy
<1> QED
  BY <1>1, <1>3, <1>4, <1>5

LEMMA CopyIs ==
    ASSUME NEW h, Good(h), hasher \in Hashers, NEW wanted \in Sizes \union {0}
    PROVE  /\ CopyOf(copy_from(h, wanted), h)
           /\ num_buckets(copy_from(h, wanted)) = min_buckets(size(h), wanted)
<1> DEFINE to == min_buckets(size(h), wanted)
           k == num_buckets(h)
           g == Copied(h, to)[k]
<1>1. size(h) \in Nat /\ to \in Sizes /\ size(h) < enlarge_size(to)
  BY SizeOf, MinBuckets
<1>2. k \in Nat /\ k \in 0..k
  BY BucketsAre DEF Good
<1>3. copy_from(h, wanted) = g
  BY DEF copy_from
<1>4. CopiedSome(h, to, k, g)
  <2> HIDE DEF to
  <2> QED
    BY <1>1, <1>2, CopiedIs
<1> HIDE DEF g, to
<1>5. Before(h, k) = Full(h)
  BY BucketsAre DEF Before, Full, Good
<1>6. /\ Good(g) /\ num_buckets(g) = to /\ g.num_elements = Cardinality(Full(h))
      /\ g.num_deleted = 0 /\ g.consider_shrink = FALSE /\ g.use_deleted = h.use_deleted
      /\ DOMAIN contents(g) = {key(h, b) : b \in Full(h)}
      /\ \A b \in Full(h) : contents(g)[key(h, b)] = contents(h)[key(h, b)]
  BY <1>4, <1>5 DEF CopiedSome
<1>7. contents(g) = contents(h)
  <2>1. DOMAIN contents(h) = {key(h, b) : b \in Full(h)}
        /\ contents(h) = [x \in DOMAIN contents(h) |-> contents(h)[x]]
    BY ContentsOf DEF Good
  <2>2. contents(g) = [x \in DOMAIN contents(g) |-> contents(g)[x]]
    BY <1>6, ContentsOf DEF Good
  <2>3. \A x \in DOMAIN contents(h) : contents(g)[x] = contents(h)[x]
    BY <1>6, <2>1
  <2> QED
    BY <1>6, <2>1, <2>2, <2>3
<1>8. g.num_elements = size(h)
  BY <1>6, FullIs DEF Good
<1> QED
  BY <1>3, <1>6, <1>7, <1>8 DEF CopyOf, to

-------------------------------------------------------------------------------
(* Tables that hold the same keys in the same buckets.                     *)

LEMMA SameKeys ==
    ASSUME NEW h, Good(h), hasher \in Hashers, NEW g \in Tables,
           num_buckets(g) = num_buckets(h), \A b \in Buckets(h) : key(g, b) = key(h, b),
           g.num_elements = h.num_elements, g.num_deleted = h.num_deleted,
           g.num_deleted > 0 => g.use_deleted
    PROVE  Good(g) /\ Full(g) = Full(h)
<1>1. /\ Shape(h) /\ Counted(h) /\ Roomy(h) /\ Reached(h) /\ KeysOnce(h)
      /\ Full(h) = {b \in Buckets(h) : key(h, b) \in Keys}
  BY FullIs DEF Good
<1>2. Buckets(g) = Buckets(h) /\ Shape(g)
  BY <1>1 DEF Buckets, Shape
<1>3. Erased(g) = Erased(h) /\ Used(g) = Used(h)
  BY <1>2 DEF Erased, Used, test_empty
<1>4. Counted(g) /\ Roomy(g)
  BY <1>1, <1>3 DEF Counted, Roomy
<1>5. Full(g) = Full(h)
  BY <1>1, <1>2, <1>4, FullIs
<1>6. KeysOnce(g)
  BY <1>1, <1>5 DEF KeysOnce
<1>7. Reached(g)
  <2> SUFFICES ASSUME NEW b \in Full(h) PROVE OnTheWay(g, key(h, b), b)
    BY <1>1, <1>5 DEF Reached
  <2> DEFINE x == key(h, b)
  <2>1. PICK i \in Buckets(h) : /\ Probe(h, x, i) = b
                                /\ \A j \in 0..i - 1 : ~test_empty(h, Probe(h, x, j))
    BY <1>1 DEF Reached, OnTheWay
  <2>2. \A j : Probe(g, x, j) = Probe(h, x, j)
    BY DEF Probe
  <2>3. ASSUME NEW j \in 0..i - 1 PROVE ~test_empty(g, Probe(h, x, j))
    <3>1. i \in Nat /\ j \in Nat /\ x \in AllKeys
      BY <1>1, BucketsAre DEF AllKeys
    <3>2. Probe(h, x, j) \in Buckets(h)
      BY <1>1, <3>1, ProbesAre
    <3> QED
      BY <2>1, <3>2 DEF test_empty
  <2> QED
    BY <1>2, <2>1, <2>2, <2>3 DEF OnTheWay
<1> QED
  BY <1>2, <1>4, <1>5, <1>6, <1>7 DEF Good

LEMMA SameContents ==
    ASSUME NEW h, Good(h), NEW g, Good(g), Full(g) = Full(h),
           \A b \in Full(h) : key(g, b) = key(h, b) /\ g.table[b + 1].val = h.table[b + 1].val
    PROVE  contents(g) = contents(h)
<1> DEFINE m == contents(h)
<1>1. /\ DOMAIN m = {key(h, b) : b \in Full(h)} /\ m = [x \in DOMAIN m |-> m[x]]
      /\ \A b \in Full(h) : m[key(h, b)] = h.table[b + 1].val
  BY ContentsOf DEF Good
<1> HIDE DEF m
<1>2. /\ DOMAIN m = {key(g, b) : b \in Full(g)}
      /\ \A b \in Full(g) : m[key(g, b)] = g.table[b + 1].val
  BY <1>1
<1>3. contents(g) = m
  BY <1>1, <1>2, ContentsAre DEF Good
<1> QED
  BY <1>3 DEF m

-------------------------------------------------------------------------------
(* Changes of the size.                                                    *)

(* The pairs stay, if perhaps elsewhere.                                   *)
Rearranged(g, h) ==
    /\ Good(g) /\ contents(g) = contents(h)
    /\ g.num_elements <= h.num_elements

(* Every pair stays where it is.                                           *)
AsItWas(g, h) ==
    /\ g.table = h.table
    /\ g.num_elements = h.num_elements /\ g.num_deleted = h.num_deleted

LEMMA RearrangedSelf ==
    ASSUME NEW h, Good(h)
    PROVE  Rearranged(h, h) /\ AsItWas(h, h)
<1>1. h.num_elements <= h.num_elements
  BY SizeOf
<1> QED
  BY <1>1 DEF Rearranged, AsItWas

LEMMA RearrangedTwice ==
    ASSUME NEW h, Good(h), NEW g, Rearranged(g, h), NEW f, Rearranged(f, g)
    PROVE  Rearranged(f, h)
<1>1. h.num_elements \in Nat /\ g.num_elements \in Nat /\ f.num_elements \in Nat
  BY SizeOf DEF Rearranged
<1>2. f.num_elements <= h.num_elements
  BY <1>1 DEF Rearranged
<1> QED
  BY <1>2 DEF Rearranged

(* Of the flags, nothing depends on more than that use_deleted is set if   *)
(* there is an erased bucket.                                              *)
LEMMA AsItWasIs ==
    ASSUME NEW h, Good(h), hasher \in Hashers, NEW g \in Tables, AsItWas(g, h),
           g.num_deleted > 0 => g.use_deleted
    PROVE  Rearranged(g, h)
<1>1. num_buckets(g) = num_buckets(h) /\ \A b : key(g, b) = key(h, b)
  BY DEF AsItWas, num_buckets, key
<1>2. Good(g) /\ Full(g) = Full(h)
  BY <1>1, SameKeys DEF AsItWas
<1>3. contents(g) = contents(h)
  BY <1>1, <1>2, SameContents DEF AsItWas
<1>4. g.num_elements <= h.num_elements
  BY SizeOf DEF AsItWas
<1> QED
  BY <1>2, <1>3, <1>4 DEF Rearranged

LEMMA CopyRearranges ==
    ASSUME NEW h, Good(h), hasher \in Hashers, NEW wanted \in Sizes \union {0}
    PROVE  /\ Rearranged(copy_from(h, wanted), h)
           /\ copy_from(h, wanted).num_deleted = 0
           /\ copy_from(h, wanted).num_elements = size(h)
<1> DEFINE g == copy_from(h, wanted)
<1>1. CopyOf(g, h)
  BY CopyIs
<1> HIDE DEF g
<1>2. g.num_elements <= h.num_elements
  BY <1>1, SizeOf DEF CopyOf
<1>3. Rearranged(g, h) /\ g.num_deleted = 0 /\ g.num_elements = size(h)
  BY <1>1, <1>2 DEF CopyOf, Rearranged
<1> QED
  BY <1>3 DEF g

LEMMA Squashed ==
    ASSUME NEW h, Good(h), hasher \in Hashers
    PROVE  /\ Rearranged(squash_deleted(h), h)
           /\ squash_deleted(h).num_deleted = 0
           /\ squash_deleted(h).num_elements = size(h)
<1>1. CASE h.num_deleted = 0
  <2>1. squash_deleted(h) = h
    BY <1>1 DEF squash_deleted
  <2>2. size(h) = h.num_elements
    BY <1>1, SizeOf
  <2> QED
    BY <1>1, <2>1, <2>2, RearrangedSelf
<1>2. CASE h.num_deleted # 0
  <2>1. squash_deleted(h) = copy_from(h, HT_DEFAULT_STARTING_BUCKETS)
    BY <1>2 DEF squash_deleted
  <2> QED
    BY <2>1, CopyRearranges, SizesAssumption
<1> QED
  BY <1>1, <1>2

LEMMA ShrunkIs ==
    ASSUME NEW h, Good(h), shrinks(h)
    PROVE  shrunk(h) \in Sizes
<1> DEFINE T == {sz \in Sizes : /\ sz <= num_buckets(h) \div 2
                                /\ \/ sz <= HT_DEFAULT_STARTING_BUCKETS
                                   \/ size(h) * 100 >= sz * HT_EMPTY_PCT}
           d == HT_DEFAULT_STARTING_BUCKETS
<1>1. num_buckets(h) \in Sizes /\ num_buckets(h) \in Nat /\ d \in Sizes /\ d \in Nat
  BY SizesAssumption, SizeIs DEF Good, Shape
<1>2. 2 * d <= num_buckets(h)
  BY <1>1, SizesDouble DEF shrinks
<1>3. d \in T
  <2>1. d <= num_buckets(h) \div 2 /\ d <= d
    <3> HIDE DEF d
    <3> QED
      BY <1>1, <1>2
  <2> QED
    BY <1>1, <2>1
<1>4. num_buckets(h) \div 2 \in Nat /\ T \subseteq 0..num_buckets(h) \div 2
  <2>1. num_buckets(h) \div 2 \in Nat
    BY <1>1
  <2>2. \A sz \in T : sz \in Nat /\ sz <= num_buckets(h) \div 2
    BY SizeIs
  <2> HIDE DEF T
  <2> QED
    BY <2>1, <2>2
<1>5. Max(T) \in T
  <2> HIDE DEF T, d
  <2> QED
    BY <1>3, <1>4, MaxNat
<1> QED
  BY <1>5 DEF shrunk

(* A table that does not shrink is as it was.                              *)
LEMMA MaybeShrunk ==
    ASSUME NEW h, Good(h), hasher \in Hashers
    PROVE  /\ Rearranged(maybe_shrink(h), h)
           /\ ~shrinks(h) => AsItWas(maybe_shrink(h), h)
<1>1. CASE shrinks(h)
  <2>1. maybe_shrink(h) = copy_from(h, shrunk(h))
    BY <1>1 DEF maybe_shrink
  <2> QED
    BY <1>1, <2>1, CopyRearranges, ShrunkIs
<1>2. CASE ~shrinks(h)
  <2> DEFINE g == [h EXCEPT !.consider_shrink = FALSE]
  <2>1. maybe_shrink(h) = g
    BY <1>2 DEF maybe_shrink
  <2>2. h \in Tables
    BY DEF Good, Shape
  <2>3. g \in Tables /\ AsItWas(g, h)
    BY <2>2 DEF Tables, AsItWas
  <2>4. g.num_deleted > 0 => g.use_deleted
    BY <2>2 DEF Tables, Good, Counted
  <2> HIDE DEF g
  <2> QED
    BY <1>2, <2>1, <2>3, <2>4, AsItWasIs
<1> QED
  BY <1>1, <1>2

LEMMA Considered ==
    ASSUME NEW h, Good(h), hasher \in Hashers
    PROVE  /\ Rearranged(considered(h), h)
           /\ ~(h.consider_shrink /\ shrinks(h)) => AsItWas(considered(h), h)
<1>1. CASE h.consider_shrink
  BY <1>1, MaybeShrunk DEF considered
<1>2. CASE ~h.consider_shrink
  <2>1. considered(h) = h
    BY <1>2, Zenon DEF considered
  <2> QED
    BY <2>1, RearrangedSelf
<1> QED
  BY <1>1, <1>2

LEMMA ResizeTo ==
    ASSUME NEW h, Good(h), NEW delta \in Nat, Fits(h.num_elements + delta)
    PROVE  /\ resize_to(h, delta) \in Sizes
           /\ size(h) + delta < enlarge_size(resize_to(h, delta))
<1> DEFINE needed == min_buckets(h.num_elements + delta, 0)
           to == min_buckets(size(h) + delta, num_buckets(h))
<1>1. /\ size(h) \in Nat /\ size(h) <= h.num_elements /\ h.num_elements \in Nat
      /\ num_buckets(h) \in Sizes
  BY SizeOf DEF Good, Shape
<1>2. needed \in Sizes
  <2>1. h.num_elements + delta \in Nat
    BY <1>1
  <2> QED
    BY <2>1, MinBuckets
<1>3. to \in Sizes /\ size(h) + delta < enlarge_size(to)
  <2>1. size(h) + delta \in Nat /\ h.num_elements + delta \in Nat
        /\ size(h) + delta <= h.num_elements + delta
    BY <1>1
  <2>2. Fits(size(h) + delta)
    BY <2>1, FitsFewer
  <2> QED
    BY <1>1, <2>1, <2>2, MinBuckets
<1>4. resize_to(h, delta)
        = IF to < needed /\ size(h) + delta >= shrink_size(to * 2) THEN to * 2 ELSE to
  BY DEF resize_to
<1> HIDE DEF needed, to
<1>5. CASE resize_to(h, delta) = to
  BY <1>3, <1>5
<1>6. CASE to < needed /\ resize_to(h, delta) = to * 2
  <2>1. 2 * to \in Sizes /\ to \in Nat
    BY <1>2, <1>3, <1>6, SizesDouble, SizeIs
  <2>2. to * 2 = 2 * to /\ to <= 2 * to /\ 2 * to \in Nat
    BY <2>1
  <2>3. enlarge_size(to) <= enlarge_size(2 * to) /\ enlarge_size(to) \in Nat
        /\ enlarge_size(2 * to) \in Nat
    BY <2>1, <2>2, EnlargeSize
  <2>4. size(h) + delta < enlarge_size(2 * to)
    BY <1>1, <1>3, <2>3
  <2> QED
    BY <1>6, <2>1, <2>2, <2>4
<1> QED
  BY <1>4, <1>5, <1>6

(* resize_delta makes room, and keeps the pairs; where it does not resize, *)
(* it keeps their places.                                                  *)
LEMMA Resized ==
    ASSUME NEW h, Good(h), hasher \in Hashers, NEW delta \in Nat, Fits(h.num_elements + delta)
    PROVE  /\ Rearranged(resize_delta(h, delta), h)
           /\ resize_delta(h, delta).num_elements + delta
                <= enlarge_size(num_buckets(resize_delta(h, delta)))
           /\ ~did_resize(h, delta) => AsItWas(resize_delta(h, delta), h)
<1> DEFINE g == considered(h)
           f == resize_delta(h, delta)
<1>1. Rearranged(g, h) /\ (~(h.consider_shrink /\ shrinks(h)) => AsItWas(g, h))
  BY Considered
<1>2. did_resize(h, delta) <=> (h.consider_shrink /\ shrinks(h)) \/ crowded(g, delta)
  BY DEF did_resize
<1>3. f = IF crowded(g, delta) THEN copy_from(g, resize_to(g, delta)) ELSE g
  BY DEF resize_delta
<1> HIDE DEF g, f
<1>4. Good(g) /\ g.num_elements \in Nat /\ Fits(g.num_elements + delta)
  <2>1. Good(g) /\ g.num_elements <= h.num_elements
    BY <1>1 DEF Rearranged
  <2>2. g.num_elements \in Nat /\ h.num_elements \in Nat
    BY <2>1, SizeOf
  <2>3. g.num_elements + delta \in Nat /\ h.num_elements + delta \in Nat
        /\ g.num_elements + delta <= h.num_elements + delta
    BY <2>1, <2>2
  <2> QED
    BY <2>1, <2>2, <2>3, FitsFewer
<1>5. CASE crowded(g, delta)
  <2> DEFINE to == resize_to(g, delta)
  <2>1. to \in Sizes /\ size(g) + delta < enlarge_size(to)
    BY <1>4, ResizeTo
  <2> HIDE DEF to
  <2>2. f = copy_from(g, to)
    BY <1>3, <1>5 DEF to
  <2>3. Rearranged(f, g) /\ f.num_elements = size(g)
        /\ num_buckets(f) = min_buckets(size(g), to)
    BY <1>4, <2>1, <2>2, CopyRearranges, CopyIs
  <2>4. /\ size(g) \in Nat /\ to \in Nat /\ num_buckets(f) >= to /\ num_buckets(f) \in Nat
    BY <1>4, <2>1, <2>3, SizeOf, SizeIs, MinBuckets
  <2>5. enlarge_size(to) <= enlarge_size(num_buckets(f)) /\ enlarge_size(to) \in Nat
        /\ enlarge_size(num_buckets(f)) \in Nat
    BY <2>4, EnlargeSize
  <2>6. f.num_elements + delta <= enlarge_size(num_buckets(f))
    BY <2>1, <2>3, <2>4, <2>5
  <2>7. Rearranged(f, h)
    BY <1>1, <2>3, RearrangedTwice
  <2> QED
    BY <1>2, <1>5, <2>6, <2>7 DEF f
<1>6. CASE ~crowded(g, delta)
  <2>1. f = g
    BY <1>3, <1>6
  <2>2. g.num_elements + delta <= enlarge_size(num_buckets(g))
    <3> DEFINE n == g.num_elements + delta
               sz == min_buckets(n, 0)
    <3>1. n \in Nat /\ num_buckets(g) \in Nat /\ num_buckets(g) >= HT_MIN_BUCKETS
          /\ HT_MIN_BUCKETS \in Nat
      BY <1>4, SizeIs, SizesAssumption DEF Good, Shape
    <3>2. ~(n > enlarge_size(num_buckets(g))) \/ ~(sz > num_buckets(g))
      BY <1>6, <3>1 DEF crowded
    <3>3. sz \in Sizes /\ n < enlarge_size(sz)
      BY <1>4, <3>1, MinBuckets
    <3> HIDE DEF sz, n
    <3>4. sz \in Nat /\ enlarge_size(sz) \in Nat /\ enlarge_size(num_buckets(g)) \in Nat
      BY <3>1, <3>3, SizeIs, EnlargeSize
    <3>5. CASE sz <= num_buckets(g)
      <4>1. enlarge_size(sz) <= enlarge_size(num_buckets(g))
        BY <3>1, <3>4, <3>5, EnlargeSize
      <4> QED
        BY <3>1, <3>3, <3>4, <4>1 DEF n
    <3>6. CASE ~(n > enlarge_size(num_buckets(g)))
      BY <3>1, <3>4, <3>6 DEF n
    <3> QED
      BY <3>1, <3>2, <3>4, <3>5, <3>6
  <2> QED
    BY <1>1, <1>2, <1>6, <2>1, <2>2 DEF f
<1> QED
  BY <1>5, <1>6

-------------------------------------------------------------------------------
(* Insertion.                                                              *)

(* What comes of a table when a pair is inserted.                          *)
Entered(g, h, k, v) ==
    /\ Good(g) /\ contents(g) = With(contents(h), k, v)
    /\ num_buckets(g) = num_buckets(h) /\ g.num_elements <= h.num_elements + 1

LEMMA InsertNoresize ==
    ASSUME NEW h, Good(h), hasher \in Hashers, NEW k \in Keys, NEW v \in Values \union {T0},
           h.num_elements + 1 <= enlarge_size(num_buckets(h)), Fits(h.num_elements + 1)
    PROVE  Entered(insert_noresize(h, [key |-> k, val |-> v]), h, k, v)
<1> DEFINE obj == [key |-> k, val |-> v]
           pos == find_position(h, k)
<1>1. insert_noresize(h, obj)
        = IF pos.first # {} THEN h ELSE insert_at(h, obj, CHOOSE b \in pos.second : TRUE)
  BY DEF insert_noresize
<1>2. k \in AllKeys
  BY DEF AllKeys
<1>3. CASE k \in DOMAIN contents(h)
  <2>1. pos.first # {}
    BY <1>2, <1>3, Finding
  <2>2. insert_noresize(h, obj) = h
    BY <1>1, <2>1
  <2>3. contents(h) = With(contents(h), k, v)
    <3>1. contents(h) = [x \in DOMAIN contents(h) |-> contents(h)[x]]
      BY ContentsOf DEF Good
    <3> QED
      BY <1>3, <3>1 DEF With
  <2>4. h.num_elements <= h.num_elements + 1
    BY SizeOf
  <2> QED
    BY <2>2, <2>3, <2>4 DEF Entered
<1>4. CASE k \notin DOMAIN contents(h)
  <2>1. PICK c : pos = [first |-> {}, second |-> {c}] /\ Place(h, k, c)
    BY <1>2, <1>4, Finding
  <2>2. insert_noresize(h, obj) = insert_at(h, obj, c)
    BY <1>1, <2>1
  <2>3. Joins(insert_at(h, obj, c), h, k, v)
    BY <1>4, <2>1, InsertingAt
  <2> QED
    BY <2>2, <2>3 DEF Joins, Entered
<1> QED
  BY <1>3, <1>4

(* resize_delta, then insert_noresize.                                     *)
LEMMA InsertResizing ==
    ASSUME NEW h, Good(h), hasher \in Hashers, NEW k \in Keys, NEW v \in Values \union {T0},
           Fits(h.num_elements + 1),
           NEW g, g = insert_noresize(resize_delta(h, 1), [key |-> k, val |-> v])
    PROVE  /\ Good(g) /\ contents(g) = With(contents(h), k, v)
           /\ g.num_elements <= h.num_elements + 1
<1> DEFINE f == resize_delta(h, 1)
<1>1. Rearranged(f, h) /\ f.num_elements + 1 <= enlarge_size(num_buckets(f))
  BY Resized
<1> HIDE DEF f
<1>2. /\ Good(f) /\ f.num_elements \in Nat /\ h.num_elements \in Nat
      /\ f.num_elements <= h.num_elements /\ contents(f) = contents(h)
  BY <1>1, SizeOf DEF Rearranged
<1>3. Fits(f.num_elements + 1)
  <2>1. f.num_elements + 1 \in Nat /\ h.num_elements + 1 \in Nat
        /\ f.num_elements + 1 <= h.num_elements + 1
    BY <1>2
  <2> QED
    BY <2>1, FitsFewer
<1>4. Entered(g, f, k, v)
  BY <1>1, <1>2, <1>3, InsertNoresize DEF f
<1>5. g.num_elements \in Nat
  BY <1>4, SizeOf DEF Entered
<1>6. g.num_elements <= h.num_elements + 1
  BY <1>2, <1>4, <1>5 DEF Entered
<1> QED
  BY <1>2, <1>4, <1>6 DEF Entered

LEMMA PlaceStays ==
    ASSUME NEW h, NEW g, AsItWas(g, h), NEW k, NEW c, Place(h, k, c)
    PROVE  Place(g, k, c)
<1>1. Buckets(g) = Buckets(h) /\ Full(g) = Full(h) /\ num_buckets(g) = num_buckets(h)
  BY DEF AsItWas, num_buckets, Buckets, Full, test_empty, test_deleted, key
<1>2. \A b : key(g, b) = key(h, b)
  BY DEF AsItWas, key
<1>3. \A i : Probe(g, k, i) = Probe(h, k, i)
  BY <1>1 DEF Probe
<1>4. OnTheWay(g, k, c)
  BY <1>1, <1>2, <1>3 DEF Place, OnTheWay, test_empty
<1> QED
  BY <1>1, <1>4 DEF Place

(* The place found before resize_delta is the key's if it did not resize.  *)
LEMMA FindOrInsert ==
    ASSUME NEW h, Good(h), hasher \in Hashers, NEW k \in Keys, Fits(h.num_elements + 1)
    PROVE  Good(find_or_insert(h, k)) /\ contents(find_or_insert(h, k)) = With(contents(h), k, T0)
<1> DEFINE pos == find_position(h, k)
           f == resize_delta(h, 1)
           g == find_or_insert(h, k)
<1>1. k \in AllKeys /\ Marker(k) = [key |-> k, val |-> T0] /\ T0 \in Values \union {T0}
  BY DEF AllKeys, Marker
<1>2. CASE k \in DOMAIN contents(h)
  <2>1. pos.first # {}
    BY <1>1, <1>2, Finding
  <2>2. g = h
    BY <2>1 DEF find_or_insert
  <2>3. contents(h) = [x \in DOMAIN contents(h) |-> contents(h)[x]]
    BY ContentsOf DEF Good
  <2>4. contents(h) = With(contents(h), k, T0)
    BY <1>2, <2>3 DEF With
  <2> QED
    BY <2>2, <2>4
<1>3. ASSUME k \notin DOMAIN contents(h), did_resize(h, 1)
      PROVE  Good(g) /\ contents(g) = With(contents(h), k, T0)
  <2>1. pos.first = {}
    BY <1>1, <1>3, Finding
  <2>2. g = insert_noresize(f, [key |-> k, val |-> T0])
    BY <1>1, <1>3, <2>1 DEF find_or_insert
  <2> HIDE DEF g
  <2> QED
    BY <1>1, <2>2, InsertResizing
<1>4. ASSUME k \notin DOMAIN contents(h), ~did_resize(h, 1)
      PROVE  Good(g) /\ contents(g) = With(contents(h), k, T0)
  <2>1. PICK c : pos = [first |-> {}, second |-> {c}] /\ Place(h, k, c)
    BY <1>1, <1>4, Finding
  <2>2. g = insert_at(f, [key |-> k, val |-> T0], c)
    BY <1>1, <1>4, <2>1 DEF find_or_insert
  <2>3. Rearranged(f, h) /\ AsItWas(f, h) /\ f.num_elements + 1 <= enlarge_size(num_buckets(f))
    BY <1>4, Resized
  <2> HIDE DEF g, f
  <2>4. Good(f) /\ contents(f) = contents(h) /\ f.num_elements = h.num_elements
    BY <2>3 DEF Rearranged, AsItWas
  <2>5. Place(f, k, c)
    BY <2>1, <2>3, PlaceStays
  <2>6. Joins(g, f, k, T0)
    BY <1>1, <1>4, <2>2, <2>3, <2>4, <2>5, InsertingAt
  <2> QED
    BY <2>4, <2>6 DEF Joins
<1> QED
  BY <1>2, <1>3, <1>4

(* A value is written over.                                                *)
LEMMA Overwritten ==
    ASSUME NEW h, Good(h), hasher \in Hashers, NEW c \in Full(h), NEW v \in Values \union {T0},
           NEW k, k = key(h, c), NEW g, g = set_value(h, c, [key |-> k, val |-> v])
    PROVE  Good(g) /\ contents(g) = [contents(h) EXCEPT ![k] = v]
<1> DEFINE obj == [key |-> k, val |-> v]
<1>1. /\ Shape(h) /\ Counted(h) /\ Roomy(h) /\ Reached(h) /\ KeysOnce(h)
      /\ Full(h) = {b \in Buckets(h) : key(h, b) \in Keys}
  BY FullIs DEF Good
<1>2. h \in Tables /\ h.table \in Seq(Entry) /\ c \in Buckets(h) /\ k \in Keys
  BY <1>1 DEF Shape, Tables
<1>3. c \in Nat /\ c + 1 \in DOMAIN h.table /\ obj \in Entry
  BY <1>1, <1>2, BucketsAre DEF Entry, AllKeys
<1>4. g = [h EXCEPT !.table = [h.table EXCEPT ![c + 1] = obj]]
  BY <1>2 DEF set_value, Tables
<1>5. /\ g.table = [h.table EXCEPT ![c + 1] = obj]
      /\ g.consider_shrink = h.consider_shrink /\ g.use_deleted = h.use_deleted
      /\ g.num_deleted = h.num_deleted /\ g.num_elements = h.num_elements
  BY <1>2, <1>4 DEF Tables
<1>6. g.table \in Seq(Entry) /\ Len(g.table) = Len(h.table)
  <2>1. Len(h.table) \in Nat /\ h.table \in [1..Len(h.table) -> Entry]
    BY <1>2
  <2>2. g.table \in [1..Len(h.table) -> Entry]
    <3> HIDE DEF obj
    <3> QED
      BY <1>3, <1>5, <2>1
  <2> QED
    BY <2>1, <2>2
<1>7. num_buckets(g) = num_buckets(h) /\ Buckets(g) = Buckets(h)
  BY <1>6 DEF num_buckets, Buckets
<1>8. g \in Tables
  BY <1>2, <1>4, <1>6 DEF Tables
<1>9. \A b \in Buckets(h) : g.table[b + 1] = IF b = c THEN obj ELSE h.table[b + 1]
  <2> SUFFICES ASSUME NEW b \in Buckets(h)
               PROVE  g.table[b + 1] = IF b = c THEN obj ELSE h.table[b + 1]
    OBVIOUS
  <2>1. b \in Nat /\ b + 1 \in DOMAIN h.table
    BY <1>1, BucketsAre
  <2> QED
    BY <1>3, <1>5, <2>1
<1>10. \A b \in Buckets(h) : key(g, b) = key(h, b)
  BY <1>9 DEF key
<1>11. Good(g) /\ Full(g) = Full(h)
  BY <1>1, <1>5, <1>7, <1>8, <1>10, SameKeys DEF Counted
<1>12. contents(g) = [contents(h) EXCEPT ![k] = v]
  <2> DEFINE m == [contents(h) EXCEPT ![k] = v]
  <2>1. DOMAIN contents(h) = {key(h, b) : b \in Full(h)}
        /\ \A b \in Full(h) : contents(h)[key(h, b)] = h.table[b + 1].val
    BY <1>1, ContentsOf
  <2>2. m = [x \in DOMAIN m |-> m[x]] /\ DOMAIN m = DOMAIN contents(h)
    OBVIOUS
  <2>3. DOMAIN m = {key(g, b) : b \in Full(g)}
    BY <1>1, <1>10, <1>11, <2>1
  <2>4. ASSUME NEW b \in Full(g) PROVE m[key(g, b)] = g.table[b + 1].val
    <3>1. b \in Full(h) /\ b \in Buckets(h) /\ key(g, b) = key(h, b) /\ key(h, b) \in DOMAIN m
      BY <1>1, <1>10, <1>11, <2>1
    <3>2. CASE b = c
      BY <1>9, <3>1, <3>2
    <3>3. CASE b # c
      <4>1. key(h, b) # k
        BY <1>1, <3>1, <3>3 DEF KeysOnce
      <4> QED
        BY <1>9, <2>1, <3>1, <3>3, <4>1
    <3> QED
      BY <3>2, <3>3
  <2> HIDE DEF m
  <2>5. contents(g) = m
    BY <1>11, <2>2, <2>3, <2>4, ContentsAre DEF Good
  <2> QED
    BY <2>5 DEF m
<1> QED
  BY <1>11, <1>12

LEMMA Assigned ==
    ASSUME NEW h, Good(h), hasher \in Hashers, NEW k \in Keys, NEW v \in Values,
           Fits(h.num_elements + 1)
    PROVE  /\ Good(assigned(h, k, v))
           /\ contents(assigned(h, k, v)) = [With(contents(h), k, T0) EXCEPT ![k] = v]
<1> DEFINE g == find_or_insert(h, k)
<1>1. Good(g) /\ contents(g) = With(contents(h), k, T0) /\ k \in AllKeys
  BY FindOrInsert DEF AllKeys
<1>2. assigned(h, k, v)
        = set_value(g, CHOOSE b \in find_position(g, k).first : TRUE, [key |-> k, val |-> v])
  BY DEF assigned
<1> HIDE DEF g
<1>3. k \in DOMAIN contents(g)
  BY <1>1 DEF With
<1>4. PICK c \in Full(g) : key(g, c) = k /\ find_position(g, k) = [first |-> {c}, second |-> {}]
  BY <1>1, <1>3, Finding
<1>5. assigned(h, k, v) = set_value(g, c, [key |-> k, val |-> v])
  BY <1>2, <1>4
<1> QED
  BY <1>1, <1>4, <1>5, Overwritten

-------------------------------------------------------------------------------
(* Insertion of a range.                                                   *)

(* The map with the first i pairs of the range.                            *)
JoinedSome(m, range, i) ==
    [x \in DOMAIN m \union {range[j].key : j \in 1..i} |->
        IF x \in DOMAIN m THEN m[x] ELSE range[dictionary!First(range, x)].val]

LEMMA JoinedGrows ==
    ASSUME NEW m, NEW range \in Seq(Pairs), NEW i \in 1..Len(range)
    PROVE  JoinedSome(m, range, i) = With(JoinedSome(m, range, i - 1), range[i].key, range[i].val)
<1> DEFINE k == range[i].key
           p == JoinedSome(m, range, i - 1)
<1>1. i \in Nat /\ \A j : j \in 1..i <=> j \in 1..i - 1 \/ j = i
  OBVIOUS
<1>2. DOMAIN p = DOMAIN m \union {range[j].key : j \in 1..i - 1}
  BY DEF JoinedSome
<1>3. {range[j].key : j \in 1..i} = {range[j].key : j \in 1..i - 1} \union {k}
  BY <1>1
<1>4. ASSUME k \notin DOMAIN p PROVE dictionary!First(range, k) = i
  <2>1. \A j \in 1..i - 1 : range[j].key # k
    BY <1>2, <1>4
  <2>2. DOMAIN range = 1..Len(range) /\ i \in DOMAIN range
    OBVIOUS
  <2>3. ASSUME NEW j \in DOMAIN range, range[j].key = k, \A l \in 1..j - 1 : range[l].key # k
        PROVE  j = i
    <3>1. j \in Nat /\ j >= 1 /\ i >= 1
      BY <2>2
    <3>2. ~(j < i)
      BY <2>1, <2>3, <3>1
    <3>3. ~(i < j)
      BY <2>3, <3>1
    <3> QED
      BY <3>1, <3>2, <3>3
  <2> QED
    BY <2>1, <2>2, <2>3 DEF dictionary!First
<1>5. ASSUME NEW x \in DOMAIN m \union {range[j].key : j \in 1..i}
      PROVE  (IF x \in DOMAIN m THEN m[x] ELSE range[dictionary!First(range, x)].val)
               = IF x \in DOMAIN p THEN p[x] ELSE range[i].val
  <2>1. CASE x \in DOMAIN p
    BY <1>2, <2>1 DEF JoinedSome
  <2>2. CASE x \notin DOMAIN p
    <3>1. x = k /\ x \notin DOMAIN m
      BY <1>2, <1>3, <1>5, <2>2
    <3> QED
      BY <1>4, <2>2, <3>1
  <2> QED
    BY <2>1, <2>2
<1>6. DOMAIN p \union {k} = DOMAIN m \union {range[j].key : j \in 1..i}
  BY <1>2, <1>3
<1> HIDE DEF p, k
<1>7. JoinedSome(m, range, i)
        = [x \in DOMAIN m \union {range[j].key : j \in 1..i} |->
              IF x \in DOMAIN p THEN p[x] ELSE range[i].val]
  BY <1>5 DEF JoinedSome
<1> QED
  BY <1>6, <1>7 DEF With, p, k

LEMMA JoinedEnds ==
    ASSUME NEW m, m = [x \in DOMAIN m |-> m[x]], NEW range \in Seq(Pairs)
    PROVE  /\ JoinedSome(m, range, 0) = m
           /\ JoinedSome(m, range, Len(range)) = dictionary!Joined(m, range)
<1>1. JoinedSome(m, range, 0) = m
  <2>1. {range[j].key : j \in 1..0} = {}
    OBVIOUS
  <2>2. DOMAIN m \union {range[j].key : j \in 1..0} = DOMAIN m
    BY <2>1
  <2> QED
    BY <2>2 DEF JoinedSome
<1>2. DOMAIN range = 1..Len(range)
  OBVIOUS
<1> QED
  BY <1>1, <1>2 DEF JoinedSome, dictionary!Joined

(* An insertion takes one of the places that are needed.                   *)
LEMMA OneLess ==
    ASSUME NEW len \in Nat, NEW i \in 1..len, NEW a \in Nat, NEW b \in Nat, b <= a + 1
    PROVE  /\ b + (len - i) \in Nat /\ a + (len - (i - 1)) \in Nat
           /\ b + (len - i) <= a + (len - (i - 1))
OBVIOUS

(* The table when i pairs of the range are inserted and there is still     *)
(* room for the others.                                                    *)
EnteredSome(h, range, i, x) ==
    /\ Good(x) /\ contents(x) = JoinedSome(contents(h), range, i)
    /\ x.num_elements + (Len(range) - i) <= enlarge_size(num_buckets(x))
    /\ Fits(x.num_elements + (Len(range) - i))

LEMMA InsertRounds ==
    ASSUME NEW h, hasher \in Hashers, NEW range \in Seq(Pairs), NEW i \in 1..Len(range),
           NEW x, EnteredSome(h, range, i - 1, x)
    PROVE  EnteredSome(h, range, i, insert_noresize(x, range[i]))
<1> DEFINE k == range[i].key
           v == range[i].val
           y == insert_noresize(x, range[i])
<1>1. range[i] = [key |-> k, val |-> v] /\ k \in Keys /\ v \in Values \union {T0}
  <2>1. range[i] \in Pairs
    OBVIOUS
  <2> QED
    BY <2>1 DEF Pairs
<1>2. /\ Good(x) /\ contents(x) = JoinedSome(contents(h), range, i - 1)
      /\ x.num_elements + (Len(range) - (i - 1)) <= enlarge_size(num_buckets(x))
      /\ Fits(x.num_elements + (Len(range) - (i - 1)))
  BY DEF EnteredSome
<1>3. /\ x.num_elements \in Nat /\ enlarge_size(num_buckets(x)) \in Nat
      /\ Len(range) \in Nat /\ i \in Nat /\ i >= 1 /\ i <= Len(range)
  <2>1. num_buckets(x) \in Nat
    BY <1>2, BucketsAre DEF Good
  <2>2. enlarge_size(num_buckets(x)) \in Nat
    BY <2>1, EnlargeSize
  <2>3. x.num_elements \in Nat
    BY <1>2, SizeOf
  <2>4. Len(range) \in Nat /\ i \in Nat /\ i >= 1 /\ i <= Len(range)
    OBVIOUS
  <2> QED
    BY <2>2, <2>3, <2>4
<1>4. x.num_elements + 1 <= enlarge_size(num_buckets(x)) /\ Fits(x.num_elements + 1)
  <2>1. /\ x.num_elements + 1 \in Nat /\ x.num_elements + (Len(range) - (i - 1)) \in Nat
        /\ x.num_elements + 1 <= x.num_elements + (Len(range) - (i - 1))
    BY <1>3
  <2> QED
    BY <1>2, <1>3, <2>1, FitsFewer
<1>5. Entered(y, x, k, v)
  <2> HIDE DEF k, v
  <2> QED
    BY <1>1, <1>2, <1>4, InsertNoresize
<1>6. contents(y) = JoinedSome(contents(h), range, i)
  BY <1>2, <1>5, JoinedGrows DEF Entered
<1> HIDE DEF y
<1>7. Good(y) /\ y.num_elements <= x.num_elements + 1 /\ num_buckets(y) = num_buckets(x)
      /\ y.num_elements \in Nat
  BY <1>5, SizeOf DEF Entered
<1>8. /\ y.num_elements + (Len(range) - i) \in Nat
      /\ x.num_elements + (Len(range) - (i - 1)) \in Nat
      /\ y.num_elements + (Len(range) - i) <= x.num_elements + (Len(range) - (i - 1))
  BY <1>3, <1>7, OneLess
<1>9. y.num_elements + (Len(range) - i) <= enlarge_size(num_buckets(y))
      /\ Fits(y.num_elements + (Len(range) - i))
  <2> DEFINE p == y.num_elements + (Len(range) - i)
             q == x.num_elements + (Len(range) - (i - 1))
             e == enlarge_size(num_buckets(y))
  <2>1. p \in Nat /\ q \in Nat /\ p <= q /\ Fits(q) /\ e \in Nat /\ q <= e
    BY <1>2, <1>3, <1>7, <1>8
  <2> HIDE DEF p, q, e
  <2>2. p <= e /\ Fits(p)
    BY <2>1, FitsFewer
  <2> QED
    BY <2>2 DEF p, e
<1>10. EnteredSome(h, range, i, y)
  BY <1>6, <1>7, <1>9 DEF EnteredSome
<1> QED
  BY <1>10 DEF y

(* insert of a range makes the room first.                                 *)
LEMMA RangeInserted ==
    ASSUME NEW h, Good(h), hasher \in Hashers, NEW range \in Seq(Pairs),
           Fits(h.num_elements + Len(range))
    PROVE  /\ Good(insert_range(h, range))
           /\ contents(insert_range(h, range)) = dictionary!Joined(contents(h), range)
<1> DEFINE k == Len(range)
           a == resize_delta(h, k)
           S == [i \in 0..k |-> {x \in Tables : EnteredSome(h, range, i, x)}]
           g == [i \in 1..k |-> [x \in S[i - 1] |-> insert_noresize(x, range[i])]]
           Loop(f) == f = [i \in 0..k |->
                             IF i = 0 THEN a ELSE insert_noresize(f[i - 1], range[i])]
<1>1. k \in Nat /\ k \in 0..k /\ 0 \in 0..k
  OBVIOUS
<1>2. /\ contents(h) = [x \in DOMAIN contents(h) |-> contents(h)[x]]
      /\ JoinedSome(contents(h), range, 0) = contents(h)
      /\ JoinedSome(contents(h), range, k) = dictionary!Joined(contents(h), range)
  <2>1. contents(h) = [x \in DOMAIN contents(h) |-> contents(h)[x]]
    BY ContentsOf DEF Good
  <2> QED
    BY <2>1, JoinedEnds
<1>3. a \in S[0]
  <2>1. /\ Rearranged(a, h) /\ a.num_elements + k <= enlarge_size(num_buckets(a))
    BY <1>1, Resized
  <2> HIDE DEF a
  <2>2. /\ Good(a) /\ contents(a) = contents(h) /\ a.num_elements <= h.num_elements
        /\ a.num_elements \in Nat /\ h.num_elements \in Nat
    BY <2>1, SizeOf DEF Rearranged
  <2>3. /\ a.num_elements + k \in Nat /\ h.num_elements + k \in Nat
        /\ a.num_elements + k <= h.num_elements + k
    BY <1>1, <2>2
  <2>4. Fits(a.num_elements + k)
    BY <2>3, FitsFewer
  <2>5. k - 0 = k
    BY <1>1
  <2>6. EnteredSome(h, range, 0, a) /\ a \in Tables
    BY <1>2, <2>1, <2>2, <2>4, <2>5 DEF EnteredSome, Good, Shape
  <2> QED
    BY <1>1, <2>6
<1>4. ASSUME NEW i \in 1..k, NEW x \in S[i - 1]
      PROVE  insert_noresize(x, range[i]) \in S[i]
  <2>1. i - 1 \in 0..k /\ i \in 0..k
    BY <1>1
  <2>2. EnteredSome(h, range, i - 1, x)
    BY <2>1
  <2>3. EnteredSome(h, range, i, insert_noresize(x, range[i]))
    BY <2>2, InsertRounds
  <2> QED
    BY <2>1, <2>3 DEF EnteredSome, Good, Shape
<1>5. \E f : Loop(f)
  <2>1. \A i \in 1..k : \A x \in S[i - 1] : g[i][x] \in S[i]
    <3> SUFFICES ASSUME NEW i \in 1..k, NEW x \in S[i - 1] PROVE g[i][x] \in S[i]
      OBVIOUS
    <3> HIDE DEF S
    <3> QED
      BY <1>4
  <2> HIDE DEF S, g, a, k
  <2>2. PICK f : /\ f = [i \in 0..k |-> f[i]] /\ Follows(f, k, a, g)
                 /\ \A i \in 0..k : f[i] \in S[i]
    BY <1>1, <1>3, <2>1, LoopExists
  <2>3. ASSUME NEW i \in 0..k
        PROVE  f[i] = IF i = 0 THEN a ELSE insert_noresize(f[i - 1], range[i])
    <3>1. CASE i = 0
      BY <2>2, <3>1 DEF Follows
    <3>2. CASE i # 0
      <4>1. i \in 1..k /\ i - 1 \in 0..k
        BY <1>1, <3>2
      <4>2. f[i] = g[i][f[i - 1]] /\ f[i - 1] \in S[i - 1]
        BY <2>2, <4>1 DEF Follows
      <4> QED
        BY <3>2, <4>1, <4>2 DEF g
    <3> QED
      BY <3>1, <3>2
  <2>4. Loop(f)
    BY <2>2, <2>3
  <2> QED
    BY <2>4
<1> DEFINE F == CHOOSE f : Loop(f)
<1>6. Loop(F)
  <2> HIDE DEF Loop
  <2> QED
    BY <1>5
<1>7. insert_range(h, range) = F[k]
  BY DEF insert_range
<1> HIDE DEF F
<1>8. F[k] \in S[k]
  <2>1. F[0] = a /\ \A i \in 1..k : F[i] = insert_noresize(F[i - 1], range[i])
    <3>1. ASSUME NEW i \in 1..k PROVE i \in 0..k /\ i # 0
      BY <1>1
    <3> HIDE DEF a, k
    <3> QED
      BY <1>1, <1>6, <3>1
  <2>2. ASSUME NEW i \in 1..k, F[i - 1] \in S[i - 1] PROVE F[i] \in S[i]
    <3> HIDE DEF S
    <3> QED
      BY <1>4, <2>1, <2>2
  <2> HIDE DEF S, a, k
  <2>3. F[0] \in S[0]
    BY <1>3, <2>1
  <2>4. \A i \in 0..k : F[i] \in S[i]
    BY <1>1, <2>2, <2>3, LoopStays
  <2> QED
    BY <1>1, <2>4
<1>9. EnteredSome(h, range, k, F[k])
  BY <1>1, <1>8
<1> QED
  BY <1>2, <1>7, <1>9 DEF EnteredSome

(* The table when i pairs are inserted and the bound has room for the      *)
(* others.                                                                 *)
JoinedSoFar(h, range, i, x) ==
    /\ Good(x) /\ contents(x) = JoinedSome(contents(h), range, i)
    /\ Fits(x.num_elements + (Len(range) - i))

LEMMA JoinRounds ==
    ASSUME NEW h, hasher \in Hashers, NEW range \in Seq(Pairs), NEW i \in 1..Len(range),
           NEW x, JoinedSoFar(h, range, i - 1, x)
    PROVE  JoinedSoFar(h, range, i, insert_noresize(resize_delta(x, 1), range[i]))
<1> DEFINE k == range[i].key
           v == range[i].val
           y == insert_noresize(resize_delta(x, 1), range[i])
<1>1. range[i] = [key |-> k, val |-> v] /\ k \in Keys /\ v \in Values \union {T0}
  <2>1. range[i] \in Pairs
    OBVIOUS
  <2> QED
    BY <2>1 DEF Pairs
<1>2. /\ Good(x) /\ contents(x) = JoinedSome(contents(h), range, i - 1)
      /\ Fits(x.num_elements + (Len(range) - (i - 1)))
      /\ x.num_elements \in Nat /\ Len(range) \in Nat /\ i \in Nat /\ i >= 1 /\ i <= Len(range)
  <2>1. Len(range) \in Nat
    OBVIOUS
  <2> QED
    BY <2>1, SizeOf DEF JoinedSoFar
<1>3. Fits(x.num_elements + 1)
  <2>1. /\ x.num_elements + 1 \in Nat /\ x.num_elements + (Len(range) - (i - 1)) \in Nat
        /\ x.num_elements + 1 <= x.num_elements + (Len(range) - (i - 1))
    BY <1>2
  <2> QED
    BY <1>2, <2>1, FitsFewer
<1>4. y = insert_noresize(resize_delta(x, 1), [key |-> k, val |-> v])
  BY <1>1
<1> HIDE DEF y
<1>5. /\ Good(y) /\ contents(y) = With(contents(x), k, v)
      /\ y.num_elements <= x.num_elements + 1
  <2> HIDE DEF k, v
  <2> QED
    BY <1>1, <1>2, <1>3, <1>4, InsertResizing
<1>6. contents(y) = JoinedSome(contents(h), range, i)
  BY <1>2, <1>5, JoinedGrows
<1>7. y.num_elements \in Nat
  BY <1>5, SizeOf
<1>8. /\ y.num_elements + (Len(range) - i) \in Nat
      /\ x.num_elements + (Len(range) - (i - 1)) \in Nat
      /\ y.num_elements + (Len(range) - i) <= x.num_elements + (Len(range) - (i - 1))
  BY <1>2, <1>5, <1>7, OneLess
<1>9. Fits(y.num_elements + (Len(range) - i))
  <2> DEFINE p == y.num_elements + (Len(range) - i)
             q == x.num_elements + (Len(range) - (i - 1))
  <2>1. p \in Nat /\ q \in Nat /\ p <= q /\ Fits(q)
    BY <1>2, <1>8
  <2> HIDE DEF p, q
  <2>2. Fits(p)
    BY <2>1, FitsFewer
  <2> QED
    BY <2>2 DEF p
<1>10. JoinedSoFar(h, range, i, y)
  BY <1>5, <1>6, <1>9 DEF JoinedSoFar
<1> QED
  BY <1>10 DEF y

(* insert pair by pair makes it for one at a time.                         *)
LEMMA EachInserted ==
    ASSUME NEW h, Good(h), hasher \in Hashers, NEW range \in Seq(Pairs),
           Fits(h.num_elements + Len(range))
    PROVE  /\ Good(insert_each(h, range))
           /\ contents(insert_each(h, range)) = dictionary!Joined(contents(h), range)
<1> DEFINE k == Len(range)
           a == h
           S == [i \in 0..k |-> {x \in Tables : JoinedSoFar(h, range, i, x)}]
           g == [i \in 1..k |-> [x \in S[i - 1] |-> insert_noresize(resize_delta(x, 1), range[i])]]
           Loop(f) == f = [i \in 0..k |->
                 IF i = 0 THEN a ELSE insert_noresize(resize_delta(f[i - 1], 1), range[i])]
<1>1. k \in Nat /\ k \in 0..k /\ 0 \in 0..k
  OBVIOUS
<1>2. /\ contents(h) = [x \in DOMAIN contents(h) |-> contents(h)[x]]
      /\ JoinedSome(contents(h), range, 0) = contents(h)
      /\ JoinedSome(contents(h), range, k) = dictionary!Joined(contents(h), range)
  <2>1. contents(h) = [x \in DOMAIN contents(h) |-> contents(h)[x]]
    BY ContentsOf DEF Good
  <2> QED
    BY <2>1, JoinedEnds
<1>3. a \in S[0]
  <2>1. k - 0 = k /\ h \in Tables
    BY <1>1 DEF Good, Shape
  <2>2. JoinedSoFar(h, range, 0, h)
    BY <1>2, <2>1 DEF JoinedSoFar
  <2> QED
    BY <1>1, <2>1, <2>2
<1>4. ASSUME NEW i \in 1..k, NEW x \in S[i - 1]
      PROVE  insert_noresize(resize_delta(x, 1), range[i]) \in S[i]
  <2>1. i - 1 \in 0..k /\ i \in 0..k
    BY <1>1
  <2>2. JoinedSoFar(h, range, i - 1, x)
    BY <2>1
  <2>3. JoinedSoFar(h, range, i, insert_noresize(resize_delta(x, 1), range[i]))
    BY <2>2, JoinRounds
  <2> QED
    BY <2>1, <2>3 DEF JoinedSoFar, Good, Shape
<1>5. \E f : Loop(f)
  <2>1. \A i \in 1..k : \A x \in S[i - 1] : g[i][x] \in S[i]
    <3> SUFFICES ASSUME NEW i \in 1..k, NEW x \in S[i - 1] PROVE g[i][x] \in S[i]
      OBVIOUS
    <3> HIDE DEF S
    <3> QED
      BY <1>4
  <2> HIDE DEF S, g, a, k
  <2>2. PICK f : /\ f = [i \in 0..k |-> f[i]] /\ Follows(f, k, a, g)
                 /\ \A i \in 0..k : f[i] \in S[i]
    BY <1>1, <1>3, <2>1, LoopExists
  <2>3. ASSUME NEW i \in 0..k
        PROVE  f[i] = IF i = 0 THEN a ELSE insert_noresize(resize_delta(f[i - 1], 1), range[i])
    <3>1. CASE i = 0
      BY <2>2, <3>1 DEF Follows
    <3>2. CASE i # 0
      <4>1. i \in 1..k /\ i - 1 \in 0..k
        BY <1>1, <3>2
      <4>2. f[i] = g[i][f[i - 1]] /\ f[i - 1] \in S[i - 1]
        BY <2>2, <4>1 DEF Follows
      <4> QED
        BY <3>2, <4>1, <4>2 DEF g
    <3> QED
      BY <3>1, <3>2
  <2>4. Loop(f)
    BY <2>2, <2>3
  <2> QED
    BY <2>4
<1> DEFINE F == CHOOSE f : Loop(f)
<1>6. Loop(F)
  <2> HIDE DEF Loop
  <2> QED
    BY <1>5
<1>7. insert_each(h, range) = F[k]
  BY DEF insert_each
<1> HIDE DEF F
<1>8. F[k] \in S[k]
  <2>1. F[0] = a /\ \A i \in 1..k : F[i] = insert_noresize(resize_delta(F[i - 1], 1), range[i])
    <3>1. ASSUME NEW i \in 1..k PROVE i \in 0..k /\ i # 0
      BY <1>1
    <3> HIDE DEF a, k
    <3> QED
      BY <1>1, <1>6, <3>1
  <2>2. ASSUME NEW i \in 1..k, F[i - 1] \in S[i - 1] PROVE F[i] \in S[i]
    <3> HIDE DEF S
    <3> QED
      BY <1>4, <2>1, <2>2
  <2> HIDE DEF S, a, k
  <2>3. F[0] \in S[0]
    BY <1>3, <2>1
  <2>4. \A i \in 0..k : F[i] \in S[i]
    BY <1>1, <2>2, <2>3, LoopStays
  <2> QED
    BY <1>1, <2>4
<1>9. JoinedSoFar(h, range, k, F[k])
  BY <1>1, <1>8
<1> QED
  BY <1>2, <1>7, <1>9 DEF JoinedSoFar

-------------------------------------------------------------------------------
(* Deletion.                                                               *)

Without(m, ks) == [x \in DOMAIN m \ ks |-> m[x]]

LEMMA Deleted ==
    ASSUME NEW h, Good(h), hasher \in Hashers, h.use_deleted, NEW bs \in SUBSET Full(h),
           NEW g, g = set_deleted(h, bs)
    PROVE  Good(g) /\ contents(g) = Without(contents(h), {key(h, b) : b \in bs})
<1>1. /\ Shape(h) /\ Counted(h) /\ Roomy(h) /\ Reached(h) /\ KeysOnce(h)
      /\ Full(h) = {b \in Buckets(h) : key(h, b) \in Keys}
      /\ IsFiniteSet(Erased(h)) /\ IsFiniteSet(Full(h))
  BY FullIs DEF Good
<1>2. h \in Tables /\ h.table \in Seq(Entry) /\ DOMAIN h.table = 1..Len(h.table)
      /\ Len(h.table) \in Nat /\ h.num_deleted \in Nat
  BY <1>1 DEF Shape, Tables
<1>3. IsFiniteSet(bs) /\ Cardinality(bs) \in Nat
  BY <1>1, FS_Subset, FS_CardinalityType
<1>4. /\ g.table = [i \in 1..Len(h.table) |->
                       IF i - 1 \in bs THEN Marker(DeletedKey) ELSE h.table[i]]
      /\ g.num_deleted = h.num_deleted + Cardinality(bs)
      /\ g.num_elements = h.num_elements
      /\ g.consider_shrink = TRUE /\ g.use_deleted = h.use_deleted
      /\ g = [table |-> g.table, num_elements |-> g.num_elements, num_deleted |-> g.num_deleted,
              consider_shrink |-> g.consider_shrink, use_deleted |-> g.use_deleted]
  BY <1>2 DEF set_deleted, Tables
<1>5. g.table \in Seq(Entry) /\ Len(g.table) = Len(h.table)
  <2>1. Marker(DeletedKey) \in Entry
    BY DEF Marker, Entry, AllKeys
  <2>2. \A i \in 1..Len(h.table) : h.table[i] \in Entry
    BY <1>2
  <2>3. g.table \in [1..Len(h.table) -> Entry]
    BY <1>4, <2>1, <2>2
  <2> QED
    BY <1>2, <2>3
<1>6. g \in Tables
  <2>1. g.consider_shrink \in BOOLEAN /\ g.use_deleted \in BOOLEAN
    <3>1. h.use_deleted \in BOOLEAN
      BY <1>2 DEF Tables
    <3>2. g.consider_shrink = TRUE /\ g.use_deleted = h.use_deleted
      BY <1>4, Zenon
    <3> QED
      BY <3>1, <3>2, Zenon
  <2>2. g.num_elements \in Nat /\ g.num_deleted \in Nat
    BY <1>2, <1>3, <1>4 DEF Tables
  <2>3. g = [table |-> g.table, num_elements |-> g.num_elements, num_deleted |-> g.num_deleted,
             consider_shrink |-> g.consider_shrink, use_deleted |-> g.use_deleted]
    BY <1>4
  <2> QED
    BY <1>5, <2>1, <2>2, <2>3 DEF Tables
<1>7. num_buckets(g) = num_buckets(h) /\ Buckets(g) = Buckets(h) /\ Shape(g)
  BY <1>1, <1>5, <1>6 DEF num_buckets, Buckets, Shape
<1>8. \A b \in Buckets(h) : g.table[b + 1] = IF b \in bs THEN Marker(DeletedKey) ELSE h.table[b + 1]
  <2> SUFFICES ASSUME NEW b \in Buckets(h)
               PROVE  g.table[b + 1] = IF b \in bs THEN Marker(DeletedKey) ELSE h.table[b + 1]
    OBVIOUS
  <2>1. b \in Nat /\ b + 1 \in 1..Len(h.table) /\ (b + 1) - 1 = b
    BY <1>1, <1>2, BucketsAre
  <2> QED
    BY <1>4, <2>1
<1>9. \A b \in Buckets(h) : key(g, b) = IF b \in bs THEN DeletedKey ELSE key(h, b)
  BY <1>8 DEF key, Marker
<1>10. \A b \in Buckets(h) : test_empty(g, b) <=> test_empty(h, b)
  BY <1>1, <1>9, KeysAssumption DEF test_empty
<1>11. Counted(g)
  <2>1. Erased(g) = Erased(h) \union bs /\ Erased(h) \cap bs = {}
    BY <1>1, <1>7, <1>9, KeysAssumption DEF Erased
  <2>2. Cardinality(Erased(g)) = Cardinality(Erased(h)) + Cardinality(bs)
    <3>1. Cardinality(Erased(g)) = Cardinality(Erased(h)) + Cardinality(bs) - 0
      <4>1. Cardinality(Erased(h) \union bs)
              = Cardinality(Erased(h)) + Cardinality(bs) - Cardinality(Erased(h) \cap bs)
        BY <1>1, <1>3, FS_Union
      <4>2. Cardinality(Erased(h) \cap bs) = 0
        BY <2>1, FS_EmptySet
      <4> QED
        BY <2>1, <4>1, <4>2
    <3>2. Cardinality(Erased(h)) \in Nat
      BY <1>1, FS_CardinalityType
    <3> QED
      BY <1>3, <3>1, <3>2
  <2>3. Used(g) = Used(h)
    BY <1>7, <1>10 DEF Used
  <2>4. g.use_deleted
    BY <1>4, Zenon
  <2> QED
    BY <1>1, <1>4, <2>2, <2>3, <2>4 DEF Counted
<1>12. Full(g) = Full(h) \ bs
  <2>1. Full(g) = {b \in Buckets(g) : key(g, b) \in Keys}
    BY <1>7, <1>11, FullIs
  <2> QED
    BY <1>1, <1>7, <1>9, <2>1, KeysAssumption
<1>13. \A b \in Full(g) : b \in Full(h) /\ key(g, b) = key(h, b) /\ g.table[b + 1] = h.table[b + 1]
  BY <1>1, <1>8, <1>9, <1>12
<1>14. Roomy(g)
  BY <1>1, <1>4, <1>7 DEF Roomy
<1>15. KeysOnce(g)
  BY <1>1, <1>13 DEF KeysOnce
<1>16. Reached(g)
  <2> SUFFICES ASSUME NEW b \in Full(g) PROVE OnTheWay(g, key(g, b), b)
    BY DEF Reached
  <2> DEFINE x == key(h, b)
  <2>1. b \in Full(h) /\ key(g, b) = x
    BY <1>13
  <2>2. PICK i \in Buckets(h) : /\ Probe(h, x, i) = b
                                /\ \A j \in 0..i - 1 : ~test_empty(h, Probe(h, x, j))
    BY <1>1, <2>1 DEF Reached, OnTheWay
  <2>3. \A j : Probe(g, x, j) = Probe(h, x, j)
    BY <1>7 DEF Probe
  <2>4. ASSUME NEW j \in 0..i - 1 PROVE ~test_empty(g, Probe(h, x, j))
    <3>1. i \in Nat /\ j \in Nat /\ x \in AllKeys
      BY <1>1, <2>1, BucketsAre DEF AllKeys
    <3>2. Probe(h, x, j) \in Buckets(h)
      BY <1>1, <3>1, ProbesAre
    <3> QED
      BY <1>10, <2>2, <3>2
  <2> QED
    BY <1>7, <2>1, <2>2, <2>3, <2>4 DEF OnTheWay
<1>17. contents(g) = Without(contents(h), {key(h, b) : b \in bs})
  <2> DEFINE m == Without(contents(h), {key(h, b) : b \in bs})
  <2>1. DOMAIN contents(h) = {key(h, b) : b \in Full(h)}
        /\ \A b \in Full(h) : contents(h)[key(h, b)] = h.table[b + 1].val
    BY <1>1, ContentsOf
  <2>2. m = [x \in DOMAIN m |-> m[x]]
        /\ DOMAIN m = {key(h, b) : b \in Full(h)} \ {key(h, b) : b \in bs}
        /\ \A x \in DOMAIN m : m[x] = contents(h)[x]
    BY <2>1 DEF Without
  <2> HIDE DEF m
  <2>3. {key(h, b) : b \in Full(h)} \ {key(h, b) : b \in bs} = {key(h, b) : b \in Full(h) \ bs}
    BY <1>1 DEF KeysOnce
  <2>4. DOMAIN m = {key(g, b) : b \in Full(g)}
    <3>1. {key(g, b) : b \in Full(g)} = {key(h, b) : b \in Full(g)}
      BY <1>13
    <3> QED
      BY <1>12, <2>2, <2>3, <3>1, Zenon
  <2>5. ASSUME NEW b \in Full(g) PROVE m[key(g, b)] = g.table[b + 1].val
    <3>1. b \in Full(h) /\ key(g, b) = key(h, b) /\ g.table[b + 1] = h.table[b + 1]
      BY <1>13
    <3>2. key(h, b) \in DOMAIN m
      BY <2>4, <3>1
    <3> QED
      BY <2>1, <2>2, <3>1, <3>2
  <2>6. contents(g) = m
    BY <1>15, <2>2, <2>4, <2>5, ContentsAre
  <2> QED
    BY <2>6 DEF m
<1> QED
  BY <1>7, <1>11, <1>14, <1>15, <1>16, <1>17 DEF Good

-------------------------------------------------------------------------------
(* New tables, and what goes on with the deleted key.                      *)

LEMMA FitsKeys ==
    /\ Cardinality(Keys) \in Nat /\ Fits(Cardinality(Keys)) /\ Fits(0)
    /\ min_buckets(0, 0) \in Sizes
<1>1. Cardinality(Keys) \in Nat /\ Fits(Cardinality(Keys))
  BY KeysAssumption, SizesAssumption, FS_CardinalityType
<1>2. Fits(0)
  BY <1>1, FitsFewer
<1> QED
  BY <1>1, <1>2, MinBuckets

LEMMA NewTableIs ==
    ASSUME NEW expected \in Expected
    PROVE  /\ Good(NewTable(expected)) /\ contents(NewTable(expected)) = NoPairs
           /\ NewTable(expected).num_elements = 0
           /\ reset_thresholds(NewTable(expected)) = NewTable(expected)
<1> DEFINE g == NewTable(expected)
           n == IF expected = 0 THEN HT_DEFAULT_STARTING_BUCKETS ELSE min_buckets(expected, 0)
<1>1. n \in Sizes
  <2>1. expected = 0 \/ expected = Cardinality(Keys)
    BY DEF Expected
  <2> QED
    BY <2>1, FitsKeys, MinBuckets, SizesAssumption
<1> HIDE DEF n
<1>2. g = [table |-> [i \in 1..n |-> Marker(EmptyKey)], num_elements |-> 0, num_deleted |-> 0,
           consider_shrink |-> FALSE, use_deleted |-> FALSE]
  BY DEF NewTable, n
<1>3. [i \in 1..n |-> Marker(EmptyKey)] \in Seq(Entry)
  <2>1. n \in Nat /\ Marker(EmptyKey) \in Entry
    BY <1>1, SizeIs DEF Marker, Entry, AllKeys
  <2>2. [i \in 1..n |-> Marker(EmptyKey)] \in [1..n -> Entry]
    BY <2>1
  <2> QED
    BY <2>1, <2>2
<1>4. g \in Tables
  BY <1>2, <1>3 DEF Tables
<1> HIDE DEF g
<1>5. g.table = [i \in 1..n |-> Marker(EmptyKey)] /\ g.num_elements = 0 /\ g.num_deleted = 0
  BY <1>2
<1>6. reset_thresholds(g) = g
  <2>1. g.consider_shrink = FALSE
    BY <1>2, Zenon
  <2> QED
    BY <1>4, <2>1 DEF reset_thresholds, Tables
<1>7. Good(g) /\ contents(g) = NoPairs
  BY <1>1, <1>4, <1>5, NothingIsThere
<1> QED
  BY <1>5, <1>7, <1>6 DEF g

LEMMA DeletedKeyChanges ==
    ASSUME NEW h, Good(h), hasher \in Hashers, NEW u \in BOOLEAN,
           NEW g, g = [squash_deleted(h) EXCEPT !.use_deleted = u]
    PROVE  Good(g) /\ contents(g) = contents(h)
<1> DEFINE f == squash_deleted(h)
<1>1. Rearranged(f, h) /\ f.num_deleted = 0
  BY Squashed
<1> HIDE DEF f
<1>2. Good(f) /\ contents(f) = contents(h) /\ f \in Tables
  BY <1>1 DEF Rearranged, Good, Shape
<1>3. g = [f EXCEPT !.use_deleted = u]
  BY DEF f
<1>4. g \in Tables /\ AsItWas(g, f)
  BY <1>2, <1>3 DEF Tables, AsItWas
<1>5. ~(g.num_deleted > 0)
  BY <1>1, <1>4 DEF AsItWas
<1>6. Rearranged(g, f)
  BY <1>2, <1>4, <1>5, AsItWasIs
<1> QED
  BY <1>2, <1>6 DEF Rearranged

(* A table written and read again: empty buckets are not written.          *)
Rewritten(h, bits) ==
    [clear_to_size(h, num_buckets(h)) EXCEPT
        !.num_elements = h.num_elements,
        !.table = [i \in DOMAIN h.table |-> IF i - 1 \in bits THEN h.table[i] ELSE @[i]]]

LEMMA Reloaded ==
    ASSUME NEW h, Good(h), hasher \in Hashers, h.num_deleted = 0,
           NEW bits, bits = {b \in Buckets(h) : ~test_empty(h, b)},
           NEW g, g = Rewritten(h, bits)
    PROVE  Good(g) /\ contents(g) = contents(h)
<1> DEFINE e == clear_to_size(h, num_buckets(h))
           n == num_buckets(h)
<1>1. Shape(h) /\ h \in Tables /\ n \in Sizes /\ n \in Nat
      /\ h.table \in Seq(Entry) /\ DOMAIN h.table = 1..n
  BY SizeIs DEF Good, Shape, Tables, num_buckets
<1>2. /\ e \in Tables /\ e.table = [i \in 1..n |-> Marker(EmptyKey)]
      /\ e.num_deleted = 0
  <2>1. e \in Tables /\ e.num_deleted = 0
    BY <1>1, Cleared
  <2>2. e.table = [i \in 1..n |-> Marker(EmptyKey)]
    BY <1>1 DEF clear_to_size, reset_thresholds, Tables
  <2> QED
    BY <2>1, <2>2
<1> HIDE DEF e, n
<1> DEFINE table == [i \in 1..n |-> IF i - 1 \in bits THEN h.table[i] ELSE e.table[i]]
<1>3. g = [e EXCEPT !.num_elements = h.num_elements, !.table = table]
  BY <1>1, <1>2 DEF e, Tables, n, Rewritten
<1>4. table \in Seq(Entry) /\ DOMAIN table = 1..n
      /\ \A i \in 1..n : table[i] = IF i - 1 \in bits THEN h.table[i] ELSE e.table[i]
  <2>1. \A i \in 1..n : h.table[i] \in Entry /\ e.table[i] \in Entry
    <3>1. Marker(EmptyKey) \in Entry
      BY DEF Marker, Entry, AllKeys
    <3> QED
      BY <1>1, <1>2, <3>1
  <2>2. table \in [1..n -> Entry]
    BY <2>1
  <2> QED
    BY <1>1, <2>2
<1> HIDE DEF table
<1>5. /\ g \in Tables /\ g.table = table
      /\ g.num_elements = h.num_elements /\ g.num_deleted = h.num_deleted
      /\ ~(g.num_deleted > 0)
  <2>1. h.num_elements \in Nat
    BY <1>1 DEF Tables
  <2>2. g.table = table /\ g.num_elements = h.num_elements /\ g.num_deleted = 0
    BY <1>2, <1>3 DEF Tables
  <2>3. g \in Tables
    <3>1. \A t \in Seq(Entry), n1 \in Nat :
              [e EXCEPT !.num_elements = n1, !.table = t] \in Tables
      BY <1>2 DEF Tables
    <3>2. table \in Seq(Entry)
      BY <1>4
    <3>3. [e EXCEPT !.num_elements = h.num_elements, !.table = table] \in Tables
      BY <2>1, <3>1, <3>2
    <3> QED
      BY <1>3, <3>3, Zenon
  <2> QED
    BY <2>2, <2>3
<1>6. num_buckets(g) = num_buckets(h)
  BY <1>1, <1>4, <1>5 DEF num_buckets, n
<1>7. \A b \in Buckets(h) :
          g.table[b + 1] = IF b \in bits THEN h.table[b + 1] ELSE Marker(EmptyKey)
  <2> SUFFICES ASSUME NEW b \in Buckets(h)
               PROVE  g.table[b + 1] = IF b \in bits THEN h.table[b + 1] ELSE Marker(EmptyKey)
    OBVIOUS
  <2>1. b + 1 \in 1..n /\ (b + 1) - 1 = b
    BY <1>1, BucketsAre
  <2> QED
    BY <1>2, <1>4, <1>5, <2>1
<1>8. \A b \in Buckets(h) : key(g, b) = key(h, b)
  BY <1>7 DEF key, Marker, test_empty
<1>9. Good(g) /\ Full(g) = Full(h)
  BY <1>5, <1>6, <1>8, SameKeys
<1>10. \A b \in Full(h) : key(g, b) = key(h, b) /\ g.table[b + 1].val = h.table[b + 1].val
  BY <1>7, <1>8 DEF Full
<1> QED
  BY <1>9, <1>10, SameContents

-------------------------------------------------------------------------------
(* The calls.                                                              *)

LEMMA Calls ==
    ASSUME NEW m, NEW n, NEW r
    PROVE  /\ \A k \in AllKeys : dictionary!Find(m, n, r, k) => dictionary!Call(m, n, r)
           /\ \A k \in AllKeys : dictionary!Exists(m, n, r, k) => dictionary!Call(m, n, r)
           /\ dictionary!Same(m, n, r) => dictionary!Call(m, n, r)
           /\ \A k \in Keys : dictionary!Erase(m, n, r, k) => dictionary!Call(m, n, r)
           /\ \A k \in Keys, v \in Values :
                  /\ dictionary!Assign(m, n, r, k, v) => dictionary!Call(m, n, r)
                  /\ dictionary!Insert(m, n, r, k, v) => dictionary!Call(m, n, r)
           /\ \A range \in Ranges :
                  /\ dictionary!InsertRange(m, n, r, range) => dictionary!Call(m, n, r)
                  /\ dictionary!Construct(n, r, range) => dictionary!Call(m, n, r)
           /\ dictionary!Clear(n, r) => dictionary!Call(m, n, r)
BY Zenon DEF dictionary!Call

(* What is shown of each call: the table stays good, and the dictionary    *)
(* knows a call like it.                                                   *)
Right(h, g, r) == Good(g) /\ dictionary!Call(contents(h), contents(g), r)

LEMMA WithIsPlus ==
    ASSUME NEW m, NEW k, NEW v
    PROVE  With(m, k, v) = dictionary!Plus(m, {k}, v)
BY DEF With, dictionary!Plus

LEMMA SameIsRight ==
    ASSUME NEW h, NEW g, Good(g), contents(g) = contents(h)
    PROVE  Right(h, g, TRUE)
<1>1. dictionary!Same(contents(h), contents(g), TRUE)
  BY DEF dictionary!Same
<1> QED
  BY <1>1, Calls DEF Right

LEMMA FindRight ==
    ASSUME NEW h, Good(h), hasher \in Hashers, NEW k \in AllKeys
    PROVE  /\ Right(h, h, value(h, k))
           /\ Right(h, h, found(h, k) # {})
           /\ Right(h, h, find_position(h, k).first # {})
<1> DEFINE m == contents(h)
<1>1. /\ value(h, k) = IF k \in DOMAIN m THEN m[k] ELSE None
      /\ (found(h, k) # {}) = (k \in DOMAIN m)
      /\ (find_position(h, k).first # {}) = (k \in DOMAIN m)
  <2>1. /\ found(h, k) # {} <=> k \in DOMAIN m
        /\ found(h, k) # {} <=> find_position(h, k).first # {}
        /\ value(h, k) = IF k \in DOMAIN m THEN m[k] ELSE None
    BY Finding
  <2> HIDE DEF m
  <2> QED
    BY <2>1
<1> HIDE DEF m
<1>2. dictionary!Find(m, m, value(h, k), k)
  BY <1>1 DEF dictionary!Find
<1>3. dictionary!Exists(m, m, found(h, k) # {}, k)
  BY <1>1 DEF dictionary!Exists
<1>4. dictionary!Exists(m, m, find_position(h, k).first # {}, k)
  BY <1>1 DEF dictionary!Exists
<1> QED
  BY <1>2, <1>3, <1>4, Calls DEF Right, m

LEMMA AssignRight ==
    ASSUME NEW h, Good(h), hasher \in Hashers, NEW k \in Keys, NEW v \in Values,
           Fits(h.num_elements + 1)
    PROVE  Right(h, assigned(h, k, v), v)
<1> DEFINE g == assigned(h, k, v)
           m == contents(h)
<1>1. Good(g) /\ contents(g) = [With(m, k, T0) EXCEPT ![k] = v]
  BY Assigned
<1> HIDE DEF g, m
<1>2. [With(m, k, T0) EXCEPT ![k] = v] = [dictionary!Plus(m, {k}, v) EXCEPT ![k] = v]
  BY DEF With, dictionary!Plus
<1>3. dictionary!Assign(m, contents(g), v, k, v)
  BY <1>1, <1>2 DEF dictionary!Assign
<1> QED
  BY <1>1, <1>3, Calls DEF Right, g, m

LEMMA InsertRight ==
    ASSUME NEW h, Good(h), hasher \in Hashers, NEW k \in Keys, NEW v \in Values,
           Fits(h.num_elements + 1)
    PROVE  Right(h, insert_noresize(resize_delta(h, 1), [key |-> k, val |-> v]),
                    find_position(resize_delta(h, 1), k).first = {})
<1> DEFINE f == resize_delta(h, 1)
           g == insert_noresize(f, [key |-> k, val |-> v])
           m == contents(h)
           r == find_position(f, k).first = {}
<1>1. Good(g) /\ contents(g) = With(m, k, v)
  BY InsertResizing
<1>2. Rearranged(f, h)
  BY Resized
<1>3. Good(f) /\ contents(f) = m /\ k \in AllKeys
  BY <1>2 DEF Rearranged, AllKeys
<1>4. r = (k \notin DOMAIN m)
  <2>1. find_position(f, k).first # {} <=> k \in DOMAIN m
    BY <1>3, Finding
  <2> HIDE DEF f, m
  <2> QED
    BY <2>1
<1> HIDE DEF f, g, m, r
<1>5. dictionary!Insert(m, contents(g), r, k, v)
  BY <1>1, <1>4, WithIsPlus DEF dictionary!Insert
<1>6. Right(h, g, r)
  BY <1>1, <1>5, Calls DEF Right, m
<1> QED
  BY <1>6 DEF f, g, r

(* DuplicateIndex looks before it assigns.                                 *)
LEMMA AddPairRight ==
    ASSUME NEW h, Good(h), hasher \in Hashers, NEW k \in Keys, NEW v \in Values,
           Fits(h.num_elements + 1),
           NEW g, g = IF found(h, k) # {} THEN h ELSE assigned(h, k, v)
    PROVE  Right(h, g, found(h, k) = {})
<1> DEFINE m == contents(h)
           r == found(h, k) = {}
<1>1. found(h, k) # {} <=> k \in DOMAIN m
  BY Finding DEF AllKeys
<1>2. m = [x \in DOMAIN m |-> m[x]]
  BY ContentsOf DEF Good
<1>3. Good(assigned(h, k, v)) /\ contents(assigned(h, k, v)) = [With(m, k, T0) EXCEPT ![k] = v]
  BY Assigned
<1>4. CASE k \in DOMAIN m
  <2>1. g = h /\ r = FALSE
    BY <1>1, <1>4
  <2> HIDE DEF m, r
  <2>2. dictionary!Plus(m, {k}, v) = m
    BY <1>2, <1>4 DEF dictionary!Plus
  <2>3. dictionary!Insert(m, m, r, k, v)
    BY <1>4, <2>1, <2>2 DEF dictionary!Insert
  <2> QED
    BY <2>1, <2>3, Calls DEF Right, m, r
<1>5. CASE k \notin DOMAIN m
  <2>1. g = assigned(h, k, v) /\ r = TRUE
    BY <1>1, <1>5
  <2> HIDE DEF m, r
  <2>2. [With(m, k, T0) EXCEPT ![k] = v] = dictionary!Plus(m, {k}, v)
    BY <1>5 DEF With, dictionary!Plus
  <2>3. Good(g) /\ contents(g) = dictionary!Plus(m, {k}, v)
    BY <1>3, <2>1, <2>2
  <2>4. dictionary!Insert(m, contents(g), r, k, v)
    BY <1>5, <2>1, <2>3 DEF dictionary!Insert
  <2> QED
    BY <2>3, <2>4, Calls DEF Right, m, r
<1> QED
  BY <1>4, <1>5

LEMMA RangesRight ==
    ASSUME NEW h, Good(h), hasher \in Hashers, NEW range \in Ranges
    PROVE  /\ Fits(h.num_elements + Len(range)) =>
                 /\ Right(h, insert_range(h, range), TRUE)
                 /\ Right(h, insert_each(h, range), TRUE)
           /\ Fits(Len(range)) => \A expected \in Expected :
                 Right(h, insert_range(NewTable(expected), range), TRUE)
<1>1. range \in Seq(Pairs)
  BY RangesAssumption
<1>2. ASSUME Fits(h.num_elements + Len(range))
      PROVE  Right(h, insert_range(h, range), TRUE) /\ Right(h, insert_each(h, range), TRUE)
  <2>1. /\ Good(insert_range(h, range)) /\ Good(insert_each(h, range))
        /\ contents(insert_range(h, range)) = dictionary!Joined(contents(h), range)
        /\ contents(insert_each(h, range)) = dictionary!Joined(contents(h), range)
    BY <1>1, <1>2, RangeInserted, EachInserted
  <2>2. dictionary!InsertRange(contents(h), dictionary!Joined(contents(h), range), TRUE, range)
    BY DEF dictionary!InsertRange
  <2> QED
    BY <2>1, <2>2, Calls DEF Right
<1>3. ASSUME Fits(Len(range)), NEW expected \in Expected
      PROVE  Right(h, insert_range(NewTable(expected), range), TRUE)
  <2> DEFINE e == NewTable(expected)
             g == insert_range(e, range)
  <2>1. Good(e) /\ contents(e) = NoPairs /\ e.num_elements = 0
    BY NewTableIs
  <2> HIDE DEF e
  <2>2. Fits(e.num_elements + Len(range))
    <3>1. Len(range) \in Nat
      BY <1>1
    <3>2. e.num_elements + Len(range) = Len(range)
      BY <2>1, <3>1
    <3> QED
      BY <1>3, <3>2
  <2>3. Good(g) /\ contents(g) = dictionary!Joined(NoPairs, range)
    BY <1>1, <2>1, <2>2, RangeInserted
  <2> HIDE DEF g
  <2>4. dictionary!Construct(contents(g), TRUE, range)
    BY <2>3 DEF dictionary!Construct, dictionary!InsertRange, dictionary!NoPairs, NoPairs
  <2>5. Right(h, g, TRUE)
    BY <2>3, <2>4, Calls DEF Right
  <2> QED
    BY <2>5 DEF e, g
<1> QED
  BY <1>2, <1>3

LEMMA EraseRight ==
    ASSUME NEW h, Good(h), hasher \in Hashers, h.use_deleted, NEW k \in Keys,
           NEW g, g = IF found(h, k) = {} THEN h ELSE set_deleted(h, found(h, k))
    PROVE  Right(h, g, found(h, k) # {})
<1> DEFINE m == contents(h)
           r == found(h, k) # {}
           bs == {b \in Full(h) : key(h, b) = k}
<1>1. r <=> k \in DOMAIN m
  BY Finding DEF AllKeys
<1>2. found(h, k) = bs
  BY Finding DEF AllKeys
<1>3. m = [x \in DOMAIN m |-> m[x]] /\ DOMAIN m = {key(h, b) : b \in Full(h)}
  BY ContentsOf DEF Good
<1>4. Good(g) /\ contents(g) = Without(m, {k})
  <2>1. CASE found(h, k) = {}
    <3>1. g = h /\ DOMAIN m \ {k} = DOMAIN m
      BY <1>1, <2>1
    <3> HIDE DEF m
    <3>2. Without(m, {k}) = m
      BY <1>3, <3>1 DEF Without
    <3> QED
      BY <3>1, <3>2 DEF m
  <2>2. CASE found(h, k) # {}
    <3>1. g = set_deleted(h, bs)
      BY <1>2, <2>2
    <3>2. {key(h, b) : b \in bs} = {k}
      BY <1>2, <2>2
    <3>3. Good(g) /\ contents(g) = Without(m, {key(h, b) : b \in bs})
      BY <3>1, Deleted
    <3> QED
      BY <3>2, <3>3
  <2> QED
    BY <2>1, <2>2
<1>5. r = (k \in DOMAIN m)
  <2> HIDE DEF m
  <2> QED
    BY <1>1
<1> HIDE DEF m, r
<1>6. dictionary!Erase(m, contents(g), r, k)
  BY <1>4, <1>5 DEF dictionary!Erase, Without
<1> QED
  BY <1>4, <1>6, Calls DEF Right, m, r

LEMMA NothingLeft ==
    ASSUME NEW h, NEW g, Good(g), contents(g) = NoPairs
    PROVE  Right(h, g, TRUE)
<1>1. dictionary!Clear(contents(g), TRUE)
  BY DEF dictionary!Clear, dictionary!NoPairs, NoPairs
<1> QED
  BY <1>1, Calls DEF Right

LEMMA EraseRangeRight ==
    ASSUME NEW h, Good(h), hasher \in Hashers, h.use_deleted
    PROVE  Right(h, set_deleted(h, Full(h)), TRUE)
<1> DEFINE g == set_deleted(h, Full(h))
           ks == {key(h, b) : b \in Full(h)}
<1>1. Good(g) /\ contents(g) = Without(contents(h), ks)
  BY Deleted
<1>2. DOMAIN contents(h) = ks
  BY ContentsOf DEF Good
<1> HIDE DEF g, ks
<1>3. contents(g) = NoPairs
  BY <1>1, <1>2 DEF Without, NoPairs
<1>4. Right(h, g, TRUE)
  BY <1>1, <1>3, NothingLeft
<1> QED
  BY <1>4 DEF g

LEMMA ClearRight ==
    ASSUME NEW h, Good(h), hasher \in Hashers,
           NEW g, g = IF h.num_elements = 0 /\ min_buckets(0, 0) = num_buckets(h) THEN h
                      ELSE clear_to_size(h, min_buckets(0, 0))
    PROVE  Right(h, g, TRUE) /\ Right(h, clear_to_size(h, num_buckets(h)), TRUE)
<1>1. h \in Tables /\ num_buckets(h) \in Sizes /\ Counted(h) /\ Shape(h)
  BY DEF Good, Shape
<1>2. Right(h, clear_to_size(h, num_buckets(h)), TRUE)
  BY <1>1, Cleared, NothingLeft
<1>3. CASE h.num_elements = 0 /\ g = h
  <2>1. Used(h) = {}
    <3>1. IsFiniteSet(Used(h)) /\ Cardinality(Used(h)) = 0
      BY <1>1, <1>3, FullIs DEF Counted
    <3> QED
      BY <3>1, FS_EmptySet
  <2>2. Full(h) = {}
    BY <2>1 DEF Used, Full
  <2>3. contents(h) = NoPairs
    BY <2>2 DEF contents, NoPairs
  <2> QED
    BY <1>2, <1>3, <2>3, NothingLeft
<1>4. CASE g = clear_to_size(h, min_buckets(0, 0))
  <2>1. Right(h, g, TRUE)
    BY <1>1, <1>4, FitsKeys, Cleared, NothingLeft
  <2> QED
    BY <1>2, <2>1
<1> QED
  BY <1>3, <1>4

LEMMA ResizeRight ==
    ASSUME NEW h, Good(h), hasher \in Hashers, NEW n \in 0..Cardinality(Keys),
           NEW g, g = IF h.consider_shrink \/ n = 0 THEN maybe_shrink(h) ELSE h,
           NEW f, f = IF n > g.num_elements THEN resize_delta(g, n - g.num_elements) ELSE g
    PROVE  Right(h, f, TRUE)
<1>1. Rearranged(g, h)
  <2>1. g = maybe_shrink(h) \/ g = h
    OBVIOUS
  <2> QED
    BY <2>1, MaybeShrunk, RearrangedSelf
<1>2. Good(g) /\ contents(g) = contents(h)
  BY <1>1 DEF Rearranged
<1>3. Good(f) /\ contents(f) = contents(g)
  <2>1. CASE n > g.num_elements
    <3>1. /\ n \in Nat /\ n <= Cardinality(Keys) /\ Cardinality(Keys) \in Nat
          /\ g.num_elements \in Nat
      BY <1>2, FitsKeys, SizeOf
    <3>2. n - g.num_elements \in Nat /\ g.num_elements + (n - g.num_elements) = n
      BY <2>1, <3>1
    <3>3. Fits(n)
      BY <3>1, FitsKeys, FitsFewer
    <3>4. Rearranged(resize_delta(g, n - g.num_elements), g)
      BY <1>2, <3>2, <3>3, Resized
    <3> QED
      BY <2>1, <3>4 DEF Rearranged
  <2>2. CASE ~(n > g.num_elements)
    BY <1>2, <2>2
  <2> QED
    BY <2>1, <2>2
<1> QED
  BY <1>2, <1>3, SameIsRight

(* A copy is equal to the table, and the table to it.                      *)
LEMMA EqualIs ==
    ASSUME NEW h, Good(h), NEW g, Good(g), hasher \in Hashers,
           contents(g) = contents(h), size(h) = size(g)
    PROVE  Equal(h, g)
<1> SUFFICES ASSUME NEW b \in Full(h) PROVE value(g, key(h, b)) = h.table[b + 1].val
  BY DEF Equal
<1>1. key(h, b) \in DOMAIN contents(h) /\ contents(h)[key(h, b)] = h.table[b + 1].val
  <2>1. /\ DOMAIN contents(h) = {key(h, c) : c \in Full(h)}
        /\ \A c \in Full(h) : contents(h)[key(h, c)] = h.table[c + 1].val
    BY ContentsOf DEF Good
  <2> QED
    BY <2>1
<1>2. key(h, b) \in AllKeys
  BY BucketsAre DEF Full, Good
<1> QED
  BY <1>1, <1>2, Finding

LEMMA CopyRight ==
    ASSUME NEW h, Good(h), hasher \in Hashers, NEW wanted \in Sizes,
           NEW g, g = copy_from(h, wanted)
    PROVE  Right(h, g, TRUE) /\ Equal(h, g) /\ Equal(g, h)
<1>1. Rearranged(g, h) /\ g.num_deleted = 0 /\ g.num_elements = size(h)
  BY CopyRearranges
<1>2. Good(g) /\ contents(g) = contents(h)
  BY <1>1 DEF Rearranged
<1>3. size(g) = size(h)
  BY <1>1, <1>2, SizeOf
<1> QED
  BY <1>2, <1>3, EqualIs, SameIsRight

-------------------------------------------------------------------------------
(* The specification.                                                      *)

(* What is shown of a step.                                                *)
StepRight == hasher' = hasher /\ Right(ht, ht', answer')

LEMMA LibraryRight ==
    ASSUME IInv, Library
    PROVE  StepRight
<1> USE DEF IInv, StepRight, Returns
<1>1. ASSUME NEW k \in AllKeys, Find(k) \/ Count(k) \/ EqualRange(k) PROVE StepRight
  BY <1>1, FindRight DEF Find, Count, EqualRange
<1>2. ASSUME NEW k \in Keys, NEW v \in Values, Assign(k, v) PROVE StepRight
  BY <1>2, AssignRight DEF Assign, HasRoom
<1>3. ASSUME NEW k \in Keys, NEW v \in Values, Insert(k, v) PROVE StepRight
  BY <1>3, InsertRight DEF Insert, HasRoom
<1>4. ASSUME NEW range \in Ranges, InsertRange(range) \/ InsertEach(range) \/ Construct(range)
      PROVE  StepRight
  BY <1>4, RangesRight DEF InsertRange, InsertEach, Construct, HasRoom
<1>5. ASSUME NEW k \in Keys, Erase(k) PROVE StepRight
  BY <1>5, EraseRight DEF Erase
<1>6. ASSUME NEW n \in 0..Cardinality(Keys), Resize(n) PROVE StepRight
  BY <1>6, ResizeRight DEF Resize
<1>7. ASSUME EraseRange PROVE StepRight
  BY <1>7, EraseRangeRight DEF EraseRange
<1>8. ASSUME SetDeletedKey \/ ClearDeletedKey PROVE StepRight
  BY <1>8, DeletedKeyChanges, SameIsRight DEF SetDeletedKey, ClearDeletedKey
<1>9. ASSUME Clear \/ ClearNoResize PROVE StepRight
  BY <1>9, ClearRight DEF Clear, ClearNoResize
<1>10. ASSUME Swap PROVE StepRight
  BY <1>10, NewTableIs, NothingLeft DEF Swap
<1>11. ASSUME Copy PROVE StepRight
  <2>1. HT_MIN_BUCKETS \in Sizes /\ HT_DEFAULT_STARTING_BUCKETS \in Sizes
    BY SizesAssumption, DoubledIs DEF Sizes
  <2>2. PICK wanted \in {HT_MIN_BUCKETS, HT_DEFAULT_STARTING_BUCKETS} : ht' = copy_from(ht, wanted)
    BY <1>11 DEF Copy
  <2>3. Right(ht, ht', TRUE) /\ Equal(ht, ht') /\ Equal(ht', ht)
    BY <2>1, <2>2, CopyRight
  <2> QED
    BY <1>11, <2>3 DEF Copy
<1>12. ASSUME Reload PROVE StepRight
  <2> DEFINE h == squash_deleted(ht)
             bits == {b \in Buckets(h) : ~test_empty(h, b)}
  <2>1. Rearranged(h, ht) /\ h.num_deleted = 0
    BY Squashed
  <2>2. Good(h) /\ contents(h) = contents(ht)
    BY <2>1 DEF Rearranged
  <2>3. ht' = Rewritten(h, bits) /\ answer' = TRUE /\ hasher' = hasher
    BY <1>12 DEF Reload, Rewritten
  <2> HIDE DEF h
  <2>4. Good(ht') /\ contents(ht') = contents(h)
    BY <2>1, <2>2, <2>3, Reloaded
  <2> QED
    BY <2>2, <2>3, <2>4, SameIsRight
<1> QED
  BY <1>1, <1>2, <1>3, <1>4, <1>5, <1>6, <1>7, <1>8, <1>9, <1>10, <1>11, <1>12 DEF Library

LEMMA DuplicateIndexRight ==
    ASSUME IInv, DuplicateIndex
    PROVE  StepRight
<1> USE DEF IInv, StepRight, Returns
<1>1. ASSUME NEW k \in Keys, Exists(k) \/ LookUpTokenExactManager(k) PROVE StepRight
  <2>1. k \in AllKeys
    BY DEF AllKeys
  <2> QED
    BY <1>1, <2>1, FindRight DEF Exists, LookUpTokenExactManager
<1>2. ASSUME NEW k \in Keys, NEW v \in Values, AddPair(k, v) PROVE StepRight
  BY <1>2, AddPairRight DEF AddPair, HasRoom
<1> QED
  BY <1>1, <1>2 DEF DuplicateIndex

LEMMA StepIsRight ==
    ASSUME IInv, Next
    PROVE  StepRight
BY LibraryRight, DuplicateIndexRight DEF Next

LEMMA InitIsRight == Init => IInv /\ dictionary!Init
<1> SUFFICES ASSUME Init PROVE IInv /\ dictionary!Init
  OBVIOUS
<1>1. PICK expected \in Expected : ht = NewTable(expected)
  BY DEF Init
<1>2. Good(ht) /\ contents(ht) = NoPairs
  BY <1>1, NewTableIs
<1> QED
  BY <1>2 DEF Init, IInv, dictionary!Init, dictionary!NoPairs, NoPairs

(* What is shown of the table after a step holds in the next state.        *)
LEMMA GoodNext ==
    ASSUME hasher' = hasher, Good(ht')
    PROVE  Good(ht)'
<1>1. Shape(ht)'
  BY DEF Good, Shape, num_buckets
<1>2. Counted(ht)'
  BY DEF Good, Counted, Erased, Used, Buckets, num_buckets, test_empty, key
<1>3. Roomy(ht)'
  BY DEF Good, Roomy, num_buckets
<1>4. KeysOnce(ht)'
  BY DEF Good, KeysOnce, Full, Buckets, num_buckets, test_empty, test_deleted, key
<1>5. Reached(ht)'
  BY DEF Good, Reached, OnTheWay, Full, Buckets, num_buckets, test_empty, test_deleted, key,
         Probe, hash, MungedHash, mur
<1> QED
  BY <1>1, <1>2, <1>3, <1>4, <1>5 DEF Good

LEMMA StepKeeps ==
    ASSUME IInv, [Next]_vars
    PROVE  IInv' /\ [dictionary!Next]_(dictionary!vars)
<1>1. CASE Next
  <2>1. hasher' = hasher /\ Good(ht') /\ dictionary!Call(contents(ht), contents(ht'), answer')
    BY <1>1, StepIsRight DEF StepRight, Right
  <2>2. IInv'
    BY <2>1, GoodNext DEF IInv
  <2>3. contents(ht)' = contents(ht')
    BY DEF contents, Full, Buckets, num_buckets, test_empty, test_deleted, key
  <2>4. dictionary!Next
    BY <2>1, <2>3 DEF dictionary!Next
  <2> QED
    BY <2>2, <2>4
<1>2. CASE UNCHANGED vars
  <2>1. hasher' = hasher /\ ht' = ht /\ answer' = answer
    BY <1>2 DEF vars
  <2>2. IInv'
    BY <2>1, GoodNext DEF IInv
  <2>3. contents(ht)' = contents(ht')
    BY DEF contents, Full, Buckets, num_buckets, test_empty, test_deleted, key
  <2>4. UNCHANGED dictionary!vars
    BY <2>1, <2>3 DEF dictionary!vars
  <2> QED
    BY <2>2, <2>4
<1> QED
  BY <1>1, <1>2

LEMMA IInvIsTypeOK == IInv => TypeOK
<1> SUFFICES ASSUME IInv PROVE TypeOK
  OBVIOUS
<1>1. Shape(ht) /\ Counted(ht)
  BY DEF IInv, Good
<1>2. ht.table \in Seq([key : AllKeys, val : Values \union {T0}])
  BY <1>1 DEF Shape, Tables, Entry
<1> QED
  BY <1>1, <1>2 DEF TypeOK, Shape, Counted, Erased, Used

LEMMA IInvIsProbesEnd == IInv => ProbesEnd
BY SearchEnds, HasEmpty DEF IInv, Good, ProbesEnd

(* The invariant is inductive, whatever the hash functions.                *)
THEOREM TableIsGood == Spec => []IInv
<1>1. Init => IInv
  BY InitIsRight
<1>2. IInv /\ [Next]_vars => IInv'
  BY StepKeeps
<1> QED
  BY <1>1, <1>2, PTL DEF Spec

(* The counters count the buckets (num_elements, num_deleted), and the     *)
(* number of buckets is a power of two.                                    *)
THEOREM TypeHolds == Spec => []TypeOK
<1>1. IInv => TypeOK
  BY IInvIsTypeOK
<1> QED
  BY <1>1, TableIsGood, PTL

(* Every search ends (find_position, densehashtable.h:824-848), although   *)
(* only insertions look at the size of the table: the probes come to every *)
(* bucket, and one is empty.                                               *)
THEOREM ProbesEndHolds == Spec => []ProbesEnd
<1>1. IInv => ProbesEnd
  BY IInvIsProbesEnd
<1> QED
  BY <1>1, TableIsGood, PTL

(* The table with its probes, erased buckets, copies and sizes is a        *)
(* dictionary: each call does to the pairs, and returns, what the one of   *)
(* the dictionary does.                                                    *)
THEOREM DictionaryImplemented == Spec => ImplementsDictionary
<1>1. Init => IInv /\ dictionary!Init
  BY InitIsRight
<1>2. IInv /\ [Next]_vars => IInv' /\ [dictionary!Next]_(dictionary!vars)
  BY StepKeeps
<1> QED
  BY <1>1, <1>2, PTL DEF Spec, ImplementsDictionary, dictionary!Spec
===============================================================================

----------------------------- MODULE SequenceFacts -----------------------------
(***************************************************************************)
(* What the proofs need to know of sequences and of natural numbers that   *)
(* the modules of the proof system's library do not say.                   *)
(***************************************************************************)
EXTENDS Integers, Sequences, SequencesExt, SequenceTheorems, WellFoundedInduction, TLAPS

(* A nonempty set of natural numbers has a smallest element: the form of   *)
(* induction that needs no operator as a parameter.                        *)
LEMMA SmallestNat ==
    ASSUME NEW T, T \subseteq Nat, T # {}
    PROVE  \E x \in T : \A y \in T : x <= y
<1> DEFINE R == OpToRel(<, Nat)
<1>1. \E x \in T : \A y \in T : <<y, x>> \notin R
  BY NatLessThanWellFounded, WFMin
<1>2. \A x, y \in Nat : y < x => <<y, x>> \in R
  BY DEF OpToRel
<1> HIDE DEF R
<1>3. PICK x \in T : \A y \in T : <<y, x>> \notin R
  BY <1>1
<1>4. x \in Nat /\ \A y \in T : y \in Nat /\ ~(y < x)
  BY <1>2, <1>3, Zenon
<1> QED
  BY <1>4

(* A nonempty set of numbers up to n has a greatest element.               *)
LEMMA GreatestNat ==
    ASSUME NEW n \in Nat, NEW T, T \subseteq 0..n, T # {}
    PROVE  \E x \in T : \A y \in T : y <= x
<1> DEFINE U == {k \in Nat : \E x \in T : k = n - x}
<1>1. U \subseteq Nat /\ U # {}
  <2>1. PICK x \in T : TRUE
    OBVIOUS
  <2>2. n - x \in U
    BY <2>1
  <2> QED
    BY <2>2
<1>2. PICK k \in U : \A j \in U : k <= j
  <2> HIDE DEF U
  <2> QED
    BY <1>1, SmallestNat
<1>3. PICK x \in T : k = n - x
  OBVIOUS
<1>4. ASSUME NEW y \in T PROVE y <= x
  <2>1. n - y \in U /\ y \in 0..n /\ x \in 0..n
    OBVIOUS
  <2>2. k <= n - y
    BY <1>2, <2>1
  <2> QED
    BY <1>3, <2>1, <2>2
<1> QED
  BY <1>4

-------------------------------------------------------------------------------
(* Recursion along a sequence.                                              *)

(* A step takes members of S to members of S; f follows it from a.         *)
StepIn(S, k, g) == \A n \in 1..k : \A x \in S : g[n][x] \in S

Follows(f, k, a, g) == f[0] = a /\ \A n \in 1..k : f[n] = g[n][f[n - 1]]

(* A start and a step define a function on 0..k: the form in which the     *)
(* existence of a recursive function can be proved.                        *)
LEMMA RecursionExists ==
    ASSUME NEW S, NEW k \in Nat, NEW a \in S, NEW g, StepIn(S, k, g)
    PROVE  \E f \in [0..k -> S] : Follows(f, k, a, g)
<1> USE DEF StepIn, Follows
<1> DEFINE T == {n \in 0..k : ~\E f \in [0..n -> S] : Follows(f, n, a, g)}
<1>1. ASSUME NEW n \in T, \A m \in T : n <= m PROVE FALSE
  <2>1. CASE n = 0
    <3> DEFINE f == [i \in 0..0 |-> a]
    <3>1. f \in [0..0 -> S] /\ f[0] = a
      OBVIOUS
    <3>2. \A m \in 1..0 : FALSE
      OBVIOUS
    <3> QED
      BY <1>1, <2>1, <3>1, <3>2
  <2>2. CASE n # 0
    <3>1. n - 1 \in 0..k /\ n \in 1..k /\ ~(n <= n - 1)
      BY <2>2
    <3>2. PICK f \in [0..(n - 1) -> S] : Follows(f, n - 1, a, g)
      BY <1>1, <3>1
    <3> DEFINE h == [i \in 0..n |-> IF i = n THEN g[n][f[n - 1]] ELSE f[i]]
    <3>3. f[n - 1] \in S /\ g[n][f[n - 1]] \in S
      BY <3>1
    <3>4. h \in [0..n -> S]
      BY <3>1, <3>3
    <3>5. h[n] = g[n][f[n - 1]] /\ \A i \in 0..(n - 1) : h[i] = f[i]
      BY <3>1
    <3> HIDE DEF h
    <3>6. h[0] = a
      BY <3>1, <3>2, <3>5
    <3>7. ASSUME NEW m \in 1..n PROVE h[m] = g[m][h[m - 1]]
      <4>1. CASE m = n
        BY <3>1, <3>5, <4>1
      <4>2. CASE m # n
        <5>1. m \in 1..(n - 1) /\ m \in 0..(n - 1) /\ m - 1 \in 0..(n - 1)
          BY <3>1, <4>2
        <5> QED
          BY <3>2, <3>5, <5>1
      <4> QED
        BY <4>1, <4>2
    <3> QED
      BY <1>1, <3>4, <3>6, <3>7
  <2> QED
    BY <2>1, <2>2
<1>2. T = {}
  <2> SUFFICES ASSUME T # {} PROVE FALSE
    OBVIOUS
  <2>1. T \subseteq Nat
    OBVIOUS
  <2>2. PICK n \in T : \A m \in T : n <= m
    <3> HIDE DEF T
    <3> QED
      BY <2>1, SmallestNat
  <2> QED
    BY <1>1, <2>2
<1>3. k \in 0..k
  OBVIOUS
<1> QED
  BY <1>2, <1>3

-------------------------------------------------------------------------------
(* Entries that come and go.                                               *)

(* Each entry that is left was there before, the removed one is not.       *)
LEMMA RemoveAtProperties ==
    ASSUME NEW S, NEW s \in Seq(S), NEW k \in 1..Len(s)
    PROVE  /\ RemoveAt(s, k) \in Seq(S)
           /\ Len(RemoveAt(s, k)) = Len(s) - 1
           /\ \A i \in 1..(Len(s) - 1) : RemoveAt(s, k)[i] = s[IF i < k THEN i ELSE i + 1]
<1> DEFINE a == SubSeq(s, 1, k - 1)
           c == SubSeq(s, k + 1, Len(s))
<1>1. Len(s) \in Nat /\ k \in Nat /\ 1 <= k /\ k <= Len(s) /\ \A i \in 1..Len(s) : s[i] \in S
  BY LenProperties
<1>2. a \in Seq(S) /\ Len(a) = k - 1 /\ \A i \in 1..(k - 1) : a[i] = s[i]
  <2>1. 1 \in Int /\ k - 1 \in Int /\ \A i \in 1..(k - 1) : s[i] \in S
    BY <1>1
  <2>2. /\ SubSeq(s, 1, k - 1) \in Seq(S)
        /\ Len(SubSeq(s, 1, k - 1)) = (IF 1 <= k - 1 THEN (k - 1) - 1 + 1 ELSE 0)
        /\ \A i \in 1..((k - 1) - 1 + 1) : SubSeq(s, 1, k - 1)[i] = s[1 + i - 1]
    BY <2>1, SubSeqProperties
  <2> QED
    BY <1>1, <2>2
<1>3. /\ c \in Seq(S) /\ Len(c) = Len(s) - k
      /\ \A i \in 1..(Len(s) - k) : c[i] = s[k + i]
  <2>1. k + 1 \in Int /\ Len(s) \in Int /\ \A i \in (k + 1)..Len(s) : s[i] \in S
    BY <1>1
  <2>2. /\ SubSeq(s, k + 1, Len(s)) \in Seq(S)
        /\ Len(SubSeq(s, k + 1, Len(s))) = (IF k + 1 <= Len(s) THEN Len(s) - (k + 1) + 1 ELSE 0)
        /\ \A i \in 1..(Len(s) - (k + 1) + 1) :
              SubSeq(s, k + 1, Len(s))[i] = s[(k + 1) + i - 1]
    BY <2>1, SubSeqProperties
  <2> QED
    BY <1>1, <2>2
<1> HIDE DEF a, c
<1>4. RemoveAt(s, k) = a \o c
  BY DEF RemoveAt, a, c
<1>5. /\ a \o c \in Seq(S) /\ Len(a \o c) = Len(s) - 1
      /\ \A i \in 1..(Len(s) - 1) : (a \o c)[i] = IF i <= k - 1 THEN a[i] ELSE c[i - (k - 1)]
  BY <1>1, <1>2, <1>3, ConcatProperties
<1>6. \A i \in 1..(Len(s) - 1) : (a \o c)[i] = s[IF i < k THEN i ELSE i + 1]
  <2> SUFFICES ASSUME NEW i \in 1..(Len(s) - 1)
               PROVE  (a \o c)[i] = s[IF i < k THEN i ELSE i + 1]
    OBVIOUS
  <2>1. CASE i < k
    BY <1>1, <1>2, <1>5, <2>1
  <2>2. CASE ~(i < k)
    <3>1. i - (k - 1) \in 1..(Len(s) - k) /\ k + (i - (k - 1)) = i + 1
      BY <1>1, <2>2
    <3>2. (a \o c)[i] = c[i - (k - 1)]
      BY <1>1, <1>5, <2>2
    <3> QED
      BY <1>3, <2>2, <3>1, <3>2
  <2> QED
    BY <2>1, <2>2
<1> QED
  BY <1>4, <1>5, <1>6

(* The rest of a nonempty sequence.                                        *)
LEMMA TailOf ==
    ASSUME NEW S, NEW s \in Seq(S), s # <<>>
    PROVE  /\ Len(s) \in Nat /\ Len(s) >= 1
           /\ Head(s) = s[1] /\ s[1] \in S
           /\ Tail(s) \in Seq(S) /\ Len(Tail(s)) = Len(s) - 1
           /\ \A i \in 1..(Len(s) - 1) : i + 1 \in 1..Len(s) /\ Tail(s)[i] = s[i + 1]
<1>1. Len(s) \in Nat /\ Len(s) >= 1
  BY EmptySeq, LenProperties
<1>2. /\ Head(s) \in S /\ Head(s) = s[1]
      /\ Tail(s) \in Seq(S) /\ Len(Tail(s)) = Len(s) - 1
      /\ \A i \in 1..Len(Tail(s)) : Tail(s)[i] = s[i + 1]
  BY HeadTailProperties
<1> QED
  BY <1>1, <1>2

(* One more entry at the end.                                              *)
LEMMA AppendTo ==
    ASSUME NEW S, NEW s \in Seq(S), NEW x \in S
    PROVE  /\ Append(s, x) \in Seq(S) /\ Append(s, x) # <<>>
           /\ Len(s) \in Nat /\ Len(Append(s, x)) = Len(s) + 1
           /\ \A i \in 1..Len(s) : Append(s, x)[i] = s[i]
           /\ Append(s, x)[Len(s) + 1] = x
           /\ \A i \in 1..(Len(s) + 1) : i \in 1..Len(s) \/ i = Len(s) + 1
<1>1. Len(s) \in Nat
  BY LenProperties
<1> QED
  BY <1>1, AppendProperties

(* The new entry is at its place, those behind it have moved by one.       *)
LEMMA InsertAtProperties ==
    ASSUME NEW S, NEW s \in Seq(S), NEW k \in 1..(Len(s) + 1), NEW e \in S
    PROVE  /\ InsertAt(s, k, e) \in Seq(S)
           /\ Len(InsertAt(s, k, e)) = Len(s) + 1
           /\ \A i \in 1..(k - 1) : InsertAt(s, k, e)[i] = s[i]
           /\ InsertAt(s, k, e)[k] = e
           /\ \A i \in k..Len(s) : InsertAt(s, k, e)[i + 1] = s[i]
<1> DEFINE a == SubSeq(s, 1, k - 1)
           c == SubSeq(s, k, Len(s))
<1>1. Len(s) \in Nat /\ k \in Nat /\ 1 <= k /\ k <= Len(s) + 1 /\ \A i \in 1..Len(s) : s[i] \in S
  BY LenProperties
<1>2. a \in Seq(S) /\ Len(a) = k - 1 /\ \A i \in 1..(k - 1) : a[i] = s[i]
  <2>1. 1 \in Int /\ k - 1 \in Int /\ \A i \in 1..(k - 1) : s[i] \in S
    BY <1>1
  <2>2. /\ SubSeq(s, 1, k - 1) \in Seq(S)
        /\ Len(SubSeq(s, 1, k - 1)) = (IF 1 <= k - 1 THEN (k - 1) - 1 + 1 ELSE 0)
        /\ \A i \in 1..((k - 1) - 1 + 1) : SubSeq(s, 1, k - 1)[i] = s[1 + i - 1]
    BY <2>1, SubSeqProperties
  <2> QED
    BY <1>1, <2>2
<1>3. /\ c \in Seq(S) /\ Len(c) = Len(s) + 1 - k
      /\ \A i \in 1..(Len(s) + 1 - k) : c[i] = s[k + i - 1]
  <2>1. k \in Int /\ Len(s) \in Int /\ \A i \in k..Len(s) : s[i] \in S
    BY <1>1
  <2>2. /\ SubSeq(s, k, Len(s)) \in Seq(S)
        /\ Len(SubSeq(s, k, Len(s))) = (IF k <= Len(s) THEN Len(s) - k + 1 ELSE 0)
        /\ \A i \in 1..(Len(s) - k + 1) : SubSeq(s, k, Len(s))[i] = s[k + i - 1]
    BY <2>1, SubSeqProperties
  <2> QED
    BY <1>1, <2>2
<1> HIDE DEF a, c
<1>4. InsertAt(s, k, e) = (a \o <<e>>) \o c
  BY DEF InsertAt, a, c
<1>5. <<e>> \in Seq(S) /\ Len(<<e>>) = 1 /\ <<e>>[1] = e
  OBVIOUS
<1> DEFINE b == a \o <<e>>
<1>6. /\ b \in Seq(S) /\ Len(b) = k
      /\ \A i \in 1..(k - 1) : b[i] = s[i]
      /\ b[k] = e
  <2>1. a \in Seq(S) /\ Len(a) = k - 1 /\ Len(a) + 1 = k
    BY <1>1, <1>2
  <2>2. b \in Seq(S) /\ Len(b) = Len(a) + 1
    BY <1>5, <2>1, ConcatProperties
  <2>3. \A i \in 1..(Len(a) + 1) : b[i] = IF i <= Len(a) THEN a[i] ELSE <<e>>[i - Len(a)]
    BY <1>5, <2>1, ConcatProperties
  <2> HIDE DEF b
  <2>4. \A i \in 1..(k - 1) : i \in 1..(Len(a) + 1) /\ i <= Len(a)
    BY <1>1, <2>1
  <2>5. k \in 1..(Len(a) + 1) /\ ~(k <= Len(a)) /\ k - Len(a) = 1
    BY <1>1, <2>1
  <2> QED
    BY <1>2, <1>5, <2>1, <2>2, <2>3, <2>4, <2>5
<1> HIDE DEF b
<1>7. /\ b \o c \in Seq(S) /\ Len(b \o c) = Len(s) + 1
      /\ \A i \in 1..(Len(s) + 1) : (b \o c)[i] = IF i <= k THEN b[i] ELSE c[i - k]
  <2>1. /\ b \o c \in Seq(S) /\ Len(b \o c) = Len(b) + Len(c)
        /\ \A i \in 1..(Len(b) + Len(c)) :
              (b \o c)[i] = IF i <= Len(b) THEN b[i] ELSE c[i - Len(b)]
    BY <1>3, <1>6, ConcatProperties
  <2>2. Len(b) + Len(c) = Len(s) + 1
    BY <1>1, <1>3, <1>6
  <2> QED
    BY <1>6, <2>1, <2>2
<1>8. (\A i \in 1..(k - 1) : (b \o c)[i] = s[i]) /\ (b \o c)[k] = e
  BY <1>1, <1>6, <1>7
<1>9. ASSUME NEW i \in k..Len(s) PROVE (b \o c)[i + 1] = s[i]
  <2>1. i + 1 \in 1..(Len(s) + 1) /\ ~(i + 1 <= k) /\ (i + 1) - k \in 1..(Len(s) + 1 - k)
        /\ k + ((i + 1) - k) - 1 = i
    BY <1>1
  <2>2. (b \o c)[i + 1] = c[(i + 1) - k]
    BY <1>7, <2>1
  <2> QED
    BY <1>3, <2>1, <2>2
<1> QED
  BY <1>4, <1>7, <1>8, <1>9 DEF b

-------------------------------------------------------------------------------
(* Increasing sequences of numbers.                                         *)

Increasing(s) == \A i, j \in 1..Len(s) : i < j => s[i] < s[j]

(* A number that is put behind the smaller ones keeps the order.           *)
LEMMA InsertInOrder ==
    ASSUME NEW S, S \subseteq Nat, NEW s \in Seq(S), NEW k \in 1..(Len(s) + 1), NEW e \in S,
           Increasing(s),
           \A i \in 1..(k - 1) : s[i] < e,
           \A i \in k..Len(s) : e < s[i]
    PROVE  /\ InsertAt(s, k, e) \in Seq(S) /\ InsertAt(s, k, e) # <<>>
           /\ Len(InsertAt(s, k, e)) = Len(s) + 1
           /\ Increasing(InsertAt(s, k, e))
           /\ \A x : Contains(InsertAt(s, k, e), x) <=> Contains(s, x) \/ x = e
<1> DEFINE r == InsertAt(s, k, e)
<1>1. /\ r \in Seq(S) /\ Len(r) = Len(s) + 1
      /\ \A i \in 1..(k - 1) : r[i] = s[i]
      /\ r[k] = e
      /\ \A i \in k..Len(s) : r[i + 1] = s[i]
  BY InsertAtProperties
<1>2. /\ Len(s) \in Nat /\ k \in Nat /\ 1 <= k /\ k <= Len(s) + 1 /\ e \in Nat
      /\ \A i \in 1..Len(s) : s[i] \in Nat
  <2>1. Len(s) \in Nat
    BY LenProperties
  <2>2. \A i \in 1..Len(s) : s[i] \in Nat
    BY ElementOfSeq
  <2> QED
    BY <2>1, <2>2
<1> HIDE DEF r
<1>3. ASSUME NEW i \in 1..Len(r)
      PROVE  \/ i < k /\ i \in 1..(k - 1) /\ i \in 1..Len(s) /\ r[i] = s[i]
             \/ i = k /\ r[i] = e
             \/ i > k /\ i - 1 \in k..Len(s) /\ i - 1 \in 1..Len(s) /\ r[i] = s[i - 1]
  <2>1. CASE i < k
    BY <1>1, <1>2, <2>1
  <2>2. CASE i > k
    <3>1. i - 1 \in k..Len(s) /\ i - 1 \in 1..Len(s) /\ (i - 1) + 1 = i
      BY <1>1, <1>2, <2>2
    <3> QED
      BY <1>1, <2>2, <3>1
  <2> QED
    BY <1>1, <1>2, <2>1, <2>2
<1>4. Increasing(r)
  <2> SUFFICES ASSUME NEW i \in 1..Len(r), NEW j \in 1..Len(r), i < j
               PROVE  r[i] < r[j]
    BY DEF Increasing
  <2>1. CASE i < k /\ j < k
    BY <1>3, <2>1 DEF Increasing
  <2>2. CASE i < k /\ j = k
    BY <1>3, <2>2
  <2>3. CASE i < k /\ j > k
    <3>1. r[i] = s[i] /\ r[j] = s[j - 1] /\ i \in 1..(k - 1) /\ j - 1 \in k..Len(s)
          /\ i \in 1..Len(s) /\ j - 1 \in 1..Len(s)
      BY <1>3, <2>3
    <3>2. s[i] < e /\ e < s[j - 1] /\ s[i] \in Nat /\ s[j - 1] \in Nat
      BY <1>2, <3>1
    <3> QED
      BY <1>2, <3>1, <3>2
  <2>4. CASE i = k /\ j > k
    <3>1. r[j] = s[j - 1] /\ j - 1 \in k..Len(s)
      BY <1>3, <2>4
    <3> QED
      BY <1>1, <2>4, <3>1
  <2>5. CASE i > k /\ j > k
    <3>1. r[i] = s[i - 1] /\ r[j] = s[j - 1] /\ i - 1 \in 1..Len(s) /\ j - 1 \in 1..Len(s)
          /\ i - 1 < j - 1
      BY <1>3, <2>5
    <3> QED
      BY <3>1 DEF Increasing
  <2> QED
    BY <1>2, <2>1, <2>2, <2>3, <2>4, <2>5
<1>5. ASSUME NEW x, Contains(r, x) PROVE Contains(s, x) \/ x = e
  BY <1>3, <1>5 DEF Contains
<1>6. ASSUME NEW x, Contains(s, x) \/ x = e PROVE Contains(r, x)
  <2>1. CASE x = e
    BY <1>1, <1>2, <2>1 DEF Contains
  <2>2. CASE Contains(s, x)
    <3>1. PICK i \in 1..Len(s) : s[i] = x
      BY <2>2 DEF Contains
    <3>2. CASE i < k
      BY <1>1, <1>2, <3>1, <3>2 DEF Contains
    <3>3. CASE i >= k
      <4>1. r[i + 1] = x /\ i + 1 \in 1..Len(r)
        BY <1>1, <1>2, <3>1, <3>3
      <4> QED
        BY <4>1 DEF Contains
    <3> QED
      BY <1>2, <3>2, <3>3
  <2> QED
    BY <1>6, <2>1, <2>2
<1>7. r # <<>>
  BY <1>1, <1>2
<1> QED
  BY <1>1, <1>4, <1>5, <1>6, <1>7 DEF r

(* What is left of an increasing sequence is increasing.                   *)
LEMMA RemoveInOrder ==
    ASSUME NEW S, S \subseteq Nat, NEW s \in Seq(S), NEW k \in 1..Len(s), Increasing(s)
    PROVE  /\ RemoveAt(s, k) \in Seq(S)
           /\ Increasing(RemoveAt(s, k))
           /\ \A x : Contains(RemoveAt(s, k), x) <=> Contains(s, x) /\ x # s[k]
<1> DEFINE r == RemoveAt(s, k)
           J(i) == IF i < k THEN i ELSE i + 1
<1>1. /\ r \in Seq(S) /\ Len(r) = Len(s) - 1
      /\ \A i \in 1..(Len(s) - 1) : r[i] = s[J(i)]
  BY RemoveAtProperties
<1>2. /\ Len(s) \in Nat /\ k \in Nat /\ 1 <= k /\ k <= Len(s)
      /\ \A i \in 1..Len(s) : s[i] \in Nat
  <2>1. Len(s) \in Nat
    BY LenProperties
  <2>2. \A i \in 1..Len(s) : s[i] \in Nat
    BY ElementOfSeq
  <2> QED
    BY <2>1, <2>2
<1>3. \A i \in 1..(Len(s) - 1) : J(i) \in 1..Len(s) /\ J(i) # k
  BY <1>2
<1>4. \A i, j \in 1..(Len(s) - 1) : i < j => J(i) < J(j)
  BY <1>2
<1>5. \A j \in 1..Len(s) : j # k => \E i \in 1..(Len(s) - 1) : J(i) = j
  <2> SUFFICES ASSUME NEW j \in 1..Len(s), j # k
               PROVE  \E i \in 1..(Len(s) - 1) : J(i) = j
    OBVIOUS
  <2>1. CASE j < k
    BY <1>2, <2>1
  <2>2. CASE j > k
    <3>1. j - 1 \in 1..(Len(s) - 1) /\ J(j - 1) = j
      BY <1>2, <2>2
    <3> QED
      BY <3>1
  <2> QED
    BY <1>2, <2>1, <2>2
<1>6. \A i, j \in 1..Len(s) : s[i] = s[j] => i = j
  <2> SUFFICES ASSUME NEW i \in 1..Len(s), NEW j \in 1..Len(s), s[i] = s[j], i # j
               PROVE  FALSE
    OBVIOUS
  <2>1. s[i] \in Nat /\ s[j] \in Nat /\ (i < j \/ j < i)
    BY <1>2
  <2>2. s[i] < s[j] \/ s[j] < s[i]
    BY <2>1 DEF Increasing
  <2> QED
    BY <2>1, <2>2
<1> HIDE DEF r, J
<1>7. Increasing(r)
  <2> SUFFICES ASSUME NEW i \in 1..Len(r), NEW j \in 1..Len(r), i < j
               PROVE  r[i] < r[j]
    BY DEF Increasing
  <2>1. r[i] = s[J(i)] /\ r[j] = s[J(j)] /\ J(i) \in 1..Len(s) /\ J(j) \in 1..Len(s) /\ J(i) < J(j)
    BY <1>1, <1>3, <1>4
  <2> QED
    BY <2>1 DEF Increasing
<1>8. ASSUME NEW x, Contains(r, x) PROVE Contains(s, x) /\ x # s[k]
  <2>1. PICK i \in 1..(Len(s) - 1) : r[i] = x
    BY <1>1, <1>8 DEF Contains
  <2>2. x = s[J(i)] /\ J(i) \in 1..Len(s) /\ J(i) # k
    BY <1>1, <1>3, <2>1
  <2>3. s[J(i)] # s[k]
    BY <1>6, <2>2
  <2> QED
    BY <2>2, <2>3 DEF Contains
<1>9. ASSUME NEW x, Contains(s, x), x # s[k] PROVE Contains(r, x)
  <2>1. PICK j \in 1..Len(s) : s[j] = x
    BY <1>9 DEF Contains
  <2>2. PICK i \in 1..(Len(s) - 1) : J(i) = j
    BY <1>5, <1>9, <2>1
  <2> QED
    BY <1>1, <2>1, <2>2 DEF Contains
<1> QED
  BY <1>1, <1>7, <1>8, <1>9 DEF r

(* An increasing sequence is determined by its members.                    *)
LEMMA SameMembers ==
    ASSUME NEW S, S \subseteq Nat, NEW s \in Seq(S), NEW t \in Seq(S),
           Increasing(s), Increasing(t),
           \A x : Contains(s, x) <=> Contains(t, x)
    PROVE  s = t
<1>1. /\ Len(s) \in Nat /\ Len(t) \in Nat
      /\ \A i \in 1..Len(s) : s[i] \in Nat
      /\ \A i \in 1..Len(t) : t[i] \in Nat
  <2>1. Len(s) \in Nat /\ Len(t) \in Nat
    BY LenProperties
  <2>2. \A i \in 1..Len(s) : s[i] \in Nat
    BY ElementOfSeq
  <2>3. \A i \in 1..Len(t) : t[i] \in Nat
    BY ElementOfSeq
  <2> QED
    BY <2>1, <2>2, <2>3
<1>2. ASSUME NEW i \in 1..Len(s), i > Len(t) \/ s[i] # t[i],
             \A j \in 1..(i - 1) : j <= Len(t) /\ s[j] = t[j]
      PROVE  FALSE
  <2>1. PICK j \in 1..Len(t) : t[j] = s[i]
    BY DEF Contains
  <2>2. ~(j < i)
    <3> SUFFICES ASSUME j < i PROVE FALSE
      OBVIOUS
    <3>1. j \in 1..(i - 1) /\ j \in 1..Len(s)
      BY <1>1
    <3>2. s[j] = s[i] /\ s[j] < s[i]
      BY <1>2, <2>1, <3>1 DEF Increasing
    <3> QED
      BY <1>1, <3>1, <3>2
  <2>3. i \in 1..Len(t) /\ s[i] # t[i] /\ i < j
    BY <1>1, <1>2, <2>1, <2>2
  <2>4. t[i] < s[i]
    BY <2>1, <2>3 DEF Increasing
  <2>5. PICK l \in 1..Len(s) : s[l] = t[i]
    BY <2>3 DEF Contains
  <2>6. CASE l < i
    <3>1. l \in 1..(i - 1) /\ l \in 1..Len(t)
      BY <1>1, <1>2, <2>6
    <3>2. t[l] = t[i] /\ t[l] < t[i]
      BY <1>2, <2>3, <2>5, <2>6, <3>1 DEF Increasing
    <3> QED
      BY <1>1, <2>3, <3>2
  <2>7. CASE l >= i
    <3>1. s[l] = s[i] \/ s[i] < s[l]
      BY <1>1, <2>7 DEF Increasing
    <3> QED
      BY <1>1, <2>3, <2>4, <2>5, <3>1
  <2> QED
    BY <1>1, <2>6, <2>7
<1>3. \A i \in 1..Len(s) : i <= Len(t) /\ s[i] = t[i]
  <2> DEFINE T == {i \in 1..Len(s) : i > Len(t) \/ s[i] # t[i]}
  <2> SUFFICES ASSUME T # {} PROVE FALSE
    BY <1>1
  <2>1. T \subseteq Nat
    BY <1>1
  <2>2. PICK i \in T : \A j \in T : i <= j
    <3> HIDE DEF T
    <3> QED
      BY <2>1, SmallestNat
  <2>3. \A j \in 1..(i - 1) : j <= Len(t) /\ s[j] = t[j]
    BY <1>1, <2>2
  <2> QED
    BY <1>2, <2>3
<1>4. Len(t) <= Len(s)
  <2> SUFFICES ASSUME Len(s) < Len(t) PROVE FALSE
    BY <1>1
  <2>1. Len(t) \in 1..Len(t)
    BY <1>1
  <2>2. PICK l \in 1..Len(s) : s[l] = t[Len(t)]
    BY <2>1 DEF Contains
  <2>3. l \in 1..Len(t) /\ l < Len(t) /\ t[l] = t[Len(t)]
    BY <1>1, <1>3, <2>2
  <2>4. t[l] < t[Len(t)]
    BY <2>1, <2>3 DEF Increasing
  <2> QED
    BY <1>1, <2>1, <2>3, <2>4
<1>5. Len(s) = Len(t)
  <2>1. CASE Len(s) = 0
    <3>1. ASSUME Len(t) # 0 PROVE FALSE
      BY <1>1, <1>4, <2>1, <3>1
    <3> QED
      BY <2>1, <3>1
  <2>2. CASE Len(s) # 0
    <3>1. Len(s) \in 1..Len(s)
      BY <1>1, <2>2
    <3> QED
      BY <1>1, <1>3, <1>4, <3>1
  <2> QED
    BY <2>1, <2>2
<1> QED
  BY <1>3, <1>5, SeqEqual

(* A sequence has no element twice.                                        *)
Once(s) == \A i, j \in 1..Len(s) : s[i] = s[j] => i = j

(* What is in one sequence behind another.                                 *)
LEMMA ConcatMembers ==
    ASSUME NEW S, NEW s \in Seq(S), NEW t \in Seq(S)
    PROVE  /\ s \o t \in Seq(S)
           /\ \A x : Contains(s \o t, x) <=> Contains(s, x) \/ Contains(t, x)
           /\ Once(s) /\ Once(t) /\ (\A x : ~(Contains(s, x) /\ Contains(t, x))) => Once(s \o t)
<1> DEFINE a == Len(s)
           b == Len(t)
           r == s \o t
<1>1. a \in Nat /\ b \in Nat
  BY LenProperties
<1>2. r \in Seq(S)
  BY ConcatProperties
<1>3. Len(r) = a + b
  BY ConcatProperties
<1>4. \A i \in 1..(a + b) : r[i] = IF i <= a THEN s[i] ELSE t[i - a]
  BY ConcatProperties
<1>5. \A x : Contains(r, x) <=> \E i \in 1..(a + b) : r[i] = x
  BY <1>3 DEF Contains
<1>6. \A x : Contains(s, x) <=> \E i \in 1..a : s[i] = x
  BY DEF Contains
<1>7. \A x : Contains(t, x) <=> \E i \in 1..b : t[i] = x
  BY DEF Contains
<1>8. /\ Once(r) <=> \A i, j \in 1..(a + b) : r[i] = r[j] => i = j
      /\ Once(s) <=> \A i, j \in 1..a : s[i] = s[j] => i = j
      /\ Once(t) <=> \A i, j \in 1..b : t[i] = t[j] => i = j
  BY <1>3 DEF Once
<1> HIDE DEF a, b, r
<1>9. /\ \A i \in 1..a : i \in 1..(a + b) /\ r[i] = s[i]
      /\ \A i \in 1..b : a + i \in 1..(a + b) /\ r[a + i] = t[i]
      /\ \A i \in 1..(a + b) : i \in 1..a \/ (i - a \in 1..b /\ r[i] = t[i - a])
  <2>1. \A i \in 1..a : i \in 1..(a + b) /\ i <= a
    BY <1>1
  <2>2. \A i \in 1..b : a + i \in 1..(a + b) /\ ~(a + i <= a) /\ (a + i) - a = i
    BY <1>1
  <2>3. \A i \in 1..(a + b) : i \in 1..a \/ (i - a \in 1..b /\ ~(i <= a))
    BY <1>1
  <2> QED
    BY <1>4, <2>1, <2>2, <2>3
<1>10. \A x : Contains(r, x) <=> Contains(s, x) \/ Contains(t, x)
  <2>1. ASSUME NEW x, Contains(r, x) PROVE Contains(s, x) \/ Contains(t, x)
    <3>1. PICK i \in 1..(a + b) : r[i] = x
      BY <1>5, <2>1
    <3>2. CASE i \in 1..a
      BY <1>6, <1>9, <3>1, <3>2
    <3>3. CASE i - a \in 1..b /\ r[i] = t[i - a]
      BY <1>7, <3>1, <3>3
    <3> QED
      BY <1>9, <3>2, <3>3
  <2>2. ASSUME NEW x, Contains(s, x) PROVE Contains(r, x)
    BY <1>5, <1>6, <1>9, <2>2
  <2>3. ASSUME NEW x, Contains(t, x) PROVE Contains(r, x)
    BY <1>5, <1>7, <1>9, <2>3
  <2> QED
    BY <2>1, <2>2, <2>3
<1>11. ASSUME Once(s), Once(t), \A x : ~(Contains(s, x) /\ Contains(t, x)) PROVE Once(r)
  <2> SUFFICES ASSUME NEW i \in 1..(a + b), NEW j \in 1..(a + b), r[i] = r[j] PROVE i = j
    BY <1>8
  <2>1. \A k \in 1..a, l \in 1..b : s[k] # t[l]
    BY <1>6, <1>7, <1>11
  <2>2. CASE i \in 1..a /\ j \in 1..a
    BY <1>8, <1>9, <1>11, <2>2
  <2>3. CASE i - a \in 1..b /\ j - a \in 1..b
    <3>1. r[i] = t[i - a] /\ r[j] = t[j - a]
      BY <1>1, <1>4, <2>3
    <3>2. i - a = j - a
      BY <1>8, <1>11, <2>3, <3>1
    <3> QED
      BY <1>1, <3>2
  <2> QED
    BY <1>9, <2>1, <2>2, <2>3
<1> QED
  BY <1>2, <1>10, <1>11 DEF r

(* The sequences that FlattenSeq puts behind each other.                   *)
LEMMA FlattenProperties ==
    ASSUME NEW S, NEW parts \in Seq(Seq(S))
    PROVE  /\ FlattenSeq(parts) \in Seq(S)
           /\ \A x : Contains(FlattenSeq(parts), x) <=>
                         \E i \in 1..Len(parts) : Contains(parts[i], x)
           /\ /\ \A i \in 1..Len(parts) : Once(parts[i])
              /\ \A i, j \in 1..Len(parts) : i # j =>
                     \A x : ~(Contains(parts[i], x) /\ Contains(parts[j], x))
              => Once(FlattenSeq(parts))
<1> DEFINE k == Len(parts)
           body(n, h) == [i \in 1..n |-> IF i = 1 THEN parts[i] ELSE h[i - 1] \o parts[i]]
           f == CHOOSE h : h = body(k, h)
           Apart == /\ \A i \in 1..Len(parts) : Once(parts[i])
                    /\ \A i, j \in 1..Len(parts) : i # j =>
                           \A x : ~(Contains(parts[i], x) /\ Contains(parts[j], x))
<1>1. k \in Nat /\ \A i \in 1..k : parts[i] \in Seq(S)
  BY LenProperties, ElementOfSeq
<1>2. CASE k = 0
  <2>1. parts = <<>>
    BY <1>2, EmptySeq
  <2>2. FlattenSeq(parts) = <<>>
    BY <1>2, <2>1 DEF FlattenSeq
  <2>3. <<>> \in Seq(S) /\ Len(<<>>) = 0
    OBVIOUS
  <2>4. \A x : ~Contains(<<>>, x)
    BY <2>3 DEF Contains
  <2>5. Once(<<>>)
    BY <2>3 DEF Once
  <2> QED
    BY <1>2, <2>2, <2>3, <2>4, <2>5
<1>3. CASE k # 0
  <2> HIDE DEF body
  <2> DEFINE U == {n \in 1..k : ~\E h : h = body(n, h)}
  <2>1. U = {}
    <3> SUFFICES ASSUME U # {} PROVE FALSE
      OBVIOUS
    <3>1. PICK n \in U : \A l \in U : n <= l
      <4>1. U \subseteq Nat
        OBVIOUS
      <4> HIDE DEF U
      <4> QED
        BY <4>1, SmallestNat
    <3>2. n \in 1..k /\ ~\E h : h = body(n, h)
      BY <3>1
    <3>3. CASE n = 1
      <4> DEFINE h == [i \in 1..n |-> parts[1]]
      <4>1. h = body(n, h)
        BY <3>3 DEF body
      <4> QED
        BY <3>2, <4>1
    <3>4. CASE n # 1
      <4>1. n - 1 \in 1..k /\ ~(n <= n - 1) /\ n \in Nat /\ n > 1
        BY <1>1, <3>2, <3>4
      <4>2. n - 1 \notin U
        BY <3>1, <4>1
      <4>3. PICK g : g = body(n - 1, g)
        BY <4>1, <4>2
      <4> DEFINE h == [i \in 1..n |-> IF i = n THEN g[n - 1] \o parts[n] ELSE g[i]]
      <4>4. \A i \in 1..(n - 1) : g[i] = IF i = 1 THEN parts[i] ELSE g[i - 1] \o parts[i]
        BY <4>3 DEF body
      <4>5. \A i \in 1..(n - 1) : i \in 1..n /\ i # n /\ h[i] = g[i]
        BY <4>1
      <4>6. n \in 1..n /\ n - 1 \in 1..(n - 1)
        BY <4>1
      <4>6a. h[n] = g[n - 1] \o parts[n]
        BY <4>6
      <4>7. h = [i \in 1..n |-> h[i]]
        OBVIOUS
      <4> HIDE DEF h
      <4>8. \A i \in 1..n : h[i] = IF i = 1 THEN parts[i] ELSE h[i - 1] \o parts[i]
        <5> SUFFICES ASSUME NEW i \in 1..n
                     PROVE  h[i] = IF i = 1 THEN parts[i] ELSE h[i - 1] \o parts[i]
          OBVIOUS
        <5>1. CASE i = n
          <6>1. h[n - 1] = g[n - 1]
            BY <4>5, <4>6
          <6> QED
            BY <3>4, <4>6a, <5>1, <6>1
        <5>2. CASE i # n
          <6>1. i \in 1..(n - 1) /\ (i # 1 => i - 1 \in 1..(n - 1))
            BY <4>1, <5>2
          <6> QED
            BY <4>4, <4>5, <6>1
        <5> QED
          BY <5>1, <5>2
      <4>9. h = body(n, h)
        BY <4>7, <4>8 DEF body
      <4> QED
        BY <3>2, <4>9
    <3> QED
      BY <3>3, <3>4
  <2>2. f = body(k, f)
    <3>1. k \in 1..k
      BY <1>1, <1>3
    <3>2. \E h : h = body(k, h)
      BY <2>1, <3>1
    <3> QED
      BY <3>2
  <2>3. FlattenSeq(parts) = f[k]
    BY <1>3 DEF FlattenSeq, body
  <2> HIDE DEF f, U
  <2>4. \A i \in 1..k : f[i] = IF i = 1 THEN parts[i] ELSE f[i - 1] \o parts[i]
    BY <2>2 DEF body
  <2> DEFINE P(n) == /\ f[n] \in Seq(S)
                     /\ \A x : Contains(f[n], x) <=> \E i \in 1..n : Contains(parts[i], x)
                     /\ Apart => Once(f[n])
             T == {n \in 1..k : ~P(n)}
  <2>5. P(1)
    <3>1. 1 \in 1..k /\ f[1] = parts[1]
      BY <1>1, <1>3, <2>4
    <3>2. \A x : Contains(f[1], x) <=> \E i \in 1..1 : Contains(parts[i], x)
      BY <3>1
    <3> QED
      BY <1>1, <3>1, <3>2
  <2>6. ASSUME NEW n \in 2..k, P(n - 1) PROVE P(n)
    <3>1. n \in 1..k /\ f[n] = f[n - 1] \o parts[n] /\ n - 1 \in Nat
      <4> HIDE DEF k
      <4>1. n \in 1..k /\ n # 1 /\ n - 1 \in Nat
        BY <1>1
      <4> QED
        BY <2>4, <4>1
    <3>2. f[n - 1] \in Seq(S) /\ parts[n] \in Seq(S)
      BY <1>1, <2>6, <3>1
    <3>3. f[n] \in Seq(S) /\ \A x : Contains(f[n], x) <=> Contains(f[n - 1], x) \/ Contains(parts[n], x)
      BY <3>1, <3>2, ConcatMembers
    <3>4. \A i : i \in 1..n <=> i \in 1..(n - 1) \/ i = n
      BY <3>1
    <3>5. \A x : Contains(f[n], x) <=> \E i \in 1..n : Contains(parts[i], x)
      BY <2>6, <3>3, <3>4
    <3>6. ASSUME Apart PROVE Once(f[n])
      <4>1. Once(f[n - 1]) /\ Once(parts[n])
        BY <2>6, <3>1, <3>6
      <4>2. \A i \in 1..(n - 1) : i \in 1..k /\ i # n
        BY <1>1
      <4>3. \A x : ~(Contains(f[n - 1], x) /\ Contains(parts[n], x))
        BY <2>6, <3>1, <3>6, <4>2
      <4> QED
        BY <3>1, <3>2, <4>1, <4>3, ConcatMembers
    <3> QED
      BY <3>3, <3>5, <3>6
  <2>7. T = {}
    <3> SUFFICES ASSUME T # {} PROVE FALSE
      OBVIOUS
    <3>1. PICK n \in T : \A l \in T : n <= l
      <4>1. T \subseteq Nat
        OBVIOUS
      <4> HIDE DEF T
      <4> QED
        BY <4>1, SmallestNat
    <3> HIDE DEF P
    <3>2. n # 1 /\ n \in 1..k
      BY <2>5, <3>1
    <3>3. n \in 2..k /\ n - 1 \in 1..k /\ ~(n <= n - 1)
      BY <1>1, <3>2
    <3>4. P(n - 1)
      BY <3>1, <3>3
    <3> QED
      BY <2>6, <3>1, <3>3, <3>4
  <2>8. P(k)
    <3> HIDE DEF P, k
    <3>1. k \in 1..k
      BY <1>1, <1>3
    <3> QED
      BY <2>7, <3>1
  <2> QED
    BY <2>3, <2>8
<1> QED
  BY <1>2, <1>3
===============================================================================

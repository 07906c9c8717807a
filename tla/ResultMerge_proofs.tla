-------------------------- MODULE ResultMerge_proofs ---------------------------
(***************************************************************************)
(* Theorems of ResultMerge: for any number of ids in any number of groups  *)
(* the merge passes stay inside the buffers, lose no id and end with the   *)
(* ids in order.                                                           *)
(***************************************************************************)
EXTENDS ResultMerge, FiniteSetTheorems, TLAPS

Offsets == 0..N - 1

(* f grows from a up to b.                                                 *)
Rising(f, a, b) == \A i, l \in a..b : i < l => f[i] < f[l]

(* All that f has at a..b is in d at c..e.                                 *)
Found(f, a, b, d, c, e) == \A i \in a..b : \E l \in c..e : d[l] = f[i]

(* The runs a..m-1 and m..e-1 of f are merged into d up to c; the next ids *)
(* to compare are at x and y.                                              *)
Merging(f, d, a, m, e, x, y, c) ==
    /\ a <= x /\ x < m /\ m <= y /\ y < e
    /\ c = x + y - m
    /\ Found(f, a, x - 1, d, a, c - 1)
    /\ Found(f, m, y - 1, d, a, c - 1)
    /\ Rising(d, a, c - 1)
    /\ \A i \in a..c - 1 : d[i] < f[x] /\ d[i] < f[y]

(* Both runs are in d, which has not changed in front of them.             *)
MergedRuns(f, d, before, a, e) ==
    /\ Found(f, a, e - 1, d, a, e - 1)
    /\ Rising(d, a, e - 1)
    /\ \A i \in 0..a - 1 : d[i] = before[i]

-------------------------------------------------------------------------------
(* Merging two runs.                                                        *)

(* One id more, greater than those before.                                 *)
LEMMA PlaceOne ==
    ASSUME NEW d \in [Offsets -> Nat], NEW a \in Nat, NEW c \in Offsets, a <= c,
           NEW v \in Nat, NEW t, t = [d EXCEPT ![c] = v],
           Rising(d, a, c - 1), \A i \in a..c - 1 : d[i] < v
    PROVE  /\ Rising(t, a, c)
           /\ t \in [Offsets -> Nat]
           /\ t[c] = v
           /\ \A i \in Offsets : i # c => t[i] = d[i]
<1>1. /\ t \in [Offsets -> Nat] /\ t[c] = v
      /\ \A i \in Offsets : i # c => t[i] = d[i]
  OBVIOUS
<1>2. Rising(t, a, c)
  <2> SUFFICES ASSUME NEW i \in a..c, NEW l \in a..c, i < l PROVE t[i] < t[l]
    BY DEF Rising
  <2>0. N \in Nat /\ c \in Nat /\ c < N
    BY SizeAssumption DEF Offsets
  <2>1. i \in a..c - 1 /\ i \in Offsets /\ i # c /\ t[i] = d[i]
    <3>1. i \in a..c - 1 /\ i \in Offsets /\ i # c
      BY <2>0 DEF Offsets
    <3> QED
      BY <1>1, <3>1
  <2>2. CASE l = c
    BY <1>1, <2>1, <2>2
  <2>3. CASE l # c
    <3>1. l \in a..c - 1 /\ l \in Offsets
      BY <2>0, <2>3 DEF Offsets
    <3> QED
      BY <1>1, <2>1, <2>3, <3>1 DEF Rising
  <2> QED
    BY <2>2, <2>3
<1> QED
  BY <1>1, <1>2

(* What one buffer had is there after one more id was written.             *)
LEMMA StillFound ==
    ASSUME NEW f, NEW d, NEW t, NEW a \in Int, NEW b \in Int, NEW o \in Int, NEW c \in Int,
           Found(f, a, b, d, o, c - 1), \A i \in o..c - 1 : t[i] = d[i]
    PROVE  Found(f, a, b, t, o, c)
<1> SUFFICES ASSUME NEW i \in a..b PROVE \E l \in o..c : t[l] = f[i]
  BY DEF Found
<1>1. PICK l \in o..c - 1 : d[l] = f[i]
  BY DEF Found
<1>2. l \in o..c /\ t[l] = d[l]
  BY <1>1
<1> QED
  BY <1>1, <1>2

(* The smaller id is from the first run and there is another in it.        *)
LEMMA TakeFirst ==
    ASSUME NEW f \in [Offsets -> Nat], NEW d \in [Offsets -> Nat],
           NEW a \in Nat, NEW m \in Nat, NEW e \in Nat, e <= N,
           NEW x \in Nat, NEW y \in Nat, NEW c \in Nat,
           Merging(f, d, a, m, e, x, y, c), Rising(f, a, m - 1),
           f[x] < f[y], x + 1 < m
    PROVE  Merging(f, [d EXCEPT ![c] = f[x]], a, m, e, x + 1, y, c + 1)
<1> DEFINE t == [d EXCEPT ![c] = f[x]]
<1>1. /\ a <= x /\ x < m /\ m <= y /\ y < e /\ c = x + y - m /\ N \in Nat
      /\ Rising(d, a, c - 1)
      /\ \A i \in a..c - 1 : d[i] < f[x] /\ d[i] < f[y]
  BY SizeAssumption DEF Merging
<1>2. a <= c /\ c \in Offsets /\ x \in Offsets /\ y \in Offsets /\ x + 1 \in Offsets
  BY <1>1 DEF Offsets
<1>3. f[x] \in Nat /\ f[y] \in Nat /\ f[x + 1] \in Nat /\ f[x] < f[x + 1]
  <2>1. x \in a..m - 1 /\ x + 1 \in a..m - 1 /\ x < x + 1
    BY <1>1
  <2> QED
    BY <1>2, <2>1 DEF Rising
<1>a. t = [d EXCEPT ![c] = f[x]]
  OBVIOUS
<1> HIDE DEF t
<1>4. /\ Rising(t, a, c) /\ t \in [Offsets -> Nat] /\ t[c] = f[x]
      /\ \A i \in Offsets : i # c => t[i] = d[i]
  <2> DEFINE v == f[x]
  <2>1. v \in Nat /\ t = [d EXCEPT ![c] = v]
    BY <1>3, <1>a
  <2>2. \A i \in a..c - 1 : d[i] < v
    BY <1>1
  <2>3. Rising(d, a, c - 1) /\ a <= c /\ c \in Offsets
    BY <1>1, <1>2
  <2> HIDE DEF v
  <2>4. /\ Rising(t, a, c) /\ t \in [Offsets -> Nat] /\ t[c] = v
        /\ \A i \in Offsets : i # c => t[i] = d[i]
    BY <2>1, <2>2, <2>3, PlaceOne
  <2> QED
    BY <2>4 DEF v
<1>5. \A i \in a..c - 1 : i \in Offsets /\ t[i] = d[i]
  <2>1. \A i \in a..c - 1 : i \in Offsets /\ i # c
    BY <1>1, <1>2 DEF Offsets
  <2> QED
    BY <1>4, <2>1
<1>6. Found(f, a, x - 1, t, a, c) /\ Found(f, m, y - 1, t, a, c)
  BY <1>5, StillFound DEF Merging
<1>7. Found(f, a, x, t, a, c)
  <2> SUFFICES ASSUME NEW i \in a..x PROVE \E l \in a..c : t[l] = f[i]
    BY DEF Found
  <2>1. CASE i = x
    BY <1>2, <1>4, <2>1
  <2>2. CASE i # x
    <3>1. i \in a..x - 1
      BY <2>2
    <3> QED
      BY <1>6, <3>1 DEF Found
  <2> QED
    BY <2>1, <2>2
<1>8. \A i \in a..c : t[i] < f[x + 1] /\ t[i] < f[y]
  <2> SUFFICES ASSUME NEW i \in a..c PROVE t[i] < f[x + 1] /\ t[i] < f[y]
    OBVIOUS
  <2>1. CASE i = c
    BY <1>3, <1>4, <2>1
  <2>2. CASE i # c
    <3>1. i \in a..c - 1
      BY <2>2
    <3>2. t[i] = d[i] /\ d[i] \in Nat /\ d[i] < f[x] /\ d[i] < f[y]
      BY <1>1, <1>5, <3>1
    <3> QED
      BY <1>3, <3>2
  <2> QED
    BY <2>1, <2>2
<1>9. (x + 1) - 1 = x /\ (c + 1) - 1 = c /\ c + 1 = (x + 1) + y - m /\ a <= x + 1
  BY <1>1
<1> QED
  BY <1>1, <1>4, <1>6, <1>7, <1>8, <1>9 DEF Merging, t

(* The smaller id is from the second run and there is another in it.       *)
LEMMA TakeSecond ==
    ASSUME NEW f \in [Offsets -> Nat], NEW d \in [Offsets -> Nat],
           NEW a \in Nat, NEW m \in Nat, NEW e \in Nat, e <= N,
           NEW x \in Nat, NEW y \in Nat, NEW c \in Nat,
           Merging(f, d, a, m, e, x, y, c), Rising(f, m, e - 1),
           f[y] < f[x], y + 1 < e
    PROVE  Merging(f, [d EXCEPT ![c] = f[y]], a, m, e, x, y + 1, c + 1)
<1> DEFINE t == [d EXCEPT ![c] = f[y]]
<1>1. /\ a <= x /\ x < m /\ m <= y /\ y < e /\ c = x + y - m /\ N \in Nat
      /\ Rising(d, a, c - 1)
      /\ \A i \in a..c - 1 : d[i] < f[x] /\ d[i] < f[y]
  BY SizeAssumption DEF Merging
<1>2. a <= c /\ c \in Offsets /\ x \in Offsets /\ y \in Offsets /\ y + 1 \in Offsets
  BY <1>1 DEF Offsets
<1>3. f[x] \in Nat /\ f[y] \in Nat /\ f[y + 1] \in Nat /\ f[y] < f[y + 1]
  <2>1. y \in m..e - 1 /\ y + 1 \in m..e - 1 /\ y < y + 1
    BY <1>1
  <2> QED
    BY <1>2, <2>1 DEF Rising
<1>a. t = [d EXCEPT ![c] = f[y]]
  OBVIOUS
<1> HIDE DEF t
<1>4. /\ Rising(t, a, c) /\ t \in [Offsets -> Nat] /\ t[c] = f[y]
      /\ \A i \in Offsets : i # c => t[i] = d[i]
  <2> DEFINE v == f[y]
  <2>1. v \in Nat /\ t = [d EXCEPT ![c] = v]
    BY <1>3, <1>a
  <2>2. \A i \in a..c - 1 : d[i] < v
    BY <1>1
  <2>3. Rising(d, a, c - 1) /\ a <= c /\ c \in Offsets
    BY <1>1, <1>2
  <2> HIDE DEF v
  <2>4. /\ Rising(t, a, c) /\ t \in [Offsets -> Nat] /\ t[c] = v
        /\ \A i \in Offsets : i # c => t[i] = d[i]
    BY <2>1, <2>2, <2>3, PlaceOne
  <2> QED
    BY <2>4 DEF v
<1>5. \A i \in a..c - 1 : i \in Offsets /\ t[i] = d[i]
  <2>1. \A i \in a..c - 1 : i \in Offsets /\ i # c
    BY <1>1, <1>2 DEF Offsets
  <2> QED
    BY <1>4, <2>1
<1>6. Found(f, a, x - 1, t, a, c) /\ Found(f, m, y - 1, t, a, c)
  BY <1>5, StillFound DEF Merging
<1>7. Found(f, m, y, t, a, c)
  <2> SUFFICES ASSUME NEW i \in m..y PROVE \E l \in a..c : t[l] = f[i]
    BY DEF Found
  <2>1. CASE i = y
    BY <1>2, <1>4, <2>1
  <2>2. CASE i # y
    <3>1. i \in m..y - 1
      BY <2>2
    <3> QED
      BY <1>6, <3>1 DEF Found
  <2> QED
    BY <2>1, <2>2
<1>8. \A i \in a..c : t[i] < f[x] /\ t[i] < f[y + 1]
  <2> SUFFICES ASSUME NEW i \in a..c PROVE t[i] < f[x] /\ t[i] < f[y + 1]
    OBVIOUS
  <2>1. CASE i = c
    BY <1>3, <1>4, <2>1
  <2>2. CASE i # c
    <3>1. i \in a..c - 1
      BY <2>2
    <3>2. t[i] = d[i] /\ d[i] \in Nat /\ d[i] < f[x] /\ d[i] < f[y]
      BY <1>1, <1>5, <3>1
    <3> QED
      BY <1>3, <3>2
  <2> QED
    BY <2>1, <2>2
<1>9. (y + 1) - 1 = y /\ (c + 1) - 1 = c /\ c + 1 = x + (y + 1) - m /\ m <= y + 1
  BY <1>1
<1> QED
  BY <1>1, <1>4, <1>6, <1>7, <1>8, <1>9 DEF Merging, t

(* t is d with what f has at r..z behind c.                                *)
RestCopied(f, d, t, c, r, z) ==
    /\ \A i \in 0..c - 1 : t[i] = d[i]
    /\ \A i \in c + 1..c + (z - r) + 1 : t[i] = f[r + i - (c + 1)]

(* The other run is used up and the rest r..z of this one is copied.       *)
LEMMA CopyRest ==
    ASSUME NEW f \in [Offsets -> Nat], NEW d \in [Offsets -> Nat], NEW t \in [Offsets -> Nat],
           NEW a \in Nat, NEW c \in Offsets, a <= c,
           NEW r \in Offsets, NEW z \in Offsets, r <= z, c + (z - r) + 1 < N,
           RestCopied(f, d, t, c, r, z),
           Rising(d, a, c - 1), \A i \in a..c - 1 : d[i] < t[c] /\ d[i] < f[r],
           t[c] < f[r], Rising(f, r, z)
    PROVE  /\ Rising(t, a, c + (z - r) + 1)
           /\ Found(f, r, z, t, a, c + (z - r) + 1)
<1> DEFINE u == c + (z - r) + 1
           At(i) == r + i - (c + 1)
<1>1. /\ N \in Nat /\ c \in Nat /\ r \in Nat /\ z \in Nat /\ u \in Nat /\ c < u
      /\ c < N /\ z < N
  BY SizeAssumption DEF Offsets
<1>2. \A i \in c + 1..u : At(i) \in r..z /\ At(i) \in Offsets /\ t[i] = f[At(i)]
  <2>1. \A i \in c + 1..u : At(i) \in r..z /\ At(i) \in Offsets
    BY <1>1 DEF Offsets
  <2> QED
    BY <2>1 DEF RestCopied
<1>3. \A i \in r..z : f[i] \in Nat
  <2>1. \A i \in r..z : i \in Offsets
    BY <1>1 DEF Offsets
  <2> QED
    BY <2>1
<1>4. f[r] \in Nat /\ \A i \in r..z : f[r] <= f[i]
  <2>1. r \in r..z
    BY <1>1
  <2>2. \A i \in r..z : i = r \/ r < i
    BY <1>1
  <2> QED
    BY <1>3, <2>1, <2>2 DEF Rising
<1>5. \A i \in a..c - 1 : t[i] = d[i] /\ d[i] \in Nat
  <2>1. \A i \in a..c - 1 : i \in 0..c - 1 /\ i \in Offsets
    BY <1>1 DEF Offsets
  <2> QED
    BY <2>1 DEF RestCopied
<1> HIDE DEF u, At
<1>6. Rising(t, a, u)
  <2> SUFFICES ASSUME NEW i \in a..u, NEW l \in a..u, i < l PROVE t[i] < t[l]
    BY DEF Rising
  <2>1. CASE l \in c + 1..u /\ i \in c + 1..u
    <3>1. At(i) < At(l)
      BY <1>1, <2>1 DEF At
    <3> QED
      BY <1>2, <2>1, <3>1 DEF Rising
  <2>2. CASE l \in c + 1..u /\ i = c
    <3>1. t[l] = f[At(l)] /\ f[At(l)] \in Nat /\ f[r] <= f[At(l)]
      BY <1>2, <1>3, <1>4, <2>2
    <3> QED
      BY <1>4, <2>2, <3>1
  <2>3. CASE l \in c + 1..u /\ i \in a..c - 1
    <3>1. t[l] = f[At(l)] /\ f[At(l)] \in Nat /\ f[r] <= f[At(l)]
      BY <1>2, <1>3, <1>4, <2>3
    <3>2. t[i] = d[i] /\ d[i] \in Nat /\ d[i] < f[r]
      BY <1>5, <2>3
    <3> QED
      BY <1>4, <3>1, <3>2
  <2>4. CASE l = c
    <3>1. i \in a..c - 1
      BY <1>1, <2>4
    <3> QED
      BY <1>5, <2>4, <3>1
  <2>5. CASE l \in a..c - 1
    <3>1. i \in a..c - 1
      BY <1>1, <2>5
    <3> QED
      BY <1>5, <2>5, <3>1 DEF Rising
  <2>6. \A n \in a..u : n \in c + 1..u \/ n = c \/ n \in a..c - 1
    BY <1>1
  <2>7. l \in c + 1..u \/ l = c \/ l \in a..c - 1
    BY <2>6
  <2>8. i \in c + 1..u \/ i = c \/ i \in a..c - 1
    BY <2>6
  <2> QED
    BY <2>1, <2>2, <2>3, <2>4, <2>5, <2>7, <2>8
<1>7. Found(f, r, z, t, a, u)
  <2> SUFFICES ASSUME NEW i \in r..z PROVE \E l \in a..u : t[l] = f[i]
    BY DEF Found
  <2> DEFINE l == i - r + c + 1
  <2>1. l \in c + 1..u /\ l \in a..u /\ At(l) = i
    BY <1>1 DEF At, u
  <2> QED
    BY <1>2, <2>1
<1> QED
  BY <1>6, <1>7 DEF u

(* The last id of the first run is taken, what is left of the second copied. *)
LEMMA FinishFirst ==
    ASSUME NEW f \in [Offsets -> Nat], NEW d \in [Offsets -> Nat],
           NEW a \in Nat, NEW m \in Nat, NEW e \in Nat, e <= N,
           NEW x \in Nat, NEW y \in Nat, NEW c \in Nat,
           Merging(f, d, a, m, e, x, y, c), Rising(f, a, m - 1), Rising(f, m, e - 1),
           f[x] < f[y], x + 1 = m,
           NEW t \in [Offsets -> Nat], t[c] = f[x],
           RestCopied(f, d, t, c, y, e - 1)
    PROVE  MergedRuns(f, t, d, a, e)
<1> DEFINE v == f[x]
           z == e - 1
<1>1. /\ a <= x /\ x < m /\ m <= y /\ y < e /\ c = x + y - m /\ N \in Nat
      /\ Rising(d, a, c - 1)
  BY SizeAssumption DEF Merging
<1>2. \A i \in a..c - 1 : d[i] < f[x] /\ d[i] < f[y]
  BY DEF Merging
<1>3. /\ c \in Offsets /\ a <= c /\ x \in Offsets /\ y \in Offsets /\ z \in Offsets /\ y <= z
      /\ c + (z - y) + 1 = e - 1 /\ e - 1 < N /\ c <= e - 1
  <2>1. c + (z - y) + 1 = e - 1
    BY <1>1
  <2>2. a <= c /\ c <= e - 1 /\ e - 1 < N /\ z \in Nat /\ z < N /\ y <= z
    BY <1>1
  <2>3. x < N /\ y < N /\ c < N
    BY <1>1, <2>2
  <2> HIDE DEF z
  <2> QED
    BY <1>1, <2>1, <2>2, <2>3 DEF Offsets
<1>4. v \in Nat /\ v < f[y] /\ \A i \in a..c - 1 : d[i] < v /\ d[i] < f[y]
  BY <1>2, <1>3
<1>5. Rising(f, y, z)
  <2>1. \A i \in y..z : i \in m..z
    BY <1>1
  <2> QED
    BY <2>1 DEF Rising
<1>6. t[c] = v /\ RestCopied(f, d, t, c, y, z)
  OBVIOUS
<1> HIDE DEF v, z
<1>7. /\ Rising(t, a, c + (z - y) + 1)
      /\ Found(f, y, z, t, a, c + (z - y) + 1)
  <2>1. c + (z - y) + 1 < N
    BY <1>3
  <2> QED
    BY <1>1, <1>3, <1>4, <1>5, <1>6, <2>1, CopyRest
<1>8. Rising(t, a, e - 1) /\ Found(f, y, z, t, a, e - 1)
  BY <1>3, <1>7
<1>9. Found(f, a, x - 1, t, a, c) /\ Found(f, m, y - 1, t, a, c)
  <2>1. \A i \in a..c - 1 : t[i] = d[i]
    <3>1. \A i \in a..c - 1 : i \in 0..c - 1
      BY <1>1
    <3> QED
      BY <3>1 DEF RestCopied
  <2> QED
    BY <2>1, StillFound DEF Merging
<1>10. Found(f, a, e - 1, t, a, e - 1)
  <2> SUFFICES ASSUME NEW i \in a..e - 1 PROVE \E l \in a..e - 1 : t[l] = f[i]
    BY DEF Found
  <2>1. CASE i \in a..x - 1 \/ i \in m..y - 1
    <3>1. PICK l \in a..c : t[l] = f[i]
      BY <1>9, <2>1 DEF Found
    <3>2. l \in a..e - 1
      BY <1>1, <1>3
    <3> QED
      BY <3>1, <3>2
  <2>2. CASE i = x
    <3>1. c \in a..e - 1
      BY <1>1, <1>3
    <3> QED
      BY <1>6, <2>2, <3>1 DEF v
  <2>3. CASE i \in y..z
    BY <1>8, <2>3 DEF Found
  <2>4. i \in a..x - 1 \/ i \in m..y - 1 \/ i = x \/ i \in y..z
    BY <1>1 DEF z
  <2> QED
    BY <2>1, <2>2, <2>3, <2>4
<1>11. \A i \in 0..a - 1 : t[i] = d[i]
  <2>1. \A i \in 0..a - 1 : i \in 0..c - 1
    BY <1>1, <1>3
  <2> QED
    BY <2>1 DEF RestCopied
<1> QED
  BY <1>8, <1>10, <1>11 DEF MergedRuns

(* The last id of the second run is taken, what is left of the first copied. *)
LEMMA FinishSecond ==
    ASSUME NEW f \in [Offsets -> Nat], NEW d \in [Offsets -> Nat],
           NEW a \in Nat, NEW m \in Nat, NEW e \in Nat, e <= N,
           NEW x \in Nat, NEW y \in Nat, NEW c \in Nat,
           Merging(f, d, a, m, e, x, y, c), Rising(f, a, m - 1), Rising(f, m, e - 1),
           f[y] < f[x], y + 1 = e,
           NEW t \in [Offsets -> Nat], t[c] = f[y],
           RestCopied(f, d, t, c, x, m - 1)
    PROVE  MergedRuns(f, t, d, a, e)
<1> DEFINE v == f[y]
           z == m - 1
<1>1. /\ a <= x /\ x < m /\ m <= y /\ y < e /\ c = x + y - m /\ N \in Nat
      /\ Rising(d, a, c - 1)
  BY SizeAssumption DEF Merging
<1>2. \A i \in a..c - 1 : d[i] < f[x] /\ d[i] < f[y]
  BY DEF Merging
<1>3. /\ c \in Offsets /\ a <= c /\ x \in Offsets /\ y \in Offsets /\ z \in Offsets /\ x <= z
      /\ c + (z - x) + 1 = e - 1 /\ e - 1 < N /\ c <= e - 1
  <2>1. c + (z - x) + 1 = e - 1
    BY <1>1
  <2>2. a <= c /\ c <= e - 1 /\ e - 1 < N /\ z \in Nat /\ z < N /\ x <= z
    BY <1>1
  <2>3. x < N /\ y < N /\ c < N
    BY <1>1, <2>2
  <2> HIDE DEF z
  <2> QED
    BY <1>1, <2>1, <2>2, <2>3 DEF Offsets
<1>4. v \in Nat /\ v < f[x] /\ \A i \in a..c - 1 : d[i] < v /\ d[i] < f[x]
  BY <1>2, <1>3
<1>5. Rising(f, x, z)
  <2>1. \A i \in x..z : i \in a..z
    BY <1>1
  <2> QED
    BY <2>1 DEF Rising
<1>6. t[c] = v /\ RestCopied(f, d, t, c, x, z)
  OBVIOUS
<1> HIDE DEF v, z
<1>7. /\ Rising(t, a, c + (z - x) + 1)
      /\ Found(f, x, z, t, a, c + (z - x) + 1)
  <2>1. c + (z - x) + 1 < N
    BY <1>3
  <2> QED
    BY <1>1, <1>3, <1>4, <1>5, <1>6, <2>1, CopyRest
<1>8. Rising(t, a, e - 1) /\ Found(f, x, z, t, a, e - 1)
  BY <1>3, <1>7
<1>9. Found(f, a, x - 1, t, a, c) /\ Found(f, m, y - 1, t, a, c)
  <2>1. \A i \in a..c - 1 : t[i] = d[i]
    <3>1. \A i \in a..c - 1 : i \in 0..c - 1
      BY <1>1
    <3> QED
      BY <3>1 DEF RestCopied
  <2> QED
    BY <2>1, StillFound DEF Merging
<1>10. Found(f, a, e - 1, t, a, e - 1)
  <2> SUFFICES ASSUME NEW i \in a..e - 1 PROVE \E l \in a..e - 1 : t[l] = f[i]
    BY DEF Found
  <2>1. CASE i \in a..x - 1 \/ i \in m..y - 1
    <3>1. PICK l \in a..c : t[l] = f[i]
      BY <1>9, <2>1 DEF Found
    <3>2. l \in a..e - 1
      BY <1>1, <1>3
    <3> QED
      BY <3>1, <3>2
  <2>2. CASE i = y
    <3>1. c \in a..e - 1
      BY <1>1, <1>3
    <3> QED
      BY <1>6, <2>2, <3>1 DEF v
  <2>3. CASE i \in x..z
    BY <1>8, <2>3 DEF Found
  <2>4. i \in a..x - 1 \/ i \in m..y - 1 \/ i = y \/ i \in x..z
    BY <1>1 DEF z
  <2> QED
    BY <2>1, <2>2, <2>3, <2>4
<1>11. \A i \in 0..a - 1 : t[i] = d[i]
  <2>1. \A i \in 0..a - 1 : i \in 0..c - 1
    BY <1>1, <1>3
  <2> QED
    BY <2>1 DEF RestCopied
<1> QED
  BY <1>8, <1>10, <1>11 DEF MergedRuns

-------------------------------------------------------------------------------
(* The invariant.                                                           *)

Half == k \div 2

(* Where a group begins; behind the last one the ids end.                  *)
Start(g) == IF g < Size THEN pos[g] ELSE N

Groups ==
    /\ Size \in Nat \ {0}
    /\ pos \in [0..Size - 1 -> Offsets]
    /\ pos[0] = 0
    /\ \A g, i \in 0..Size - 1 : g < i => pos[g] < pos[i]

(* source has every id, in order by runs of half of k groups.              *)
Buffers ==
    /\ source \in Surjection(Offsets, 1..N)
    /\ dest \in [Offsets -> 0..N]
    /\ RunsSorted(Half)

Control ==
    /\ Half \in Nat \ {0} /\ k = 2 * Half
    /\ vag \in {-1, 1} /\ pc \in {"pass", "pair", "take", "done"}
    /\ last \in 0..N
    /\ pc \in {"pair", "take"} => j \in Nat /\ j % k = 0

(* The pass has brought the first n ids to dest, in order by runs of k.    *)
PassUpTo(n) ==
    /\ Found(source, 0, n - 1, dest, 0, n - 1)
    /\ \A i, l \in 0..n - 1 : i < l /\ OneRun(k, i, l) => dest[i] < dest[l]

BetweenPairs == pc = "pair" => last = Start(j) /\ PassUpTo(last)

InAPair ==
    pc = "take" =>
        /\ j + Half < Size
        /\ eind1 = pos[j + Half] - 1 /\ eind2 = Start(j + k) - 1
        /\ ind1 \in Nat /\ ind2 \in Nat
        /\ PassUpTo(pos[j])
        /\ Merging(source, dest, pos[j], pos[j + Half], Start(j + k), ind1, ind2, last)

Answered == pc = "done" => Rising(source, 0, N - 1)

IInv == Groups /\ Buffers /\ Control /\ BetweenPairs /\ InAPair /\ Answered

-------------------------------------------------------------------------------
(* A multiple leaves no remainder.                                         *)
LEMMA NoRemainder ==
    ASSUME NEW h \in Nat \ {0}, NEW g \in Nat, NEW q \in Nat, g = q * h
    PROVE  g % h = 0
OBVIOUS

(* The multiples of a number and of its double.                            *)
LEMMA Multiples ==
    ASSUME NEW h \in Nat \ {0}, NEW n \in Nat, n % (2 * h) = 0
    PROVE  /\ (n + 2 * h) % (2 * h) = 0
           /\ \A g \in Nat : n < g /\ g < n + h => g % h # 0
           /\ \A g \in Nat : n + h < g /\ g < n + 2 * h => g % h # 0
<1>1. PICK q \in Nat : n = q * (2 * h)
  <2>1. 2 * h \in Nat \ {0}
    OBVIOUS
  <2>2. n \div (2 * h) \in Nat /\ n = (n \div (2 * h)) * (2 * h)
    BY <2>1
  <2> QED
    BY <2>2
<1>2. (n + 2 * h) % (2 * h) = 0
  <2> DEFINE d == 2 * h
  <2>1. d \in Nat \ {0} /\ n + d \in Nat /\ q + 1 \in Nat
    OBVIOUS
  <2>2. n + d = (q + 1) * d
    BY <1>1
  <2> HIDE DEF d
  <2>3. (n + d) % d = 0
    BY <2>1, <2>2, NoRemainder
  <2> QED
    BY <2>3 DEF d
<1>3. n = (2 * q) * h /\ n + h = (2 * q + 1) * h /\ n + 2 * h = (2 * q + 2) * h
  BY <1>1
<1>4. ASSUME NEW g \in Nat, NEW p \in Nat, p * h < g, g < p * h + h PROVE g % h # 0
  <2> SUFFICES ASSUME g % h = 0 PROVE FALSE
    OBVIOUS
  <2>1. g \div h \in Nat /\ g = (g \div h) * h
    OBVIOUS
  <2>2. PICK r \in Nat : g = r * h
    BY <2>1
  <2>3. ~(p * h < r * h /\ r * h < p * h + h)
    OBVIOUS
  <2> QED
    BY <1>4, <2>2, <2>3
<1>5. \A g \in Nat : n < g /\ g < n + h => g % h # 0
  <2>1. 2 * q \in Nat
    OBVIOUS
  <2> QED
    BY <1>3, <1>4, <2>1
<1>6. \A g \in Nat : n + h < g /\ g < n + 2 * h => g % h # 0
  <2>1. 2 * q + 1 \in Nat /\ n + 2 * h = (n + h) + h
    OBVIOUS
  <2> QED
    BY <1>3, <1>4, <2>1
<1> QED
  BY <1>2, <1>5, <1>6

(* Groups begin one behind the other.                                      *)
LEMMA Starts ==
    ASSUME Groups
    PROVE  /\ N \in Nat /\ Size \in Nat /\ Size > 0
           /\ DOMAIN pos = 0..Size - 1
           /\ \A g \in Nat : Start(g) \in 0..N
           /\ \A g \in 0..Size - 1 : Start(g) = pos[g] /\ pos[g] \in Nat /\ pos[g] < N
           /\ \A g, i \in Nat : g < i /\ g < Size => Start(g) < Start(i)
           /\ \A g, i \in 0..Size - 1 : pos[g] < pos[i] => g < i
<1>1. N \in Nat /\ Size \in Nat /\ Size > 0 /\ DOMAIN pos = 0..Size - 1
  BY SizeAssumption DEF Groups
<1>2. \A g \in 0..Size - 1 : Start(g) = pos[g] /\ pos[g] \in Nat /\ pos[g] < N
  <2>1. \A g \in 0..Size - 1 : pos[g] \in Offsets /\ g < Size
    BY <1>1 DEF Groups
  <2> QED
    BY <1>1, <2>1 DEF Start, Offsets
<1>3. \A g \in Nat : g < Size => g \in 0..Size - 1
  BY <1>1
<1>4. \A g \in Nat : ~(g < Size) => Start(g) = N
  BY DEF Start
<1>5. \A g \in Nat : Start(g) \in 0..N
  BY <1>1, <1>2, <1>3, <1>4
<1>6. ASSUME NEW g \in Nat, NEW i \in Nat, g < i, g < Size PROVE Start(g) < Start(i)
  <2>1. CASE i < Size
    <3>1. g \in 0..Size - 1 /\ i \in 0..Size - 1
      BY <1>3, <1>6, <2>1
    <3> QED
      BY <1>2, <1>6, <3>1 DEF Groups
  <2>2. CASE ~(i < Size)
    BY <1>2, <1>3, <1>4, <1>6, <2>2
  <2> QED
    BY <2>1, <2>2
<1>7. ASSUME NEW g \in 0..Size - 1, NEW i \in 0..Size - 1, pos[g] < pos[i] PROVE g < i
  <2>1. CASE i < g
    BY <1>2, <1>7, <2>1 DEF Groups
  <2>2. CASE i = g
    BY <1>2, <1>7, <2>2
  <2> QED
    BY <1>1, <2>1, <2>2
<1> QED
  BY <1>1, <1>2, <1>5, <1>6, <1>7

(* The ids of source are numbers, and no two are the same.                 *)
LEMMA NoIdTwice ==
    ASSUME Buffers
    PROVE  /\ source \in [Offsets -> 1..N] /\ source \in [Offsets -> Nat]
           /\ \A i, l \in Offsets : source[i] = source[l] => i = l
<1>1. N \in Nat /\ N > 0
  BY SizeAssumption
<1>2. IsFiniteSet(Offsets) /\ Cardinality(Offsets) = N
  <2>1. IsFiniteSet(0..N - 1) /\ Cardinality(0..N - 1) = IF 0 > N - 1 THEN 0 ELSE (N - 1) - 0 + 1
    BY <1>1, FS_Interval
  <2> QED
    BY <1>1, <2>1 DEF Offsets
<1>3. Cardinality(1..N) = N
  <2>1. Cardinality(1..N) = IF 1 > N THEN 0 ELSE N - 1 + 1
    BY <1>1, FS_Interval
  <2> QED
    BY <1>1, <2>1
<1>4. source \in Injection(Offsets, 1..N)
  BY <1>2, <1>3, FS_SurjSameCardinalityImpliesInj DEF Buffers
<1>5. source \in [Offsets -> 1..N]
  BY DEF Buffers, Surjection
<1>6. source \in [Offsets -> Nat]
  BY <1>5
<1> QED
  BY <1>4, <1>5, <1>6 DEF Injection, IsInjective

(* The two runs of a pair are in order.                                    *)
LEMMA RunsOfPair ==
    ASSUME Groups, Buffers, Control, pc \in {"pair", "take"}, j + Half < Size
    PROVE  /\ Rising(source, pos[j], pos[j + Half] - 1)
           /\ Rising(source, pos[j + Half], Start(j + k) - 1)
<1> DEFINE m == pos[j + Half]
           e == Start(j + k)
<1>0. /\ N \in Nat /\ Size \in Nat /\ DOMAIN pos = 0..Size - 1
      /\ \A g \in 0..Size - 1 : pos[g] \in Nat /\ pos[g] < N
      /\ \A g, i \in 0..Size - 1 : pos[g] < pos[i] => g < i
      /\ \A g, i \in 0..Size - 1 : g < i => pos[g] < pos[i]
  BY Starts DEF Groups
<1>1. /\ Half \in Nat \ {0} /\ k = 2 * Half /\ j \in Nat /\ j % (2 * Half) = 0
      /\ j \in 0..Size - 1 /\ j + Half \in 0..Size - 1 /\ j + k \in Nat
  <2>1. Half \in Nat \ {0} /\ k = 2 * Half /\ j \in Nat /\ j % k = 0
    BY DEF Control
  <2> HIDE DEF Half
  <2> QED
    BY <1>0, <2>1
<1>2. /\ \A g \in Nat : j < g /\ g < j + Half => g % Half # 0
      /\ \A g \in Nat : j + Half < g /\ g < j + k => g % Half # 0
  BY <1>1, Multiples
<1>3. DOMAIN source = Offsets
  BY NoIdTwice
<1>4. /\ pos[j] \in Nat /\ m \in Nat /\ m < N /\ e \in 0..N
      /\ \A g \in 0..Size - 1 : pos[g] < m => g < j + Half
      /\ \A g \in 0..Size - 1 : m < pos[g] => j + Half < g
      /\ \A g \in 0..Size - 1 : pos[j] < pos[g] => j < g
  BY <1>0, <1>1, Starts
<1>5. \A g \in 0..Size - 1 : pos[g] < e => g < j + k
  <2> SUFFICES ASSUME NEW g \in 0..Size - 1, pos[g] < e, ~(g < j + k) PROVE FALSE
    BY <1>1
  <2>1. j + k \in 0..Size - 1
    BY <1>0, <1>1
  <2>2. e = pos[j + k]
    BY <2>1, Starts
  <2> QED
    BY <1>0, <2>1, <2>2
<1> HIDE DEF m, e, Half
<1>6. ASSUME NEW i, NEW l, i \in pos[j]..m - 1, l \in pos[j]..m - 1, i < l
      PROVE  source[i] < source[l]
  <2>1. i \in Offsets /\ l \in Offsets
    BY <1>0, <1>4, <1>6 DEF Offsets
  <2>2. OneRun(Half, i, l)
    <3> SUFFICES ASSUME NEW g \in 0..Size - 1, g % Half = 0, pos[g] \in i + 1..l PROVE FALSE
      BY <1>0 DEF OneRun
    <3>1. pos[j] < pos[g] /\ pos[g] < m
      BY <1>0, <1>4, <1>6
    <3>2. j < g /\ g < j + Half /\ g \in Nat
      BY <1>0, <1>4, <3>1
    <3> QED
      BY <1>2, <3>2
  <2> QED
    BY <1>3, <1>6, <2>1, <2>2 DEF Buffers, RunsSorted
<1>7. ASSUME NEW i, NEW l, i \in m..e - 1, l \in m..e - 1, i < l
      PROVE  source[i] < source[l]
  <2>1. i \in Offsets /\ l \in Offsets
    BY <1>0, <1>4, <1>7 DEF Offsets
  <2>2. OneRun(Half, i, l)
    <3> SUFFICES ASSUME NEW g \in 0..Size - 1, g % Half = 0, pos[g] \in i + 1..l PROVE FALSE
      BY <1>0 DEF OneRun
    <3>1. m < pos[g] /\ pos[g] < e
      BY <1>0, <1>4, <1>7
    <3>2. j + Half < g /\ g < j + k /\ g \in Nat
      BY <1>0, <1>4, <1>5, <3>1
    <3> QED
      BY <1>2, <3>2
  <2> QED
    BY <1>3, <1>7, <2>1, <2>2 DEF Buffers, RunsSorted
<1> QED
  BY <1>6, <1>7 DEF Rising, m, e

-------------------------------------------------------------------------------
(* The steps.                                                               *)

(* The groups stay where they are.                                         *)
LEMMA SameGroups ==
    ASSUME Groups, pos' = pos
    PROVE  /\ Groups' /\ Size' = Size
           /\ \A g : Start(g)' = Start(g)
           /\ \A h, i, l : OneRun(h, i, l)' <=> OneRun(h, i, l)
BY DEF Groups, Size, Start, OneRun

(* The ids come in order within each group.                                *)
LEMMA InitInvariant == Init => IInv
<1> SUFFICES ASSUME Init PROVE IInv
  OBVIOUS
<1>1. PICK g \in 1..MaxGroups :
          /\ pos \in [0..g - 1 -> 0..N - 1] /\ pos[0] = 0
          /\ \A i, l \in 0..g - 1 : i < l => pos[i] < pos[l]
          /\ vag = IF g % 2 = 1 THEN -1 ELSE 1
  BY DEF Init
<1>2. g \in Nat /\ g > 0 /\ N \in Nat /\ N > 0
  BY SizeAssumption
<1>3. Size = g
  <2>1. Cardinality(0..g - 1) = IF 0 > g - 1 THEN 0 ELSE (g - 1) - 0 + 1
    BY <1>2, FS_Interval
  <2>2. Cardinality(0..g - 1) = g
    BY <1>2, <2>1
  <2>3. DOMAIN pos = 0..g - 1
    BY <1>1
  <2> QED
    BY <2>2, <2>3 DEF Size
<1>4. Groups
  BY <1>1, <1>2, <1>3 DEF Groups, Offsets
<1>5. Half = 1 /\ k = 2
  <2>1. 2 \div 2 = 1
    OBVIOUS
  <2> QED
    BY <2>1 DEF Init, Half
<1>6. source \in Bijection(Offsets, 1..N) /\ RunsSorted(Half)
  BY <1>5 DEF Init, Offsets
<1>7. Buffers
  <2>1. dest \in [Offsets -> 0..N]
    BY <1>2 DEF Init, Offsets
  <2> QED
    BY <1>6, <2>1 DEF Buffers, Bijection
<1>8. Control
  <2>1. vag \in {-1, 1}
    BY <1>1
  <2>2. pc = "pass" /\ last = 0 /\ 0 \in 0..N
    BY <1>2 DEF Init
  <2> QED
    BY <1>5, <2>1, <2>2 DEF Control
<1>9. BetweenPairs /\ InAPair /\ Answered
  BY DEF Init, BetweenPairs, InAPair, Answered
<1> QED
  BY <1>4, <1>7, <1>8, <1>9 DEF IInv

(* A pass begins with the first pair.                                      *)
LEMMA BeginPassInvariant ==
    ASSUME IInv, BeginPass
    PROVE  IInv'
<1> USE DEF IInv, BeginPass
<1>1. pos' = pos /\ k' = k /\ source' = source /\ dest' = dest /\ j' = 0 /\ last' = 0
      /\ pc' = "pair" /\ vag' = -vag
  BY DEF runs
<1>2. Groups'
  BY <1>1, SameGroups
<1>3. Buffers'
  BY <1>1 DEF Buffers, Half, RunsSorted, OneRun
<1>4. Control'
  <2>1. Half' = Half /\ N \in Nat /\ vag' \in {-1, 1}
    BY <1>1, SizeAssumption DEF Half, Control
  <2>2. k \in Nat \ {0} /\ 0 = 0 * k
    BY DEF Control
  <2>3. 0 % k = 0
    BY <2>2, NoRemainder
  <2>4. 0 \in 0..N /\ 0 \in Nat
    BY <2>1
  <2> QED
    BY <1>1, <2>1, <2>3, <2>4 DEF Control
<1>5. BetweenPairs'
  <2>1. Start(0) = 0
    BY DEF Start, Groups
  <2>2. last' = Start(j)'
    BY <1>1, <2>1 DEF Start, Size
  <2>3. \A i \in 0..0 - 1 : FALSE
    OBVIOUS
  <2>4. PassUpTo(last)'
    BY <1>1, <2>3 DEF PassUpTo, Found
  <2> QED
    BY <2>2, <2>4 DEF BetweenPairs
<1>6. InAPair' /\ Answered'
  BY <1>1 DEF InAPair, Answered
<1> QED
  BY <1>2, <1>3, <1>4, <1>5, <1>6

(* Two runs are left: nothing of them is merged yet.                       *)
LEMMA BeginPairInvariant ==
    ASSUME IInv, BeginPair
    PROVE  IInv'
<1> USE DEF IInv, BeginPair
<1>1. pos' = pos /\ k' = k /\ source' = source /\ dest' = dest /\ j' = j /\ last' = last
      /\ pc' = "take" /\ vag' = vag /\ pc = "pair"
  OBVIOUS
<1>2. Groups'
  BY <1>1, SameGroups
<1>3. Buffers'
  BY <1>1 DEF Buffers, Half, RunsSorted, OneRun
<1>4. Half' = Half
  BY <1>1 DEF Half
<1>5. Control'
  BY <1>1, <1>4 DEF Control
<1>6. /\ Half \in Nat \ {0} /\ k = 2 * Half /\ j \in Nat
      /\ Size \in Nat /\ N \in Nat /\ j + Half < Size
  <2>1. /\ Half \in Nat \ {0} /\ k = 2 * Half /\ j \in Nat /\ Size \in Nat /\ N \in Nat
    BY <1>1, Starts DEF Control
  <2>2. j + Half <= Size - 1
    BY DEF PairLeft, Half
  <2> HIDE DEF Half, BeginPair
  <2> QED
    BY <2>1, <2>2
<1> DEFINE a == pos[j]
           m == pos[j + Half]
           e == Start(j + k)
<1>7. /\ ind1' = a /\ eind1' = m - 1 /\ ind2' = m
      /\ eind2' = IF j + k > Size - 1 THEN N - 1 ELSE pos[j + k] - 1
  BY DEF Half
<1>8. last = Start(j) /\ PassUpTo(last)
  BY <1>1 DEF BetweenPairs
<1> HIDE DEF Half, BeginPair, IInv
<1>9. eind2' = e - 1
  BY <1>6, <1>7 DEF Start
<1>10. /\ a \in Nat /\ m \in Nat /\ e \in Nat /\ a < m /\ m < e /\ last = a
  <2>1. j \in 0..Size - 1 /\ j + Half \in 0..Size - 1 /\ j + Half \in Nat /\ j + k \in Nat
        /\ j < j + Half /\ j + Half < j + k
    BY <1>6
  <2>2. Start(j) = a /\ Start(j + Half) = m /\ a \in Nat /\ m \in Nat /\ e \in 0..N
    BY <2>1, Starts DEF IInv
  <2>3. Start(j) < Start(j + Half) /\ Start(j + Half) < e
    BY <1>6, <2>1, Starts DEF IInv
  <2> HIDE DEF a, m, e
  <2> QED
    BY <1>6, <1>8, <2>2, <2>3
<1>11. Merging(source, dest, a, m, e, a, m, last)
  <2> HIDE DEF a, m, e
  <2>1. \A i \in a..a - 1 : FALSE
    BY <1>10
  <2>2. \A i \in m..m - 1 : FALSE
    BY <1>10
  <2>3. a = a + m - m
    BY <1>10
  <2> QED
    BY <1>10, <2>1, <2>2, <2>3 DEF Merging, Found, Rising
<1>12. InAPair'
  <2>1. /\ j' + Half' < Size' /\ Start(j + k)' = e
    BY <1>1, <1>4, <1>6 DEF Size, Start
  <2>2. PassUpTo(a) /\ PassUpTo(a)'
    BY <1>1, <1>8, <1>10 DEF PassUpTo, OneRun
  <2>3. PassUpTo(pos[j])'
    BY <1>1, <2>2 DEF a
  <2>4. ind1' \in Nat /\ ind2' \in Nat
    BY <1>7, <1>10
  <2>5. Merging(source, dest, pos[j], pos[j + Half], Start(j + k), ind1, ind2, last)'
    BY <1>1, <1>4, <1>7, <1>11, <2>1
  <2>6. eind1' = pos'[j' + Half'] - 1 /\ eind2' = Start(j + k)' - 1
    BY <1>1, <1>4, <1>7, <1>9, <2>1
  <2> QED
    BY <2>1, <2>3, <2>4, <2>5, <2>6 DEF InAPair
<1>13. BetweenPairs' /\ Answered'
  BY <1>1 DEF BetweenPairs, Answered
<1> QED
  BY <1>2, <1>3, <1>5, <1>12, <1>13 DEF IInv

(* What the passes leave in the end is in order.                           *)
LEMMA ReturnInvariant ==
    ASSUME IInv, Return
    PROVE  IInv'
<1> USE DEF IInv, Return
<1>1. pos' = pos /\ k' = k /\ source' = source /\ dest' = dest /\ pc' = "done"
      /\ vag' = vag /\ last' = last /\ xx <= k
  OBVIOUS
<1>2. Groups' /\ Buffers'
  BY <1>1, SameGroups DEF Buffers, Half, RunsSorted, OneRun
<1>3. Control' /\ BetweenPairs' /\ InAPair'
  BY <1>1 DEF Control, Half, BetweenPairs, InAPair
<1>4. Half \in Nat \ {0} /\ k = 2 * Half /\ Size \in Nat /\ N \in Nat
  BY Starts DEF Control
<1> HIDE DEF Half
<1>5. Size <= Half
  BY <1>1, <1>4 DEF xx
<1>6. ASSUME NEW i \in 0..N - 1, NEW l \in 0..N - 1, i < l PROVE source[i] < source[l]
  <2>1. OneRun(Half, i, l)
    <3> SUFFICES ASSUME NEW g \in 0..Size - 1, g % Half = 0, pos[g] \in i + 1..l PROVE FALSE
      BY Starts DEF OneRun
    <3>1. g # 0
      BY <1>4 DEF Groups
    <3>2. g \in Nat /\ 0 < g /\ g < Half
      BY <1>4, <1>5, <3>1
    <3>3. g % Half = g
      BY <1>4, <3>2
    <3> QED
      BY <3>2, <3>3
  <2>2. DOMAIN source = 0..N - 1
    BY NoIdTwice DEF Offsets
  <2> QED
    BY <1>6, <2>1, <2>2 DEF Buffers, RunsSorted
<1>7. Answered'
  BY <1>1, <1>6 DEF Answered, Rising
<1> QED
  BY <1>2, <1>3, <1>7

(* A buffer that has all the ids has nothing else.                         *)
LEMMA NothingElse ==
    ASSUME NEW s \in [Offsets -> 0..N], \A id \in 1..N : \E i \in Offsets : s[i] = id
    PROVE  s \in Surjection(Offsets, 1..N)
<1>1. N \in Nat /\ N > 0
  BY SizeAssumption
<1>2. IsFiniteSet(Offsets) /\ Cardinality(Offsets) = N
  <2>1. IsFiniteSet(0..N - 1) /\ Cardinality(0..N - 1) = IF 0 > N - 1 THEN 0 ELSE (N - 1) - 0 + 1
    BY <1>1, FS_Interval
  <2> QED
    BY <1>1, <2>1 DEF Offsets
<1>3. Cardinality(1..N) = N
  <2>1. Cardinality(1..N) = IF 1 > N THEN 0 ELSE N - 1 + 1
    BY <1>1, FS_Interval
  <2> QED
    BY <1>1, <2>1
<1>4. ASSUME NEW o \in Offsets, s[o] = 0 PROVE FALSE
  <2> DEFINE S == Offsets \ {o}
             t == [i \in S |-> s[i]]
  <2>1. IsFiniteSet(S) /\ Cardinality(S) = N - 1
    BY <1>2, FS_RemoveElement
  <2>2. \A i \in S : t[i] = s[i] /\ i \in Offsets
    OBVIOUS
  <2> DEFINE r == [i \in S |-> IF s[i] = 0 THEN 1 ELSE s[i]]
  <2>3. r \in [S -> 1..N]
    BY <1>1
  <2>4. \A id \in 1..N : \E i \in S : r[i] = id
    <3> SUFFICES ASSUME NEW id \in 1..N PROVE \E i \in S : r[i] = id
      OBVIOUS
    <3>1. PICK i \in Offsets : s[i] = id
      OBVIOUS
    <3>2. id # 0
      OBVIOUS
    <3>3. i \in S /\ r[i] = id
      BY <1>4, <3>1, <3>2
    <3> QED
      BY <3>3
  <2> HIDE DEF r, S
  <2>5. r \in Surjection(S, 1..N)
    BY <2>3, <2>4 DEF Surjection
  <2>6. Cardinality(1..N) <= Cardinality(S)
    BY <2>1, <2>5, FS_Surjection
  <2> QED
    BY <1>1, <1>3, <2>1, <2>6
<1>5. s \in [Offsets -> 1..N]
  <2>1. \A i \in Offsets : s[i] \in 1..N
    BY <1>1, <1>4
  <2> QED
    BY <2>1
<1> QED
  BY <1>5 DEF Surjection

(* The runs of the next pass are twice as long.                            *)
LEMMA EndPassInvariant ==
    ASSUME IInv, EndPass
    PROVE  IInv'
<1> USE DEF IInv
<1>1. /\ pos' = pos /\ k' = 2 * k /\ dest' = source /\ pc = "pair" /\ pc' = "pass"
      /\ vag' = vag /\ last' = last /\ ~PairLeft
      /\ source' = Copied(dest, last, last, N - 1)
  BY DEF EndPass
<1>2. /\ Half \in Nat \ {0} /\ k = 2 * Half /\ k \in Nat \ {0} /\ j \in Nat /\ j % k = 0
      /\ j % (2 * Half) = 0
      /\ last \in 0..N /\ N \in Nat /\ Size \in Nat /\ Size > 0 /\ last = Start(j)
  <2>1. /\ Half \in Nat \ {0} /\ k = 2 * Half /\ j \in Nat /\ j % k = 0
        /\ last \in 0..N /\ last = Start(j)
    BY <1>1 DEF Control, BetweenPairs
  <2>2. N \in Nat /\ Size \in Nat /\ Size > 0
    BY Starts
  <2> HIDE DEF Half, IInv
  <2> QED
    BY <2>1, <2>2
<1>3. j + Half >= Size
  <2> HIDE DEF Half
  <2> SUFFICES ASSUME j + Half <= Size - 1 PROVE FALSE
    BY <1>2
  <2>1. j < john
    BY <1>2 DEF john
  <2> QED
    BY <1>1, <2>1 DEF PairLeft, Half
<1>4. Half' = k
  BY <1>1, <1>2 DEF Half
<1> HIDE DEF Half
<1>5. /\ PassUpTo(last) /\ dest \in [Offsets -> 0..N]
      /\ source \in [Offsets -> 1..N]
      /\ RunsSorted(Half) /\ \A id \in 1..N : \E i \in Offsets : source[i] = id
  BY <1>1, NoIdTwice DEF BetweenPairs, Buffers, Surjection
<1>6. /\ source' \in [Offsets -> 0..N]
      /\ \A i \in Offsets : i < last => source'[i] = dest[i]
      /\ \A i \in Offsets : i >= last => source'[i] = source[i]
  <2>1. source' = [i \in Offsets |-> IF i \in last..last + (N - 1) - last
                                     THEN source[last + i - last] ELSE dest[i]]
    BY <1>1, <1>5 DEF Copied
  <2>2. \A i \in Offsets : i \in Int /\ (i \in last..last + (N - 1) - last <=> i >= last)
                           /\ last + i - last = i
    BY <1>2 DEF Offsets
  <2>3. \A i \in Offsets : source'[i] = IF i >= last THEN source[i] ELSE dest[i]
    BY <2>1, <2>2
  <2>4. \A i \in Offsets : source'[i] \in 0..N
    BY <1>5, <2>3
  <2>5. \A i \in Offsets : i < last => ~(i >= last)
    BY <1>2, <2>2
  <2> QED
    BY <2>1, <2>3, <2>4, <2>5
<1>7. source' \in Surjection(Offsets, 1..N)
  <2>1. ASSUME NEW id \in 1..N PROVE \E i \in Offsets : source'[i] = id
    <3>1. PICK i \in Offsets : source[i] = id
      BY <1>5
    <3>2. CASE i >= last
      BY <1>6, <3>1, <3>2
    <3>3. CASE i < last
      <4>1. i \in 0..last - 1
        BY <1>2, <3>3 DEF Offsets
      <4>2. PICK l \in 0..last - 1 : dest[l] = source[i]
        BY <1>5, <4>1 DEF PassUpTo, Found
      <4>3. l \in Offsets /\ l < last
        BY <1>2 DEF Offsets
      <4> QED
        BY <1>6, <3>1, <4>2, <4>3
    <3>4. i >= last \/ i < last
      BY <1>2 DEF Offsets
    <3> QED
      BY <3>2, <3>3, <3>4
  <2> QED
    BY <1>6, <2>1, NothingElse
<1>8. \A i, l \in Offsets : i < l /\ OneRun(k, i, l) => source'[i] < source'[l]
  <2> SUFFICES ASSUME NEW i \in Offsets, NEW l \in Offsets, i < l, OneRun(k, i, l)
               PROVE  source'[i] < source'[l]
    OBVIOUS
  <2>1. i \in 0..N - 1 /\ l \in 0..N - 1
    BY DEF Offsets
  <2>2. CASE l < last
    <3>1. i \in 0..last - 1 /\ l \in 0..last - 1 /\ i < last
      BY <1>2, <2>1, <2>2
    <3>2. dest[i] < dest[l]
      BY <1>5, <3>1 DEF PassUpTo
    <3> QED
      BY <1>6, <2>2, <3>1, <3>2
  <2>3. CASE l >= last
    <3>1. j \in 0..Size - 1 /\ last = pos[j]
      <4>1. last # N
        BY <1>2, <2>1, <2>3
      <4>2. j < Size
        BY <1>2, <4>1 DEF Start
      <4> QED
        BY <1>2, <4>2 DEF Start
    <3>2. i >= last
      <4> SUFFICES ASSUME i < last PROVE FALSE
        BY <1>2, <2>1
      <4>1. pos[j] \in i + 1..l
        BY <1>2, <2>1, <2>3, <3>1
      <4> QED
        BY <1>2, <3>1, <4>1, Starts DEF OneRun
    <3>3. OneRun(Half, i, l)
      <4> SUFFICES ASSUME NEW g \in 0..Size - 1, g % Half = 0, pos[g] \in i + 1..l PROVE FALSE
        BY Starts DEF OneRun
      <4>1. pos[j] < pos[g]
        BY <1>2, <2>1, <3>1, <3>2, Starts
      <4>2. j < g /\ g < j + Half /\ g \in Nat
        <5>1. j < g
          BY <3>1, <4>1, Starts
        <5> QED
          BY <1>2, <1>3, <5>1
      <4>3. g % Half # 0
        BY <1>2, <4>2, Multiples
      <4> QED
        BY <4>3
    <3>4. source[i] < source[l]
      BY <1>5, <3>3 DEF RunsSorted
    <3> QED
      BY <1>6, <2>3, <3>2, <3>4
  <2> QED
    BY <1>2, <2>1, <2>2, <2>3
<1>9. Buffers'
  <2>1. dest' \in [Offsets -> 0..N]
    BY <1>1, <1>5
  <2>2. RunsSorted(Half)'
    <3>1. DOMAIN source' = Offsets
      BY <1>6
    <3> QED
      BY <1>1, <1>4, <1>8, <3>1 DEF RunsSorted, OneRun
  <2> QED
    BY <1>7, <2>1, <2>2 DEF Buffers
<1>10. Groups'
  BY <1>1, SameGroups
<1>11. Control'
  BY <1>1, <1>2, <1>4 DEF Control
<1>12. BetweenPairs' /\ InAPair' /\ Answered'
  BY <1>1 DEF BetweenPairs, InAPair, Answered
<1> QED
  BY <1>9, <1>10, <1>11, <1>12

(* t is dest with v placed at c and source[r..z] copied behind it.         *)
WithRest(t, c, v, r, z) == t = Copied([dest EXCEPT ![c] = v], c + 1, r, z)

(* That fits into the buffer.                                              *)
LEMMA CopyBehind ==
    ASSUME Buffers, NEW c \in Offsets, NEW v \in 0..N, NEW r \in Nat, NEW z \in Nat,
           r <= z, z < N, c + (z - r) + 1 < N,
           NEW t, WithRest(t, c, v, r, z)
    PROVE  /\ t \in [Offsets -> 0..N]
           /\ t[c] = v
           /\ RestCopied(source, dest, t, c, r, z)
<1> DEFINE b == [dest EXCEPT ![c] = v]
           u == c + 1 + z - r
           At(i) == r + i - (c + 1)
<1>1. N \in Nat /\ c \in Nat /\ c < N
  BY SizeAssumption DEF Offsets
<1>2. b \in [Offsets -> 0..N] /\ b[c] = v /\ \A i \in Offsets : i # c => b[i] = dest[i]
  BY DEF Buffers
<1>3. source \in [Offsets -> 1..N]
  BY NoIdTwice
<1>4. t = [i \in DOMAIN b |-> IF i \in c + 1..u THEN source[At(i)] ELSE b[i]]
  BY DEF WithRest, Copied
<1>5. \A i \in c + 1..u : i \in Offsets /\ At(i) \in Offsets
  BY <1>1 DEF Offsets
<1>6. u = c + (z - r) + 1 /\ u \in Int
  BY <1>1
<1> HIDE DEF b, u, At
<1>7. DOMAIN b = Offsets
  BY <1>2
<1>8. \A i \in Offsets : t[i] = IF i \in c + 1..u THEN source[At(i)] ELSE b[i]
  BY <1>4, <1>7
<1>9. \A i \in Offsets : t[i] \in 0..N
  <2> SUFFICES ASSUME NEW i \in Offsets PROVE t[i] \in 0..N
    OBVIOUS
  <2>1. CASE i \in c + 1..u
    <3>1. t[i] = source[At(i)] /\ At(i) \in Offsets
      BY <1>5, <1>8, <2>1
    <3>2. source[At(i)] \in 1..N
      BY <1>3, <3>1
    <3> QED
      BY <1>1, <3>1, <3>2
  <2>2. CASE i \notin c + 1..u
    BY <1>2, <1>8, <2>2
  <2> QED
    BY <2>1, <2>2
<1>10. t \in [Offsets -> 0..N]
  BY <1>4, <1>7, <1>9
<1>11. t[c] = v
  <2>1. c \notin c + 1..u
    BY <1>1, <1>6
  <2> QED
    BY <1>2, <1>8, <2>1
<1>12. \A i \in 0..c - 1 : t[i] = dest[i]
  <2>1. \A i \in 0..c - 1 : i \in Offsets /\ i # c /\ i \notin c + 1..u
    BY <1>1 DEF Offsets
  <2> QED
    BY <1>2, <1>8, <2>1
<1>13. \A i \in c + 1..c + (z - r) + 1 : t[i] = source[r + i - (c + 1)]
  <2>1. \A i \in c + 1..u : t[i] = source[At(i)]
    BY <1>5, <1>8
  <2> QED
    BY <1>6, <2>1 DEF At
<1> QED
  BY <1>10, <1>11, <1>12, <1>13 DEF RestCopied

(* An id is taken and both runs go on.                                     *)
LEMMA StillMerging ==
    ASSUME IInv, pc = "take",
           pos' = pos, k' = k, source' = source, vag' = vag, j' = j,
           eind1' = eind1, eind2' = eind2, pc' = "take",
           ind1' \in Nat, ind2' \in Nat, last' \in 0..N, dest' \in [Offsets -> 0..N],
           \A i \in 0..pos[j] - 1 : dest'[i] = dest[i],
           Merging(source, dest', pos[j], pos[j + Half], Start(j + k), ind1', ind2', last')
    PROVE  IInv'
<1> USE DEF IInv
<1>1. Groups' /\ Half' = Half
  BY SameGroups DEF Half
<1>2. Buffers'
  BY <1>1 DEF Buffers, RunsSorted, OneRun
<1>3. Control'
  BY <1>1 DEF Control
<1>4. BetweenPairs' /\ Answered'
  BY DEF BetweenPairs, Answered
<1>5. PassUpTo(pos[j]) /\ j + Half < Size
  BY DEF InAPair
<1>6. PassUpTo(pos[j])'
  <2> DEFINE a == pos[j]
  <2>1. Found(source, 0, a - 1, dest', 0, a - 1)
    <3>1. Found(source, 0, a - 1, dest, 0, a - 1)
      BY <1>5 DEF PassUpTo
    <3> HIDE DEF a
    <3>2. \A i \in 0..a - 1 : dest'[i] = dest[i]
      BY DEF a
    <3> QED
      BY <3>1, <3>2 DEF Found
  <2>2. \A i, l \in 0..a - 1 : i < l /\ OneRun(k, i, l) => dest'[i] < dest'[l]
    <3>1. \A i, l \in 0..a - 1 : i < l /\ OneRun(k, i, l) => dest[i] < dest[l]
      BY <1>5 DEF PassUpTo
    <3> QED
      BY <3>1
  <2> QED
    BY <2>1, <2>2 DEF PassUpTo, OneRun
<1>7. InAPair'
  <2>1. Size' = Size /\ Start(j + k)' = Start(j + k)
    BY DEF Size, Start
  <2>2. eind1' = pos[j + Half] - 1 /\ eind2' = Start(j + k) - 1
    BY DEF InAPair
  <2>3. Merging(source, dest, pos[j], pos[j + Half], Start(j + k), ind1, ind2, last)'
    BY <1>1, <2>1
  <2> QED
    BY <1>1, <1>5, <1>6, <2>1, <2>2, <2>3 DEF InAPair
<1> QED
  BY <1>1, <1>2, <1>3, <1>4, <1>7

(* One of the runs is used up and the rest of the other copied.            *)
LEMMA PairMerged ==
    ASSUME IInv, pc = "take",
           pos' = pos, k' = k, source' = source, vag' = vag, j' = j + k,
           pc' = "pair", last' = Start(j + k), dest' \in [Offsets -> 0..N],
           MergedRuns(source, dest', dest, pos[j], Start(j + k))
    PROVE  IInv'
<1> USE DEF IInv
<1>1. Groups' /\ Half' = Half
  BY SameGroups DEF Half
<1>2. Buffers'
  BY <1>1 DEF Buffers, RunsSorted, OneRun
<1> DEFINE a == pos[j]
           e == Start(j + k)
<1>3. /\ Half \in Nat \ {0} /\ k = 2 * Half /\ j \in Nat /\ j % k = 0 /\ k \in Nat \ {0}
      /\ vag \in {-1, 1} /\ j + Half < Size /\ PassUpTo(a)
      /\ N \in Nat /\ Size \in Nat
  <2>1. /\ Half \in Nat \ {0} /\ k = 2 * Half /\ j \in Nat /\ j % k = 0
        /\ vag \in {-1, 1} /\ j + Half < Size /\ PassUpTo(a)
        /\ N \in Nat /\ Size \in Nat
    BY Starts DEF Control, InAPair
  <2> HIDE DEF Half, IInv, a
  <2> QED
    BY <2>1
<1> HIDE DEF Half
<1>4. j \in 0..Size - 1 /\ j + k \in Nat
  BY <1>3
<1>5. a \in Nat /\ e \in 0..N /\ a < e
  <2>1. j < j + k /\ j < Size
    BY <1>3
  <2>2. Start(j) < Start(j + k) /\ Start(j) = pos[j] /\ pos[j] \in Nat /\ Start(j + k) \in 0..N
    BY <1>3, <1>4, <2>1, Starts
  <2> QED
    BY <2>2
<1>6. Control'
  <2>1. (j + k) % k = 0
    <3>1. j % (2 * Half) = 0
      BY <1>3
    <3>2. (j + 2 * Half) % (2 * Half) = 0
      BY <1>3, <3>1, Multiples
    <3> QED
      BY <1>3, <3>2
  <2> QED
    BY <1>1, <1>3, <1>4, <1>5, <2>1 DEF Control
<1>7. /\ Found(source, a, e - 1, dest', a, e - 1)
      /\ Rising(dest', a, e - 1)
      /\ \A i \in 0..a - 1 : dest'[i] = dest[i]
  BY DEF MergedRuns
<1>8. /\ Found(source, 0, a - 1, dest, 0, a - 1)
      /\ \A i, l \in 0..a - 1 : i < l /\ OneRun(k, i, l) => dest[i] < dest[l]
  BY <1>3 DEF PassUpTo
<1>0. j \in DOMAIN pos
  BY <1>4, Starts
<1>b. a = pos[j]
  OBVIOUS
<1> HIDE DEF a, e, IInv
<1>9. Found(source, 0, e - 1, dest', 0, e - 1)
  <2> SUFFICES ASSUME NEW i \in 0..e - 1 PROVE \E l \in 0..e - 1 : dest'[l] = source[i]
    BY DEF Found
  <2>1. CASE i \in 0..a - 1
    <3>1. PICK l \in 0..a - 1 : dest[l] = source[i]
      BY <1>8, <2>1 DEF Found
    <3>2. l \in 0..e - 1 /\ dest'[l] = dest[l]
      BY <1>5, <1>7, <3>1
    <3> QED
      BY <3>1, <3>2
  <2>2. CASE i \in a..e - 1
    <3>1. PICK l \in a..e - 1 : dest'[l] = source[i]
      BY <1>7, <2>2 DEF Found
    <3>2. l \in 0..e - 1
      BY <1>5
    <3> QED
      BY <3>1, <3>2
  <2>3. i \in 0..a - 1 \/ i \in a..e - 1
    BY <1>5
  <2> QED
    BY <2>1, <2>2, <2>3
<1>10. \A i, l \in 0..e - 1 : i < l /\ OneRun(k, i, l) => dest'[i] < dest'[l]
  <2> SUFFICES ASSUME NEW i \in 0..e - 1, NEW l \in 0..e - 1, i < l, OneRun(k, i, l)
               PROVE  dest'[i] < dest'[l]
    OBVIOUS
  <2>1. CASE l < a
    <3>1. i \in 0..a - 1 /\ l \in 0..a - 1
      BY <1>5, <2>1
    <3>2. dest[i] < dest[l]
      BY <1>8, <3>1
    <3> QED
      BY <1>7, <3>1, <3>2
  <2>2. CASE i < a /\ a <= l
    <3>1. a \in i + 1..l
      BY <1>5, <2>2
    <3> QED
      BY <1>0, <1>3, <1>b, <3>1 DEF OneRun
  <2>3. CASE a <= i
    <3>1. i \in a..e - 1 /\ l \in a..e - 1
      BY <1>5, <2>3
    <3> QED
      BY <1>7, <3>1 DEF Rising
  <2> QED
    BY <1>5, <2>1, <2>2, <2>3
<1>11. BetweenPairs'
  <2>1. last' = e /\ Start(j)' = e
    BY DEF Start, Size, e
  <2>2. PassUpTo(last)'
    BY <1>9, <1>10, <2>1 DEF PassUpTo, OneRun
  <2> QED
    BY <2>1, <2>2 DEF BetweenPairs
<1>12. InAPair' /\ Answered'
  BY DEF InAPair, Answered
<1> QED
  BY <1>1, <1>2, <1>6, <1>11, <1>12 DEF IInv

(* The smaller of the next ids is taken, and perhaps the rest copied.      *)
LEMMA TakeInvariant ==
    ASSUME IInv, Take
    PROVE  IInv'
<1> DEFINE a == pos[j]
           m == pos[j + Half]
           e == Start(j + k)
           x == ind1
           y == ind2
           c == last
           h == Half
<1> USE DEF IInv
<1>1. /\ pos' = pos /\ k' = k /\ source' = source /\ vag' = vag
      /\ eind1' = eind1 /\ eind2' = eind2 /\ pc = "take"
  BY DEF Take
<1>2. /\ Groups /\ Buffers /\ Control /\ j + h < Size
      /\ eind1 = m - 1 /\ eind2 = e - 1 /\ x \in Nat /\ y \in Nat /\ c \in 0..N
      /\ Merging(source, dest, a, m, e, x, y, c)
      /\ j \in Nat /\ h \in Nat \ {0} /\ k = 2 * h
  BY <1>1 DEF InAPair, Control
<1>3. /\ source \in [Offsets -> 1..N] /\ source \in [Offsets -> Nat]
      /\ \A i, l \in Offsets : source[i] = source[l] => i = l
  BY <1>2, NoIdTwice
<1>4. Rising(source, a, m - 1) /\ Rising(source, m, e - 1)
  BY <1>1, <1>2, RunsOfPair
<1>5. /\ N \in Nat /\ Size \in Nat /\ a \in Nat /\ m \in Nat /\ e \in Nat /\ e <= N
  <2>1. j \in 0..Size - 1 /\ j + h \in 0..Size - 1 /\ j + k \in Nat
    <3>1. Size \in Nat
      BY <1>2, Starts
    <3> HIDE DEF a, m, e, x, y, c, h, IInv
    <3> QED
      BY <1>2, <3>1
  <2>2. N \in Nat /\ Size \in Nat
    BY <1>2, Starts
  <2>3. e \in 0..N /\ a \in Nat /\ m \in Nat
    BY <1>2, <2>1, Starts
  <2> HIDE DEF a, m, e
  <2> QED
    BY <2>2, <2>3
<1>6. dest \in [Offsets -> 0..N] /\ dest \in [Offsets -> Nat]
  <2>1. dest \in [Offsets -> 0..N]
    BY <1>2 DEF Buffers
  <2> QED
    BY <1>5, <2>1
<1>a. /\ pos[j] = a /\ pos[j + Half] = m /\ Start(j + k) = e
      /\ ind1 = x /\ ind2 = y /\ last = c /\ Half = h
  OBVIOUS
<1> DEFINE first == source[x] < source[y]
           v == IF first THEN source[x] ELSE source[y]
           x1 == IF first THEN x + 1 ELSE x
           y1 == IF first THEN y ELSE y + 1
           taken == [dest EXCEPT ![c] = v]
<1>7. /\ ind1' = x1 /\ ind2' = y1
      /\ dest' = IF x1 > eind1 THEN Copied(taken, c + 1, y1, eind2)
                 ELSE IF y1 > eind2 THEN Copied(taken, c + 1, x1, eind1)
                 ELSE taken
      /\ IF x1 > eind1 \/ y1 > eind2
         THEN /\ last' = c + 1 + (eind1 - x1 + 1) + (eind2 - y1 + 1)
              /\ j' = j + k /\ pc' = "pair"
         ELSE last' = c + 1 /\ j' = j /\ pc' = pc
  BY DEF Take
<1> HIDE DEF IInv, a, m, e, x, y, c, h, first, v, x1, y1, taken
<1>8. /\ a <= x /\ x < m /\ m <= y /\ y < e /\ c = x + y - m
  BY <1>2 DEF Merging
<1>9. /\ x \in Offsets /\ y \in Offsets /\ x # y /\ c \in Offsets /\ a <= c
      /\ source[x] # source[y]
  <2>1. x \in Offsets /\ y \in Offsets /\ x # y /\ c \in Offsets /\ a <= c
    BY <1>2, <1>5, <1>8 DEF Offsets
  <2> QED
    BY <1>3, <2>1
<1>10. source[x] \in 1..N /\ source[y] \in 1..N /\ v \in 0..N
  BY <1>3, <1>5, <1>9 DEF v
<1>11. /\ taken \in [Offsets -> 0..N]
       /\ \A i \in 0..a - 1 : taken[i] = dest[i]
  <2>1. taken \in [Offsets -> 0..N] /\ \A i \in Offsets : i # c => taken[i] = dest[i]
    BY <1>6, <1>9, <1>10 DEF taken
  <2>2. \A i \in 0..a - 1 : i \in Offsets /\ i # c
    BY <1>2, <1>5, <1>8, <1>9 DEF Offsets
  <2> QED
    BY <2>1, <2>2
<1>12. CASE first /\ x + 1 < m
  <2>1. x1 = x + 1 /\ y1 = y /\ v = source[x] /\ ~(x1 > eind1) /\ ~(y1 > eind2)
    BY <1>2, <1>5, <1>8, <1>12 DEF x1, y1, v
  <2>2. ind1' = x + 1 /\ ind2' = y /\ dest' = taken /\ last' = c + 1 /\ j' = j /\ pc' = "take"
    BY <1>1, <1>7, <2>1
  <2>3. Merging(source, taken, a, m, e, x + 1, y, c + 1)
    <3>1. c \in Nat /\ taken = [dest EXCEPT ![c] = source[x]]
      BY <1>2, <1>5, <2>1 DEF taken
    <3>2. Merging(source, [dest EXCEPT ![c] = source[x]], a, m, e, x + 1, y, c + 1)
      BY <1>2, <1>3, <1>4, <1>5, <1>6, <1>12, <3>1, TakeFirst DEF first
    <3> QED
      BY <3>1, <3>2
  <2>4. Merging(source, dest', pos[j], pos[j + Half], Start(j + k), ind1', ind2', last')
    BY <1>a, <2>2, <2>3
  <2>5. ind1' \in Nat /\ ind2' \in Nat /\ last' \in 0..N
    BY <1>2, <1>5, <1>8, <1>9, <2>2 DEF Offsets
  <2>6. dest' \in [Offsets -> 0..N] /\ \A i \in 0..pos[j] - 1 : dest'[i] = dest[i]
    BY <1>a, <1>11, <2>2
  <2> QED
    BY <1>1, <2>2, <2>4, <2>5, <2>6, StillMerging
<1>13. CASE ~first /\ y + 1 < e
  <2>0. source[y] < source[x]
    BY <1>9, <1>10, <1>13 DEF first
  <2>1. x1 = x /\ y1 = y + 1 /\ v = source[y] /\ ~(x1 > eind1) /\ ~(y1 > eind2)
    BY <1>2, <1>5, <1>8, <1>13 DEF x1, y1, v
  <2>2. ind1' = x /\ ind2' = y + 1 /\ dest' = taken /\ last' = c + 1 /\ j' = j /\ pc' = "take"
    BY <1>1, <1>7, <2>1
  <2>3. Merging(source, taken, a, m, e, x, y + 1, c + 1)
    <3>1. c \in Nat /\ taken = [dest EXCEPT ![c] = source[y]]
      BY <1>2, <1>5, <2>1 DEF taken
    <3>2. Merging(source, [dest EXCEPT ![c] = source[y]], a, m, e, x, y + 1, c + 1)
      BY <1>2, <1>3, <1>4, <1>5, <1>6, <1>13, <2>0, <3>1, TakeSecond
    <3> QED
      BY <3>1, <3>2
  <2>4. Merging(source, dest', pos[j], pos[j + Half], Start(j + k), ind1', ind2', last')
    BY <1>a, <2>2, <2>3
  <2>5. ind1' \in Nat /\ ind2' \in Nat /\ last' \in 0..N
    BY <1>2, <1>5, <1>8, <1>9, <2>2 DEF Offsets
  <2>6. dest' \in [Offsets -> 0..N] /\ \A i \in 0..pos[j] - 1 : dest'[i] = dest[i]
    BY <1>a, <1>11, <2>2
  <2> QED
    BY <1>1, <2>2, <2>4, <2>5, <2>6, StillMerging
<1>14. CASE first /\ ~(x + 1 < m)
  <2> DEFINE z == e - 1
  <2>0. x + 1 = m /\ z \in Nat /\ z < N /\ y <= z /\ c + (z - y) + 1 < N
    BY <1>2, <1>5, <1>8, <1>14
  <2>1. x1 = x + 1 /\ y1 = y /\ v = source[x] /\ x1 > eind1 /\ eind1 = x /\ eind2 = z
    BY <1>2, <1>5, <1>8, <1>14, <2>0 DEF x1, y1, v
  <2>2. /\ dest' = Copied(taken, c + 1, y, z) /\ j' = j + k /\ pc' = "pair"
        /\ last' = c + 1 + (x - (x + 1) + 1) + (z - y + 1)
    BY <1>7, <2>1
  <2>3. last' = e
    BY <1>2, <1>5, <1>8, <2>0, <2>2
  <2>4. z = e - 1
    OBVIOUS
  <2> HIDE DEF z
  <2>5. /\ dest' \in [Offsets -> 0..N] /\ dest'[c] = v
        /\ RestCopied(source, dest, dest', c, y, z)
    <3>1. Buffers /\ y \in Nat
      BY <1>2
    <3>2. WithRest(dest', c, v, y, z)
      BY <2>2 DEF taken, WithRest
    <3> QED
      BY <1>9, <1>10, <2>0, <3>1, <3>2, CopyBehind
  <2>6. dest' \in [Offsets -> Nat]
    BY <1>5, <2>5
  <2>7. MergedRuns(source, dest', dest, a, e)
    <3>1. dest'[c] = source[x] /\ RestCopied(source, dest, dest', c, y, e - 1)
      BY <2>1, <2>4, <2>5
    <3>2. source[x] < source[y]
      BY <1>14 DEF first
    <3>3. c \in Nat
      BY <1>2
    <3> QED
      BY <1>2, <1>3, <1>4, <1>5, <1>6, <2>0, <2>6, <3>1, <3>2, <3>3, FinishFirst
  <2> QED
    BY <1>1, <1>a, <2>2, <2>3, <2>5, <2>7, PairMerged
<1>15. CASE ~first /\ ~(y + 1 < e)
  <2> DEFINE z == m - 1
  <2>0. y + 1 = e /\ z \in Nat /\ z < N /\ x <= z /\ c + (z - x) + 1 < N
    BY <1>2, <1>5, <1>8, <1>15
  <2>1. x1 = x /\ y1 = y + 1 /\ v = source[y] /\ ~(x1 > eind1) /\ y1 > eind2
        /\ eind1 = z /\ eind2 = y
    BY <1>2, <1>5, <1>8, <1>15, <2>0 DEF x1, y1, v
  <2>2. /\ dest' = Copied(taken, c + 1, x, z) /\ j' = j + k /\ pc' = "pair"
        /\ last' = c + 1 + (z - x + 1) + (y - (y + 1) + 1)
    BY <1>7, <2>1
  <2>3. last' = e
    BY <1>2, <1>5, <1>8, <2>0, <2>2
  <2>4. z = m - 1
    OBVIOUS
  <2> HIDE DEF z
  <2>5. /\ dest' \in [Offsets -> 0..N] /\ dest'[c] = v
        /\ RestCopied(source, dest, dest', c, x, z)
    <3>1. Buffers /\ x \in Nat
      BY <1>2
    <3>2. WithRest(dest', c, v, x, z)
      BY <2>2 DEF taken, WithRest
    <3> QED
      BY <1>9, <1>10, <2>0, <3>1, <3>2, CopyBehind
  <2>6. dest' \in [Offsets -> Nat]
    BY <1>5, <2>5
  <2>7. MergedRuns(source, dest', dest, a, e)
    <3>1. dest'[c] = source[y] /\ RestCopied(source, dest, dest', c, x, m - 1)
      BY <2>1, <2>4, <2>5
    <3>2. source[y] < source[x]
      BY <1>9, <1>10, <1>15 DEF first
    <3>3. c \in Nat
      BY <1>2
    <3> QED
      BY <1>2, <1>3, <1>4, <1>5, <1>6, <2>0, <2>6, <3>1, <3>2, <3>3, FinishSecond
  <2> QED
    BY <1>1, <1>a, <2>2, <2>3, <2>5, <2>7, PairMerged
<1> QED
  BY <1>12, <1>13, <1>14, <1>15

LEMMA NextInvariant ==
    ASSUME IInv, [Next]_vars
    PROVE  IInv'
<1>1. CASE BeginPass
  BY <1>1, BeginPassInvariant
<1>2. CASE BeginPair
  BY <1>2, BeginPairInvariant
<1>3. CASE Take
  BY <1>3, TakeInvariant
<1>4. CASE EndPass
  BY <1>4, EndPassInvariant
<1>5. CASE Return
  BY <1>5, ReturnInvariant
<1>6. CASE UNCHANGED vars
  BY <1>6 DEF vars, runs, IInv, Groups, Size, Buffers, RunsSorted, OneRun, Half, Control,
              BetweenPairs, Start, PassUpTo, InAPair, Answered
<1> QED
  BY <1>1, <1>2, <1>3, <1>4, <1>5, <1>6 DEF Next

-------------------------------------------------------------------------------
(* The theorems.                                                            *)

(* What the merge keeps true, pass by pass (bitarea.cpp:80-134): the pass  *)
(* up to last is in order by the longer runs, the rest by the shorter.     *)
THEOREM InvariantHolds == Spec => []IInv
<1>1. Init => IInv
  BY InitInvariant
<1>2. IInv /\ [Next]_vars => IInv'
  BY NextInvariant
<1> QED
  BY <1>1, <1>2, PTL DEF Spec

(* bitarea.cpp:92-124 writes and reads within the buffers, and an id is    *)
(* written where it was read from when the pass is done with its pair.     *)
THEOREM TypeHolds == Spec => []TypeOK
<1>1. IInv => TypeOK
  <2> SUFFICES ASSUME IInv PROVE TypeOK
    OBVIOUS
  <2> USE DEF IInv
  <2>1. /\ vag \in {-1, 1} /\ pc \in {"pass", "pair", "take", "done"} /\ last \in 0..N
        /\ Half \in Nat \ {0} /\ k = 2 * Half
        /\ pc \in {"pair", "take"} => j \in Nat
        /\ N \in Nat /\ Size \in Nat
    BY Starts DEF Control
  <2>2. source \in [0..N - 1 -> 0..N] /\ dest \in [0..N - 1 -> 0..N]
    <3>1. source \in [Offsets -> 1..N] /\ dest \in [Offsets -> 0..N]
      BY NoIdTwice DEF Buffers
    <3>2. \A i \in Offsets : source[i] \in 0..N
      BY <2>1, <3>1
    <3> QED
      BY <3>1, <3>2 DEF Offsets
  <2>3. pc = "pair" => last = IF j < Size THEN pos[j] ELSE N
    BY DEF BetweenPairs, Start
  <2>4. ASSUME pc = "take"
        PROVE  /\ 0 <= ind1 /\ ind1 <= eind1 /\ eind1 < ind2 /\ ind2 <= eind2 /\ eind2 < N
               /\ last - pos[j] = (ind1 - pos[j]) + (ind2 - pos[j + k \div 2])
    <3> DEFINE a == pos[j]
               m == pos[j + Half]
               e == Start(j + k)
    <3>1. /\ j + Half < Size /\ eind1 = m - 1 /\ eind2 = e - 1
          /\ ind1 \in Nat /\ ind2 \in Nat
          /\ Merging(source, dest, a, m, e, ind1, ind2, last)
      BY <2>4 DEF InAPair
    <3>2. a \in Nat /\ m \in Nat /\ e \in 0..N
      <4>1. j \in 0..Size - 1 /\ j + Half \in 0..Size - 1 /\ j + k \in Nat
        <5> HIDE DEF Half, IInv
        <5> QED
          BY <2>1, <2>4, <3>1
      <4> QED
        BY <4>1, Starts
    <3> HIDE DEF a, m, e, IInv
    <3>3. /\ a <= ind1 /\ ind1 < m /\ m <= ind2 /\ ind2 < e /\ last = ind1 + ind2 - m
      BY <3>1 DEF Merging
    <3>4. /\ 0 <= ind1 /\ ind1 <= eind1 /\ eind1 < ind2 /\ ind2 <= eind2 /\ eind2 < N
      BY <2>1, <3>1, <3>2, <3>3
    <3>5. last - a = (ind1 - a) + (ind2 - m)
      BY <2>1, <3>1, <3>2, <3>3
    <3> QED
      BY <3>4, <3>5 DEF a, m, Half
  <2> QED
    BY <2>1, <2>2, <2>3, <2>4 DEF TypeOK
<1> QED
  BY <1>1, InvariantHolds, PTL

(* The answer of bitarea::results, which core.h:200 relies on, has every   *)
(* id once and in order, whatever the number of ids and of groups.         *)
THEOREM AnswerSortedHolds == Spec => []AnswerSorted
<1>1. IInv => AnswerSorted
  <2> SUFFICES ASSUME IInv PROVE AnswerSorted
    OBVIOUS
  <2>1. {source[i] : i \in DOMAIN source} = 1..N
    <3>1. source \in [Offsets -> 1..N] /\ \A id \in 1..N : \E i \in Offsets : source[i] = id
      BY DEF IInv, Buffers, Surjection
    <3> QED
      BY <3>1
  <2>2. RunsSorted(k \div 2)
    BY DEF IInv, Buffers, Half
  <2>3. ASSUME pc = "done", NEW i \in 1..N - 1 PROVE source[i - 1] < source[i]
    <3>1. i - 1 \in 0..N - 1 /\ i \in 0..N - 1 /\ i - 1 < i
      BY SizeAssumption
    <3> QED
      BY <2>3, <3>1 DEF IInv, Answered, Rising
  <2> QED
    BY <2>1, <2>2, <2>3 DEF AnswerSorted
<1> QED
  BY <1>1, InvariantHolds, PTL

===============================================================================

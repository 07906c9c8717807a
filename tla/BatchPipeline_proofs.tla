------------------------- MODULE BatchPipeline_proofs --------------------------
(***************************************************************************)
(* Theorems of BatchPipeline: whatever the numbers of workers, jobs and    *)
(* batches, and whatever the weights make of a fetch, the rows of barriers *)
(* are passed one after the other and never share the condition variable   *)
(* or a counter.  If, besides, no fetch takes a table together with a      *)
(* barrier before a search is queued (TablesOneByOne), every job runs in   *)
(* the phase that JobRun::Run means for it, as in BatchPhases.             *)
(***************************************************************************)
EXTENDS BatchPipeline, SequenceFacts, FiniteSetTheorems, SequenceTheorems, TLAPS

IsBarrier(j) == j.kind = "Barrier"

(* Jobs that JobRun::Run plans: they are scheduled once in a batch.        *)
Planned(j) == j.kind \notin {"MatchPrune", "GenRes"}

-------------------------------------------------------------------------------
(* Queues.                                                                  *)

(* The barriers of a row.                                                  *)
BarriersOf(q, r) == {j \in Range(q) : IsBarrier(j) /\ j.of = r}

(* Rows are one behind the other.                                          *)
RowAfterRow(q) ==
    \A i, l \in DOMAIN q : i < l /\ IsBarrier(q[i]) /\ IsBarrier(q[l]) => q[i].of <= q[l].of

PlannedApart(q) ==
    \A i, l \in DOMAIN q : q[i] = q[l] /\ Planned(q[i]) => i = l

(* A job that makes results is behind all barriers.                        *)
ResultsBehind(q) ==
    \E i \in DOMAIN q : /\ q[i].kind = "GenerateRes"
                        /\ \A l \in DOMAIN q : IsBarrier(q[l]) => l < i

NoBarrier(q) == \A j \in Range(q) : ~IsBarrier(j)

(* Two queues one behind the other.                                        *)
Joined(t, q, v) == t = q \o v

(* The positions of two sequences in the one joined of them.               *)
LEMMA Positions ==
    ASSUME NEW S, NEW q \in Seq(S), NEW v \in Seq(S), NEW t, Joined(t, q, v)
    PROVE  /\ Len(q) \in Nat /\ Len(v) \in Nat
           /\ t \in Seq(S) /\ Len(t) = Len(q) + Len(v)
           /\ \A i \in DOMAIN q : i \in DOMAIN t /\ t[i] = q[i] /\ i \in Nat /\ i <= Len(q)
           /\ \A i \in DOMAIN v : Len(q) + i \in DOMAIN t /\ t[Len(q) + i] = v[i]
                                  /\ i \in Nat /\ i >= 1
           /\ \A i \in DOMAIN t : i \in DOMAIN q \/ (i - Len(q) \in DOMAIN v /\ i > Len(q)
                                                     /\ t[i] = v[i - Len(q)])
           /\ Range(t) = Range(q) \union Range(v)
<1>1. /\ Len(q) \in Nat /\ Len(v) \in Nat /\ DOMAIN q = 1..Len(q) /\ DOMAIN v = 1..Len(v)
      /\ t \in Seq(S) /\ Len(t) = Len(q) + Len(v) /\ DOMAIN t = 1..Len(q) + Len(v)
  BY DEF Joined
<1>2. \A i \in 1..Len(q) + Len(v) : t[i] = IF i <= Len(q) THEN q[i] ELSE v[i - Len(q)]
  BY DEF Joined
<1>3. \A i \in DOMAIN q : i \in DOMAIN t /\ t[i] = q[i] /\ i \in Nat /\ i <= Len(q)
  BY <1>1, <1>2
<1>4. \A i \in DOMAIN v : Len(q) + i \in DOMAIN t /\ t[Len(q) + i] = v[i] /\ i \in Nat /\ i >= 1
  <2> SUFFICES ASSUME NEW i \in DOMAIN v
               PROVE  Len(q) + i \in DOMAIN t /\ t[Len(q) + i] = v[i] /\ i \in Nat /\ i >= 1
    OBVIOUS
  <2>1. i \in Nat /\ i >= 1 /\ Len(q) + i \in 1..Len(q) + Len(v) /\ ~(Len(q) + i <= Len(q))
        /\ Len(q) + i - Len(q) = i
    BY <1>1
  <2>2. t[Len(q) + i] = v[i]
    BY <1>2, <2>1
  <2> QED
    BY <1>1, <2>1, <2>2
<1>5. \A i \in DOMAIN t : i \in DOMAIN q \/ (i - Len(q) \in DOMAIN v /\ i > Len(q)
                                             /\ t[i] = v[i - Len(q)])
  <2> SUFFICES ASSUME NEW i \in DOMAIN t, i \notin DOMAIN q
               PROVE  i - Len(q) \in DOMAIN v /\ i > Len(q) /\ t[i] = v[i - Len(q)]
    OBVIOUS
  <2>1. i - Len(q) \in DOMAIN v /\ i > Len(q) /\ ~(i <= Len(q)) /\ i \in 1..Len(q) + Len(v)
    BY <1>1
  <2> QED
    BY <1>2, <2>1
<1>6. Range(t) = Range(q) \union Range(v)
  <2>1. \A x \in Range(t) : x \in Range(q) \union Range(v)
    BY <1>3, <1>5 DEF Range
  <2>2. \A x \in Range(q) \union Range(v) : x \in Range(t)
    BY <1>3, <1>4 DEF Range
  <2> QED
    BY <2>1, <2>2
<1> QED
  BY <1>1, <1>3, <1>4, <1>5, <1>6

(* Schedule puts jobs, with barriers of a later row only, at the end.      *)
LEMMA AppendJobs ==
    ASSUME NEW q \in Seq(Job), NEW v \in Seq(Job), NEW t, Joined(t, q, v)
    PROVE  /\ \A r \in Nat : /\ RowAfterRow(q)
                             /\ \A j \in Range(q) : IsBarrier(j) => j.of <= r
                             /\ \A j \in Range(v) : IsBarrier(j) => j.of = r
                             => RowAfterRow(t)
           /\ PlannedApart(q) /\ PlannedApart(v)
              /\ (\A j \in Range(q) : Planned(j) => j \notin Range(v)) => PlannedApart(t)
           /\ \A r : BarriersOf(t, r) = BarriersOf(q, r) \union BarriersOf(v, r)
           /\ NoBarrier(v) /\ ResultsBehind(q) => ResultsBehind(t)
           /\ NoBarrier(v) /\ v # <<>> /\ v[1].kind = "GenerateRes" => ResultsBehind(t)
<1> DEFINE n == Len(q)
<1>1. /\ n \in Nat /\ Len(v) \in Nat
      /\ \A i \in DOMAIN q : i \in DOMAIN t /\ t[i] = q[i] /\ i \in Nat /\ i <= n
      /\ \A i \in DOMAIN v : n + i \in DOMAIN t /\ t[n + i] = v[i] /\ i \in Nat /\ i >= 1
      /\ \A i \in DOMAIN t : i \in DOMAIN q \/ (i - n \in DOMAIN v /\ i > n /\ t[i] = v[i - n])
      /\ Range(t) = Range(q) \union Range(v) /\ t \in Seq(Job)
  BY Positions
<1>2. \A i \in DOMAIN v : v[i] \in Range(v)
  BY DEF Range
<1>3. \A i \in DOMAIN q : q[i] \in Range(q)
  BY DEF Range
<1>0. DOMAIN t \subseteq Nat
  BY <1>1
<1> HIDE DEF n
<1>4. ASSUME NEW r \in Nat, RowAfterRow(q),
             \A j \in Range(q) : IsBarrier(j) => j.of <= r,
             \A j \in Range(v) : IsBarrier(j) => j.of = r
      PROVE  RowAfterRow(t)
  <2> SUFFICES ASSUME NEW i \in DOMAIN t, NEW l \in DOMAIN t, i < l,
                      IsBarrier(t[i]), IsBarrier(t[l])
               PROVE  t[i].of <= t[l].of
    BY DEF RowAfterRow
  <2>0. i \in Nat /\ l \in Nat
    BY <1>0
  <2>1. CASE l \in DOMAIN q
    <3>1. i \in DOMAIN q
      BY <1>1, <2>0, <2>1
    <3> QED
      BY <1>1, <1>4, <2>1, <3>1 DEF RowAfterRow
  <2>2. CASE l \notin DOMAIN q
    <3>1. t[l].of = r
      BY <1>1, <1>2, <1>4, <2>2
    <3>2. t[i].of <= r
      <4>1. CASE i \in DOMAIN q
        BY <1>1, <1>3, <1>4, <4>1
      <4>2. CASE i \notin DOMAIN q
        BY <1>1, <1>2, <1>4, <4>2
      <4> QED
        BY <4>1, <4>2
    <3> QED
      BY <3>1, <3>2
  <2> QED
    BY <2>1, <2>2
<1>5. ASSUME PlannedApart(q), PlannedApart(v), \A j \in Range(q) : Planned(j) => j \notin Range(v)
      PROVE  PlannedApart(t)
  <2> SUFFICES ASSUME NEW i \in DOMAIN t, NEW l \in DOMAIN t, t[i] = t[l], Planned(t[i])
               PROVE  i = l
    BY DEF PlannedApart
  <2>0. i \in Nat /\ l \in Nat
    BY <1>0
  <2>1. CASE i \in DOMAIN q /\ l \in DOMAIN q
    BY <1>1, <1>5, <2>1 DEF PlannedApart
  <2>2. CASE i \in DOMAIN q /\ l \notin DOMAIN q
    BY <1>1, <1>2, <1>3, <1>5, <2>2
  <2>3. CASE i \notin DOMAIN q /\ l \in DOMAIN q
    BY <1>1, <1>2, <1>3, <1>5, <2>3
  <2>4. CASE i \notin DOMAIN q /\ l \notin DOMAIN q
    <3>1. /\ i - n \in DOMAIN v /\ l - n \in DOMAIN v
          /\ t[i] = v[i - n] /\ t[l] = v[l - n]
      BY <1>1, <2>4
    <3>2. i - n = l - n
      BY <1>5, <3>1 DEF PlannedApart
    <3> QED
      BY <1>1, <2>0, <3>2
  <2> QED
    BY <2>1, <2>2, <2>3, <2>4
<1>6. \A r : BarriersOf(t, r) = BarriersOf(q, r) \union BarriersOf(v, r)
  BY <1>1 DEF BarriersOf
<1>7. ASSUME NoBarrier(v), ResultsBehind(q) PROVE ResultsBehind(t)
  <2>1. PICK i \in DOMAIN q : q[i].kind = "GenerateRes" /\ \A l \in DOMAIN q : IsBarrier(q[l]) => l < i
    BY <1>7 DEF ResultsBehind
  <2>2. \A l \in DOMAIN t : IsBarrier(t[l]) => l \in DOMAIN q /\ t[l] = q[l]
    BY <1>1, <1>2, <1>7 DEF NoBarrier
  <2> QED
    BY <1>1, <2>1, <2>2 DEF ResultsBehind
<1>8. ASSUME NoBarrier(v), v # <<>>, v[1].kind = "GenerateRes" PROVE ResultsBehind(t)
  <2>1. 1 \in DOMAIN v
    BY <1>8
  <2>2. \A l \in DOMAIN t : IsBarrier(t[l]) => l \in DOMAIN q /\ t[l] = q[l]
    BY <1>1, <1>2, <1>8 DEF NoBarrier
  <2>3. n + 1 \in DOMAIN t /\ t[n + 1].kind = "GenerateRes"
    BY <1>1, <1>8, <2>1
  <2>4. \A l \in DOMAIN t : IsBarrier(t[l]) => l < n + 1
    BY <1>1, <2>2
  <2> QED
    BY <2>3, <2>4 DEF ResultsBehind
<1> QED
  BY <1>4, <1>5, <1>6, <1>7, <1>8

(* The first k jobs of a queue and the others.                             *)
Cut(q, k, h, t) == h = SubSeq(q, 1, k) /\ t = SubSeq(q, k + 1, Len(q))

(* The positions of a queue in what a fetch takes and in what it leaves.   *)
LEMMA CutPositions ==
    ASSUME NEW S, NEW q \in Seq(S), NEW k \in 1..Len(q), NEW h, NEW t, Cut(q, k, h, t)
    PROVE  /\ Len(q) \in Nat /\ k \in Nat /\ k >= 1 /\ k <= Len(q) /\ DOMAIN q = 1..Len(q)
           /\ h \in Seq(S) /\ Len(h) = k /\ \A i \in 1..k : h[i] = q[i]
           /\ t \in Seq(S) /\ Len(t) = Len(q) - k /\ \A i \in 1..Len(q) - k : t[i] = q[k + i]
<1> USE DEF Cut
<1> DEFINE n == Len(q)
<1>1. n \in Nat /\ k \in Nat /\ k >= 1 /\ k <= n /\ DOMAIN q = 1..n
  OBVIOUS
<1>2. h \in Seq(S) /\ Len(h) = k /\ \A i \in 1..k : h[i] = q[i]
  <2>1. \A i \in 1..k : q[i] \in S
    BY <1>1
  <2>2. h \in Seq(S) /\ Len(h) = (IF 1 <= k THEN k - 1 + 1 ELSE 0)
        /\ \A i \in 1..k - 1 + 1 : h[i] = q[1 + i - 1]
    BY <1>1, <2>1, SubSeqProperties
  <2>3. k - 1 + 1 = k /\ \A i \in 1..k : 1 + i - 1 = i
    BY <1>1
  <2> QED
    BY <1>1, <2>2, <2>3
<1>3. t \in Seq(S) /\ Len(t) = n - k /\ \A i \in 1..n - k : t[i] = q[k + i]
  <2>1. \A i \in k + 1..n : q[i] \in S
    BY <1>1
  <2>2. t \in Seq(S) /\ Len(t) = (IF k + 1 <= n THEN n - (k + 1) + 1 ELSE 0)
        /\ \A i \in 1..n - (k + 1) + 1 : t[i] = q[k + 1 + i - 1]
    BY <1>1, <2>1, SubSeqProperties
  <2>3. n - (k + 1) + 1 = n - k /\ \A i \in 1..n - k : k + 1 + i - 1 = k + i
    BY <1>1
  <2> HIDE DEF n
  <2>4. Len(t) = n - k
    BY <1>1, <2>2
  <2> QED
    BY <2>2, <2>3, <2>4
<1> QED
  BY <1>1, <1>2, <1>3 DEF n

(* fetchWork takes a prefix that no barrier ends before.                   *)
LEMMA FetchJobs ==
    ASSUME NEW S, NEW q \in Seq(S), NEW k \in 1..Len(q),
           \A i \in 1..k - 1 : ~IsBarrier(q[i]), RowAfterRow(q), PlannedApart(q),
           NEW h, NEW t, Cut(q, k, h, t)
    PROVE  /\ h \in Seq(S) /\ t \in Seq(S) /\ Len(h) = k /\ Len(t) = Len(q) - k
           /\ \A i \in 1..k : h[i] = q[i]
           /\ Range(h) \subseteq Range(q) /\ Range(t) \subseteq Range(q)
           /\ \A j \in Range(q) : j \in Range(h) \/ j \in Range(t)
           /\ \A j \in Range(h) : Planned(j) => j \notin Range(t)
           /\ RowAfterRow(t) /\ PlannedApart(t)
           /\ q[k] \in Range(h)
           /\ \A j \in Range(h) : IsBarrier(j) => j = q[k]
           /\ IsBarrier(q[k]) => \A j \in Range(q) : IsBarrier(j) => q[k].of <= j.of \/ j = q[k]
           /\ ResultsBehind(q) /\ (IsBarrier(q[k]) \/ ~NoBarrier(t)) => ResultsBehind(t)
<1> DEFINE n == Len(q)
<1>1. n \in Nat /\ k \in Nat /\ k >= 1 /\ k <= n /\ DOMAIN q = 1..n
  BY CutPositions
<1>2. h \in Seq(S) /\ Len(h) = k /\ \A i \in 1..k : h[i] = q[i]
  BY CutPositions
<1>3. t \in Seq(S) /\ Len(t) = n - k /\ \A i \in 1..n - k : t[i] = q[k + i]
  BY CutPositions
<1>4. DOMAIN h = 1..k /\ DOMAIN t = 1..n - k
  BY <1>2, <1>3
<1> HIDE DEF n
<1>5. \A i \in 1..n - k : k + i \in 1..n /\ k + i > k /\ i \in Nat
  BY <1>1
<1>6. \A i \in 1..n : i \in 1..k \/ (i - k \in 1..n - k /\ k + (i - k) = i)
  BY <1>1
<1>7. \A i \in 1..k : i \in 1..n
  BY <1>1
<1>8. Range(h) \subseteq Range(q) /\ Range(t) \subseteq Range(q) /\ q[k] \in Range(h)
  <2>1. \A x \in Range(h) : x \in Range(q)
    BY <1>1, <1>2, <1>4, <1>7 DEF Range
  <2>2. \A x \in Range(t) : x \in Range(q)
    BY <1>1, <1>3, <1>4, <1>5 DEF Range
  <2>3. k \in 1..k /\ h[k] = q[k]
    BY <1>1, <1>2
  <2> QED
    BY <1>4, <2>1, <2>2, <2>3 DEF Range
<1>9. \A j \in Range(q) : j \in Range(h) \/ j \in Range(t)
  <2> SUFFICES ASSUME NEW i \in 1..n PROVE q[i] \in Range(h) \/ q[i] \in Range(t)
    BY <1>1 DEF Range
  <2>1. CASE i \in 1..k
    BY <1>2, <1>4, <2>1 DEF Range
  <2>2. CASE i \notin 1..k
    <3>1. i - k \in 1..n - k /\ t[i - k] = q[i]
      BY <1>3, <1>6, <2>2
    <3> QED
      BY <1>4, <3>1 DEF Range
  <2> QED
    BY <2>1, <2>2
<1>10. \A j \in Range(h) : Planned(j) => j \notin Range(t)
  <2> SUFFICES ASSUME NEW i \in 1..k, NEW l \in 1..n - k, h[i] = t[l], Planned(h[i]) PROVE FALSE
    BY <1>4 DEF Range
  <2>1. q[i] = q[k + l] /\ i \in 1..n /\ k + l \in 1..n
    BY <1>2, <1>3, <1>5, <1>7
  <2>2. i = k + l
    BY <1>1, <1>2, <2>1 DEF PlannedApart
  <2> QED
    BY <1>1, <1>5, <2>2
<1>11. RowAfterRow(t)
  <2> SUFFICES ASSUME NEW i \in 1..n - k, NEW l \in 1..n - k, i < l, IsBarrier(t[i]), IsBarrier(t[l])
               PROVE  t[i].of <= t[l].of
    BY <1>4 DEF RowAfterRow
  <2>1. k + i < k + l
    BY <1>1, <1>5
  <2> QED
    BY <1>1, <1>3, <1>5, <2>1 DEF RowAfterRow
<1>12. PlannedApart(t)
  <2> SUFFICES ASSUME NEW i \in 1..n - k, NEW l \in 1..n - k, t[i] = t[l], Planned(t[i])
               PROVE  i = l
    BY <1>4 DEF PlannedApart
  <2>1. k + i = k + l
    BY <1>1, <1>3, <1>5 DEF PlannedApart
  <2> QED
    BY <1>1, <1>5, <2>1
<1>13. \A j \in Range(h) : IsBarrier(j) => j = q[k]
  <2> SUFFICES ASSUME NEW i \in 1..k, IsBarrier(h[i]) PROVE h[i] = q[k]
    BY <1>4 DEF Range
  <2>1. i = k
    BY <1>1, <1>2
  <2> QED
    BY <1>2, <2>1
<1>14. ASSUME IsBarrier(q[k]), NEW j \in Range(q), IsBarrier(j) PROVE q[k].of <= j.of \/ j = q[k]
  <2>1. PICK i \in 1..n : q[i] = j
    BY <1>1 DEF Range
  <2>2. i \notin 1..k - 1
    BY <1>14, <2>1
  <2>3. i = k \/ k < i
    BY <1>1, <2>2
  <2>4. k \in 1..n
    BY <1>1
  <2> QED
    BY <1>1, <1>14, <2>1, <2>3, <2>4 DEF RowAfterRow
<1>15. ASSUME ResultsBehind(q), IsBarrier(q[k]) \/ ~NoBarrier(t) PROVE ResultsBehind(t)
  <2>1. PICK i \in 1..n : q[i].kind = "GenerateRes" /\ \A l \in 1..n : IsBarrier(q[l]) => l < i
    BY <1>1, <1>15 DEF ResultsBehind
  <2>2. k < i
    <3>1. CASE IsBarrier(q[k])
      BY <1>1, <2>1, <3>1
    <3>2. CASE ~NoBarrier(t)
      <4>1. PICK l \in 1..n - k : IsBarrier(t[l])
        BY <1>4, <3>2 DEF NoBarrier, Range
      <4>2. k + l < i
        BY <1>3, <1>5, <2>1, <4>1
      <4> QED
        BY <1>1, <1>5, <4>2
    <3> QED
      BY <1>15, <3>1, <3>2
  <2> DEFINE m == i - k
  <2>3. m \in 1..n - k /\ t[m] = q[i]
    <3>1. i \notin 1..k
      BY <1>1, <2>2
    <3> QED
      BY <1>3, <1>6, <3>1
  <2>4. ASSUME NEW l \in 1..n - k, IsBarrier(t[l]) PROVE l < m
    <3>1. k + l < i
      BY <1>3, <1>5, <2>1, <2>4
    <3> QED
      BY <1>1, <1>5, <3>1
  <2> HIDE DEF m
  <2> QED
    BY <1>4, <2>1, <2>3, <2>4 DEF ResultsBehind
<1> QED
  BY <1>2, <1>3, <1>8, <1>9, <1>10, <1>11, <1>12, <1>13, <1>14, <1>15 DEF n

-------------------------------------------------------------------------------
(* The invariant.                                                           *)

(* The rows of the batch that are scheduled.                               *)
LastRow == CASE pc = "SplitGenHashes" -> 0
             [] pc \in {"nojobleft", "count_barr"} -> count_genhashes
             [] pc = "scheduleGenRes" -> count_barr
             [] OTHER -> scount_barr

LastJob(w) == jobs[w][Len(jobs[w])]

(* The worker leaves its barrier.                                          *)
Leaving(w) == w \in returning /\ IsBarrier(Head(jobs[w]))

(* The workers that have a barrier to come to, or are blocked on it.       *)
Held == {w \in Workers : jobs[w] # <<>> /\ IsBarrier(LastJob(w)) /\ ~Leaving(w)}

(* Queue and vectors: a barrier is the last of its vector.                 *)
Shape ==
    /\ jobsQueue \in Seq(scheduled)
    /\ availableWork = Len(jobsQueue)
    /\ \A w \in Workers : \A i \in 1..Len(jobs[w]) - 1 : ~IsBarrier(jobs[w][i])
    /\ \A w \in returning : jobs[w] # <<>> /\ w \notin barrWait
    /\ \A w \in barrWait : jobs[w] # <<>> /\ IsBarrier(Head(jobs[w]))

(* What is planned for a batch is scheduled when its turn comes.           *)
InTime ==
    \A j \in scheduled :
        /\ IsBarrier(j) => j.batch < batch \/ (j.batch = batch /\ j.of <= LastRow)
        /\ j.kind \in HashKinds => j.batch < batch \/ (j.batch = batch /\ LastRow >= 1)
        /\ j.kind = "GenerateRes" => j.batch < batch \/ (j.batch = batch /\ pc = "idle")

(* A planned job that is in the queue is there once and nowhere else.      *)
PlannedOnce ==
    /\ PlannedApart(jobsQueue)
    /\ \A j \in Range(jobsQueue) :
          Planned(j) => j \notin done /\ \A w \in Workers : j \notin Range(jobs[w])

(* A barrier is in the queue, the last of a vector, or done.               *)
BarrierSomewhere ==
    \A j \in scheduled : IsBarrier(j) =>
        \/ j \in done \/ j \in Range(jobsQueue)
        \/ \E w \in Workers : jobs[w] # <<>> /\ LastJob(w) = j

(* All rows before cur are open, cur is not and none behind it is.         *)
InOrder(cur) ==
    /\ \A j \in Range(jobsQueue) : IsBarrier(j) => j.batch = batch /\ j.of \in cur..LastRow
    /\ RowAfterRow(jobsQueue)
    /\ \A w \in Held : LastJob(w).batch = batch /\ LastJob(w).of = cur
    /\ \A w \in Workers : Leaving(w) => Head(jobs[w]).of = IF cur = 1 THEN 3 ELSE cur - 1

(* A row has a barrier for each worker, fetched or not, and its counter is *)
(* what is left of them to come.                                           *)
Counted(cur) ==
    /\ cur > LastRow => Held = {}
    /\ cur <= LastRow =>
          /\ Cardinality(BarriersOf(jobsQueue, cur)) + Cardinality(Held) = THREADS
          /\ count[cur] + Cardinality(barrWait) = THREADS - 1
    /\ \A r \in cur + 1..LastRow :
          Cardinality(BarriersOf(jobsQueue, r)) = THREADS /\ count[r] = THREADS - 1

(* JobRun::Run goes on when the first row is fetched, and the batch ends   *)
(* when a job behind the last row was.                                     *)
Waited(cur) ==
    /\ pc \in {"count_barr", "scheduleGenRes", "JobGenerateRes"} /\ cur = 1 =>
          BarriersOf(jobsQueue, 1) = {}
    /\ pc = "idle" /\ cur <= 3 => ResultsBehind(jobsQueue)

AtRow(cur) == cur \in 1..LastRow + 1 /\ InOrder(cur) /\ Counted(cur) /\ Waited(cur)

(* JobRun::Run is in a batch, and waits for the pool where it calls        *)
(* nojobleft.                                                              *)
Calling ==
    /\ inNoJobLeft => pc = "nojobleft"
    /\ pc # "idle" => batch > 0

JobsRight == TypeOK /\ Shape /\ Calling /\ InTime /\ PlannedOnce /\ BarrierSomewhere

At(cur) == JobsRight /\ AtRow(cur)

IInv == \E cur \in 1..4 : At(cur)

-------------------------------------------------------------------------------
(* Facts.                                                                   *)

(* A sequence over a set is one over every larger set.                     *)
LEMMA LargerRange ==
    ASSUME NEW S, NEW T, S \subseteq T, NEW s \in Seq(S)
    PROVE  s \in Seq(T)
<1>1. Len(s) \in Nat /\ \A i \in 1..Len(s) : s[i] \in T
  OBVIOUS
<1>2. s \in [1..Len(s) -> T]
  BY <1>1
<1> QED
  BY <1>1, <1>2, SeqDef

(* A sequence has finitely many elements, all of them of its set.          *)
LEMMA FiniteRange ==
    ASSUME NEW S, NEW s \in Seq(S)
    PROVE  /\ IsFiniteSet(Range(s)) /\ Range(s) \subseteq S
           /\ \A r : IsFiniteSet(BarriersOf(s, r))
<1>1. Len(s) \in Nat /\ DOMAIN s = 1..Len(s) /\ s \in [1..Len(s) -> S]
  OBVIOUS
<1>2. IsFiniteSet(1..Len(s))
  BY <1>1, FS_Interval
<1>3. s \in Surjection(1..Len(s), Range(s))
  <2>1. s \in [1..Len(s) -> Range(s)] /\ \A x \in Range(s) : \E i \in 1..Len(s) : s[i] = x
    BY <1>1 DEF Range
  <2> QED
    BY <2>1 DEF Surjection
<1>4. IsFiniteSet(Range(s))
  BY <1>2, <1>3, FS_Surjection
<1>5. Range(s) \subseteq S
  BY <1>1 DEF Range
<1>6. \A r : BarriersOf(s, r) \subseteq Range(s)
  BY DEF BarriersOf
<1>7. \A r : IsFiniteSet(BarriersOf(s, r))
  BY <1>4, <1>6, FS_Subset
<1> QED
  BY <1>4, <1>5, <1>7

(* What the shape of the state says of queue, vectors and barriers.        *)
LEMMA Facts ==
    ASSUME TypeOK, Shape
    PROVE  /\ jobsQueue \in Seq(Job) /\ Range(jobsQueue) \subseteq scheduled
           /\ \A w \in Workers : jobs[w] \in Seq(scheduled) /\ jobs[w] \in Seq(Job)
           /\ \A j \in Job : j.of \in Nat /\ j.batch \in 1..Batches
           /\ \A r : IsFiniteSet(BarriersOf(jobsQueue, r))
           /\ \A r : Cardinality(BarriersOf(jobsQueue, r)) \in Nat
           /\ LastRow \in 0..3
<1>1. jobsQueue \in Seq(Job)
  BY LargerRange DEF TypeOK, Shape
<1>2. Range(jobsQueue) \subseteq scheduled
  BY FiniteRange DEF Shape
<1>3. ASSUME NEW w \in Workers PROVE jobs[w] \in Seq(scheduled) /\ jobs[w] \in Seq(Job)
  <2>1. jobs[w] \in Seq(scheduled) /\ scheduled \subseteq Job
    BY DEF TypeOK
  <2> QED
    BY <2>1, LargerRange
<1>4. \A j \in Job : j.of \in Nat /\ j.batch \in 1..Batches
  BY DEF Job
<1>5. \A r : IsFiniteSet(BarriersOf(jobsQueue, r))
  BY <1>1, FiniteRange
<1>6. \A r : Cardinality(BarriersOf(jobsQueue, r)) \in Nat
  BY <1>5, FS_CardinalityType
<1>7. LastRow \in 0..3
  BY DEF TypeOK, LastRow, count_genhashes, count_barr, scount_barr
<1> QED
  BY <1>1, <1>2, <1>3, <1>4, <1>5, <1>6, <1>7

(* Sets of workers.                                                        *)
LEMMA SomeWorkers ==
    /\ THREADS \in Nat /\ THREADS >= 1 /\ IsFiniteSet(Workers)
    /\ \A W \in SUBSET Workers : /\ IsFiniteSet(W) /\ Cardinality(W) \in Nat
                                 /\ Cardinality(W) <= THREADS
                                 /\ Cardinality(W) = THREADS => W = Workers
                                 /\ Cardinality(W) = 0 => W = {}
                                 /\ \A w \in Workers \ W :
                                        Cardinality(W \union {w}) = Cardinality(W) + 1
<1>1. IsFiniteSet(Workers) /\ Workers # {}
  BY PoolAssumption
<1>2. THREADS \in Nat /\ THREADS >= 1
  <2>1. Cardinality(Workers) \in Nat /\ Cardinality(Workers) # 0
    BY <1>1, FS_CardinalityType, FS_EmptySet
  <2> QED
    BY <2>1 DEF THREADS
<1>3. ASSUME NEW W \in SUBSET Workers
      PROVE  /\ IsFiniteSet(W) /\ Cardinality(W) \in Nat
             /\ Cardinality(W) <= THREADS
             /\ Cardinality(W) = THREADS => W = Workers
             /\ Cardinality(W) = 0 => W = {}
             /\ \A w \in Workers \ W : Cardinality(W \union {w}) = Cardinality(W) + 1
  <2>1. IsFiniteSet(W) /\ Cardinality(W) <= THREADS /\ (Cardinality(W) = THREADS => W = Workers)
    BY <1>1, FS_Subset DEF THREADS
  <2>2. Cardinality(W) \in Nat /\ (Cardinality(W) = 0 => W = {})
    BY <2>1, FS_CardinalityType, FS_EmptySet
  <2>3. \A w \in Workers \ W : Cardinality(W \union {w}) = Cardinality(W) + 1
    BY <2>1, FS_AddElement
  <2> QED
    BY <2>1, <2>2, <2>3
<1> QED
  BY <1>1, <1>2, <1>3

(* A barrier at the head of a vector is all of it.                         *)
LEMMA HeadOf ==
    ASSUME TypeOK, Shape, NEW w \in Workers, jobs[w] # <<>>
    PROVE  /\ Head(jobs[w]) = jobs[w][1] /\ Head(jobs[w]) \in scheduled
           /\ Head(jobs[w]) \in Range(jobs[w]) /\ LastJob(w) \in Range(jobs[w])
           /\ LastJob(w) \in scheduled
           /\ IsBarrier(Head(jobs[w])) => Len(jobs[w]) = 1 /\ LastJob(w) = Head(jobs[w])
<1> DEFINE s == jobs[w]
           n == Len(s)
<1>1. s \in Seq(scheduled)
  BY DEF TypeOK
<1>2. \A i \in 1..n - 1 : ~IsBarrier(s[i])
  BY DEF Shape
<1>3. n \in Nat /\ n >= 1 /\ DOMAIN s = 1..n /\ Head(s) = s[1]
  BY <1>1
<1>4. LastJob(w) = s[n]
  BY DEF LastJob
<1> HIDE DEF n
<1>5. s[1] \in scheduled /\ s[n] \in scheduled /\ s[1] \in Range(s) /\ s[n] \in Range(s)
  <2>1. 1 \in DOMAIN s /\ n \in DOMAIN s
    BY <1>3
  <2> QED
    BY <1>1, <2>1 DEF Range
<1>6. IsBarrier(s[1]) => n = 1
  <2>1. n # 1 => 1 \in 1..n - 1
    BY <1>3
  <2> QED
    BY <1>2, <2>1
<1> QED
  BY <1>3, <1>4, <1>5, <1>6 DEF n

(* The jobs of a kind.                                                     *)
LEMMA JobsAre ==
    ASSUME NEW kind \in Kinds, NEW of \in Nat, NEW n \in Nat, batch \in 1..Batches,
           NEW v, v = Jobs(kind, of, n)
    PROVE  /\ v \in Seq(Job) /\ Len(v) = n
           /\ \A j \in Range(v) : j.kind = kind /\ j.batch = batch /\ j.of = of
           /\ PlannedApart(v)
           /\ n > 0 => v # <<>> /\ v[1].kind = kind
<1>1. v = [i \in 1..n |-> [kind |-> kind, batch |-> batch, of |-> of, n |-> i]]
  BY DEF Jobs
<1>2. \A i \in 1..n : [kind |-> kind, batch |-> batch, of |-> of, n |-> i] \in Job
  BY DEF Job
<1>3. v \in [1..n -> Job]
  BY <1>1, <1>2
<1>4. v \in Seq(Job) /\ Len(v) = n /\ DOMAIN v = 1..n
  BY <1>3, SeqDef
<1>5. \A i \in 1..n : v[i].kind = kind /\ v[i].batch = batch /\ v[i].of = of /\ v[i].n = i
  BY <1>1
<1>6. \A j \in Range(v) : j.kind = kind /\ j.batch = batch /\ j.of = of
  BY <1>4, <1>5 DEF Range
<1>7. PlannedApart(v)
  BY <1>4, <1>5 DEF PlannedApart
<1>8. n > 0 => v # <<>> /\ v[1].kind = kind
  BY <1>4, <1>5
<1> QED
  BY <1>4, <1>6, <1>7, <1>8

(* A row has a barrier for each worker.                                    *)
LEMMA RowIs ==
    ASSUME NEW r \in Nat, batch \in 1..Batches, NEW v, v = Row(r)
    PROVE  /\ v \in Seq(Job)
           /\ \A j \in Range(v) : IsBarrier(j) /\ j.batch = batch /\ j.of = r
           /\ PlannedApart(v)
           /\ Cardinality(BarriersOf(v, r)) = THREADS
<1>0. THREADS \in Nat
  BY SomeWorkers
<1>1. v = Jobs("Barrier", r, THREADS) /\ "Barrier" \in Kinds
  BY DEF Row, Kinds
<1>2. /\ v \in Seq(Job) /\ Len(v) = THREADS /\ PlannedApart(v)
      /\ \A j \in Range(v) : IsBarrier(j) /\ j.batch = batch /\ j.of = r
  BY <1>0, <1>1, JobsAre DEF IsBarrier
<1>3. BarriersOf(v, r) = Range(v)
  BY <1>2 DEF BarriersOf
<1>4. DOMAIN v = 1..THREADS
  BY <1>2
<1>5. v \in Bijection(1..THREADS, Range(v))
  <2>1. v \in [1..THREADS -> Range(v)] /\ \A x \in Range(v) : \E i \in 1..THREADS : v[i] = x
    BY <1>2, <1>4 DEF Range
  <2>2. \A i, l \in 1..THREADS : v[i] = v[l] => i = l
    <3>1. \A i \in 1..THREADS : Planned(v[i])
      BY <1>2, <1>4 DEF Range, Planned, IsBarrier
    <3> QED
      BY <1>2, <1>4, <3>1 DEF PlannedApart
  <2> QED
    BY <2>1, <2>2 DEF Bijection, Injection, Surjection, IsInjective
<1>6. IsFiniteSet(1..THREADS) /\ Cardinality(1..THREADS) = THREADS
  <2>1. IsFiniteSet(1..THREADS)
        /\ Cardinality(1..THREADS) = IF 1 > THREADS THEN 0 ELSE THREADS - 1 + 1
    BY <1>0, FS_Interval
  <2> QED
    BY <1>0, <2>1
<1>7. Cardinality(Range(v)) = THREADS
  BY <1>5, <1>6, FS_Bijection DEF ExistsBijection
<1> QED
  BY <1>2, <1>3, <1>7

-------------------------------------------------------------------------------
(* The steps that leave the jobs alone.                                     *)

(* Before the first batch all rows count as open.                          *)
LEMMA InitInvariant == Init => At(4)
<1> SUFFICES ASSUME Init PROVE At(4)
  OBVIOUS
<1>1. /\ jobsQueue = <<>> /\ availableWork = 0 /\ jobs = [w \in Workers |-> <<>>]
      /\ scheduled = {} /\ done = {} /\ batch = 0 /\ pc = "idle" /\ list = 0
      /\ count = [r \in Rows |-> 0] /\ barrWait = {} /\ returning = {}
  BY DEF Init, js!Init
<1>2. \A S : <<>> \in Seq(S) /\ Len(<<>>) = 0 /\ Range(<<>>) = {} /\ DOMAIN <<>> = {}
  BY DEF Range
<1>3. TypeOK
  <2>1. 0 \in 0..Batches /\ 0 \in 0..Lists + 1 /\ 0 \in 0..THREADS - 1
    BY SomeWorkers, ShapeAssumption
  <2> QED
    BY <1>1, <1>2, <2>1 DEF TypeOK
<1>4. Shape
  BY <1>1, <1>2 DEF Shape
<1>5. InTime /\ BarrierSomewhere /\ Calling
  BY <1>1 DEF InTime, BarrierSomewhere, Calling, Init, js!Init
<1>6. PlannedOnce /\ RowAfterRow(jobsQueue)
  BY <1>1, <1>2 DEF PlannedOnce, PlannedApart, RowAfterRow
<1>7. LastRow = 3
  BY <1>1 DEF LastRow, scount_barr
<1>8. Held = {} /\ \A w \in Workers : ~Leaving(w)
  BY <1>1 DEF Held, Leaving
<1>9. InOrder(4)
  BY <1>1, <1>2, <1>6, <1>7, <1>8 DEF InOrder
<1>10. Counted(4)
  <2>1. ~(4 <= 3) /\ \A r \in 4 + 1..3 : FALSE
    OBVIOUS
  <2> QED
    BY <1>7, <1>8, <2>1 DEF Counted
<1>11. Waited(4)
  <2>1. ~(4 <= 3) /\ 4 # 1
    OBVIOUS
  <2> QED
    BY <2>1 DEF Waited
<1>12. 4 \in 1..LastRow + 1 /\ 4 \in 1..4
  BY <1>7
<1> QED
  BY <1>3, <1>4, <1>5, <1>6, <1>9, <1>10, <1>11, <1>12 DEF At, JobsRight, AtRow

(* A step that moves no job and no counter keeps the invariant.            *)
LEMMA CalmInvariant ==
    ASSUME NEW cur \in 1..4, At(cur),
           UNCHANGED <<jobsQueue, availableWork, jobs, scheduled, done, runVars, barrVars, returning>>,
           inNoJobLeft' => inNoJobLeft \/ pc = "nojobleft"
    PROVE  At(cur)'
<1> USE DEF runVars, barrVars
<1>1. JobsRight'
  BY DEF At, JobsRight, TypeOK, Shape, Calling, InTime, PlannedOnce, BarrierSomewhere, LastJob, LastRow
<1>2. AtRow(cur)
  BY DEF At
<1>3. LastRow' = LastRow /\ Held' = Held /\ \A w \in Workers : Leaving(w)' <=> Leaving(w)
  BY DEF LastRow, Held, LastJob, Leaving
<1>4. AtRow(cur)'
  BY <1>2, <1>3 DEF AtRow, InOrder, Counted, Waited, LastJob
<1> QED
  BY <1>1, <1>4 DEF At

(* The client has the last result of a batch: all rows are open.           *)
LEMMA AllRowsOpen ==
    ASSUME NEW cur \in 1..4, At(cur), pc = "idle", Pending({"GenerateRes"}) = {}
    PROVE  cur = 4 /\ Held = {} /\ \A j \in Range(jobsQueue) : ~IsBarrier(j)
<1>1. AtRow(cur)
  BY DEF At
<1>2. /\ TypeOK /\ Shape /\ PlannedOnce /\ InOrder(cur) /\ Counted(cur) /\ Waited(cur)
  BY <1>1 DEF At, JobsRight, AtRow
<1>3. LastRow = 3
  BY DEF LastRow, scount_barr
<1>5. cur = 4
  <2> SUFFICES ASSUME cur <= 3 PROVE FALSE
    BY <1>1
  <2>1. PICK i \in DOMAIN jobsQueue : jobsQueue[i].kind = "GenerateRes"
    BY <1>2, <1>3 DEF Waited, ResultsBehind
  <2> DEFINE j == jobsQueue[i]
  <2>2. j \in Range(jobsQueue) /\ Planned(j) /\ j \in scheduled
    BY <1>2, <2>1, Facts DEF Range, Planned
  <2>3. j \notin done /\ \A w \in Workers : j \notin Range(jobs[w])
    BY <1>2, <2>2 DEF PlannedOnce
  <2>4. \A w \in returning : Head(jobs[w]) # j
    <3> SUFFICES ASSUME NEW w \in returning PROVE Head(jobs[w]) # j
      OBVIOUS
    <3>1. w \in Workers /\ jobs[w] # <<>>
      BY <1>2 DEF TypeOK, Shape
    <3>2. Head(jobs[w]) \in Range(jobs[w])
      BY <1>2, <3>1, HeadOf
    <3> QED
      BY <2>3, <3>1, <3>2
  <2>5. j \in Pending({"GenerateRes"})
    BY <2>1, <2>2, <2>3, <2>4 DEF Pending
  <2> QED
    BY <2>5
<1>6. Held = {} /\ \A j \in Range(jobsQueue) : ~IsBarrier(j)
  <2>1. 4 > LastRow /\ \A r \in 4..3 : FALSE
    BY <1>3
  <2> QED
    BY <1>2, <1>3, <1>5, <2>1 DEF Counted, InOrder
<1> QED
  BY <1>5, <1>6

(* Nothing is left of the batch when the next one starts.                  *)
LEMMA StartRunInvariant ==
    ASSUME NEW cur \in 1..4, At(cur), StartRun
    PROVE  cur = 4 /\ At(1)'
<1> USE DEF StartRun, poolVars, barrVars
<1>1. AtRow(cur)
  BY DEF At
<1>2. /\ TypeOK /\ Shape /\ Calling /\ InTime /\ PlannedOnce /\ BarrierSomewhere
      /\ InOrder(cur) /\ Counted(cur) /\ Waited(cur)
  BY <1>1 DEF At, JobsRight, AtRow
<1>3. /\ pc = "idle" /\ LastRow = 3 /\ LastRow' = 0 /\ batch' = batch + 1 /\ pc' = "SplitGenHashes"
      /\ batch \in 0..Batches /\ batch < Batches /\ Batches \in Nat
  BY <1>2, ShapeAssumption DEF TypeOK, LastRow, scount_barr
<1>4. /\ jobsQueue' = jobsQueue /\ availableWork' = availableWork /\ jobs' = jobs
      /\ scheduled' = scheduled /\ done' = done /\ list' = list /\ count' = count
      /\ barrWait' = barrWait /\ returning' = returning
  OBVIOUS
<1>5. Pending({"GenerateRes"}) = {}
  OBVIOUS
<1>6. cur = 4 /\ Held = {} /\ \A j \in Range(jobsQueue) : ~IsBarrier(j)
  BY <1>3, <1>5, AllRowsOpen
<1>7. JobsRight'
  <2>1. TypeOK' /\ Shape' /\ PlannedOnce' /\ BarrierSomewhere' /\ Calling'
    BY <1>2, <1>3, <1>4 DEF TypeOK, Shape, PlannedOnce, BarrierSomewhere, LastJob, Calling
  <2>2. InTime'
    <3>1. \A j \in scheduled : j.batch \in 1..Batches
      BY <1>2, Facts DEF TypeOK
    <3>2. \A j \in scheduled : Planned(j) => j.batch < batch + 1
      BY <1>2, <1>3, <3>1 DEF InTime, Planned, IsBarrier, HashKinds, Job, Kinds, TypeOK
    <3> QED
      BY <1>3, <1>4, <3>2 DEF InTime, Planned, IsBarrier, HashKinds
  <2> QED
    BY <2>1, <2>2 DEF JobsRight
<1>8. Held' = {} /\ \A w \in Workers : Leaving(w)' <=> Leaving(w)
  BY <1>4, <1>6 DEF Held, LastJob, Leaving
<1>9. AtRow(1)'
  <2>1. InOrder(1)'
    BY <1>2, <1>4, <1>6, <1>6, <1>8 DEF InOrder
  <2>2. Counted(1)'
    <3>1. ~(1 <= 0) /\ \A r \in 1 + 1..0 : FALSE
      OBVIOUS
    <3> QED
      BY <1>3, <1>8, <3>1 DEF Counted
  <2>3. Waited(1)'
    BY <1>3 DEF Waited
  <2>4. 1 \in 1..LastRow' + 1
    BY <1>3
  <2> QED
    BY <2>1, <2>2, <2>3, <2>4 DEF AtRow
<1> QED
  BY <1>6, <1>7, <1>9 DEF At

(* The queue is empty, so that the first row is fetched.                   *)
LEMMA ReturnNoJobLeftInvariant ==
    ASSUME NEW cur \in 1..4, At(cur), ReturnNoJobLeft
    PROVE  At(cur)'
<1> USE DEF ReturnNoJobLeft, js!ReturnNoJobLeft, js!queueVars, js!runVars, barrVars
<1>1. AtRow(cur)
  BY DEF At
<1>2. /\ TypeOK /\ Shape /\ Calling /\ InTime /\ PlannedOnce /\ BarrierSomewhere
      /\ InOrder(cur) /\ Counted(cur) /\ Waited(cur)
  BY <1>1 DEF At, JobsRight, AtRow
<1>3. /\ pc' = "count_barr" /\ jobsQueue' = jobsQueue /\ availableWork' = availableWork /\ jobs' = jobs
      /\ scheduled' = scheduled /\ done' = done /\ list' = list /\ count' = count
      /\ barrWait' = barrWait /\ returning' = returning /\ batch' = batch /\ availableWork = 0
  OBVIOUS
<1>4. pc = "nojobleft" /\ LastRow = 1 /\ LastRow' = 1
  BY <1>2, <1>3 DEF Calling, LastRow, count_genhashes
<1>5. Held' = Held /\ \A w \in Workers : Leaving(w)' <=> Leaving(w)
  BY <1>3 DEF Held, LastJob, Leaving
<1>6. JobsRight'
  BY <1>2, <1>3, <1>4 DEF JobsRight, TypeOK, Shape, Calling, InTime, PlannedOnce, BarrierSomewhere, LastJob
<1>7. InOrder(cur)' /\ Counted(cur)'
  BY <1>2, <1>3, <1>4, <1>5 DEF InOrder, Counted, LastJob
<1>8. Waited(cur)'
  <2>1. Range(jobsQueue) = {}
    <3>1. Len(jobsQueue) = 0 /\ jobsQueue \in Seq(scheduled)
      BY <1>2, <1>3 DEF Shape
    <3>2. DOMAIN jobsQueue = {}
      BY <3>1
    <3> QED
      BY <3>2 DEF Range
  <2> QED
    BY <1>3, <2>1 DEF Waited, BarriersOf
<1>9. AtRow(cur)'
  BY <1>1, <1>4, <1>7, <1>8 DEF AtRow
<1> QED
  BY <1>6, <1>9 DEF At

-------------------------------------------------------------------------------
(* The steps that schedule jobs.                                            *)

(* The vector v goes to the pool, whose other state stays as it is.        *)
Adds(v) ==
    /\ Joined(jobsQueue', jobsQueue, v) /\ availableWork' = availableWork + Len(v)
    /\ scheduled' = scheduled \union Range(v)
    /\ jobs' = jobs /\ done' = done /\ inNoJobLeft' = inNoJobLeft

(* Scheduling, also of nothing, adds to the end of the queue.              *)
LEMMA SchedulingAdds ==
    /\ \A v : Schedule(v) => Adds(v)
    /\ TypeOK /\ Shape /\ UNCHANGED poolVars => Adds(<<>>)
<1>1. ASSUME NEW v, Schedule(v) PROVE Adds(v)
  BY <1>1 DEF Schedule, js!Schedule, js!Range, Range, Adds, Joined
<1>2. ASSUME TypeOK, Shape, UNCHANGED poolVars PROVE Adds(<<>>)
  <2>1. jobsQueue \o <<>> = jobsQueue /\ Range(<<>>) = {} /\ availableWork + Len(<<>>) = availableWork
    BY <1>2 DEF Shape, Range
  <2> QED
    BY <1>2, <2>1 DEF poolVars, Adds, Joined
<1> QED
  BY <1>1, <1>2

(* Types after jobs were added to the queue.                               *)
LEMMA AddedJobs ==
    ASSUME TypeOK, Shape, NEW v \in Seq(Job), Adds(v)
    PROVE  /\ scheduled \subseteq scheduled' /\ scheduled' \subseteq Job /\ done' \subseteq scheduled'
           /\ jobs' \in [Workers -> Seq(scheduled')]
           /\ jobsQueue' \in Seq(scheduled') /\ availableWork' = Len(jobsQueue')
           /\ Range(jobsQueue') = Range(jobsQueue) \union Range(v)
<1> USE DEF Adds
<1>1. jobsQueue \in Seq(Job)
  BY Facts
<1>2. Range(v) \subseteq Job
  BY FiniteRange
<1>3. scheduled \subseteq scheduled' /\ scheduled' \subseteq Job /\ done' \subseteq scheduled'
  BY <1>2 DEF TypeOK
<1>4. jobs' \in [Workers -> Seq(scheduled')]
  <2>1. \A w \in Workers : jobs[w] \in Seq(scheduled')
    BY <1>3, LargerRange DEF TypeOK
  <2> QED
    BY <2>1 DEF TypeOK
<1>5. /\ jobsQueue' \in Seq(Job) /\ Len(jobsQueue') = Len(jobsQueue) + Len(v)
      /\ Range(jobsQueue') = Range(jobsQueue) \union Range(v)
  BY <1>1, Positions
<1>6. jobsQueue' \in Seq(scheduled')
  <2>1. Range(jobsQueue) \subseteq scheduled
    BY Facts
  <2>2. Range(jobsQueue') \subseteq scheduled'
    BY <1>5, <2>1
  <2>3. \A i \in 1..Len(jobsQueue') : jobsQueue'[i] \in scheduled'
    BY <1>5, <2>2 DEF Range
  <2> QED
    BY <1>5, <2>3, SeqDef
<1>7. availableWork' = Len(jobsQueue')
  BY <1>5 DEF Shape
<1> QED
  BY <1>3, <1>4, <1>5, <1>6, <1>7

(* Jobs other than barriers: the state of the rows stays as it is.         *)
LEMMA PlainInvariant ==
    ASSUME NEW cur \in 1..4, At(cur), NEW v \in Seq(Job), Adds(v), NoBarrier(v), PlannedApart(v),
           \A j \in Range(v) : j.kind \notin HashKinds,
           \A j \in Range(v) : j.kind = "GenerateRes" =>
               pc = "JobGenerateRes" /\ pc' = "idle" /\ j.batch = batch,
           batch' = batch, count' = count, barrWait' = barrWait, list' \in 0..(Lists + 1),
           \/ pc' = pc
           \/ pc = "JobGenerateRes" /\ pc' = "idle" /\ v # <<>> /\ v[1].kind = "GenerateRes",
           returning \subseteq returning', returning' \subseteq Workers,
           \A w \in returning' \ returning :
               jobs[w] # <<>> /\ w \notin barrWait /\ ~IsBarrier(Head(jobs[w]))
    PROVE  At(cur)'
<1>1. AtRow(cur)
  BY DEF At
<1>2. /\ TypeOK /\ Shape /\ Calling /\ InTime /\ PlannedOnce /\ BarrierSomewhere
      /\ InOrder(cur) /\ Counted(cur) /\ Waited(cur)
  BY <1>1 DEF At, JobsRight, AtRow
<1>3. /\ scheduled' = scheduled \union Range(v) /\ jobs' = jobs /\ done' = done
      /\ inNoJobLeft' = inNoJobLeft /\ Joined(jobsQueue', jobsQueue, v)
  BY DEF Adds
<1>4. /\ scheduled' \subseteq Job /\ done' \subseteq scheduled' /\ jobs' \in [Workers -> Seq(scheduled')]
      /\ jobsQueue' \in Seq(scheduled') /\ availableWork' = Len(jobsQueue')
      /\ Range(jobsQueue') = Range(jobsQueue) \union Range(v)
  BY <1>2, AddedJobs
<1>5. jobsQueue \in Seq(Job) /\ Range(jobsQueue) \subseteq scheduled
      /\ \A w \in Workers : jobs[w] \in Seq(scheduled)
  BY <1>2, Facts
<1>6. \A j \in Range(v) : ~IsBarrier(j)
  BY DEF NoBarrier
<1>7. LastRow' = LastRow /\ (pc' = "idle" => LastRow = 3)
  BY <1>2 DEF LastRow, scount_barr, TypeOK
<1>8. Held' = Held /\ \A w \in Workers : Leaving(w)' <=> Leaving(w)
  BY <1>3 DEF Held, LastJob, Leaving
<1>9. \A j \in Range(v) : Planned(j) => j.kind = "GenerateRes" /\ j \notin scheduled
  <2> SUFFICES ASSUME NEW j \in Range(v), Planned(j)
               PROVE  j.kind = "GenerateRes" /\ j \notin scheduled
    OBVIOUS
  <2>1. j.kind = "GenerateRes"
    <3>1. j \in Job
      BY FiniteRange
    <3> QED
      BY <1>6, <3>1 DEF Planned, IsBarrier, HashKinds, Job, Kinds
  <2>2. pc = "JobGenerateRes" /\ j.batch = batch
    BY <2>1
  <2>3. batch \in Int
    BY <1>2 DEF TypeOK
  <2> QED
    BY <1>2, <2>1, <2>2, <2>3 DEF InTime
<1>10. JobsRight'
  <2>1. TypeOK'
    BY <1>2, <1>3, <1>4 DEF TypeOK
  <2>2. Shape'
    BY <1>2, <1>3, <1>4 DEF Shape
  <2>3. Calling'
    BY <1>2, <1>3, <1>7 DEF Calling
  <2>4. InTime'
    <3> SUFFICES ASSUME NEW j \in scheduled'
                 PROVE  /\ IsBarrier(j) => j.batch < batch' \/ (j.batch = batch' /\ j.of <= LastRow')
                        /\ j.kind \in HashKinds => j.batch < batch' \/ (j.batch = batch' /\ LastRow' >= 1)
                        /\ j.kind = "GenerateRes" => j.batch < batch' \/ (j.batch = batch' /\ pc' = "idle")
      BY DEF InTime
    <3>1. CASE j \in scheduled
      BY <1>2, <1>7, <3>1 DEF InTime
    <3>2. CASE j \in Range(v)
      BY <1>6, <3>2
    <3> QED
      BY <1>3, <3>1, <3>2
  <2>5. PlannedOnce'
    <3>1. PlannedApart(jobsQueue')
      <4>1. PlannedApart(jobsQueue) /\ \A j \in Range(jobsQueue) : Planned(j) => j \notin Range(v)
        BY <1>2, <1>5, <1>9 DEF PlannedOnce
      <4> QED
        BY <1>3, <1>5, <4>1, AppendJobs
    <3>2. ASSUME NEW j \in Range(jobsQueue'), Planned(j)
          PROVE  j \notin done' /\ \A w \in Workers : j \notin Range(jobs'[w])
      <4>1. CASE j \in Range(jobsQueue)
        BY <1>2, <1>3, <3>2, <4>1 DEF PlannedOnce
      <4>2. CASE j \in Range(v)
        <5>1. j \notin scheduled
          BY <1>9, <3>2, <4>2
        <5>2. \A w \in Workers : Range(jobs[w]) \subseteq scheduled
          BY <1>5, FiniteRange
        <5> QED
          BY <1>2, <1>3, <5>1, <5>2 DEF TypeOK
      <4> QED
        BY <1>4, <4>1, <4>2
    <3> QED
      BY <3>1, <3>2 DEF PlannedOnce
  <2>6. BarrierSomewhere'
    <3>1. \A j \in scheduled' : IsBarrier(j) => j \in scheduled
      BY <1>3, <1>6
    <3> QED
      BY <1>2, <1>3, <1>4, <3>1 DEF BarrierSomewhere, LastJob
  <2> QED
    BY <2>1, <2>2, <2>3, <2>4, <2>5, <2>6 DEF JobsRight
<1>11. \A r : BarriersOf(jobsQueue', r) = BarriersOf(jobsQueue, r)
  BY <1>4, <1>6 DEF BarriersOf
<1>12. InOrder(cur)'
  <2>1. RowAfterRow(jobsQueue')
    <3>1. \A j \in Range(jobsQueue) : IsBarrier(j) => j.of <= 3
      <4>1. \A j \in Range(jobsQueue) : IsBarrier(j) => j.of \in cur..LastRow
        BY <1>2 DEF InOrder
      <4>2. LastRow \in 0..3
        BY <1>2, Facts
      <4> QED
        BY <4>1, <4>2
    <3>2. 3 \in Nat /\ \A j \in Range(v) : IsBarrier(j) => j.of = 3
      BY <1>6
    <3> QED
      BY <1>2, <1>3, <1>5, <3>1, <3>2, AppendJobs DEF InOrder
  <2>2. \A j \in Range(jobsQueue') : IsBarrier(j) => j.batch = batch /\ j.of \in cur..LastRow
    BY <1>2, <1>4, <1>6 DEF InOrder
  <2> QED
    BY <1>2, <1>3, <1>7, <1>8, <2>1, <2>2 DEF InOrder, LastJob
<1>13. Counted(cur)'
  BY <1>2, <1>7, <1>8, <1>11 DEF Counted
<1>14. Waited(cur)'
  <2>1. ASSUME pc' \in {"count_barr", "scheduleGenRes", "JobGenerateRes"}, cur = 1
        PROVE  BarriersOf(jobsQueue', 1) = {}
    BY <1>2, <1>11, <2>1 DEF Waited
  <2>2. ASSUME pc' = "idle", cur <= 3 PROVE ResultsBehind(jobsQueue')
    <3>1. CASE pc' = pc
      BY <1>2, <1>3, <1>5, <2>2, <3>1, AppendJobs DEF Waited
    <3>2. CASE v # <<>> /\ v[1].kind = "GenerateRes"
      BY <1>3, <1>5, <3>2, AppendJobs
    <3> QED
      BY <3>1, <3>2
  <2> QED
    BY <2>1, <2>2 DEF Waited
<1>15. AtRow(cur)'
  BY <1>1, <1>7, <1>12, <1>13, <1>14 DEF AtRow
<1> QED
  BY <1>10, <1>15 DEF At

(* The next row of barriers, behind all jobs and its counter set.          *)
LEMMA RowInvariant ==
    ASSUME NEW cur \in 1..4, At(cur), NEW r \in 1..3, NEW v \in Seq(Job), Adds(v), PlannedApart(v),
           \A j \in Range(v) : j.kind # "GenerateRes",
           \A j \in Range(v) : IsBarrier(j) => j.batch = batch /\ j.of = r,
           \A j \in Range(v) : j.kind \in HashKinds => r = 1 /\ j.batch = batch,
           Cardinality(BarriersOf(v, r)) = THREADS,
           LastRow = r - 1, LastRow' = r,
           batch' = batch, barrWait' = barrWait, returning' = returning,
           list' \in 0..(Lists + 1), count' = [count EXCEPT ![r] = THREADS - 1],
           \/ r = 1 /\ pc' = "nojobleft"
           \/ pc \in {"count_barr", "scheduleGenRes"} /\ ~inNoJobLeft
              /\ pc' \in {"scheduleGenRes", "JobGenerateRes"}
    PROVE  At(cur)'
<1>1. AtRow(cur)
  BY DEF At
<1>2. /\ TypeOK /\ Shape /\ Calling /\ InTime /\ PlannedOnce /\ BarrierSomewhere
      /\ InOrder(cur) /\ Counted(cur) /\ Waited(cur) /\ cur \in 1..r
  BY <1>1 DEF At, JobsRight, AtRow
<1>3. /\ scheduled' = scheduled \union Range(v) /\ jobs' = jobs /\ done' = done
      /\ inNoJobLeft' = inNoJobLeft /\ Joined(jobsQueue', jobsQueue, v)
  BY DEF Adds
<1>4. /\ scheduled' \subseteq Job /\ done' \subseteq scheduled' /\ jobs' \in [Workers -> Seq(scheduled')]
      /\ jobsQueue' \in Seq(scheduled') /\ availableWork' = Len(jobsQueue')
      /\ Range(jobsQueue') = Range(jobsQueue) \union Range(v)
  BY <1>2, AddedJobs
<1>5. jobsQueue \in Seq(Job) /\ Range(jobsQueue) \subseteq scheduled
      /\ \A w \in Workers : jobs[w] \in Seq(scheduled)
  BY <1>2, Facts
<1>6. THREADS \in Nat /\ THREADS >= 1 /\ batch \in Int
  BY <1>2, SomeWorkers DEF TypeOK
<1>7. /\ count \in [Rows -> 0..(THREADS - 1)] /\ Rows = {1, 2, 3}
      /\ \A c \in Rows : count'[c] = IF c = r THEN THREADS - 1 ELSE count[c]
  BY <1>2 DEF TypeOK, Rows, count_genhashes, count_barr, scount_barr
<1>8. Held' = Held /\ \A w \in Workers : Leaving(w)' <=> Leaving(w)
  BY <1>3 DEF Held, LastJob, Leaving
<1>9. \A j \in Range(v) : Planned(j) => j \notin scheduled
  <2> SUFFICES ASSUME NEW j \in Range(v), Planned(j), j \in scheduled
               PROVE  FALSE
    OBVIOUS
  <2>1. j \in Job
    BY FiniteRange
  <2>2. \/ IsBarrier(j) /\ j.batch = batch /\ j.of = r
        \/ j.kind \in HashKinds /\ r = 1 /\ j.batch = batch
    BY <2>1 DEF Planned, IsBarrier, HashKinds, Job, Kinds
  <2> QED
    BY <1>2, <1>6, <2>2 DEF InTime
<1>10. JobsRight'
  <2>1. TypeOK'
    <3>1. count' \in [Rows -> 0..(THREADS - 1)]
      BY <1>6, <1>7
    <3>2. pc' \in {"idle", "SplitGenHashes", "nojobleft", "count_barr", "scheduleGenRes",
                   "JobGenerateRes"}
      OBVIOUS
    <3> QED
      BY <1>2, <1>3, <1>4, <3>1, <3>2 DEF TypeOK
  <2>2. Shape'
    BY <1>2, <1>3, <1>4 DEF Shape
  <2>3. Calling'
    <3>1. pc # "idle"
      BY <1>2 DEF TypeOK, LastRow, scount_barr
    <3> QED
      BY <1>2, <1>3, <3>1 DEF Calling
  <2>4. InTime'
    <3> SUFFICES ASSUME NEW j \in scheduled'
                 PROVE  /\ IsBarrier(j) => j.batch < batch' \/ (j.batch = batch' /\ j.of <= LastRow')
                        /\ j.kind \in HashKinds => j.batch < batch' \/ (j.batch = batch' /\ LastRow' >= 1)
                        /\ j.kind = "GenerateRes" => j.batch < batch' \/ (j.batch = batch' /\ pc' = "idle")
      BY DEF InTime
    <3>1. CASE j \in scheduled
      <4>1. pc # "idle"
        BY <1>2 DEF TypeOK, LastRow, scount_barr
      <4>2. IsBarrier(j) => j.batch < batch \/ (j.batch = batch /\ j.of <= r - 1)
        BY <1>2, <3>1 DEF InTime
      <4>3. j.of \in Nat
        BY <1>2, <3>1, Facts DEF TypeOK
      <4> QED
        BY <1>2, <3>1, <4>1, <4>2, <4>3 DEF InTime
    <3>2. CASE j \in Range(v)
      BY <3>2
    <3> QED
      BY <1>3, <3>1, <3>2
  <2>5. PlannedOnce'
    <3>1. PlannedApart(jobsQueue')
      <4>1. PlannedApart(jobsQueue) /\ \A j \in Range(jobsQueue) : Planned(j) => j \notin Range(v)
        BY <1>2, <1>5, <1>9 DEF PlannedOnce
      <4> QED
        BY <1>3, <1>5, <4>1, AppendJobs
    <3>2. ASSUME NEW j \in Range(jobsQueue'), Planned(j)
          PROVE  j \notin done' /\ \A w \in Workers : j \notin Range(jobs'[w])
      <4>1. CASE j \in Range(jobsQueue)
        BY <1>2, <1>3, <3>2, <4>1 DEF PlannedOnce
      <4>2. CASE j \in Range(v)
        <5>1. j \notin scheduled
          BY <1>9, <3>2, <4>2
        <5>2. \A w \in Workers : Range(jobs[w]) \subseteq scheduled
          BY <1>5, FiniteRange
        <5> QED
          BY <1>2, <1>3, <5>1, <5>2 DEF TypeOK
      <4> QED
        BY <1>4, <4>1, <4>2
    <3> QED
      BY <3>1, <3>2 DEF PlannedOnce
  <2>6. BarrierSomewhere'
    BY <1>2, <1>3, <1>4 DEF BarrierSomewhere, LastJob
  <2> QED
    BY <2>1, <2>2, <2>3, <2>4, <2>5, <2>6 DEF JobsRight
<1>11. \A c : BarriersOf(jobsQueue', c) = BarriersOf(jobsQueue, c) \union BarriersOf(v, c)
  BY <1>4 DEF BarriersOf
<1>12. \A j \in Range(jobsQueue) : IsBarrier(j) => j.batch = batch /\ j.of \in cur..r - 1
  BY <1>2 DEF InOrder
<1>13. /\ \A c \in 1..3 : c # r => BarriersOf(v, c) = {}
       /\ BarriersOf(jobsQueue, r) = {}
  <2>1. \A c \in 1..3 : c # r => BarriersOf(v, c) = {}
    BY DEF BarriersOf
  <2>2. \A j \in Range(jobsQueue) : IsBarrier(j) => j.of # r
    BY <1>2, <1>12
  <2> QED
    BY <2>1, <2>2 DEF BarriersOf
<1>14. /\ \A c \in 1..3 : c # r => BarriersOf(jobsQueue', c) = BarriersOf(jobsQueue, c)
       /\ BarriersOf(jobsQueue', r) = BarriersOf(v, r)
  BY <1>11, <1>13
<1>15. InOrder(cur)'
  <2>1. RowAfterRow(jobsQueue')
    <3>1. \A j \in Range(jobsQueue) : IsBarrier(j) => j.of <= r
      BY <1>2, <1>12
    <3> QED
      BY <1>2, <1>3, <1>5, <3>1, AppendJobs DEF InOrder
  <2>2. \A j \in Range(jobsQueue') : IsBarrier(j) => j.batch = batch /\ j.of \in cur..r
    BY <1>2, <1>4, <1>12
  <2> QED
    BY <1>2, <1>3, <1>8, <2>1, <2>2 DEF InOrder, LastJob
<1>16. Counted(cur)'
  <2>1. CASE cur = r
    <3>1. Held = {}
      BY <1>2, <2>1 DEF Counted
    <3>2. Cardinality(Held) = 0 /\ Cardinality(barrWait) = 0
      <4>1. barrWait = {}
        <5> SUFFICES ASSUME NEW w \in barrWait PROVE FALSE
          OBVIOUS
        <5>1. w \in Workers /\ jobs[w] # <<>> /\ IsBarrier(Head(jobs[w])) /\ w \notin returning
          BY <1>2 DEF TypeOK, Shape
        <5>2. LastJob(w) = Head(jobs[w])
          BY <1>2, <5>1, HeadOf
        <5> QED
          BY <3>1, <5>1, <5>2 DEF Held, Leaving
      <4> QED
        BY <3>1, <4>1, FS_EmptySet
    <3>3. Cardinality(BarriersOf(jobsQueue', cur)) = THREADS /\ count'[cur] = THREADS - 1
      BY <1>7, <1>14, <2>1
    <3>4. \A c \in cur + 1..r : FALSE
      BY <2>1
    <3> QED
      BY <1>6, <1>8, <2>1, <3>2, <3>3, <3>4 DEF Counted
  <2>2. CASE cur < r
    <3>1. cur \in Rows /\ cur <= r - 1 /\ cur # r /\ cur \in 1..3
      BY <1>2, <1>7, <2>2
    <3>2. /\ Cardinality(BarriersOf(jobsQueue, cur)) + Cardinality(Held) = THREADS
          /\ count[cur] + Cardinality(barrWait) = THREADS - 1
      BY <1>2, <3>1 DEF Counted
    <3>3. /\ Cardinality(BarriersOf(jobsQueue', cur)) + Cardinality(Held) = THREADS
          /\ count'[cur] + Cardinality(barrWait) = THREADS - 1
      BY <1>7, <1>14, <3>1, <3>2
    <3>4. ASSUME NEW c \in cur + 1..r
          PROVE  Cardinality(BarriersOf(jobsQueue', c)) = THREADS /\ count'[c] = THREADS - 1
      <4>1. c \in 1..3 /\ c \in Rows
        BY <1>2, <1>7
      <4>2. CASE c = r
        BY <1>7, <1>14, <4>1, <4>2
      <4>3. CASE c # r
        <5>1. c \in cur + 1..r - 1
          BY <1>2, <4>1, <4>3
        <5>2. Cardinality(BarriersOf(jobsQueue, c)) = THREADS /\ count[c] = THREADS - 1
          BY <1>2, <5>1 DEF Counted
        <5> QED
          BY <1>7, <1>14, <4>1, <4>3, <5>2
      <4> QED
        BY <4>2, <4>3
    <3>5. ~(cur > r)
      BY <1>2
    <3> QED
      BY <1>8, <3>3, <3>4, <3>5 DEF Counted
  <2> QED
    BY <1>2, <2>1, <2>2
<1>17. Waited(cur)'
  <2>1. ASSUME pc' \in {"count_barr", "scheduleGenRes", "JobGenerateRes"}, cur = 1
        PROVE  BarriersOf(jobsQueue', 1) = {}
    <3>1. pc \in {"count_barr", "scheduleGenRes"}
      BY <2>1
    <3>2. r # 1
      BY <3>1 DEF LastRow, count_genhashes, count_barr
    <3> QED
      BY <1>2, <1>14, <2>1, <3>1, <3>2 DEF Waited
  <2>2. pc' # "idle"
    OBVIOUS
  <2> QED
    BY <2>1, <2>2 DEF Waited
<1>18. cur \in 1..LastRow' + 1
  BY <1>2
<1> QED
  BY <1>1, <1>10, <1>15, <1>16, <1>17, <1>18 DEF At, AtRow

(* The tables and the first row.                                           *)
(* What SplitGenHashes schedules: the tables and a row behind them.        *)
LEMMA TablesAndRow ==
    ASSUME TypeOK, Shape, Calling, SplitGenHashes
    PROVE  \E ab, c, v \in Seq(Job) :
              /\ Adds(v) /\ Joined(v, ab, c) /\ PlannedApart(ab) /\ PlannedApart(c)
              /\ ab = Jobs("GenHashes", 0, DocTables) \o Jobs("GenHashesToken", 0, QueryTables)
              /\ \A j \in Range(ab) : j.kind \in HashKinds /\ j.batch = batch
              /\ \A j \in Range(c) : IsBarrier(j) /\ j.batch = batch /\ j.of = 1
              /\ Cardinality(BarriersOf(c, 1)) = THREADS
<1> USE DEF SplitGenHashes
<1>2. /\ batch \in 1..Batches /\ DocTables \in Nat /\ QueryTables \in Nat
      /\ count_genhashes = 1 /\ pc = "SplitGenHashes" /\ 0 \in Nat
      /\ {"GenHashes", "GenHashesToken"} \subseteq Kinds
  BY ShapeAssumption DEF TypeOK, Calling, count_genhashes, Kinds
<1> DEFINE a == Jobs("GenHashes", 0, DocTables)
           b == Jobs("GenHashesToken", 0, QueryTables)
           ab == a \o b
           c == Row(1)
           v == ab \o c
<1>3. /\ a \in Seq(Job) /\ PlannedApart(a)
      /\ \A j \in Range(a) : j.kind = "GenHashes" /\ j.batch = batch
  BY <1>2, JobsAre
<1>4. /\ b \in Seq(Job) /\ PlannedApart(b)
      /\ \A j \in Range(b) : j.kind = "GenHashesToken" /\ j.batch = batch
  BY <1>2, JobsAre
<1>5. /\ c \in Seq(Job) /\ PlannedApart(c)
      /\ \A j \in Range(c) : IsBarrier(j) /\ j.batch = batch /\ j.of = 1
      /\ Cardinality(BarriersOf(c, 1)) = THREADS
  <2>1. 1 \in Nat
    OBVIOUS
  <2> QED
    BY <1>2, <2>1, RowIs
<1>6. Adds(v)
  <2>1. Schedule(v)
    BY <1>2
  <2> HIDE DEF v
  <2> QED
    BY <2>1, SchedulingAdds
<1>7. Joined(ab, a, b) /\ Joined(v, ab, c)
  BY DEF Joined
<1>10. ab = Jobs("GenHashes", 0, DocTables) \o Jobs("GenHashesToken", 0, QueryTables)
  OBVIOUS
<1> HIDE DEF a, b, c, ab, v
<1>8. /\ ab \in Seq(Job) /\ PlannedApart(ab)
      /\ \A j \in Range(ab) : j.kind \in HashKinds /\ j.batch = batch
  <2>1. \A j \in Range(a) : Planned(j) => j \notin Range(b)
    BY <1>3, <1>4
  <2>2. ab \in Seq(Job) /\ Range(ab) = Range(a) \union Range(b)
    BY <1>3, <1>4, <1>7, Positions
  <2>3. PlannedApart(ab)
    BY <1>3, <1>4, <1>7, <2>1, AppendJobs
  <2> QED
    BY <1>3, <1>4, <2>2, <2>3 DEF HashKinds
<1>9. v \in Seq(Job)
  BY <1>5, <1>7, <1>8, Positions
<1> QED
  BY <1>5, <1>6, <1>7, <1>8, <1>9, <1>10

(* JobRun::Run schedules the tables and the first row.                     *)
LEMMA SplitGenHashesInvariant ==
    ASSUME NEW cur \in 1..4, At(cur), SplitGenHashes
    PROVE  At(cur)'
<1> USE DEF SplitGenHashes
<1>1. TypeOK /\ Shape /\ Calling
  BY DEF At, JobsRight
<1>2. count_genhashes = 1 /\ pc = "SplitGenHashes"
  BY DEF count_genhashes
<1>3. PICK ab, c, v \in Seq(Job) :
          /\ Adds(v) /\ Joined(v, ab, c) /\ PlannedApart(ab) /\ PlannedApart(c)
          /\ \A j \in Range(ab) : j.kind \in HashKinds /\ j.batch = batch
          /\ \A j \in Range(c) : IsBarrier(j) /\ j.batch = batch /\ j.of = 1
          /\ Cardinality(BarriersOf(c, 1)) = THREADS
  BY <1>1, TablesAndRow
<1>4. \A j \in Range(ab) : ~IsBarrier(j) /\ j.kind # "GenerateRes"
  BY <1>3 DEF HashKinds, IsBarrier
<1>5. \A j \in Range(c) : j.kind \notin HashKinds /\ j.kind # "GenerateRes"
  BY <1>3 DEF HashKinds, IsBarrier
<1>6. v \in Seq(Job) /\ Range(v) = Range(ab) \union Range(c)
  BY <1>3, Positions
<1>7. PlannedApart(v)
  <2>1. \A j \in Range(ab) : Planned(j) => j \notin Range(c)
    BY <1>3, <1>4
  <2> QED
    BY <1>3, <2>1, AppendJobs
<1>8. /\ \A j \in Range(v) : j.kind # "GenerateRes"
      /\ \A j \in Range(v) : IsBarrier(j) => j.batch = batch /\ j.of = 1
      /\ \A j \in Range(v) : j.kind \in HashKinds => 1 = 1 /\ j.batch = batch
  BY <1>3, <1>4, <1>5, <1>6
<1>9. Cardinality(BarriersOf(v, 1)) = THREADS
  <2>1. BarriersOf(v, 1) = BarriersOf(c, 1)
    BY <1>4, <1>6 DEF BarriersOf
  <2> QED
    BY <1>3, <2>1
<1>10. LastRow = 1 - 1 /\ LastRow' = 1
  BY <1>2 DEF LastRow, count_genhashes
<1>11. /\ batch' = batch /\ barrWait' = barrWait /\ returning' = returning
       /\ list' \in 0..(Lists + 1) /\ count' = [count EXCEPT ![1] = THREADS - 1]
       /\ pc' = "nojobleft"
  BY <1>1, <1>2 DEF TypeOK
<1>12. 1 \in 1..3
  OBVIOUS
<1> QED
  BY <1>3, <1>6, <1>7, <1>8, <1>9, <1>10, <1>11, <1>12, RowInvariant

(* The second and the third row.                                           *)
LEMMA LaterRowInvariant ==
    ASSUME NEW cur \in 1..4, At(cur), NEW r \in {2, 3}, Schedule(Row(r)), LastRow = r - 1, LastRow' = r,
           batch' = batch, barrWait' = barrWait, returning' = returning,
           list' \in 0..(Lists + 1), count' = [count EXCEPT ![r] = THREADS - 1],
           pc \in {"count_barr", "scheduleGenRes"},
           pc' \in {"scheduleGenRes", "JobGenerateRes"}
    PROVE  At(cur)'
<1>1. TypeOK /\ Shape /\ Calling
  BY DEF At, JobsRight
<1>2. batch \in 1..Batches /\ ~inNoJobLeft /\ r \in Nat /\ r \in 1..3
  BY <1>1, ShapeAssumption DEF TypeOK, Calling
<1> DEFINE v == Row(r)
<1>3. /\ v \in Seq(Job) /\ PlannedApart(v)
      /\ \A j \in Range(v) : IsBarrier(j) /\ j.batch = batch /\ j.of = r
      /\ Cardinality(BarriersOf(v, r)) = THREADS
  BY <1>2, RowIs
<1>4. Adds(v)
  BY SchedulingAdds
<1> HIDE DEF v
<1>5. \A j \in Range(v) : j.kind # "GenerateRes" /\ j.kind \notin HashKinds
  BY <1>3 DEF IsBarrier, HashKinds
<1> QED
  BY <1>2, <1>3, <1>4, <1>5, RowInvariant

(* JobRun::Run schedules the second row.                                   *)
LEMMA ScheduleBarrInvariant ==
    ASSUME NEW cur \in 1..4, At(cur), ScheduleBarr
    PROVE  At(cur)'
<1> USE DEF ScheduleBarr
<1>1. /\ count_barr = 2 /\ Schedule(Row(2)) /\ count' = [count EXCEPT ![2] = THREADS - 1]
      /\ pc = "count_barr" /\ pc' = "scheduleGenRes"
      /\ batch' = batch /\ barrWait' = barrWait /\ returning' = returning
  BY DEF count_barr
<1>2. LastRow = 2 - 1 /\ LastRow' = 2
  BY <1>1 DEF LastRow, count_genhashes, count_barr
<1>3. list' \in 0..(Lists + 1)
  BY ShapeAssumption
<1> QED
  BY <1>1, <1>2, <1>3, LaterRowInvariant

(* JobRun::Run schedules the third row.                                    *)
LEMMA ScheduleResRowInvariant ==
    ASSUME NEW cur \in 1..4, At(cur), ScheduleResRow
    PROVE  At(cur)'
<1> USE DEF ScheduleResRow
<1>1. /\ scount_barr = 3 /\ Schedule(Row(3)) /\ count' = [count EXCEPT ![3] = THREADS - 1]
      /\ pc = "scheduleGenRes" /\ pc' = "JobGenerateRes"
      /\ batch' = batch /\ barrWait' = barrWait /\ returning' = returning
  BY DEF scount_barr
<1>2. LastRow = 3 - 1 /\ LastRow' = 3
  BY <1>1 DEF LastRow, count_barr, scount_barr
<1>3. list' \in 0..(Lists + 1)
  BY DEF At, JobsRight, TypeOK
<1> QED
  BY <1>1, <1>2, <1>3, LaterRowInvariant

(* The jobs behind the rows, in each batch.                                *)
LEMMA ScheduleGenResInvariant ==
    ASSUME NEW cur \in 1..4, At(cur), ScheduleGenRes
    PROVE  At(cur)'
<1> USE DEF ScheduleGenRes, barrVars
<1>1. TypeOK /\ Shape /\ Calling /\ MaxRes \in Nat /\ Lists \in Nat
  BY ShapeAssumption DEF At, JobsRight
<1>2. PICK n \in 0..MaxRes : Schedule(Jobs("GenRes", list, n))
  OBVIOUS
<1>3. batch \in 1..Batches /\ list \in 0..(Lists + 1) /\ list <= Lists /\ "GenRes" \in Kinds
      /\ pc = "scheduleGenRes" /\ pc' = pc
  BY <1>1, ShapeAssumption DEF TypeOK, Calling, Kinds
<1>4. list' \in 0..(Lists + 1) /\ list \in Nat /\ n \in Nat
  BY <1>1, <1>3
<1> DEFINE v == Jobs("GenRes", list, n)
<1>5. v \in Seq(Job) /\ PlannedApart(v) /\ \A j \in Range(v) : j.kind = "GenRes"
  BY <1>3, <1>4, JobsAre
<1>6. Adds(v)
  BY <1>2, SchedulingAdds
<1> HIDE DEF v
<1>7. NoBarrier(v) /\ \A j \in Range(v) : j.kind # "GenerateRes" /\ j.kind \notin HashKinds
  BY <1>5 DEF NoBarrier, IsBarrier, HashKinds
<1>8. returning \subseteq returning' /\ returning' \subseteq Workers /\ returning' \ returning = {}
      /\ batch' = batch /\ count' = count /\ barrWait' = barrWait
  BY <1>1 DEF TypeOK
<1> QED
  BY <1>3, <1>4, <1>5, <1>6, <1>7, <1>8, PlainInvariant

(* JobRun::Run schedules the jobs that make results, and is over.          *)
LEMMA ScheduleGenerateResInvariant ==
    ASSUME NEW cur \in 1..4, At(cur), ScheduleGenerateRes
    PROVE  At(cur)'
<1> USE DEF ScheduleGenerateRes, barrVars
<1>1. TypeOK /\ Shape /\ Calling /\ Docs \in Nat /\ Docs > 0
  BY ShapeAssumption DEF At, JobsRight
<1>2. batch \in 1..Batches /\ "GenerateRes" \in Kinds /\ pc = "JobGenerateRes" /\ pc' = "idle" /\ 0 \in Nat
  BY <1>1, ShapeAssumption DEF TypeOK, Calling, Kinds
<1> DEFINE v == Jobs("GenerateRes", 0, Docs)
<1>3. /\ v \in Seq(Job) /\ PlannedApart(v) /\ v # <<>> /\ v[1].kind = "GenerateRes"
      /\ \A j \in Range(v) : j.kind = "GenerateRes" /\ j.batch = batch
  BY <1>1, <1>2, JobsAre
<1>4. Adds(v)
  BY SchedulingAdds
<1> HIDE DEF v
<1>5. NoBarrier(v) /\ \A j \in Range(v) : j.kind \notin HashKinds
  BY <1>3 DEF NoBarrier, IsBarrier, HashKinds
<1>6. returning \subseteq returning' /\ returning' \subseteq Workers /\ returning' \ returning = {}
      /\ batch' = batch /\ count' = count /\ barrWait' = barrWait /\ list' \in 0..(Lists + 1)
  BY <1>1 DEF TypeOK
<1> QED
  BY <1>2, <1>3, <1>4, <1>5, <1>6, PlainInvariant

-------------------------------------------------------------------------------
(* The steps that have an effect.                                           *)

(* The worker that runs a job other than a barrier.                        *)
LEMMA RunningFacts ==
    ASSUME TypeOK, Shape, NEW w \in Workers, NEW kinds, NEW j \in Running(w, kinds)
    PROVE  /\ jobs[w] # <<>> /\ j = Head(jobs[w]) /\ j.kind \in kinds
           /\ w \notin returning /\ w \notin barrWait
           /\ j \in scheduled /\ j \in Job
<1>1. jobs[w] # <<>> /\ w \notin returning \union barrWait /\ j = Head(jobs[w]) /\ j.kind \in kinds
  BY DEF Running
<1>2. Head(jobs[w]) \in scheduled
  BY <1>1, HeadOf
<1> QED
  BY <1>1, <1>2 DEF TypeOK

(* The searches that a table schedules.                                    *)
LEMMA PrunesAre ==
    ASSUME NEW j \in Job, NEW n \in 0..MaxPrunes, NEW v, v = Prunes(j, n)
    PROVE  v \in Seq(Job) /\ PlannedApart(v) /\ \A i \in Range(v) : i.kind = "MatchPrune"
<1>1. MaxPrunes \in Nat /\ DocTables \in Nat
  BY ShapeAssumption
<1>2. n \in Nat
  BY <1>1
<1>3. j.batch \in 1..Batches /\ j.n \in Nat /\ "MatchPrune" \in Kinds
  BY DEF Job, Kinds
<1>4. v \in [1..n -> Job]
  BY <1>1, <1>2, <1>3 DEF Prunes, Job
<1>5. v \in Seq(Job) /\ DOMAIN v = 1..n
  BY <1>2, <1>4, SeqDef
<1>6. \A i \in 1..n : v[i].kind = "MatchPrune"
  BY DEF Prunes
<1>7. \A i \in Range(v) : i.kind = "MatchPrune"
  BY <1>5, <1>6 DEF Range
<1>8. PlannedApart(v)
  BY <1>5, <1>6 DEF PlannedApart, Planned
<1> QED
  BY <1>5, <1>7, <1>8

(* A job that is no barrier has had its effect, and perhaps scheduled jobs. *)
LEMMA EffectInvariant ==
    ASSUME NEW cur \in 1..4, At(cur), NEW w \in Workers, NEW kinds, "Barrier" \notin kinds, NEW j \in Running(w, kinds),
           NEW v \in Seq(Job), Adds(v), PlannedApart(v),
           \A i \in Range(v) : i.kind = "MatchPrune",
           Effect(w), UNCHANGED <<runVars, barrVars>>
    PROVE  At(cur)'
<1>1. TypeOK /\ Shape
  BY DEF At, JobsRight
<1>2. jobs[w] # <<>> /\ w \notin barrWait /\ ~IsBarrier(Head(jobs[w]))
  BY <1>1, RunningFacts DEF IsBarrier
<1>3. batch' = batch /\ pc' = pc /\ count' = count /\ barrWait' = barrWait /\ list' \in 0..(Lists + 1)
  BY <1>1 DEF runVars, barrVars, TypeOK
<1>4. returning' = returning \union {w} /\ returning' \subseteq Workers
  BY <1>1 DEF Effect, TypeOK
<1>5. NoBarrier(v) /\ \A i \in Range(v) : i.kind # "GenerateRes" /\ i.kind \notin HashKinds
  BY DEF NoBarrier, IsBarrier, HashKinds
<1> QED
  BY <1>2, <1>3, <1>4, <1>5, PlainInvariant

(* A job has its effect, and a table schedules its searches.               *)
LEMMA RunEffectInvariant ==
    ASSUME NEW cur \in 1..4, At(cur), NEW w \in Workers, RunGenHashes(w) \/ RunGenHashesToken(w) \/ RunGenerateRes(w)
    PROVE  At(cur)'
<1>1. TypeOK /\ Shape
  BY DEF At, JobsRight
<1>2. ASSUME NEW kinds, "Barrier" \notin kinds, NEW j \in Running(w, kinds),
             Effect(w), UNCHANGED <<runVars, barrVars>>,
             UNCHANGED poolVars \/ \E n \in 0..MaxPrunes : Schedule(Prunes(j, n))
      PROVE  At(cur)'
  <2>1. CASE UNCHANGED poolVars
    <3> DEFINE v == <<>>
    <3>1. v \in Seq(Job) /\ PlannedApart(v) /\ \A i \in Range(v) : i.kind = "MatchPrune"
      BY DEF PlannedApart, Range
    <3>2. Adds(v)
      BY <1>1, <2>1, SchedulingAdds
    <3> HIDE DEF v
    <3> QED
      BY <1>2, <3>1, <3>2, EffectInvariant
  <2>2. ASSUME NEW n \in 0..MaxPrunes, Schedule(Prunes(j, n)) PROVE At(cur)'
    <3> DEFINE v == Prunes(j, n)
    <3>1. j \in Job
      BY <1>1, RunningFacts
    <3>2. v \in Seq(Job) /\ PlannedApart(v) /\ \A i \in Range(v) : i.kind = "MatchPrune"
      BY <3>1, PrunesAre
    <3>3. Adds(v)
      BY <2>2, SchedulingAdds
    <3> HIDE DEF v
    <3> QED
      BY <1>2, <3>2, <3>3, EffectInvariant
  <2> QED
    BY <1>2, <2>1, <2>2
<1>3. CASE RunGenHashes(w)
  BY <1>2, <1>3 DEF RunGenHashes
<1>4. CASE RunGenHashesToken(w)
  BY <1>2, <1>4 DEF RunGenHashesToken
<1>5. CASE RunGenerateRes(w)
  BY <1>2, <1>5 DEF RunGenerateRes
<1> QED
  BY <1>3, <1>4, <1>5

-------------------------------------------------------------------------------
(* The steps that end a job.                                                *)

(* The vector without its head: the last job stays where it is.            *)
LEMMA WithoutHead ==
    ASSUME TypeOK, Shape, NEW w \in Workers, jobs[w] # <<>>, NEW t, t = Tail(jobs[w])
    PROVE  /\ t \in Seq(scheduled) /\ Range(t) \subseteq Range(jobs[w])
           /\ \A i \in 1..Len(t) - 1 : ~IsBarrier(t[i])
           /\ t = <<>> => LastJob(w) = Head(jobs[w])
           /\ t # <<>> => t[Len(t)] = LastJob(w) /\ ~IsBarrier(Head(jobs[w]))
<1> DEFINE s == jobs[w]
           n == Len(s)
<1>1. s \in Seq(scheduled) /\ s # <<>>
  BY DEF TypeOK
<1>2. /\ n \in Nat /\ n >= 1 /\ Head(s) = s[1] /\ t \in Seq(scheduled) /\ Len(t) = n - 1
      /\ \A i \in 1..n - 1 : i + 1 \in 1..n /\ t[i] = s[i + 1]
  BY <1>1, TailOf
<1>3. \A i \in 1..n - 1 : ~IsBarrier(s[i])
  BY DEF Shape
<1>4. LastJob(w) = s[n]
  BY DEF LastJob
<1>5. DOMAIN s = 1..n /\ DOMAIN t = 1..n - 1
  BY <1>1, <1>2
<1> HIDE DEF n
<1>6. Range(t) \subseteq Range(s)
  BY <1>2, <1>5 DEF Range
<1>7. ASSUME NEW i \in 1..(n - 1) - 1 PROVE ~IsBarrier(t[i])
  <2>1. i \in 1..n - 1 /\ i + 1 \in 1..n - 1
    BY <1>2
  <2> QED
    BY <1>2, <1>3, <2>1
<1>8. ASSUME t = <<>> PROVE LastJob(w) = Head(s)
  <2>1. n = 1
    BY <1>2, <1>8
  <2> QED
    BY <1>2, <1>4, <2>1
<1>9. ASSUME t # <<>> PROVE t[n - 1] = LastJob(w) /\ ~IsBarrier(Head(s))
  <2>1. n # 1
    BY <1>2, <1>9
  <2>2. n - 1 \in 1..n - 1 /\ (n - 1) + 1 = n /\ 1 \in 1..n - 1
    BY <1>2, <2>1
  <2>3. t[n - 1] = s[n]
    BY <1>2, <2>2
  <2> QED
    BY <1>2, <1>3, <1>4, <2>2, <2>3
<1> QED
  BY <1>2, <1>6, <1>7, <1>8, <1>9

(* A job that is not in a row leaves the vector.                           *)
LEMMA FinishInvariant ==
    ASSUME NEW cur \in 1..4, At(cur), NEW w \in Workers, RunPlain(w) \/ Return(w)
    PROVE  At(cur)' /\ Held' = Held
<1>1. AtRow(cur)
  BY DEF At
<1>2. /\ TypeOK /\ Shape /\ Calling /\ InTime /\ PlannedOnce /\ BarrierSomewhere
      /\ InOrder(cur) /\ Counted(cur) /\ Waited(cur)
  BY <1>1 DEF At, JobsRight, AtRow
<1> DEFINE t == Tail(jobs[w])
           h == Head(jobs[w])
<1>3. /\ jobs[w] # <<>> /\ jobs' = [jobs EXCEPT ![w] = t] /\ done' = done \union {h}
      /\ jobsQueue' = jobsQueue /\ availableWork' = availableWork /\ scheduled' = scheduled
      /\ inNoJobLeft' = inNoJobLeft /\ batch' = batch /\ pc' = pc /\ list' = list
      /\ count' = count /\ barrWait' = barrWait
  BY DEF RunPlain, Return, js!RunJob, js!Finish, js!queueVars, runVars, barrVars
<1>4. /\ w \notin barrWait /\ returning' = returning \ {w}
      /\ IsBarrier(h) => Leaving(w)
  <2>1. CASE RunPlain(w)
    <3>1. w \notin returning /\ w \notin barrWait /\ h.kind \in {"MatchPrune", "GenRes"}
      BY <1>2, <2>1, RunningFacts DEF RunPlain
    <3> QED
      BY <2>1, <3>1 DEF RunPlain, IsBarrier
  <2>2. CASE Return(w)
    BY <1>2, <2>2 DEF Return, Leaving, Shape
  <2> QED
    BY <2>1, <2>2
<1>5. /\ t \in Seq(scheduled) /\ Range(t) \subseteq Range(jobs[w])
      /\ \A i \in 1..Len(t) - 1 : ~IsBarrier(t[i])
      /\ t = <<>> => LastJob(w) = h
      /\ t # <<>> => t[Len(t)] = LastJob(w) /\ ~IsBarrier(h)
  BY <1>2, <1>3, WithoutHead
<1>6. h \in scheduled /\ h \in Range(jobs[w])
  BY <1>2, <1>3, HeadOf
<1> HIDE DEF t, h
<1>7. /\ jobs \in [Workers -> Seq(scheduled)] /\ jobs' \in [Workers -> Seq(scheduled)]
      /\ jobs'[w] = t /\ \A u \in Workers : u # w => jobs'[u] = jobs[u]
  BY <1>2, <1>3, <1>5 DEF TypeOK
<1>8. ASSUME NEW u \in Workers, Leaving(u)' PROVE Leaving(u) /\ u # w /\ jobs'[u] = jobs[u]
  BY <1>4, <1>7, <1>8 DEF Leaving
<1>9. ASSUME NEW u \in Workers
      PROVE  /\ (u \in Held)' <=> u \in Held
             /\ u \in Held => LastJob(u)' = LastJob(u)
  <2>1. CASE u # w
    <3>1. jobs'[u] = jobs[u] /\ (u \in returning' <=> u \in returning)
      BY <1>4, <1>7, <2>1
    <3> QED
      BY <3>1 DEF Held, LastJob, Leaving
  <2>2. CASE u = w
    <3>1. ~Leaving(w)'
      BY <1>4 DEF Leaving
    <3>2. CASE t = <<>>
      <4>1. LastJob(w) = h
        BY <1>5, <3>2
      <4>2. w \notin Held
        BY <1>4, <4>1 DEF Held
      <4>3. ~(w \in Held)'
        BY <1>7, <3>2 DEF Held
      <4> QED
        BY <2>2, <4>2, <4>3
    <3>3. CASE t # <<>>
      <4>1. LastJob(w)' = LastJob(w)
        BY <1>5, <1>7, <3>3 DEF LastJob
      <4>2. h = Head(jobs[w]) /\ ~IsBarrier(h)
        BY <1>5, <3>3 DEF h
      <4>3. ~Leaving(w)
        BY <4>2 DEF Leaving
      <4>4. w \in Held <=> IsBarrier(LastJob(w))
        BY <1>3, <4>3 DEF Held
      <4>5. (w \in Held)' <=> IsBarrier(LastJob(w)')
        BY <1>7, <3>1, <3>3 DEF Held
      <4> QED
        BY <2>2, <4>1, <4>4, <4>5
    <3> QED
      BY <3>2, <3>3
  <2> QED
    BY <2>1, <2>2
<1>10. Held' = Held
  <2>1. Held \subseteq Workers /\ Held' \subseteq Workers
    BY DEF Held
  <2> QED
    BY <1>9, <2>1
<1>11. LastRow' = LastRow
  BY <1>3 DEF LastRow
<1>12. JobsRight'
  <2>1. TypeOK'
    BY <1>2, <1>3, <1>4, <1>6, <1>7 DEF TypeOK
  <2>2. Shape'
    <3>1. ASSUME NEW u \in Workers PROVE \A i \in 1..Len(jobs'[u]) - 1 : ~IsBarrier(jobs'[u][i])
      <4>1. CASE u = w
        BY <1>5, <1>7, <4>1
      <4>2. CASE u # w
        BY <1>2, <1>7, <4>2 DEF Shape
      <4> QED
        BY <4>1, <4>2
    <3>2. \A u \in returning' : jobs'[u] # <<>> /\ u \notin barrWait'
      BY <1>2, <1>3, <1>4, <1>7 DEF Shape, TypeOK
    <3>3. \A u \in barrWait' : jobs'[u] # <<>> /\ IsBarrier(Head(jobs'[u]))
      BY <1>2, <1>3, <1>4, <1>7 DEF Shape, TypeOK
    <3>4. jobsQueue' \in Seq(scheduled') /\ availableWork' = Len(jobsQueue')
      BY <1>2, <1>3 DEF Shape
    <3> QED
      BY <3>1, <3>2, <3>3, <3>4 DEF Shape
  <2>3. Calling' /\ InTime'
    BY <1>2, <1>3, <1>11 DEF Calling, InTime
  <2>4. PlannedOnce'
    <3>1. ASSUME NEW j \in Range(jobsQueue), Planned(j)
          PROVE  j \notin done' /\ \A u \in Workers : j \notin Range(jobs'[u])
      <4>1. j \notin done /\ \A u \in Workers : j \notin Range(jobs[u])
        BY <1>2, <3>1 DEF PlannedOnce
      <4>2. j # h /\ j \notin Range(t)
        BY <1>5, <1>6, <4>1
      <4> QED
        BY <1>3, <1>7, <4>1, <4>2
    <3> QED
      BY <1>2, <1>3, <3>1 DEF PlannedOnce
  <2>5. BarrierSomewhere'
    <3> SUFFICES ASSUME NEW j \in scheduled, IsBarrier(j), j \notin done', j \notin Range(jobsQueue)
                 PROVE  \E u \in Workers : jobs'[u] # <<>> /\ LastJob(u)' = j
      BY <1>3 DEF BarrierSomewhere
    <3>1. PICK u \in Workers : jobs[u] # <<>> /\ LastJob(u) = j
      BY <1>2, <1>3 DEF BarrierSomewhere
    <3>2. CASE u # w
      BY <1>7, <3>1, <3>2 DEF LastJob
    <3>3. CASE u = w
      <4>1. t # <<>>
        BY <1>3, <1>5, <3>1, <3>3
      <4> QED
        BY <1>5, <1>7, <3>1, <3>3, <4>1 DEF LastJob
    <3> QED
      BY <3>2, <3>3
  <2> QED
    BY <2>1, <2>2, <2>3, <2>4, <2>5 DEF JobsRight
<1>13. InOrder(cur)'
  <2>1. \A u \in Held' : LastJob(u)'.batch = batch /\ LastJob(u)'.of = cur
    <3>1. Held \subseteq Workers
      BY DEF Held
    <3> QED
      BY <1>2, <1>9, <1>10, <3>1 DEF InOrder
  <2>2. \A u \in Workers : Leaving(u)' => Head(jobs'[u]).of = IF cur = 1 THEN 3 ELSE cur - 1
    BY <1>2, <1>8 DEF InOrder
  <2>3. /\ \A j \in Range(jobsQueue) : IsBarrier(j) => j.batch = batch /\ j.of \in cur..LastRow
        /\ RowAfterRow(jobsQueue)
    BY <1>2 DEF InOrder
  <2> QED
    BY <1>3, <1>11, <2>1, <2>2, <2>3 DEF InOrder
<1>14. Counted(cur)' /\ Waited(cur)'
  BY <1>2, <1>3, <1>10, <1>11 DEF Counted, Waited
<1>15. AtRow(cur)'
  BY <1>1, <1>11, <1>13, <1>14 DEF AtRow
<1> QED
  BY <1>10, <1>12, <1>15 DEF At

-------------------------------------------------------------------------------
(* The barriers.                                                            *)

(* The workers blocked in a row hold its barriers, their last jobs.        *)
LEMMA Blocked ==
    ASSUME TypeOK, Shape
    PROVE  /\ Held \subseteq Workers /\ barrWait \subseteq Held
           /\ \A w \in barrWait : Head(jobs[w]) = LastJob(w)
<1>1. Held \subseteq Workers
  BY DEF Held
<1>2. ASSUME NEW w \in barrWait PROVE w \in Held /\ Head(jobs[w]) = LastJob(w)
  <2>1. w \in Workers /\ jobs[w] # <<>> /\ IsBarrier(Head(jobs[w])) /\ w \notin returning
    BY DEF TypeOK, Shape
  <2>2. LastJob(w) = Head(jobs[w])
    BY <2>1, HeadOf
  <2> QED
    BY <2>1, <2>2 DEF Held, Leaving
<1> QED
  BY <1>1, <1>2

(* A worker that runs a barrier is of the current row.                     *)
LEMMA AtBarrier ==
    ASSUME TypeOK, Shape, NEW cur \in 1..4, AtRow(cur),
           NEW w \in Workers, NEW j \in Running(w, {"Barrier"})
    PROVE  /\ jobs[w] # <<>> /\ j = Head(jobs[w]) /\ IsBarrier(j) /\ LastJob(w) = j
           /\ w \notin returning /\ w \notin barrWait
           /\ w \in Held /\ j.of = cur /\ cur <= LastRow /\ cur \in Rows
<1>1. jobs[w] # <<>> /\ j = Head(jobs[w]) /\ IsBarrier(j) /\ w \notin returning /\ w \notin barrWait
  BY RunningFacts DEF IsBarrier
<1>2. LastJob(w) = j
  BY <1>1, HeadOf
<1>3. w \in Held
  BY <1>1, <1>2 DEF Held, Leaving
<1>4. j.of = cur
  BY <1>2, <1>3 DEF AtRow, InOrder
<1>5. LastRow \in 0..3
  BY Facts
<1>6. cur <= LastRow
  BY <1>3, <1>5 DEF AtRow, Counted
<1>7. cur \in Rows
  BY <1>5, <1>6 DEF Rows, count_genhashes, count_barr, scount_barr
<1> QED
  BY <1>1, <1>2, <1>3, <1>4, <1>6, <1>7

(* A worker comes to the row and blocks.                                   *)
LEMMA BarrierWaitInvariant ==
    ASSUME NEW cur \in 1..4, At(cur), NEW w \in Workers, BarrierWait(w)
    PROVE  At(cur)'
<1> USE DEF runVars, poolVars
<1>1. AtRow(cur)
  BY DEF At
<1>2. /\ TypeOK /\ Shape /\ Calling /\ InTime /\ PlannedOnce /\ BarrierSomewhere
      /\ InOrder(cur) /\ Counted(cur) /\ Waited(cur)
  BY <1>1 DEF At, JobsRight, AtRow
<1>3. PICK j \in Running(w, {"Barrier"}) : count[j.of] > 0 /\ count' = [count EXCEPT ![j.of] = @ - 1]
  BY DEF BarrierWait
<1>4. /\ jobs[w] # <<>> /\ IsBarrier(Head(jobs[w])) /\ w \notin returning /\ w \notin barrWait
      /\ j.of = cur /\ cur <= LastRow /\ cur \in Rows
  BY <1>1, <1>2, AtBarrier
<1>5. /\ barrWait' = barrWait \union {w} /\ jobsQueue' = jobsQueue /\ availableWork' = availableWork
      /\ jobs' = jobs /\ scheduled' = scheduled /\ done' = done /\ inNoJobLeft' = inNoJobLeft
      /\ batch' = batch /\ pc' = pc /\ list' = list /\ returning' = returning
  BY DEF BarrierWait
<1>6. LastRow' = LastRow /\ Held' = Held /\ \A u \in Workers : Leaving(u)' <=> Leaving(u)
  BY <1>5 DEF LastRow, Held, LastJob, Leaving
<1>7. THREADS \in Nat /\ count \in [Rows -> 0..(THREADS - 1)]
  BY <1>2, SomeWorkers DEF TypeOK
<1>8. count' \in [Rows -> 0..(THREADS - 1)] /\ count'[cur] = count[cur] - 1
      /\ \A r \in Rows : r # cur => count'[r] = count[r]
  BY <1>3, <1>4, <1>7
<1>9. JobsRight'
  <2>1. TypeOK'
    BY <1>2, <1>5, <1>8 DEF TypeOK
  <2>2. Shape'
    BY <1>2, <1>4, <1>5 DEF Shape
  <2>3. Calling' /\ InTime' /\ PlannedOnce' /\ BarrierSomewhere'
    BY <1>2, <1>5, <1>6 DEF Calling, InTime, PlannedOnce, BarrierSomewhere, LastJob
  <2> QED
    BY <2>1, <2>2, <2>3 DEF JobsRight
<1>10. InOrder(cur)' /\ Waited(cur)'
  BY <1>2, <1>5, <1>6 DEF InOrder, Waited, LastJob
<1>11. Counted(cur)'
  <2>1. Cardinality(barrWait \union {w}) = Cardinality(barrWait) + 1 /\ Cardinality(barrWait) \in Nat
    BY <1>2, <1>4, SomeWorkers DEF TypeOK
  <2>2. /\ Cardinality(BarriersOf(jobsQueue, cur)) + Cardinality(Held) = THREADS
        /\ count[cur] + Cardinality(barrWait) = THREADS - 1
    BY <1>2, <1>4 DEF Counted
  <2>3. count'[cur] + Cardinality(barrWait') = THREADS - 1
    BY <1>4, <1>5, <1>7, <1>8, <2>1, <2>2
  <2>4. ASSUME NEW r \in cur + 1..LastRow
        PROVE  Cardinality(BarriersOf(jobsQueue, r)) = THREADS /\ count'[r] = THREADS - 1
    <3>1. r \in Rows /\ r # cur
      <4>1. LastRow \in 0..3
        BY <1>2, Facts
      <4> QED
        BY <1>1, <4>1 DEF Rows, count_genhashes, count_barr, scount_barr
    <3> QED
      BY <1>2, <1>8, <3>1 DEF Counted
  <2>5. ~(cur > LastRow)
    <3>1. LastRow \in 0..3
      BY <1>2, Facts
    <3> QED
      BY <1>4, <3>1
  <2> QED
    BY <1>5, <1>6, <2>2, <2>3, <2>4, <2>5 DEF Counted
<1>12. AtRow(cur)'
  BY <1>1, <1>6, <1>10, <1>11 DEF AtRow
<1> QED
  BY <1>9, <1>12 DEF At

(* The last worker of a row: the others are all blocked in it.             *)
LEMMA BarrierOpenInvariant ==
    ASSUME NEW cur \in 1..4, At(cur), NEW w \in Workers, BarrierOpen(w)
    PROVE  /\ cur + 1 \in 1..4 /\ At(cur + 1)'
           /\ Held = Workers /\ Held' = {}
           /\ \A u \in Workers : jobs[u] # <<>> /\ IsBarrier(Head(jobs[u]))
<1> USE DEF runVars, poolVars
<1>1. AtRow(cur)
  BY DEF At
<1>2. /\ TypeOK /\ Shape /\ Calling /\ InTime /\ PlannedOnce /\ BarrierSomewhere
      /\ InOrder(cur) /\ Counted(cur) /\ Waited(cur)
  BY <1>1 DEF At, JobsRight, AtRow
<1>3. PICK j \in Running(w, {"Barrier"}) : count[j.of] = 0
  BY DEF BarrierOpen
<1>4. /\ w \notin returning /\ w \notin barrWait /\ w \in Held
      /\ j.of = cur /\ cur <= LastRow /\ cur \in Rows
  BY <1>1, <1>2, AtBarrier
<1>5. /\ barrWait' = {} /\ jobsQueue' = jobsQueue /\ availableWork' = availableWork
      /\ jobs' = jobs /\ scheduled' = scheduled /\ done' = done /\ inNoJobLeft' = inNoJobLeft
      /\ batch' = batch /\ pc' = pc /\ list' = list /\ count' = count
      /\ returning' = returning \union barrWait \union {w}
  BY DEF BarrierOpen
<1>6. LastRow \in 0..3 /\ LastRow' = LastRow
  BY <1>2, <1>5, Facts DEF LastRow
<1>7. /\ Cardinality(BarriersOf(jobsQueue, cur)) + Cardinality(Held) = THREADS
      /\ Cardinality(barrWait) = THREADS - 1
  <2>1. count[cur] + Cardinality(barrWait) = THREADS - 1 /\ count[cur] = 0
    BY <1>2, <1>3, <1>4 DEF Counted
  <2>2. Cardinality(barrWait) \in Nat
    BY <1>2, SomeWorkers DEF TypeOK
  <2>3. Cardinality(barrWait) = THREADS - 1
    BY <2>1, <2>2
  <2> QED
    BY <1>2, <1>4, <2>3 DEF Counted
<1>8. barrWait \union {w} = Workers /\ Held = Workers
  <2>1. Cardinality(barrWait \union {w}) = Cardinality(barrWait) + 1 /\ THREADS \in Nat
    BY <1>2, <1>4, SomeWorkers DEF TypeOK
  <2>2. Cardinality(barrWait \union {w}) = THREADS
    BY <1>7, <2>1
  <2>3. barrWait \union {w} \in SUBSET Workers
    BY <1>2 DEF TypeOK
  <2>4. barrWait \union {w} = Workers
    BY <2>2, <2>3, SomeWorkers
  <2> QED
    BY <1>2, <1>4, <2>4, Blocked
<1>9. BarriersOf(jobsQueue, cur) = {}
  <2>1. /\ Cardinality(Held) = THREADS /\ THREADS \in Nat
    BY <1>8, SomeWorkers DEF THREADS
  <2>2. Cardinality(BarriersOf(jobsQueue, cur)) \in Nat /\ IsFiniteSet(BarriersOf(jobsQueue, cur))
    BY <1>2, Facts
  <2>3. Cardinality(BarriersOf(jobsQueue, cur)) = 0
    BY <1>7, <2>1, <2>2
  <2> QED
    BY <2>2, <2>3, FS_EmptySet
<1>10. \A u \in Workers : /\ jobs[u] # <<>> /\ IsBarrier(Head(jobs[u]))
                          /\ Head(jobs[u]).of = cur
  <2> SUFFICES ASSUME NEW u \in Workers
               PROVE  jobs[u] # <<>> /\ IsBarrier(Head(jobs[u])) /\ Head(jobs[u]).of = cur
    OBVIOUS
  <2>1. u \in Held /\ u \in barrWait \union {w}
    BY <1>8
  <2>2. jobs[u] # <<>> /\ LastJob(u).of = cur /\ IsBarrier(LastJob(u))
    BY <1>2, <2>1 DEF InOrder, Held
  <2>3. Head(jobs[u]) = LastJob(u)
    <3>1. CASE u \in barrWait
      BY <1>2, <3>1, Blocked
    <3>2. CASE u = w
      BY <1>1, <1>2, <1>3, <3>2, AtBarrier
    <3> QED
      BY <2>1, <3>1, <3>2
  <2> QED
    BY <2>2, <2>3
<1>11. returning' = Workers
  BY <1>2, <1>5, <1>8 DEF TypeOK
<1>12. Held' = {}
  BY <1>5, <1>10, <1>11 DEF Held, Leaving
<1>13. JobsRight'
  <2>1. TypeOK'
    BY <1>2, <1>5, <1>11 DEF TypeOK
  <2>2. Shape'
    BY <1>2, <1>5, <1>10, <1>11 DEF Shape
  <2>3. Calling' /\ InTime' /\ PlannedOnce' /\ BarrierSomewhere'
    BY <1>2, <1>5, <1>6 DEF Calling, InTime, PlannedOnce, BarrierSomewhere, LastJob
  <2> QED
    BY <2>1, <2>2, <2>3 DEF JobsRight
<1> DEFINE next == cur + 1
<1>14. /\ next \in 1..4 /\ next \in 1..LastRow + 1 /\ next # 1 /\ next - 1 = cur
       /\ \A r \in next..LastRow : r \in cur + 1..LastRow
       /\ \A r \in next + 1..LastRow : r \in cur + 1..LastRow
  BY <1>4, <1>6
<1> HIDE DEF next
<1>15. InOrder(next)'
  <2>1. ASSUME NEW i \in Range(jobsQueue), IsBarrier(i) PROVE i.batch = batch /\ i.of \in next..LastRow
    <3>1. i.batch = batch /\ i.of \in cur..LastRow
      BY <1>2, <2>1 DEF InOrder
    <3>2. i.of # cur
      BY <1>9, <2>1 DEF BarriersOf
    <3> QED
      BY <1>6, <3>1, <3>2 DEF next
  <2>2. \A u \in Workers : Leaving(u)' => Head(jobs[u]).of = next - 1
    BY <1>10, <1>14
  <2>3. RowAfterRow(jobsQueue)
    BY <1>2 DEF InOrder
  <2> QED
    BY <1>5, <1>6, <1>12, <1>14, <2>1, <2>2, <2>3 DEF InOrder
<1>16. Counted(next)'
  <2>1. \A r \in cur + 1..LastRow : Cardinality(BarriersOf(jobsQueue, r)) = THREADS /\ count[r] = THREADS - 1
    BY <1>2 DEF Counted
  <2>2. Cardinality(Held') = 0 /\ Cardinality(barrWait') = 0
    BY <1>5, <1>12, FS_EmptySet
  <2>3. ASSUME next <= LastRow
        PROVE  /\ Cardinality(BarriersOf(jobsQueue, next)) + Cardinality(Held') = THREADS
               /\ count[next] + Cardinality(barrWait') = THREADS - 1
    <3>1. next \in cur + 1..LastRow
      BY <1>6, <1>14, <2>3
    <3>2. THREADS \in Nat
      BY SomeWorkers
    <3> QED
      BY <2>1, <2>2, <3>1, <3>2
  <2> QED
    BY <1>5, <1>6, <1>12, <1>14, <2>1, <2>3 DEF Counted
<1>17. Waited(next)'
  <2>1. next <= 3 => cur <= 3
    BY <1>4, <1>6
  <2> QED
    BY <1>2, <1>5, <1>14, <2>1 DEF Waited
<1>18. AtRow(next)'
  BY <1>6, <1>14, <1>15, <1>16, <1>17 DEF AtRow
<1>19. At(next)'
  BY <1>13, <1>18 DEF At
<1> QED
  BY <1>8, <1>10, <1>12, <1>14, <1>19 DEF next

-------------------------------------------------------------------------------
(* The step that fetches jobs.                                              *)

(* Not all workers have fetched their barrier of the current row: there    *)
(* are some in the queue.                                                  *)
LEMMA RowInQueue ==
    ASSUME TypeOK, Shape, NEW cur \in 1..4, AtRow(cur), cur <= LastRow,
           NEW w \in Workers, w \notin Held
    PROVE  BarriersOf(jobsQueue, cur) # {}
<1>1. Held \in SUBSET Workers
  BY DEF Held
<1>2. Cardinality(Held) # THREADS /\ Cardinality(Held) \in Nat /\ THREADS \in Nat
  BY <1>1, SomeWorkers
<1>3. Cardinality(BarriersOf(jobsQueue, cur)) + Cardinality(Held) = THREADS
  BY DEF AtRow, Counted
<1>4. Cardinality(BarriersOf(jobsQueue, cur)) # 0
  <2>1. Cardinality(BarriersOf(jobsQueue, cur)) \in Nat
    BY Facts
  <2> QED
    BY <1>2, <1>3, <2>1
<1> QED
  BY <1>4, FS_EmptySet

(* A fetch takes the queue up to the first barrier at most.                *)
LEMMA FetchTakeInvariant ==
    ASSUME NEW cur \in 1..4, At(cur), NEW w \in Workers, js!FetchTake(w), UNCHANGED <<runVars, barrVars, returning>>
    PROVE  /\ At(cur)'
           /\ w \notin Held
           /\ \E k \in 1..Len(jobsQueue) : \E h, t :
                 /\ Cut(jobsQueue, k, h, t)
                 /\ \A i \in 1..k - 1 : ~IsBarrier(jobsQueue[i])
                 /\ jobsQueue' = t /\ jobs' = [jobs EXCEPT ![w] = h]
                 /\ Held' = IF IsBarrier(jobsQueue[k]) THEN Held \union {w} ELSE Held
<1>1. AtRow(cur)
  BY DEF At
<1>2. /\ TypeOK /\ Shape /\ Calling /\ InTime /\ PlannedOnce /\ BarrierSomewhere
      /\ InOrder(cur) /\ Counted(cur) /\ Waited(cur) /\ cur \in 1..LastRow + 1
  BY <1>1 DEF At, JobsRight, AtRow
<1>3. PICK k \in 1..availableWork :
          /\ \A i \in 1..(k - 1) : ~js!EndsFetch(i)
          /\ availableWork' = availableWork - k
          /\ jobsQueue' = SubSeq(jobsQueue, k + 1, Len(jobsQueue))
          /\ jobs' = [jobs EXCEPT ![w] = SubSeq(jobsQueue, 1, k)]
  BY DEF js!FetchTake
<1>4. /\ jobs[w] = <<>> /\ scheduled' = scheduled /\ done' = done /\ inNoJobLeft' = inNoJobLeft
      /\ batch' = batch /\ pc' = pc /\ list' = list /\ count' = count /\ barrWait' = barrWait
      /\ returning' = returning
  BY DEF js!FetchTake, js!Fetching, runVars, barrVars
<1> DEFINE q == jobsQueue
           h == SubSeq(q, 1, k)
           t == SubSeq(q, k + 1, Len(q))
<1>5. q \in Seq(scheduled) /\ q \in Seq(Job) /\ k \in 1..Len(q) /\ availableWork = Len(q)
  BY <1>2, <1>3, Facts DEF Shape
<1>6. \A i \in 1..k - 1 : ~IsBarrier(q[i])
  <2> SUFFICES ASSUME NEW i \in 1..k - 1, IsBarrier(q[i]) PROVE FALSE
    OBVIOUS
  <2>1. i \in 1..Len(q)
    BY <1>5
  <2>2. q[i] \in {j \in Job : j.kind = "Barrier"}
    BY <1>5, <2>1 DEF IsBarrier
  <2>3. js!EndsFetch(i)
    BY <2>2 DEF js!EndsFetch
  <2> QED
    BY <1>3, <2>3
<1>7. RowAfterRow(q) /\ PlannedApart(q)
  BY <1>2 DEF InOrder, PlannedOnce
<1>0. Cut(q, k, h, t)
  BY DEF Cut
<1>9. jobsQueue' = t /\ jobs' = [jobs EXCEPT ![w] = h]
  BY <1>3
<1> HIDE DEF h, t
<1>8. /\ h \in Seq(scheduled) /\ t \in Seq(scheduled) /\ Len(h) = k /\ Len(t) = Len(q) - k
      /\ \A i \in 1..k : h[i] = q[i]
      /\ Range(h) \subseteq Range(q) /\ Range(t) \subseteq Range(q)
      /\ \A j \in Range(q) : j \in Range(h) \/ j \in Range(t)
      /\ \A j \in Range(h) : Planned(j) => j \notin Range(t)
      /\ RowAfterRow(t) /\ PlannedApart(t)
      /\ q[k] \in Range(h)
      /\ \A j \in Range(h) : IsBarrier(j) => j = q[k]
      /\ IsBarrier(q[k]) => \A j \in Range(q) : IsBarrier(j) => q[k].of <= j.of \/ j = q[k]
      /\ ResultsBehind(q) /\ (IsBarrier(q[k]) \/ ~NoBarrier(t)) => ResultsBehind(t)
  BY <1>0, <1>5, <1>6, <1>7, FetchJobs
<1>10. /\ k \in Nat /\ k >= 1 /\ Len(q) \in Nat /\ availableWork' = Len(t) /\ h # <<>>
  <2>1. k \in Nat /\ k >= 1 /\ Len(q) \in Nat
    BY <1>5
  <2>2. availableWork' = Len(t)
    BY <1>3, <1>5, <1>8
  <2>3. h # <<>>
    BY <1>8, <2>1
  <2> QED
    BY <2>1, <2>2, <2>3
<1>11. /\ jobs \in [Workers -> Seq(scheduled)] /\ jobs' \in [Workers -> Seq(scheduled)]
       /\ jobs'[w] = h /\ \A u \in Workers : u # w => jobs'[u] = jobs[u]
  BY <1>2, <1>8, <1>9 DEF TypeOK
<1>12. w \notin returning /\ w \notin barrWait /\ w \notin Held
  BY <1>2, <1>4 DEF Shape, Held
<1>13. LastJob(w)' = q[k]
  <2>1. k \in 1..k
    BY <1>10
  <2> QED
    BY <1>8, <1>11, <2>1 DEF LastJob
<1>14. \A u \in Workers : u # w => LastJob(u)' = LastJob(u)
  BY <1>11 DEF LastJob
<1>15. \A u \in Workers : (Leaving(u)' <=> Leaving(u)) /\ (Leaving(u) => u # w)
  BY <1>4, <1>11, <1>12 DEF Leaving
<1>16. Held' = IF IsBarrier(q[k]) THEN Held \union {w} ELSE Held
  <2>1. Held \subseteq Workers /\ Held' \subseteq Workers
    BY DEF Held
  <2>2. \A u \in Workers : u # w => ((u \in Held)' <=> u \in Held)
    BY <1>11, <1>14, <1>15 DEF Held
  <2>3. (w \in Held)' <=> IsBarrier(q[k])
    BY <1>10, <1>11, <1>12, <1>13, <1>15 DEF Held, Leaving
  <2> QED
    BY <1>12, <2>1, <2>2, <2>3
<1>17. LastRow' = LastRow /\ LastRow \in 0..3
  BY <1>2, <1>4, Facts DEF LastRow
<1>18. \A j \in Range(q) : IsBarrier(j) => j.batch = batch /\ j.of \in cur..LastRow
  BY <1>2 DEF InOrder
<1>19. cur <= LastRow => BarriersOf(q, cur) # {}
  BY <1>1, <1>2, <1>12, RowInQueue
<1>20. q[k] \in Range(q)
  BY <1>8
<1>21. ASSUME IsBarrier(q[k]) PROVE q[k].of = cur /\ q[k].batch = batch /\ cur <= LastRow
  <2>1. q[k].batch = batch /\ q[k].of \in cur..LastRow
    BY <1>18, <1>20, <1>21
  <2>2. cur <= LastRow
    BY <1>17, <2>1
  <2>3. PICK j \in Range(q) : IsBarrier(j) /\ j.of = cur
    BY <1>19, <2>2 DEF BarriersOf
  <2>4. q[k].of <= cur
    BY <1>8, <1>21, <2>1, <2>3
  <2> QED
    BY <1>17, <2>1, <2>2, <2>4
<1>22. /\ ~IsBarrier(q[k]) => \A r : BarriersOf(t, r) = BarriersOf(q, r)
       /\ IsBarrier(q[k]) => /\ BarriersOf(t, cur) = BarriersOf(q, cur) \ {q[k]}
                             /\ q[k] \in BarriersOf(q, cur)
                             /\ \A r : r # cur => BarriersOf(t, r) = BarriersOf(q, r)
  <2>1. CASE ~IsBarrier(q[k])
    <3>1. \A j \in Range(q) : IsBarrier(j) => j \in Range(t)
      BY <1>8, <2>1
    <3> QED
      BY <1>8, <2>1, <3>1 DEF BarriersOf
  <2>2. CASE IsBarrier(q[k])
    <3>1. q[k] \notin Range(t)
      BY <1>8, <2>2 DEF Planned, IsBarrier
    <3>2. \A j \in Range(q) : IsBarrier(j) => j = q[k] \/ j \in Range(t)
      BY <1>8
    <3> QED
      BY <1>8, <1>20, <1>21, <2>2, <3>1, <3>2 DEF BarriersOf
  <2> QED
    BY <2>1, <2>2
<1>23. JobsRight'
  <2>1. TypeOK'
    BY <1>2, <1>4, <1>11 DEF TypeOK
  <2>2. Shape'
    <3>1. ASSUME NEW u \in Workers PROVE \A i \in 1..Len(jobs'[u]) - 1 : ~IsBarrier(jobs'[u][i])
      <4>1. CASE u = w
        <5> SUFFICES ASSUME NEW i \in 1..k - 1 PROVE ~IsBarrier(h[i])
          BY <1>8, <1>11, <4>1
        <5>1. i \in 1..k
          BY <1>10
        <5> QED
          BY <1>6, <1>8, <5>1
      <4>2. CASE u # w
        BY <1>2, <1>11, <4>2 DEF Shape
      <4> QED
        BY <4>1, <4>2
    <3>2. \A u \in returning : u \in Workers /\ u # w /\ jobs[u] # <<>> /\ u \notin barrWait
      BY <1>2, <1>12 DEF Shape, TypeOK
    <3>3. \A u \in barrWait : u \in Workers /\ u # w /\ jobs[u] # <<>> /\ IsBarrier(Head(jobs[u]))
      BY <1>2, <1>12 DEF Shape, TypeOK
    <3> QED
      BY <1>4, <1>8, <1>9, <1>10, <1>11, <3>1, <3>2, <3>3 DEF Shape
  <2>3. Calling' /\ InTime'
    BY <1>2, <1>4, <1>17 DEF Calling, InTime
  <2>4. PlannedOnce'
    <3>1. ASSUME NEW j \in Range(t), Planned(j)
          PROVE  j \notin done /\ \A u \in Workers : j \notin Range(jobs'[u])
      <4>1. j \in Range(q) /\ j \notin Range(h)
        BY <1>8, <3>1
      <4>2. j \notin done /\ \A u \in Workers : j \notin Range(jobs[u])
        BY <1>2, <3>1, <4>1 DEF PlannedOnce
      <4> QED
        BY <1>11, <4>1, <4>2
    <3> QED
      BY <1>4, <1>8, <1>9, <3>1 DEF PlannedOnce
  <2>5. BarrierSomewhere'
    <3> SUFFICES ASSUME NEW j \in scheduled, IsBarrier(j), j \notin done, j \notin Range(t)
                 PROVE  \E u \in Workers : jobs'[u] # <<>> /\ LastJob(u)' = j
      BY <1>4, <1>9 DEF BarrierSomewhere
    <3>1. CASE j \in Range(q)
      <4>1. j = q[k]
        BY <1>8, <3>1
      <4> QED
        BY <1>10, <1>11, <1>13, <4>1
    <3>2. CASE j \notin Range(q)
      <4>1. PICK u \in Workers : jobs[u] # <<>> /\ LastJob(u) = j
        BY <1>2, <3>2 DEF BarrierSomewhere
      <4>2. u # w
        BY <1>4, <4>1
      <4> QED
        BY <1>11, <1>14, <4>1, <4>2
    <3> QED
      BY <3>1, <3>2
  <2> QED
    BY <2>1, <2>2, <2>3, <2>4, <2>5 DEF JobsRight
<1>24. InOrder(cur)'
  <2>1. \A j \in Range(t) : IsBarrier(j) => j.batch = batch /\ j.of \in cur..LastRow
    BY <1>8, <1>18
  <2>2. ASSUME NEW u \in Held' PROVE LastJob(u)'.batch = batch /\ LastJob(u)'.of = cur
    <3>1. CASE u = w
      BY <1>12, <1>13, <1>16, <1>21, <2>2, <3>1
    <3>2. CASE u # w
      <4>1. u \in Held /\ u \in Workers
        BY <1>16, <2>2, <3>2 DEF Held
      <4> QED
        BY <1>2, <1>14, <3>2, <4>1 DEF InOrder
    <3> QED
      BY <3>1, <3>2
  <2>3. \A u \in Workers : Leaving(u)' => Head(jobs'[u]).of = IF cur = 1 THEN 3 ELSE cur - 1
    BY <1>2, <1>11, <1>15 DEF InOrder
  <2> QED
    BY <1>4, <1>8, <1>9, <1>17, <2>1, <2>2, <2>3 DEF InOrder
<1>25. Counted(cur)'
  <2>1. CASE ~IsBarrier(q[k])
    BY <1>2, <1>4, <1>9, <1>16, <1>17, <1>22, <2>1 DEF Counted
  <2>2. CASE IsBarrier(q[k])
    <3> DEFINE b == BarriersOf(q, cur)
    <3>1. cur <= LastRow /\ q[k] \in b /\ BarriersOf(t, cur) = b \ {q[k]} /\ Held' = Held \union {w}
      BY <1>16, <1>21, <1>22, <2>2
    <3>2. /\ Cardinality(b) + Cardinality(Held) = THREADS
          /\ count[cur] + Cardinality(barrWait) = THREADS - 1
      BY <1>2, <3>1 DEF Counted
    <3>3. /\ IsFiniteSet(b) /\ Cardinality(b) \in Nat
          /\ Cardinality(b \ {q[k]}) = Cardinality(b) - 1
      <4>1. IsFiniteSet(b) /\ Cardinality(b) \in Nat
        BY <1>2, Facts
      <4> HIDE DEF b
      <4> QED
        BY <3>1, <4>1, FS_RemoveElement
    <3>4. Cardinality(Held \union {w}) = Cardinality(Held) + 1 /\ Cardinality(Held) \in Nat
      <4>1. Held \in SUBSET Workers
        BY DEF Held
      <4> QED
        BY <1>12, <4>1, SomeWorkers
    <3>5. Cardinality(b \ {q[k]}) + Cardinality(Held \union {w}) = THREADS
      <4> HIDE DEF b
      <4> QED
        BY <3>2, <3>3, <3>4
    <3>6. Cardinality(BarriersOf(t, cur)) + Cardinality(Held') = THREADS
      BY <3>1, <3>5
    <3>7. \A r \in cur + 1..LastRow : Cardinality(BarriersOf(t, r)) = THREADS /\ count[r] = THREADS - 1
      <4>1. \A r \in cur + 1..LastRow : r # cur
        BY <1>17
      <4> QED
        BY <1>2, <1>22, <2>2, <4>1 DEF Counted
    <3>8. ~(cur > LastRow)
      BY <1>17, <3>1
    <3> QED
      BY <1>4, <1>9, <1>17, <3>2, <3>6, <3>7, <3>8 DEF Counted
  <2> QED
    BY <2>1, <2>2
<1>26. Waited(cur)'
  <2>1. BarriersOf(q, 1) = {} => BarriersOf(t, 1) = {}
    BY <1>8 DEF BarriersOf
  <2>2. ASSUME pc = "idle", cur <= 3 PROVE ResultsBehind(t)
    <3>1. ResultsBehind(q) /\ cur <= LastRow
      BY <1>2, <2>2 DEF Waited, LastRow, scount_barr
    <3>2. IsBarrier(q[k]) \/ ~NoBarrier(t)
      <4> SUFFICES ASSUME ~IsBarrier(q[k]) PROVE ~NoBarrier(t)
        OBVIOUS
      <4>1. BarriersOf(t, cur) # {}
        BY <1>19, <1>22, <3>1
      <4> QED
        BY <4>1 DEF BarriersOf, NoBarrier
    <3> QED
      BY <1>8, <3>1, <3>2
  <2> QED
    BY <1>2, <1>4, <1>9, <2>1, <2>2 DEF Waited
<1>27. AtRow(cur)'
  BY <1>1, <1>2, <1>17, <1>24, <1>25, <1>26 DEF AtRow
<1> QED
  BY <1>0, <1>5, <1>6, <1>9, <1>12, <1>16, <1>23, <1>27 DEF At

-------------------------------------------------------------------------------
(* The theorems.                                                            *)

(* Every step keeps the invariant.                                         *)
LEMMA NextInvariant == IInv /\ [Next]_vars => IInv'
<1> SUFFICES ASSUME IInv, [Next]_vars PROVE \E c \in 1..4 : At(c)'
  BY DEF IInv
<1> PICK cur \in 1..4 : At(cur)
  BY DEF IInv
<1>1. CASE StartRun
  <2>1. At(1)' /\ 1 \in 1..4
    BY <1>1, StartRunInvariant
  <2> QED
    BY <2>1
<1>2. CASE JobRun
  <2>1. CASE SplitGenHashes
    BY <2>1, SplitGenHashesInvariant
  <2>2. CASE CallNoJobLeft
    BY <2>2, CalmInvariant DEF CallNoJobLeft, js!CallNoJobLeft, js!queueVars, js!runVars
  <2>3. CASE WaitNoJobLeft
    BY <2>3, CalmInvariant DEF WaitNoJobLeft, js!WaitNoJobLeft, js!runVars
  <2>4. CASE ReturnNoJobLeft
    BY <2>4, ReturnNoJobLeftInvariant
  <2>5. CASE ScheduleBarr
    BY <2>5, ScheduleBarrInvariant
  <2>6. CASE ScheduleGenRes
    BY <2>6, ScheduleGenResInvariant
  <2>7. CASE ScheduleResRow
    BY <2>7, ScheduleResRowInvariant
  <2>8. CASE ScheduleGenerateRes
    BY <2>8, ScheduleGenerateResInvariant
  <2> QED
    BY <1>2, <2>1, <2>2, <2>3, <2>4, <2>5, <2>6, <2>7, <2>8 DEF JobRun
<1>3. ASSUME NEW w \in Workers, RunHead(w) PROVE \E c \in 1..4 : At(c)'
  <2>1. CASE RunGenHashes(w) \/ RunGenHashesToken(w) \/ RunGenerateRes(w)
    BY <2>1, RunEffectInvariant
  <2>2. CASE RunPlain(w) \/ Return(w)
    BY <2>2, FinishInvariant
  <2>3. CASE BarrierWait(w)
    BY <2>3, BarrierWaitInvariant
  <2>4. CASE BarrierOpen(w)
    <3>1. cur + 1 \in 1..4 /\ At(cur + 1)'
      BY <2>4, BarrierOpenInvariant
    <3> DEFINE next == cur + 1
    <3>2. next \in 1..4 /\ At(next)'
      BY <3>1
    <3> HIDE DEF next
    <3> QED
      BY <3>2
  <2> QED
    BY <1>3, <2>1, <2>2, <2>3, <2>4 DEF RunHead
<1>4. ASSUME NEW w \in Workers, Fetch(w) PROVE \E c \in 1..4 : At(c)'
  <2>1. CASE js!FetchWait(w)
    BY <1>4, <2>1, CalmInvariant DEF Fetch, js!FetchWait, js!runVars
  <2>2. CASE js!FetchTake(w)
    BY <1>4, <2>2, FetchTakeInvariant DEF Fetch
  <2> QED
    BY <1>4, <2>1, <2>2 DEF Fetch
<1>5. CASE SpuriousWakeup
  BY <1>5, CalmInvariant DEF SpuriousWakeup, js!SpuriousWakeup, js!runVars
<1>6. CASE UNCHANGED vars
  BY <1>6, CalmInvariant DEF vars, poolVars
<1> QED
  BY <1>1, <1>2, <1>3, <1>4, <1>5, <1>6 DEF Next, Terminated

(* At any time there is a current row: the rows before it are open, those  *)
(* behind it are complete in the queue, and its counter is what is left of *)
(* its barriers to come (MatchAll.cpp:43-85, Results.cpp:140-165).         *)
THEOREM InvariantHolds == Spec => []IInv
<1>1. Init => IInv
  <2>1. 4 \in 1..4
    OBVIOUS
  <2> QED
    BY <2>1, InitInvariant DEF IInv
<1>2. IInv /\ [Next]_vars => IInv'
  BY NextInvariant
<1> QED
  BY <1>1, <1>2, PTL DEF Spec

(* Counters, vectors and histories have their shape: no counter of a row   *)
(* falls below zero or is set above the number of workers that block, and  *)
(* only scheduled jobs are run.                                            *)
THEOREM TypeHolds == Spec => []TypeOK
<1>1. IInv => TypeOK
  BY DEF IInv, At, JobsRight
<1> QED
  BY <1>1, InvariantHolds, PTL

(* The workers blocked on the condition variable are of the row that is    *)
(* not open yet.                                                           *)
LEMMA RowsInOrder == IInv => OneRow
<1> SUFFICES ASSUME IInv, NEW w \in barrWait
             PROVE  /\ \A v \in barrWait : Head(jobs[v]).of = Head(jobs[w]).of
                    /\ count[Head(jobs[w]).of] + Cardinality(barrWait) = THREADS - 1
  BY DEF OneRow
<1>1. PICK cur \in 1..4 : AtRow(cur)
  BY DEF IInv, At
<1>2. TypeOK /\ Shape /\ InOrder(cur) /\ Counted(cur) /\ LastRow \in 0..3
  BY <1>1, Facts DEF IInv, At, JobsRight, AtRow
<1>3. \A v \in barrWait : v \in Held /\ Head(jobs[v]).of = cur
  BY <1>2, Blocked DEF InOrder
<1>4. cur <= LastRow
  BY <1>2, <1>3 DEF Counted
<1>5. count[cur] + Cardinality(barrWait) = THREADS - 1
  BY <1>2, <1>4 DEF Counted
<1> QED
  BY <1>3, <1>5

(* When a row is scheduled, no barrier of its number is left: neither in   *)
(* the queue, nor in front of a worker, nor with one that leaves.          *)
LEMMA RowIsFree ==
    ASSUME IInv, NEW r \in 1..3, LastRow = r - 1,
           r = 3 => pc = "scheduleGenRes"
    PROVE  \A j \in scheduled : j.kind = "Barrier" /\ j.of = r => j \in done
<1> SUFFICES ASSUME NEW j \in scheduled, IsBarrier(j), j.of = r, j \notin done
             PROVE  FALSE
  BY DEF IsBarrier
<1>1. PICK cur \in 1..4 : AtRow(cur)
  BY DEF IInv, At
<1>2. /\ TypeOK /\ Shape /\ BarrierSomewhere /\ cur \in 1..r
      /\ InOrder(cur) /\ Counted(cur) /\ Waited(cur)
  BY <1>1 DEF IInv, At, JobsRight, AtRow
<1>3. j \notin Range(jobsQueue)
  <2>1. ~(r \in cur..r - 1)
    OBVIOUS
  <2> QED
    BY <1>2, <2>1 DEF InOrder
<1>4. PICK w \in Workers : jobs[w] # <<>> /\ LastJob(w) = j
  BY <1>2, <1>3 DEF BarrierSomewhere
<1>5. w \notin Held
  <2> SUFFICES ASSUME w \in Held PROVE FALSE
    OBVIOUS
  <2>1. cur = r
    BY <1>2, <1>4 DEF InOrder
  <2>2. cur > LastRow
    BY <2>1
  <2> QED
    BY <1>2, <2>2 DEF Counted
<1>6. Leaving(w)
  BY <1>4, <1>5 DEF Held
<1>7. Head(jobs[w]) = j
  BY <1>2, <1>4, <1>6, HeadOf DEF Leaving
<1>8. r = IF cur = 1 THEN 3 ELSE cur - 1
  BY <1>2, <1>6, <1>7 DEF InOrder
<1>9. cur = 1 /\ r = 3
  BY <1>2, <1>8
<1>10. BarriersOf(jobsQueue, 1) = {}
  BY <1>2, <1>9 DEF Waited
<1>11. cur <= LastRow
  BY <1>9
<1> QED
  BY <1>1, <1>2, <1>5, <1>9, <1>10, <1>11, RowInQueue

(* The rows of barriers are kept apart: the workers blocked on the one     *)
(* condition variable are of one row, so that the broadcast of its last    *)
(* worker wakes nobody else, and JobRun::Run sets the counter of a row     *)
(* only when every barrier of that number has been left.                   *)
THEOREM RowsKeptApartHolds == Spec => RowsKeptApart
<1> DEFINE CountersFree == \A r \in Rows : count'[r] > count[r] =>
                \A j \in scheduled \ done : ~(j.kind = "Barrier" /\ j.of = r)
<1>1. ASSUME IInv, Next PROVE CountersFree
  <2> SUFFICES ASSUME NEW r \in Rows, count'[r] > count[r]
               PROVE  \A j \in scheduled : j.kind = "Barrier" /\ j.of = r => j \in done
    OBVIOUS
  <2>2. /\ TypeOK /\ THREADS \in Nat /\ count \in [Rows -> 0..(THREADS - 1)]
        /\ count_genhashes = 1 /\ count_barr = 2 /\ scount_barr = 3 /\ Rows = {1, 2, 3}
    BY <1>1, SomeWorkers DEF IInv, At, JobsRight, TypeOK, Rows, count_genhashes, count_barr, scount_barr
  <2>3. count' # count
    BY <2>2
  <2>4. CASE SplitGenHashes
    <3>1. r = 1 /\ LastRow = 1 - 1
      BY <2>2, <2>4 DEF SplitGenHashes, LastRow
    <3> QED
      BY <1>1, <3>1, RowIsFree
  <2>5. CASE ScheduleBarr
    <3>1. r = 2 /\ LastRow = 2 - 1
      BY <2>2, <2>5 DEF ScheduleBarr, LastRow
    <3> QED
      BY <1>1, <3>1, RowIsFree
  <2>6. CASE ScheduleResRow
    <3>1. r = 3 /\ LastRow = 3 - 1 /\ pc = "scheduleGenRes"
      BY <2>2, <2>6 DEF ScheduleResRow, LastRow
    <3> QED
      BY <1>1, <3>1, RowIsFree
  <2>7. ASSUME NEW w \in Workers, BarrierWait(w) PROVE FALSE
    <3>1. PICK c : count' = [count EXCEPT ![c] = @ - 1]
      BY <2>7 DEF BarrierWait
    <3>2. count[r] \in Int /\ (count'[r] = count[r] - 1 \/ count'[r] = count[r])
      BY <2>2, <3>1
    <3> QED
      BY <3>2
  <2>8. ASSUME UNCHANGED barrVars PROVE FALSE
    BY <2>3, <2>8 DEF barrVars
  <2>9. CASE JobRun
    BY <2>4, <2>5, <2>6, <2>8, <2>9 DEF JobRun, CallNoJobLeft, WaitNoJobLeft, ReturnNoJobLeft,
        ScheduleGenRes, ScheduleGenerateRes
  <2>10. ASSUME NEW w \in Workers, RunHead(w) PROVE FALSE
    BY <2>3, <2>7, <2>8, <2>10 DEF RunHead, RunGenHashes, RunGenHashesToken, RunPlain, BarrierOpen,
        RunGenerateRes, Return
  <2>11. ASSUME StartRun \/ SpuriousWakeup \/ \E w \in Workers : Fetch(w) PROVE FALSE
    BY <2>8, <2>11 DEF StartRun, SpuriousWakeup, Fetch
  <2>12. ~Terminated
    BY <2>8 DEF Terminated, vars
  <2> QED
    BY <1>1, <2>9, <2>10, <2>11, <2>12 DEF Next
<1>2. IInv => OneRow
  BY RowsInOrder
<1>3. IInv /\ [Next]_vars => [CountersFree]_vars
  BY <1>1
<1> QED
  BY <1>2, <1>3, InvariantHolds, PTL DEF Spec, RowsKeptApart

-------------------------------------------------------------------------------
(* The phases of a batch.                                                   *)

(* The row of barriers that a job waits for: 0 if it waits for none.       *)
Phase(j) == CASE j.kind \in HashKinds -> 0
              [] j.kind = "MatchPrune" -> 1
              [] j.kind = "GenRes" -> 2
              [] j.kind \in {"GenerateRes", "Barrier"} -> 3

(* In a queue a job is behind the rows it waits for, in front of the others. *)
PhasesApart(q) ==
    \A i, l \in DOMAIN q : ~IsBarrier(q[i]) /\ IsBarrier(q[l]) => (q[l].of <= Phase(q[i]) <=> l < i)

(* A job is in the queue, in a vector, or done.                            *)
NoneLost ==
    \A j \in scheduled \ done : j \in Range(jobsQueue) \/ \E w \in Workers : j \in Range(jobs[w])

(* A planned job that was fetched is in one vector, once.                  *)
VectorsOnce ==
    \A w \in Workers : \A i \in DOMAIN jobs[w] : Planned(jobs[w][i]) =>
        /\ jobs[w][i] \notin done
        /\ \A u \in Workers : \A l \in DOMAIN jobs[u] : jobs[u][l] = jobs[w][i] => u = w /\ l = i

(* No job in the queue waits for a row that is open but the one before     *)
(* cur, and the jobs of that phase are in front of the barriers of cur.    *)
QueuePhased(cur) ==
    /\ PhasesApart(jobsQueue)
    /\ \A j \in Range(jobsQueue) : ~IsBarrier(j) =>
          /\ cur <= Phase(j) + 1 /\ Phase(j) <= LastRow
          /\ cur = Phase(j) + 1 => Held = {}
          /\ j.kind \in HashKinds => LastRow = 1

(* The jobs that workers have are of one phase.                            *)
VectorsPhased(cur) ==
    \A w \in Workers : \A i \in DOMAIN jobs[w] :
        ~IsBarrier(jobs[w][i]) /\ ~(i = 1 /\ w \in returning) =>
            /\ Phase(jobs[w][i]) = cur - 1
            /\ jobs[w][i].kind \in HashKinds => LastRow = 1

(* When JobRun::Run schedules the second row all searches are queued.      *)
SearchesScheduled == pc = "count_barr" => Pending(HashKinds) = {}

(* With the current row cur, the jobs are where their phase lets them be.  *)
Phased(cur) == NoneLost /\ VectorsOnce /\ QueuePhased(cur) /\ VectorsPhased(cur)

PInv == \E cur \in 1..4 : At(cur) /\ Phased(cur)

(* Each kind of job waits for the row behind the phase before its own.     *)
LEMMA PhaseIs ==
    ASSUME NEW j \in Job, ~IsBarrier(j)
    PROVE  /\ Phase(j) \in 0..3
           /\ j.kind \in HashKinds <=> Phase(j) = 0
           /\ j.kind = "MatchPrune" <=> Phase(j) = 1
           /\ j.kind = "GenRes" <=> Phase(j) = 2
           /\ j.kind = "GenerateRes" <=> Phase(j) = 3
<1>1. j.kind \in {"GenHashes", "GenHashesToken", "MatchPrune", "GenRes", "GenerateRes"}
  BY DEF Job, Kinds, IsBarrier
<1> QED
  BY <1>1 DEF Phase, HashKinds

(* Jobs of the next phase are added behind all rows.                       *)
LEMMA PhasesAppend ==
    ASSUME NEW q \in Seq(Job), NEW v \in Seq(Job), NEW t, Joined(t, q, v),
           PhasesApart(q), PhasesApart(v), NEW r \in Nat,
           \A j \in Range(q) : IF IsBarrier(j) THEN j.of <= r ELSE Phase(j) <= r,
           \A j \in Range(v) : IF IsBarrier(j) THEN j.of = r + 1 ELSE Phase(j) = r
    PROVE  PhasesApart(t)
<1> DEFINE n == Len(q)
<1>1. /\ n \in Nat /\ Len(v) \in Nat
      /\ \A i \in DOMAIN q : i \in DOMAIN t /\ t[i] = q[i] /\ i \in Nat /\ i <= n
      /\ \A i \in DOMAIN v : n + i \in DOMAIN t /\ t[n + i] = v[i] /\ i \in Nat /\ i >= 1
      /\ \A i \in DOMAIN t : i \in DOMAIN q \/ (i - n \in DOMAIN v /\ i > n /\ t[i] = v[i - n])
      /\ t \in Seq(Job)
  BY Positions
<1>2. \A i \in DOMAIN v : v[i] \in Range(v) /\ v[i] \in Job
  BY DEF Range
<1>3. \A i \in DOMAIN q : q[i] \in Range(q) /\ q[i] \in Job
  BY DEF Range
<1>4. DOMAIN t \subseteq Nat
  BY <1>1
<1> HIDE DEF n
<1> SUFFICES ASSUME NEW i \in DOMAIN t, NEW l \in DOMAIN t, ~IsBarrier(t[i]), IsBarrier(t[l])
             PROVE  t[l].of <= Phase(t[i]) <=> l < i
  BY DEF PhasesApart
<1>5. CASE i \in DOMAIN q /\ l \in DOMAIN q
  BY <1>1, <1>5 DEF PhasesApart
<1>6. CASE i - n \in DOMAIN v /\ i > n /\ t[i] = v[i - n] /\ l - n \in DOMAIN v /\ l > n /\ t[l] = v[l - n]
  <2>1. t[l].of <= Phase(t[i]) <=> l - n < i - n
    BY <1>6 DEF PhasesApart
  <2> QED
    BY <1>1, <1>4, <2>1
<1>7. CASE i \in DOMAIN q /\ l - n \in DOMAIN v /\ l > n /\ t[l] = v[l - n]
  <2>1. t[l].of = r + 1 /\ Phase(t[i]) <= r /\ Phase(t[i]) \in 0..3 /\ i <= n
    BY <1>1, <1>2, <1>3, <1>7, PhaseIs
  <2>2. ~(t[l].of <= Phase(t[i]))
    BY <2>1
  <2>3. n \in Nat /\ i \in Nat /\ l \in Nat
    BY <1>1, <1>4
  <2>4. ~(l < i)
    BY <1>7, <2>1, <2>3
  <2> QED
    BY <2>2, <2>4
<1>8. CASE i - n \in DOMAIN v /\ i > n /\ t[i] = v[i - n] /\ l \in DOMAIN q
  <2>1. t[l].of <= r /\ Phase(t[i]) = r /\ l <= n
    BY <1>1, <1>2, <1>3, <1>8
  <2>2. n \in Nat /\ i \in Nat /\ l \in Nat
    BY <1>1, <1>4
  <2>3. l < i
    BY <1>8, <2>1, <2>2
  <2> QED
    BY <2>1, <2>3
<1> QED
  BY <1>1, <1>5, <1>6, <1>7, <1>8

(* A fetch takes the jobs of a phase that no row of the queue is before,   *)
(* and with the last barrier it takes no job of that phase is left.        *)
LEMMA PhasesFetch ==
    ASSUME NEW q \in Seq(Job), NEW k \in 1..Len(q), \A i \in 1..k - 1 : ~IsBarrier(q[i]),
           PhasesApart(q), NEW h, NEW t, Cut(q, k, h, t)
    PROVE  /\ PhasesApart(t)
           /\ \A j \in Range(h) : ~IsBarrier(j) =>
                 \A b \in Range(q) : IsBarrier(b) => ~(b.of <= Phase(j))
           /\ \A j \in Range(t) : ~IsBarrier(j) /\ IsBarrier(q[k]) => q[k].of <= Phase(j)
<1> DEFINE n == Len(q)
<1>1. n \in Nat /\ k \in Nat /\ k >= 1 /\ k <= n /\ DOMAIN q = 1..n
  BY CutPositions
<1>2. h \in Seq(Job) /\ Len(h) = k /\ \A i \in 1..k : h[i] = q[i]
  BY CutPositions
<1>3. t \in Seq(Job) /\ Len(t) = n - k /\ \A i \in 1..n - k : t[i] = q[k + i]
  BY CutPositions
<1>4. DOMAIN h = 1..k /\ DOMAIN t = 1..n - k
  BY <1>2, <1>3
<1>5. \A l \in 1..n - k : k + l \in 1..n /\ k + l > k
  BY <1>1
<1> HIDE DEF n
<1>6. PhasesApart(t)
  <2> SUFFICES ASSUME NEW i \in 1..n - k, NEW l \in 1..n - k, ~IsBarrier(t[i]), IsBarrier(t[l])
               PROVE  t[l].of <= Phase(t[i]) <=> l < i
    BY <1>4 DEF PhasesApart
  <2>1. t[l].of <= Phase(t[i]) <=> k + l < k + i
    BY <1>1, <1>3, <1>5 DEF PhasesApart
  <2> QED
    BY <1>1, <2>1
<1>7. ASSUME NEW j \in Range(h), ~IsBarrier(j), NEW b \in Range(q), IsBarrier(b) PROVE ~(b.of <= Phase(j))
  <2>1. PICK i \in 1..k : j = q[i]
    BY <1>2, <1>4 DEF Range
  <2>2. PICK l \in 1..n : b = q[l]
    BY <1>1 DEF Range
  <2>3. ~(l < i)
    BY <1>1, <1>7, <2>2
  <2>4. i \in 1..n
    BY <1>1
  <2> QED
    BY <1>1, <1>7, <2>1, <2>2, <2>3, <2>4 DEF PhasesApart
<1>8. ASSUME NEW j \in Range(t), ~IsBarrier(j), IsBarrier(q[k]) PROVE q[k].of <= Phase(j)
  <2>1. PICK i \in 1..n - k : j = q[k + i]
    BY <1>3, <1>4 DEF Range
  <2>2. k + i \in DOMAIN q /\ k < k + i /\ k \in DOMAIN q
    BY <1>1, <1>5
  <2> QED
    BY <1>8, <2>1, <2>2 DEF PhasesApart
<1> QED
  BY <1>6, <1>7, <1>8

(* A pending job is where a worker can still come to run it.               *)
LEMMA WherePending ==
    ASSUME TypeOK, Shape, NoneLost, NEW kinds, NEW p \in Pending(kinds)
    PROVE  /\ p \in scheduled /\ p \in Job /\ p.kind \in kinds
           /\ \/ p \in Range(jobsQueue)
              \/ \E w \in Workers : \E i \in DOMAIN jobs[w] : p = jobs[w][i] /\ ~(i = 1 /\ w \in returning)
<1>1. p \in scheduled \ done /\ p.kind \in kinds /\ \A w \in returning : Head(jobs[w]) # p
  BY DEF Pending
<1>2. ASSUME NEW w \in Workers, p \in Range(jobs[w])
      PROVE  \E i \in DOMAIN jobs[w] : p = jobs[w][i] /\ ~(i = 1 /\ w \in returning)
  <2>1. PICK i \in DOMAIN jobs[w] : p = jobs[w][i]
    BY <1>2 DEF Range
  <2>2. ASSUME i = 1, w \in returning PROVE FALSE
    <3>1. jobs[w] # <<>>
      BY <2>2 DEF Shape
    <3> QED
      BY <1>1, <2>1, <2>2, <3>1, HeadOf
  <2> QED
    BY <2>1, <2>2
<1> QED
  BY <1>1, <1>2 DEF NoneLost, TypeOK

(* The other way round for the planned jobs, that are in one place only.   *)
LEMMA PlannedPending ==
    ASSUME TypeOK, Shape, PlannedOnce, VectorsOnce, NEW kinds
    PROVE  /\ \A j \in Range(jobsQueue) : Planned(j) /\ j.kind \in kinds => j \in Pending(kinds)
           /\ \A w \in Workers : \A i \in DOMAIN jobs[w] :
                 Planned(jobs[w][i]) /\ jobs[w][i].kind \in kinds /\ ~(i = 1 /\ w \in returning)
                    => jobs[w][i] \in Pending(kinds)
<1>1. \A w \in returning : /\ w \in Workers /\ 1 \in DOMAIN jobs[w]
                           /\ Head(jobs[w]) = jobs[w][1] /\ Head(jobs[w]) \in Range(jobs[w])
  <2> SUFFICES ASSUME NEW w \in returning
               PROVE  /\ w \in Workers /\ 1 \in DOMAIN jobs[w]
                      /\ Head(jobs[w]) = jobs[w][1] /\ Head(jobs[w]) \in Range(jobs[w])
    OBVIOUS
  <2>1. w \in Workers /\ jobs[w] # <<>> /\ jobs[w] \in Seq(scheduled)
    BY DEF TypeOK, Shape
  <2> QED
    BY <2>1, HeadOf
<1>2. ASSUME NEW j \in Range(jobsQueue), Planned(j), j.kind \in kinds PROVE j \in Pending(kinds)
  <2>1. j \in scheduled /\ j \notin done /\ \A w \in Workers : j \notin Range(jobs[w])
    BY <1>2, Facts DEF PlannedOnce
  <2> QED
    BY <1>1, <1>2, <2>1 DEF Pending
<1>3. ASSUME NEW w \in Workers, NEW i \in DOMAIN jobs[w], Planned(jobs[w][i]), jobs[w][i].kind \in kinds,
             ~(i = 1 /\ w \in returning)
      PROVE  jobs[w][i] \in Pending(kinds)
  <2>1. jobs[w][i] \in scheduled
    BY DEF TypeOK
  <2>2. jobs[w][i] \notin done
    BY <1>3 DEF VectorsOnce
  <2>3. \A u \in returning : Head(jobs[u]) # jobs[w][i]
    BY <1>1, <1>3 DEF VectorsOnce
  <2> QED
    BY <1>3, <2>1, <2>2, <2>3 DEF Pending
<1> QED
  BY <1>2, <1>3
(* What is still pending is of the phase before cur, or a later one.       *)
LEMMA PendingPhase ==
    ASSUME NEW cur \in 1..4, At(cur), Phased(cur), NEW kinds, NEW p \in Pending(kinds), ~IsBarrier(p)
    PROVE  cur <= Phase(p) + 1
<1>1. TypeOK /\ Shape /\ NoneLost /\ QueuePhased(cur) /\ VectorsPhased(cur)
  BY DEF At, JobsRight, Phased
<1>2. CASE p \in Range(jobsQueue)
  BY <1>1, <1>2 DEF QueuePhased
<1>3. ASSUME NEW w \in Workers, NEW i \in DOMAIN jobs[w], p = jobs[w][i], ~(i = 1 /\ w \in returning)
      PROVE  cur <= Phase(p) + 1
  <2>1. Phase(p) = cur - 1
    BY <1>1, <1>3 DEF VectorsPhased
  <2> QED
    BY <2>1
<1> QED
  BY <1>1, <1>2, <1>3, WherePending

(* A worker that runs a job is in the phase before cur.                    *)
LEMMA RunningPhase ==
    ASSUME NEW cur \in 1..4, At(cur), Phased(cur), NEW w \in Workers, NEW kinds, NEW j \in Running(w, kinds),
           ~IsBarrier(j)
    PROVE  j \in Job /\ j.kind \in kinds /\ Phase(j) = cur - 1 /\ (j.kind \in HashKinds => LastRow = 1)
<1>1. TypeOK /\ Shape /\ VectorsPhased(cur)
  BY DEF At, JobsRight, Phased
<1>2. jobs[w] # <<>> /\ j = Head(jobs[w]) /\ j.kind \in kinds /\ w \notin returning /\ j \in Job
  BY <1>1, RunningFacts
<1>3. jobs[w] \in Seq(scheduled)
  BY <1>1 DEF TypeOK
<1>4. 1 \in DOMAIN jobs[w] /\ jobs[w][1] = j
  BY <1>2, <1>3
<1> QED
  BY <1>1, <1>2, <1>4 DEF VectorsPhased

(* A step that takes no job away.                                          *)
Grows ==
    /\ jobs' = jobs /\ done' = done /\ returning \subseteq returning'
    /\ Range(jobsQueue) \subseteq Range(jobsQueue')
    /\ \A j \in scheduled' : j.kind \in HashKinds => j \in scheduled \/ LastRow = 0

(* Steps that leave the jobs where they are.                               *)
LEMMA PhasesStay ==
    ASSUME NEW cur \in 1..4, Phased(cur), UNCHANGED <<jobsQueue, jobs, scheduled, done, returning>>,
           LastRow' = LastRow
    PROVE  Phased(cur)' /\ Grows
<1>1. Held' = Held
  BY DEF Held, LastJob, Leaving
<1> QED
  BY <1>1 DEF Phased, NoneLost, VectorsOnce, QueuePhased, VectorsPhased, Grows

(* Before the first batch no job is anywhere.                              *)
LEMMA InitPhased == Init => Phased(4)
<1> SUFFICES ASSUME Init PROVE Phased(4)
  OBVIOUS
<1>1. jobsQueue = <<>> /\ jobs = [w \in Workers |-> <<>>] /\ scheduled = {} /\ done = {}
  BY DEF Init, js!Init
<1>2. Range(<<>>) = {} /\ DOMAIN <<>> = {}
  BY DEF Range
<1> QED
  BY <1>1, <1>2 DEF Phased, NoneLost, VectorsOnce, QueuePhased, PhasesApart, VectorsPhased

(* All jobs of the last batch have had their effect.                       *)
LEMMA BatchIsOver ==
    ASSUME NEW cur \in 1..4, At(cur), Phased(cur), pc = "idle", Pending({"GenerateRes"}) = {}
    PROVE  /\ Range(jobsQueue) = {}
           /\ \A w \in Workers : \A i \in DOMAIN jobs[w] : i = 1 /\ w \in returning
<1>1. /\ TypeOK /\ Shape /\ PlannedOnce /\ NoneLost /\ VectorsOnce /\ QueuePhased(cur) /\ VectorsPhased(cur)
      /\ cur = 4 /\ Held = {} /\ \A j \in Range(jobsQueue) : ~IsBarrier(j)
  BY AllRowsOpen DEF At, JobsRight, Phased
<1>2. ASSUME NEW j \in Job, Phase(j) = 3, ~IsBarrier(j) PROVE j.kind \in {"GenerateRes"} /\ Planned(j)
  BY <1>2, PhaseIs DEF Planned
<1>3. ASSUME NEW j \in Range(jobsQueue) PROVE FALSE
  <2>1. ~IsBarrier(j) /\ 4 <= Phase(j) + 1 /\ j \in Job
    BY <1>1, FiniteRange, Facts DEF QueuePhased
  <2>2. Phase(j) = 3
    BY <2>1, PhaseIs
  <2> QED
    BY <1>1, <1>2, <2>1, <2>2, PlannedPending
<1>4. ASSUME NEW w \in Workers, NEW i \in DOMAIN jobs[w], ~(i = 1 /\ w \in returning) PROVE FALSE
  <2>1. jobs[w] \in Seq(scheduled) /\ jobs[w][i] \in Job /\ jobs[w] # <<>> /\ i \in 1..Len(jobs[w])
        /\ Len(jobs[w]) \in Nat
    BY <1>1, Facts
  <2>2. ~IsBarrier(jobs[w][i])
    <3> SUFFICES ASSUME IsBarrier(jobs[w][i]) PROVE FALSE
      OBVIOUS
    <3>1. i = Len(jobs[w])
      BY <1>1, <2>1 DEF Shape
    <3>2. ~Leaving(w)
      <4> SUFFICES ASSUME Leaving(w) PROVE FALSE
        OBVIOUS
      <4>1. w \in returning /\ Len(jobs[w]) = 1
        BY <1>1, <2>1, HeadOf DEF Leaving
      <4> QED
        BY <1>4, <3>1, <4>1
    <3> QED
      BY <1>1, <2>1, <3>1, <3>2 DEF Held, LastJob
  <2>3. Phase(jobs[w][i]) = 4 - 1
    BY <1>1, <1>4, <2>2 DEF VectorsPhased
  <2>4. jobs[w][i].kind \in {"GenerateRes"} /\ Planned(jobs[w][i])
    BY <1>2, <2>1, <2>2, <2>3
  <2> QED
    BY <1>1, <1>4, <2>4, PlannedPending
<1> QED
  BY <1>3, <1>4

(* A batch starts when nothing of the one before it is left.               *)
LEMMA StartRunPhased ==
    ASSUME NEW cur \in 1..4, At(cur), Phased(cur), StartRun
    PROVE  Phased(1)' /\ Grows
<1>1. /\ jobsQueue' = jobsQueue /\ jobs' = jobs /\ scheduled' = scheduled /\ done' = done
      /\ returning' = returning /\ pc = "idle" /\ Pending({"GenerateRes"}) = {}
  BY DEF StartRun, poolVars
<1>2. /\ Range(jobsQueue) = {}
      /\ \A w \in Workers : \A i \in DOMAIN jobs[w] : i = 1 /\ w \in returning
  BY <1>1, BatchIsOver
<1>3. NoneLost /\ VectorsOnce /\ PhasesApart(jobsQueue)
  BY DEF Phased, QueuePhased
<1> QED
  BY <1>1, <1>2, <1>3 DEF Phased, NoneLost, VectorsOnce, QueuePhased, VectorsPhased, Grows

(* JobRun::Run or a job schedules jobs of the phase that the last row is   *)
(* in front of, and perhaps the next row behind them.                      *)
LEMMA AddsInPhase ==
    ASSUME NEW cur \in 1..4, At(cur), Phased(cur), NEW v \in Seq(Job), Adds(v), PhasesApart(v),
           \A j \in Range(v) : IF IsBarrier(j) THEN j.of = LastRow + 1
                               ELSE Phase(j) = LastRow /\ (j.kind \in HashKinds => LastRow' = 1),
           LastRow' \in {LastRow, LastRow + 1},
           LastRow' = LastRow \/ LastRow # 1 \/ Pending(HashKinds) = {},
           Held' = Held, returning \subseteq returning'
    PROVE  Phased(cur)' /\ Grows
<1>1. /\ TypeOK /\ Shape /\ PlannedOnce /\ InOrder(cur) /\ Counted(cur) /\ cur \in 1..LastRow + 1
      /\ NoneLost /\ VectorsOnce /\ QueuePhased(cur) /\ VectorsPhased(cur) /\ PhasesApart(jobsQueue)
  BY DEF At, JobsRight, AtRow, Phased, QueuePhased
<1>2. /\ scheduled' = scheduled \union Range(v) /\ jobs' = jobs /\ done' = done
      /\ Joined(jobsQueue', jobsQueue, v)
  BY DEF Adds
<1>3. /\ Range(jobsQueue') = Range(jobsQueue) \union Range(v) /\ Range(v) \subseteq Job
      /\ jobsQueue \in Seq(Job) /\ Range(jobsQueue) \subseteq Job /\ LastRow \in 0..3
  BY <1>1, AddedJobs, FiniteRange, Facts
<1>4. ASSUME LastRow' # LastRow
      PROVE  /\ \A j \in Range(jobsQueue) : j.kind \notin HashKinds
             /\ \A w \in Workers : \A i \in DOMAIN jobs[w] :
                   ~(i = 1 /\ w \in returning) => jobs[w][i].kind \notin HashKinds
  <2>1. \A j : j.kind \in HashKinds => Planned(j) /\ ~IsBarrier(j)
    BY DEF HashKinds, Planned, IsBarrier
  <2>2. CASE LastRow # 1
    BY <1>1, <2>1, <2>2 DEF QueuePhased, VectorsPhased
  <2>3. CASE Pending(HashKinds) = {}
    BY <1>1, <2>1, <2>3, PlannedPending
  <2> QED
    BY <1>4, <2>2, <2>3
<1>5. NoneLost'
  BY <1>1, <1>2, <1>3 DEF NoneLost
<1>6. VectorsOnce'
  BY <1>1, <1>2 DEF VectorsOnce
<1>7. PhasesApart(jobsQueue')
  <2>1. \A j \in Range(jobsQueue) : IF IsBarrier(j) THEN j.of <= LastRow ELSE Phase(j) <= LastRow
    BY <1>1, <1>3 DEF InOrder, QueuePhased
  <2>2. LastRow \in Nat
    BY <1>3
  <2>3. \A j \in Range(v) : IF IsBarrier(j) THEN j.of = LastRow + 1 ELSE Phase(j) = LastRow
    OBVIOUS
  <2> QED
    BY <1>1, <1>2, <1>3, <2>1, <2>2, <2>3, PhasesAppend
<1>8. ASSUME NEW j \in Range(jobsQueue'), ~IsBarrier(j)
      PROVE  /\ cur <= Phase(j) + 1 /\ Phase(j) <= LastRow'
             /\ cur = Phase(j) + 1 => Held' = {}
             /\ j.kind \in HashKinds => LastRow' = 1
  <2>1. CASE j \in Range(jobsQueue)
    <3>1. /\ cur <= Phase(j) + 1 /\ Phase(j) <= LastRow /\ Phase(j) \in 0..3
          /\ cur = Phase(j) + 1 => Held = {}
          /\ j.kind \in HashKinds => LastRow = 1
      BY <1>1, <1>3, <1>8, <2>1, PhaseIs DEF QueuePhased
    <3>2. LastRow <= LastRow' /\ Phase(j) <= LastRow'
      BY <1>3, <3>1
    <3> QED
      BY <1>4, <2>1, <3>1, <3>2
  <2>2. CASE j \in Range(v)
    <3>1. Phase(j) = LastRow /\ (j.kind \in HashKinds => LastRow' = 1)
      BY <1>8, <2>2
    <3>2. cur <= LastRow + 1 /\ LastRow <= LastRow' /\ (cur = LastRow + 1 => cur > LastRow)
      BY <1>1, <1>3
    <3>3. cur = LastRow + 1 => Held = {}
      BY <1>1, <3>2 DEF Counted
    <3> QED
      BY <3>1, <3>2, <3>3
  <2> QED
    BY <1>3, <2>1, <2>2
<1>9. QueuePhased(cur)'
  BY <1>7, <1>8 DEF QueuePhased
<1>10. VectorsPhased(cur)'
  <2> SUFFICES ASSUME NEW w \in Workers, NEW i \in DOMAIN jobs[w], ~IsBarrier(jobs[w][i]), ~(i = 1 /\ w \in returning)
               PROVE  Phase(jobs[w][i]) = cur - 1 /\ (jobs[w][i].kind \in HashKinds => LastRow' = 1)
    BY <1>2 DEF VectorsPhased
  <2> QED
    BY <1>1, <1>4 DEF VectorsPhased
<1>11. Grows
  <2>1. ASSUME NEW j \in Range(v), j.kind \in HashKinds PROVE LastRow = 0
    <3>1. ~IsBarrier(j) /\ j \in Job
      BY <1>3, <2>1 DEF IsBarrier, HashKinds
    <3>2. Phase(j) = LastRow /\ Phase(j) = 0
      BY <2>1, <3>1, PhaseIs
    <3> QED
      BY <3>2
  <2> QED
    BY <1>2, <1>3, <2>1 DEF Grows
<1> QED
  BY <1>5, <1>6, <1>9, <1>10, <1>11 DEF Phased

(* The queues that one step adds: a row alone, or jobs of one phase.       *)
LEMMA OneKindApart ==
    ASSUME NEW v, NoBarrier(v) \/ \A j \in Range(v) : IsBarrier(j)
    PROVE  PhasesApart(v)
  BY DEF NoBarrier, PhasesApart, Range

(* The tables are in front of the first row.                               *)
LEMMA SplitGenHashesPhased ==
    ASSUME NEW cur \in 1..4, At(cur), Phased(cur), SplitGenHashes
    PROVE  Phased(cur)' /\ Grows
<1>1. TypeOK /\ Shape /\ Calling
  BY DEF At, JobsRight
<1>2. LastRow = 0 /\ LastRow' = 1 /\ 0 \in Nat
  BY DEF SplitGenHashes, LastRow, count_genhashes
<1>3. returning' = returning
  BY DEF SplitGenHashes
<1>4. PICK ab, c, v \in Seq(Job) :
          /\ Adds(v) /\ Joined(v, ab, c)
          /\ \A j \in Range(ab) : j.kind \in HashKinds
          /\ \A j \in Range(c) : IsBarrier(j) /\ j.of = 1
  BY <1>1, TablesAndRow
<1>5. v \in Seq(Job) /\ Range(v) = Range(ab) \union Range(c)
  BY <1>4, Positions
<1>6. \A j \in Range(ab) : ~IsBarrier(j) /\ Phase(j) = 0
  <2>1. \A j \in Range(ab) : j \in Job /\ j.kind \in HashKinds /\ ~IsBarrier(j)
    BY <1>4, FiniteRange DEF HashKinds, IsBarrier
  <2> QED
    BY <2>1, PhaseIs
<1>7. PhasesApart(v)
  <2>1. PhasesApart(ab) /\ PhasesApart(c)
    BY <1>4, <1>6, OneKindApart DEF NoBarrier
  <2>2. 1 = 0 + 1 /\ 0 <= 0
    OBVIOUS
  <2>3. \A j \in Range(ab) : IF IsBarrier(j) THEN j.of <= 0 ELSE Phase(j) <= 0
    BY <1>6, <2>2
  <2>4. \A j \in Range(c) : IF IsBarrier(j) THEN j.of = 0 + 1 ELSE Phase(j) = 0
    BY <1>4, <2>2
  <2> QED
    BY <1>2, <1>4, <2>1, <2>3, <2>4, PhasesAppend
<1>8. \A j \in Range(v) : IF IsBarrier(j) THEN j.of = LastRow + 1
                          ELSE Phase(j) = LastRow /\ (j.kind \in HashKinds => LastRow' = 1)
  BY <1>2, <1>4, <1>5, <1>6
<1>9. Held' = Held
  <2>1. jobs' = jobs
    BY <1>4 DEF Adds
  <2> QED
    BY <1>3, <2>1 DEF Held, LastJob, Leaving
<1> QED
  BY <1>2, <1>3, <1>4, <1>7, <1>8, <1>9, AddsInPhase

(* The searches are scheduled, so that the second row is behind them.      *)
LEMMA LaterRowPhased ==
    ASSUME NEW cur \in 1..4, At(cur), Phased(cur), SearchesScheduled, ScheduleBarr \/ ScheduleResRow
    PROVE  Phased(cur)' /\ Grows
<1>1. TypeOK /\ Shape /\ Calling
  BY DEF At, JobsRight
<1>2. PICK r \in {2, 3} : /\ Schedule(Row(r)) /\ returning' = returning /\ pc # "idle"
                          /\ LastRow = r - 1 /\ LastRow' = r
                          /\ r = 2 => Pending(HashKinds) = {}
  <2>1. CASE ScheduleBarr
    <3>1. LastRow = 2 - 1 /\ LastRow' = 2 /\ Schedule(Row(2)) /\ Pending(HashKinds) = {}
          /\ returning' = returning /\ pc # "idle"
      BY <2>1 DEF ScheduleBarr, LastRow, count_genhashes, count_barr, SearchesScheduled
    <3> QED
      BY <3>1
  <2>2. CASE ScheduleResRow
    <3>1. LastRow = 3 - 1 /\ LastRow' = 3 /\ Schedule(Row(3)) /\ returning' = returning /\ pc # "idle"
      BY <2>2 DEF ScheduleResRow, LastRow, count_barr, scount_barr
    <3> QED
      BY <3>1
  <2> QED
    BY <2>1, <2>2
<1>3. batch \in 1..Batches /\ r \in Nat
  <2>1. r \in Nat
    BY <1>2
  <2>2. Batches \in Nat
    BY ShapeAssumption
  <2>3. batch \in 0..Batches
    BY <1>1 DEF TypeOK
  <2>4. batch # 0
    BY <1>1, <1>2 DEF Calling
  <2> QED
    BY <2>1, <2>2, <2>3, <2>4
<1> DEFINE v == Row(r)
<1>4. v \in Seq(Job) /\ \A j \in Range(v) : IsBarrier(j) /\ j.of = r
  BY <1>3, RowIs
<1>5. Adds(v)
  BY <1>2, SchedulingAdds
<1> HIDE DEF v
<1>6. PhasesApart(v)
  BY <1>4, OneKindApart
<1>7. LastRow' \in {LastRow, LastRow + 1} /\ r = LastRow + 1
      /\ (LastRow' = LastRow \/ LastRow # 1 \/ Pending(HashKinds) = {})
  BY <1>2
<1>8. returning' = returning /\ jobs' = jobs
  BY <1>2, <1>5 DEF Adds
<1>9. Held' = Held
  BY <1>8 DEF Held, LastJob, Leaving
<1> QED
  BY <1>4, <1>5, <1>6, <1>7, <1>8, <1>9, AddsInPhase

(* The jobs behind the second and the third row are scheduled.             *)
LEMMA ResultJobsPhased ==
    ASSUME NEW cur \in 1..4, At(cur), Phased(cur), ScheduleGenRes \/ ScheduleGenerateRes
    PROVE  Phased(cur)' /\ Grows
<1>1. TypeOK /\ Shape /\ Calling /\ MaxRes \in Nat /\ Lists \in Nat /\ Docs \in Nat
  BY ShapeAssumption DEF At, JobsRight
<1>2. PICK v \in Seq(Job) : /\ Schedule(v) /\ returning' = returning /\ LastRow' = LastRow
                            /\ \A j \in Range(v) : ~IsBarrier(j) /\ Phase(j) = LastRow /\ j.kind \notin HashKinds
  <2>1. CASE ScheduleGenRes
    <3>1. pc = "scheduleGenRes" /\ pc' = pc /\ returning' = returning /\ LastRow = 2 /\ LastRow' = 2
      BY <2>1 DEF ScheduleGenRes, barrVars, LastRow, count_barr
    <3>2. PICK n \in 0..MaxRes : Schedule(Jobs("GenRes", list, n))
      BY <2>1 DEF ScheduleGenRes
    <3>3. batch \in 1..Batches /\ list \in Nat /\ n \in Nat /\ "GenRes" \in Kinds
      BY <1>1, <3>1, ShapeAssumption DEF TypeOK, Calling, Kinds
    <3> DEFINE v == Jobs("GenRes", list, n)
    <3>4. v \in Seq(Job) /\ \A j \in Range(v) : j.kind = "GenRes"
      BY <3>3, JobsAre
    <3>5. Schedule(v)
      BY <3>2
    <3> HIDE DEF v
    <3>6. \A j \in Range(v) : j \in Job /\ ~IsBarrier(j) /\ j.kind \notin HashKinds
      BY <3>4, FiniteRange DEF IsBarrier, HashKinds
    <3>7. \A j \in Range(v) : Phase(j) = 2
      BY <3>4, <3>6, PhaseIs
    <3> QED
      BY <3>1, <3>4, <3>5, <3>6, <3>7
  <2>2. CASE ScheduleGenerateRes
    <3>1. pc = "JobGenerateRes" /\ pc' = "idle" /\ returning' = returning /\ LastRow = 3 /\ LastRow' = 3
      BY <2>2 DEF ScheduleGenerateRes, barrVars, LastRow, scount_barr
    <3>3. batch \in 1..Batches /\ 0 \in Nat /\ "GenerateRes" \in Kinds
      BY <1>1, <3>1, ShapeAssumption DEF TypeOK, Calling, Kinds
    <3> DEFINE v == Jobs("GenerateRes", 0, Docs)
    <3>4. v \in Seq(Job) /\ \A j \in Range(v) : j.kind = "GenerateRes"
      BY <1>1, <3>3, JobsAre
    <3>5. Schedule(v)
      BY <2>2 DEF ScheduleGenerateRes
    <3> HIDE DEF v
    <3>6. \A j \in Range(v) : j \in Job /\ ~IsBarrier(j) /\ j.kind \notin HashKinds
      BY <3>4, FiniteRange DEF IsBarrier, HashKinds
    <3>7. \A j \in Range(v) : Phase(j) = 3
      BY <3>4, <3>6, PhaseIs
    <3> QED
      BY <3>1, <3>4, <3>5, <3>6, <3>7
  <2> QED
    BY <2>1, <2>2
<1>3. Adds(v)
  BY <1>2, SchedulingAdds
<1>4. PhasesApart(v)
  BY <1>2, OneKindApart DEF NoBarrier
<1>5. returning' = returning /\ jobs' = jobs
  BY <1>2, <1>3 DEF Adds
<1>6. Held' = Held
  BY <1>5 DEF Held, LastJob, Leaving
<1> QED
  BY <1>2, <1>3, <1>4, <1>5, <1>6, AddsInPhase

(* A table is filled in front of the first row, where its searches belong. *)
LEMMA RunEffectPhased ==
    ASSUME NEW cur \in 1..4, At(cur), Phased(cur), NEW w \in Workers,
           RunGenHashes(w) \/ RunGenHashesToken(w) \/ RunGenerateRes(w)
    PROVE  Phased(cur)' /\ Grows
<1>1. TypeOK /\ Shape
  BY DEF At, JobsRight
<1>2. PICK j \in Running(w, HashKinds \union {"GenerateRes"}) :
          /\ Effect(w) /\ UNCHANGED <<runVars, barrVars>>
          /\ UNCHANGED poolVars \/ (j.kind \in HashKinds /\ \E n \in 0..MaxPrunes : Schedule(Prunes(j, n)))
  BY DEF RunGenHashes, RunGenHashesToken, RunGenerateRes, Running, HashKinds
<1>3. jobs[w] # <<>> /\ j = Head(jobs[w]) /\ j \in Job /\ ~IsBarrier(j) /\ w \notin returning
  BY <1>1, RunningFacts DEF HashKinds, IsBarrier
<1>4. PICK v \in Seq(Job) : Adds(v) /\ \A i \in Range(v) : i.kind = "MatchPrune" /\ j.kind \in HashKinds
  <2>1. CASE UNCHANGED poolVars
    <3>1. <<>> \in Seq(Job) /\ Range(<<>>) = {}
      BY DEF Range
    <3> QED
      BY <1>1, <2>1, <3>1, SchedulingAdds
  <2>2. ASSUME NEW n \in 0..MaxPrunes, Schedule(Prunes(j, n)), j.kind \in HashKinds
        PROVE  \E v \in Seq(Job) : Adds(v) /\ \A i \in Range(v) : i.kind = "MatchPrune" /\ j.kind \in HashKinds
    <3> DEFINE v == Prunes(j, n)
    <3>1. Schedule(v) /\ v \in Seq(Job) /\ \A i \in Range(v) : i.kind = "MatchPrune"
      BY <1>3, <2>2, PrunesAre
    <3> HIDE DEF v
    <3> QED
      BY <2>2, <3>1, SchedulingAdds
  <2> QED
    BY <1>2, <2>1, <2>2
<1>5. \A i \in Range(v) : i \in Job /\ ~IsBarrier(i) /\ i.kind \notin HashKinds /\ Phase(i) = 1 /\ LastRow = 1
  <2>1. \A i \in Range(v) : i \in Job /\ i.kind = "MatchPrune" /\ j.kind \in HashKinds
    BY <1>4, FiniteRange
  <2>2. \A i \in Range(v) : ~IsBarrier(i) /\ i.kind \notin HashKinds /\ LastRow = 1
    BY <1>3, <2>1, RunningPhase DEF IsBarrier, HashKinds
  <2> QED
    BY <2>1, <2>2, PhaseIs
<1>6. PhasesApart(v)
  BY <1>5, OneKindApart DEF NoBarrier
<1>7. returning' = returning \union {w} /\ jobs' = jobs /\ pc' = pc
  BY <1>2, <1>4 DEF Effect, runVars, Adds
<1>8. Held' = Held
  <2>1. \A u \in Workers : Leaving(u)' <=> Leaving(u)
    BY <1>3, <1>7 DEF Leaving
  <2> QED
    BY <1>7, <2>1 DEF Held, LastJob
<1>9. LastRow' = LastRow
  BY <1>7 DEF LastRow
<1> QED
  BY <1>4, <1>5, <1>6, <1>7, <1>8, <1>9, AddsInPhase

(* A job leaves the vector.                                                *)
LEMMA FinishPhased ==
    ASSUME NEW cur \in 1..4, At(cur), Phased(cur), NEW w \in Workers, RunPlain(w) \/ Return(w)
    PROVE  Phased(cur)'
<1>1. TypeOK /\ Shape /\ NoneLost /\ VectorsOnce /\ QueuePhased(cur) /\ VectorsPhased(cur) /\ Held' = Held
  BY FinishInvariant DEF At, JobsRight, Phased
<1> DEFINE s == jobs[w]
           t == Tail(s)
           h == Head(s)
           n == Len(s)
<1>2. /\ s # <<>> /\ jobs' = [jobs EXCEPT ![w] = t] /\ done' = done \union {h}
      /\ jobsQueue' = jobsQueue /\ scheduled' = scheduled /\ pc' = pc
  BY DEF RunPlain, Return, js!RunJob, js!Finish, js!queueVars, runVars
<1>3. returning' = returning \ {w}
  <2>1. RunPlain(w) => w \notin returning
    BY <1>1, RunningFacts DEF RunPlain
  <2> QED
    BY <2>1 DEF RunPlain, Return
<1>4. LastRow' = LastRow
  BY <1>2 DEF LastRow
<1>5. s \in Seq(scheduled)
  BY <1>1 DEF TypeOK
<1>6. /\ n \in Nat /\ n >= 1 /\ DOMAIN s = 1..n /\ h = s[1]
      /\ t \in Seq(scheduled) /\ Len(t) = n - 1
      /\ \A i \in 1..n - 1 : i + 1 \in 1..n /\ t[i] = s[i + 1]
  BY <1>2, <1>5, TailOf
<1>7. DOMAIN t = 1..n - 1 /\ 1 \in DOMAIN s
  BY <1>6
<1>8. jobs'[w] = t /\ \A u \in Workers : u # w => jobs'[u] = jobs[u]
  BY <1>1, <1>2 DEF TypeOK
<1>9. s = jobs[w]
  OBVIOUS
<1> HIDE DEF s, t, h, n
<1>10. \A i \in DOMAIN t : /\ i + 1 \in DOMAIN s /\ t[i] = s[i + 1] /\ i + 1 # 1 /\ i \in Int
  BY <1>6, <1>7
<1>11. NoneLost'
  <2> SUFFICES ASSUME NEW j \in scheduled, j \notin done, j # h
               PROVE  j \in Range(jobsQueue) \/ \E u \in Workers : j \in Range(jobs'[u])
    BY <1>2 DEF NoneLost
  <2>1. ASSUME NEW u \in Workers, j \in Range(jobs[u]) PROVE j \in Range(jobs'[u])
    <3>1. CASE u # w
      BY <1>8, <2>1, <3>1
    <3>2. CASE u = w
      <4>1. PICK i \in 1..n : j = s[i]
        BY <1>6, <1>9, <2>1, <3>2 DEF Range
      <4>2. i # 1
        BY <1>6, <4>1
      <4>3. i - 1 \in 1..n - 1 /\ (i - 1) + 1 = i
        BY <1>6, <4>2
      <4>4. i - 1 \in DOMAIN t /\ t[i - 1] = j
        BY <1>6, <1>7, <4>1, <4>3
      <4> QED
        BY <1>8, <3>2, <4>4 DEF Range
    <3> QED
      BY <3>1, <3>2
  <2> QED
    BY <1>1, <2>1 DEF NoneLost
<1>12. VectorsOnce'
  <2> SUFFICES ASSUME NEW x \in Workers, NEW i \in DOMAIN jobs'[x], Planned(jobs'[x][i])
               PROVE  /\ jobs'[x][i] \notin done'
                      /\ \A u \in Workers : \A l \in DOMAIN jobs'[u] : jobs'[u][l] = jobs'[x][i] => u = x /\ l = i
    BY DEF VectorsOnce
  <2> DEFINE Was(u, l) == IF u = w THEN l + 1 ELSE l
  <2>1. \A u \in Workers : \A l \in DOMAIN jobs'[u] :
            Was(u, l) \in DOMAIN jobs[u] /\ jobs'[u][l] = jobs[u][Was(u, l)] /\ (u = w => Was(u, l) # 1)
    BY <1>8, <1>9, <1>10
  <2>2. \A l \in DOMAIN jobs'[x] : Was(x, l) = Was(x, i) => l = i
    BY <1>8, <1>10
  <2> HIDE DEF Was
  <2>3. Planned(jobs[x][Was(x, i)])
    BY <2>1
  <2>4. jobs'[x][i] # h
    BY <1>1, <1>6, <1>7, <1>9, <2>1, <2>3 DEF VectorsOnce
  <2>5. jobs'[x][i] \notin done'
    BY <1>1, <1>2, <2>1, <2>3, <2>4 DEF VectorsOnce
  <2>6. ASSUME NEW u \in Workers, NEW l \in DOMAIN jobs'[u], jobs'[u][l] = jobs'[x][i] PROVE u = x /\ l = i
    <3>1. u = x /\ Was(u, l) = Was(x, i)
      BY <1>1, <2>1, <2>3, <2>6 DEF VectorsOnce
    <3> QED
      BY <2>2, <2>6, <3>1
  <2> QED
    BY <2>5, <2>6
<1>13. QueuePhased(cur)'
  BY <1>1, <1>2, <1>4 DEF QueuePhased
<1>14. VectorsPhased(cur)'
  <2> SUFFICES ASSUME NEW u \in Workers, NEW i \in DOMAIN jobs'[u], ~IsBarrier(jobs'[u][i]),
                      ~(i = 1 /\ u \in returning')
               PROVE  /\ Phase(jobs'[u][i]) = cur - 1
                      /\ jobs'[u][i].kind \in HashKinds => LastRow = 1
    BY <1>4 DEF VectorsPhased
  <2>1. CASE u = w
    <3>1. i + 1 \in DOMAIN jobs[w] /\ jobs'[u][i] = jobs[w][i + 1] /\ i + 1 # 1
      BY <1>8, <1>9, <1>10, <2>1
    <3> DEFINE l == i + 1
    <3>2. l \in DOMAIN jobs[w] /\ jobs'[u][i] = jobs[w][l] /\ l # 1
      BY <3>1
    <3> HIDE DEF l
    <3> QED
      BY <1>1, <3>2 DEF VectorsPhased
  <2>2. CASE u # w
    BY <1>1, <1>3, <1>8, <2>2 DEF VectorsPhased
  <2> QED
    BY <2>1, <2>2
<1> QED
  BY <1>11, <1>12, <1>13, <1>14 DEF Phased

(* All workers are at the row: no job in front of it is left.              *)
LEMMA BarrierOpenPhased ==
    ASSUME NEW cur \in 1..4, At(cur), Phased(cur), NEW w \in Workers, BarrierOpen(w)
    PROVE  Phased(cur + 1)' /\ Grows
<1>1. TypeOK /\ Shape /\ NoneLost /\ VectorsOnce /\ QueuePhased(cur) /\ VectorsPhased(cur)
  BY DEF At, JobsRight, Phased
<1>2. /\ Held = Workers /\ Held' = {} /\ Workers # {}
      /\ \A u \in Workers : jobs[u] # <<>> /\ IsBarrier(Head(jobs[u]))
  BY BarrierOpenInvariant, PoolAssumption
<1>3. /\ jobsQueue' = jobsQueue /\ jobs' = jobs /\ scheduled' = scheduled /\ done' = done /\ pc' = pc
  BY DEF BarrierOpen, poolVars, runVars
<1>4. LastRow' = LastRow
  BY <1>3 DEF LastRow
<1> DEFINE next == cur + 1
<1>5. ASSUME NEW u \in Workers, NEW i \in DOMAIN jobs[u] PROVE IsBarrier(jobs[u][i])
  <2>1. jobs[u] \in Seq(scheduled) /\ Len(jobs[u]) = 1 /\ Head(jobs[u]) = jobs[u][1]
    BY <1>1, <1>2, HeadOf DEF TypeOK
  <2>2. i = 1
    BY <2>1
  <2> QED
    BY <1>2, <2>1, <2>2
<1>6. \A j \in Range(jobsQueue) : ~IsBarrier(j) =>
          /\ next <= Phase(j) + 1 /\ Phase(j) <= LastRow
          /\ j.kind \in HashKinds => LastRow = 1
  <2> SUFFICES ASSUME NEW j \in Range(jobsQueue), ~IsBarrier(j)
               PROVE  /\ next <= Phase(j) + 1 /\ Phase(j) <= LastRow
                      /\ j.kind \in HashKinds => LastRow = 1
    OBVIOUS
  <2>1. /\ cur <= Phase(j) + 1 /\ Phase(j) <= LastRow /\ (cur = Phase(j) + 1 => Held = {})
        /\ j.kind \in HashKinds => LastRow = 1
    BY <1>1 DEF QueuePhased
  <2>2. Phase(j) \in 0..3
    BY <1>1, Facts, FiniteRange, PhaseIs
  <2>3. next <= Phase(j) + 1
    BY <1>2, <2>1, <2>2
  <2> QED
    BY <2>1, <2>3
<1> HIDE DEF next
<1>7. NoneLost' /\ VectorsOnce'
  BY <1>1, <1>3 DEF NoneLost, VectorsOnce
<1>8. QueuePhased(next)'
  BY <1>1, <1>2, <1>3, <1>4, <1>6 DEF QueuePhased
<1>9. VectorsPhased(next)'
  BY <1>3, <1>5 DEF VectorsPhased
<1>10. Phased(next)'
  BY <1>7, <1>8, <1>9 DEF Phased
<1>11. Grows
  BY <1>3 DEF Grows, BarrierOpen
<1> QED
  BY <1>10, <1>11 DEF next

(* As long as a barrier of the current row is in the queue, a fetch takes  *)
(* no job from behind it.                                                  *)
LEMMA FetchTakePhased ==
    ASSUME NEW cur \in 1..4, At(cur), Phased(cur), NEW w \in Workers, js!FetchTake(w),
           UNCHANGED <<runVars, barrVars, returning>>
    PROVE  Phased(cur)'
<1>1. /\ TypeOK /\ Shape /\ PlannedOnce /\ AtRow(cur) /\ InOrder(cur)
      /\ NoneLost /\ VectorsOnce /\ QueuePhased(cur) /\ VectorsPhased(cur)
  BY DEF At, JobsRight, AtRow, Phased
<1> DEFINE q == jobsQueue
<1>2. w \notin Held
  BY FetchTakeInvariant
<1>k. PICK k \in 1..Len(q) : \E h, t :
          /\ Cut(q, k, h, t)
          /\ \A i \in 1..k - 1 : ~IsBarrier(q[i])
          /\ jobsQueue' = t /\ jobs' = [jobs EXCEPT ![w] = h]
          /\ Held' = IF IsBarrier(q[k]) THEN Held \union {w} ELSE Held
  BY FetchTakeInvariant
<1>3. PICK h, t :
          /\ Cut(q, k, h, t)
          /\ \A i \in 1..k - 1 : ~IsBarrier(q[i])
          /\ jobsQueue' = t /\ jobs' = [jobs EXCEPT ![w] = h]
          /\ Held' = IF IsBarrier(q[k]) THEN Held \union {w} ELSE Held
  BY <1>k
<1>4. /\ jobs[w] = <<>> /\ scheduled' = scheduled /\ done' = done /\ returning' = returning /\ pc' = pc
  BY DEF js!FetchTake, js!Fetching, runVars
<1>5. LastRow' = LastRow /\ LastRow \in 0..3
  BY <1>1, <1>4, Facts DEF LastRow
<1>6. q \in Seq(Job) /\ Range(q) \subseteq Job
  BY <1>1, Facts, FiniteRange
<1>7. /\ Len(q) \in Nat /\ k \in Nat /\ k >= 1 /\ k <= Len(q) /\ DOMAIN q = 1..Len(q)
      /\ h \in Seq(Job) /\ Len(h) = k /\ \A i \in 1..k : h[i] = q[i]
  BY <1>3, <1>6, CutPositions
<1>8. /\ Range(h) \subseteq Range(q) /\ Range(t) \subseteq Range(q)
      /\ \A j \in Range(q) : j \in Range(h) \/ j \in Range(t)
  <2>1. RowAfterRow(q) /\ PlannedApart(q)
    BY <1>1 DEF InOrder, PlannedOnce
  <2> QED
    BY <1>3, <1>6, <2>1, FetchJobs
<1>9. /\ PhasesApart(t)
      /\ \A j \in Range(h) : ~IsBarrier(j) =>
            \A b \in Range(q) : IsBarrier(b) => ~(b.of <= Phase(j))
      /\ \A j \in Range(t) : ~IsBarrier(j) /\ IsBarrier(q[k]) => q[k].of <= Phase(j)
  BY <1>1, <1>3, <1>6, PhasesFetch DEF QueuePhased
<1>10. jobs'[w] = h /\ \A u \in Workers : u # w => jobs'[u] = jobs[u]
  BY <1>1, <1>3 DEF TypeOK
<1>11. \A i \in DOMAIN h : i \in 1..k /\ i \in DOMAIN q /\ h[i] = q[i] /\ h[i] \in Range(h) /\ h[i] \in Range(q)
  <2>1. DOMAIN h = 1..k
    BY <1>7
  <2>2. \A i \in 1..k : i \in 1..Len(q)
    BY <1>7
  <2> QED
    BY <1>7, <2>1, <2>2 DEF Range
<1>12. q[k] \in Range(q)
  BY <1>7 DEF Range
<1>0. q = jobsQueue
  OBVIOUS
<1> HIDE DEF q
<1>13. NoneLost'
  <2> SUFFICES ASSUME NEW j \in scheduled, j \notin done
               PROVE  j \in Range(t) \/ \E u \in Workers : j \in Range(jobs'[u])
    BY <1>3, <1>4 DEF NoneLost
  <2>1. CASE j \in Range(q)
    BY <1>8, <1>10, <2>1
  <2>2. ASSUME NEW u \in Workers, j \in Range(jobs[u]) PROVE j \in Range(jobs'[u])
    <3>1. u # w
      BY <1>4, <2>2 DEF Range
    <3> QED
      BY <1>10, <2>2, <3>1
  <2> QED
    BY <1>0, <1>1, <2>1, <2>2 DEF NoneLost
<1>14. VectorsOnce'
  <2> SUFFICES ASSUME NEW x \in Workers, NEW i \in DOMAIN jobs'[x], Planned(jobs'[x][i])
               PROVE  /\ jobs'[x][i] \notin done
                      /\ \A u \in Workers : \A l \in DOMAIN jobs'[u] : jobs'[u][l] = jobs'[x][i] => u = x /\ l = i
    BY <1>4 DEF VectorsOnce
  <2>1. \A j \in Range(q) : Planned(j) => j \notin done /\ \A u \in Workers : j \notin Range(jobs[u])
    BY <1>0, <1>1 DEF PlannedOnce
  <2>2. CASE x = w
    <3>1. i \in DOMAIN h /\ jobs'[x][i] = h[i] /\ i \in DOMAIN q /\ h[i] = q[i] /\ h[i] \in Range(q)
      BY <1>10, <1>11, <2>2
    <3>2. h[i] \notin done /\ \A u \in Workers : h[i] \notin Range(jobs[u])
      BY <2>1, <3>1
    <3>3. \A l \in DOMAIN h : h[l] = h[i] => l = i
      BY <1>0, <1>1, <1>11, <3>1 DEF PlannedOnce, PlannedApart
    <3>4. \A u \in Workers : u # w => \A l \in DOMAIN jobs'[u] : jobs'[u][l] # h[i]
      BY <1>10, <3>2 DEF Range
    <3> QED
      BY <1>10, <2>2, <3>1, <3>2, <3>3, <3>4
  <2>3. CASE x # w
    <3>1. jobs'[x] = jobs[x] /\ i \in DOMAIN jobs[x] /\ jobs[x][i] \in Range(jobs[x])
      BY <1>10, <2>3 DEF Range
    <3>2. \A l \in DOMAIN h : h[l] # jobs[x][i]
      BY <1>11, <2>1, <3>1
    <3>3. /\ jobs[x][i] \notin done
          /\ \A u \in Workers : \A l \in DOMAIN jobs[u] : jobs[u][l] = jobs[x][i] => u = x /\ l = i
      BY <1>1, <3>1 DEF VectorsOnce
    <3> QED
      BY <1>10, <3>1, <3>2, <3>3
  <2> QED
    BY <2>2, <2>3
<1>15. ASSUME NEW j \in Range(q), ~IsBarrier(j)
       PROVE  /\ cur <= Phase(j) + 1 /\ Phase(j) <= LastRow /\ Phase(j) \in 0..3
              /\ cur = Phase(j) + 1 => Held = {}
              /\ j.kind \in HashKinds => LastRow = 1
  BY <1>0, <1>1, <1>6, <1>15, PhaseIs DEF QueuePhased
<1>16. QueuePhased(cur)'
  <2> SUFFICES ASSUME NEW j \in Range(t), ~IsBarrier(j) PROVE cur = Phase(j) + 1 => Held' = {}
    BY <1>3, <1>5, <1>8, <1>9, <1>15 DEF QueuePhased
  <2>1. CASE ~IsBarrier(q[k])
    BY <1>3, <1>8, <1>15, <2>1
  <2>2. CASE IsBarrier(q[k])
    <3>1. q[k].of <= Phase(j) /\ Phase(j) \in 0..3
      BY <1>8, <1>9, <1>15, <2>2
    <3>2. q[k].of \in cur..LastRow
      BY <1>0, <1>1, <1>12, <2>2 DEF InOrder
    <3>3. cur # Phase(j) + 1
      BY <1>5, <3>1, <3>2
    <3> QED
      BY <3>3
  <2> QED
    BY <2>1, <2>2
<1>17. ASSUME NEW j \in Range(h), ~IsBarrier(j)
       PROVE  Phase(j) = cur - 1 /\ (j.kind \in HashKinds => LastRow = 1)
  <2>1. /\ cur <= Phase(j) + 1 /\ Phase(j) <= LastRow /\ Phase(j) \in 0..3
        /\ j.kind \in HashKinds => LastRow = 1
    BY <1>8, <1>15, <1>17
  <2>2. ASSUME cur <= Phase(j) PROVE FALSE
    <3>1. cur <= LastRow
      BY <1>5, <2>1, <2>2
    <3>2. PICK b \in Range(q) : IsBarrier(b) /\ b.of = cur
      BY <1>0, <1>1, <1>2, <3>1, RowInQueue DEF BarriersOf
    <3> QED
      BY <1>9, <1>17, <2>2, <3>2
  <2> QED
    BY <2>1, <2>2
<1>18. VectorsPhased(cur)'
  <2> SUFFICES ASSUME NEW u \in Workers, NEW i \in DOMAIN jobs'[u], ~IsBarrier(jobs'[u][i]),
                      ~(i = 1 /\ u \in returning)
               PROVE  /\ Phase(jobs'[u][i]) = cur - 1
                      /\ jobs'[u][i].kind \in HashKinds => LastRow = 1
    BY <1>4, <1>5 DEF VectorsPhased
  <2>1. CASE u = w
    BY <1>10, <1>11, <1>17, <2>1
  <2>2. CASE u # w
    BY <1>1, <1>10, <2>2 DEF VectorsPhased
  <2> QED
    BY <2>1, <2>2
<1> QED
  BY <1>13, <1>14, <1>16, <1>18 DEF Phased

(* The other steps: a job ends or jobs are fetched.                        *)
Finishes(w) == RunPlain(w) \/ Return(w)
Fetches(w) == js!FetchTake(w) /\ UNCHANGED <<runVars, barrVars, returning>>

(* Every step keeps the phases, if the searches are queued in time.        *)
LEMMA NextPhased ==
    ASSUME PInv, SearchesScheduled, [Next]_vars
    PROVE  /\ PInv'
           /\ Grows \/ \E w \in Workers : Finishes(w) \/ Fetches(w)
<1> DEFINE Right == \E c \in 1..4 : At(c)' /\ Phased(c)'
           Step == Grows \/ \E w \in Workers : Finishes(w) \/ Fetches(w)
<1> SUFFICES Right /\ Step
  BY DEF PInv
<1> PICK cur \in 1..4 : At(cur) /\ Phased(cur)
  BY DEF PInv
<1>0. TypeOK /\ Shape /\ Calling
  BY DEF At, JobsRight
<1>1. ASSUME UNCHANGED <<jobsQueue, jobs, scheduled, done, returning>>, LastRow' = LastRow
      PROVE  Phased(cur)' /\ Grows
  BY <1>1, PhasesStay
<1>2. ASSUME pc' = pc PROVE LastRow' = LastRow
  BY <1>2 DEF LastRow
<1>3. CASE StartRun
  <2>1. At(1)' /\ Phased(1)' /\ Grows /\ 1 \in 1..4
    BY <1>3, StartRunInvariant, StartRunPhased
  <2> QED
    BY <2>1
<1>4. CASE JobRun
  <2>1. CASE SplitGenHashes
    BY <2>1, SplitGenHashesInvariant, SplitGenHashesPhased
  <2>2. CASE CallNoJobLeft
    <3>1. At(cur)'
      BY <2>2, CalmInvariant DEF CallNoJobLeft, js!CallNoJobLeft, js!queueVars, js!runVars
    <3>2. Phased(cur)' /\ Grows
      BY <1>1, <1>2, <2>2 DEF CallNoJobLeft, js!CallNoJobLeft, js!queueVars, js!runVars, runVars
    <3> QED
      BY <3>1, <3>2
  <2>3. CASE WaitNoJobLeft
    <3>1. At(cur)'
      BY <2>3, CalmInvariant DEF WaitNoJobLeft, js!WaitNoJobLeft, js!runVars
    <3>2. Phased(cur)' /\ Grows
      BY <1>1, <1>2, <2>3 DEF WaitNoJobLeft, js!WaitNoJobLeft, js!runVars, runVars
    <3> QED
      BY <3>1, <3>2
  <2>4. CASE ReturnNoJobLeft
    <3>1. At(cur)'
      BY <2>4, ReturnNoJobLeftInvariant
    <3>2. LastRow' = LastRow
      BY <1>0, <2>4 DEF ReturnNoJobLeft, js!ReturnNoJobLeft, Calling, LastRow
    <3>3. Phased(cur)' /\ Grows
      BY <1>1, <2>4, <3>2 DEF ReturnNoJobLeft, js!ReturnNoJobLeft, js!queueVars, js!runVars
    <3> QED
      BY <3>1, <3>3
  <2>5. CASE ScheduleBarr
    BY <2>5, ScheduleBarrInvariant, LaterRowPhased
  <2>6. CASE ScheduleGenRes
    BY <2>6, ScheduleGenResInvariant, ResultJobsPhased
  <2>7. CASE ScheduleResRow
    BY <2>7, ScheduleResRowInvariant, LaterRowPhased
  <2>8. CASE ScheduleGenerateRes
    BY <2>8, ScheduleGenerateResInvariant, ResultJobsPhased
  <2> QED
    BY <1>4, <2>1, <2>2, <2>3, <2>4, <2>5, <2>6, <2>7, <2>8 DEF JobRun
<1>5. ASSUME NEW w \in Workers, RunHead(w) PROVE Right /\ Step
  <2>1. CASE RunGenHashes(w) \/ RunGenHashesToken(w) \/ RunGenerateRes(w)
    BY <2>1, RunEffectInvariant, RunEffectPhased
  <2>2. CASE RunPlain(w) \/ Return(w)
    BY <2>2, FinishInvariant, FinishPhased DEF Finishes
  <2>3. CASE BarrierWait(w)
    <3>1. At(cur)'
      BY <2>3, BarrierWaitInvariant
    <3>2. Phased(cur)' /\ Grows
      BY <1>1, <1>2, <2>3 DEF BarrierWait, poolVars, runVars
    <3> QED
      BY <3>1, <3>2
  <2>4. CASE BarrierOpen(w)
    <3>1. cur + 1 \in 1..4 /\ At(cur + 1)' /\ Phased(cur + 1)' /\ Grows
      BY <2>4, BarrierOpenInvariant, BarrierOpenPhased
    <3> DEFINE next == cur + 1
    <3>2. next \in 1..4 /\ At(next)' /\ Phased(next)' /\ Grows
      BY <3>1
    <3> HIDE DEF next
    <3> QED
      BY <3>2
  <2> QED
    BY <1>5, <2>1, <2>2, <2>3, <2>4 DEF RunHead
<1>6. ASSUME NEW w \in Workers, Fetch(w) PROVE Right /\ Step
  <2>1. CASE js!FetchWait(w)
    <3>1. At(cur)'
      BY <1>6, <2>1, CalmInvariant DEF Fetch, js!FetchWait, js!runVars
    <3>2. Phased(cur)' /\ Grows
      BY <1>1, <1>2, <1>6, <2>1 DEF Fetch, js!FetchWait, js!runVars, runVars
    <3> QED
      BY <3>1, <3>2
  <2>2. CASE js!FetchTake(w)
    BY <1>6, <2>2, FetchTakeInvariant, FetchTakePhased DEF Fetch, Fetches
  <2> QED
    BY <1>6, <2>1, <2>2 DEF Fetch
<1>7. CASE SpuriousWakeup
  <2>1. At(cur)'
    BY <1>7, CalmInvariant DEF SpuriousWakeup, js!SpuriousWakeup, js!runVars
  <2>2. Phased(cur)' /\ Grows
    BY <1>1, <1>2, <1>7 DEF SpuriousWakeup, js!SpuriousWakeup, js!runVars, runVars
  <2> QED
    BY <2>1, <2>2
<1>8. CASE UNCHANGED vars
  <2>1. At(cur)'
    BY <1>8, CalmInvariant DEF vars, poolVars
  <2>2. Phased(cur)' /\ Grows
    BY <1>1, <1>2, <1>8 DEF vars, poolVars, runVars
  <2> QED
    BY <2>1, <2>2
<1> QED
  BY <1>3, <1>4, <1>5, <1>6, <1>7, <1>8 DEF Next, Terminated

(* A table that was fetched together with a barrier has a search behind    *)
(* the row, so that the queue is not empty before it has run.              *)
SearchBehind ==
    \A w \in Workers : \A i \in DOMAIN jobs[w] :
        /\ jobs[w][i].kind \in HashKinds
        /\ ~(i = 1 /\ w \in returning)
        /\ IsBarrier(LastJob(w))
        => \E s \in Range(jobsQueue) : s.kind = "MatchPrune"

(* The inductive invariant of the phases, on condition TablesOneByOne.     *)
TInv == PInv /\ SearchesScheduled /\ SearchBehind

(* While a table is in a vector the searches are behind the first row, and *)
(* a worker that fetches is not past it.                                   *)
LEMMA SearchesStay ==
    ASSUME NEW cur \in 1..4, At(cur), Phased(cur), NEW w \in Workers, Fetches(w),
           NEW u \in Workers, NEW i \in DOMAIN jobs'[u], jobs'[u][i].kind \in HashKinds,
           ~(i = 1 /\ u \in returning'),
           NEW s \in Range(jobsQueue), s.kind = "MatchPrune"
    PROVE  s \in Range(jobsQueue')
<1>1. /\ TypeOK /\ Shape /\ PlannedOnce /\ AtRow(cur) /\ InOrder(cur) /\ QueuePhased(cur) /\ VectorsPhased(cur)
      /\ VectorsPhased(cur)'
  BY FetchTakePhased DEF At, JobsRight, AtRow, Phased, Fetches
<1>2. w \notin Held
  BY FetchTakeInvariant DEF Fetches
<1>k. PICK k \in 1..Len(jobsQueue) : \E h, t :
          /\ Cut(jobsQueue, k, h, t)
          /\ \A l \in 1..k - 1 : ~IsBarrier(jobsQueue[l])
          /\ jobsQueue' = t /\ jobs' = [jobs EXCEPT ![w] = h]
  BY FetchTakeInvariant DEF Fetches
<1>3. PICK h, t :
          /\ Cut(jobsQueue, k, h, t)
          /\ \A l \in 1..k - 1 : ~IsBarrier(jobsQueue[l])
          /\ jobsQueue' = t /\ jobs' = [jobs EXCEPT ![w] = h]
  BY <1>k
<1>4. jobsQueue \in Seq(Job) /\ Range(jobsQueue) \subseteq Job /\ LastRow \in 0..3 /\ LastRow' = LastRow
  BY <1>1, Facts, FiniteRange DEF Fetches, runVars, LastRow
<1>5. \A j \in Range(jobsQueue) : j \in Range(h) \/ j \in Range(t)
  <2>1. RowAfterRow(jobsQueue) /\ PlannedApart(jobsQueue)
    BY <1>1 DEF InOrder, PlannedOnce
  <2> QED
    BY <1>3, <1>4, <2>1, FetchJobs
<1>6. cur = 1 /\ LastRow = 1
  <2>1. jobs'[u][i] \in Job /\ ~IsBarrier(jobs'[u][i])
    <3>1. TypeOK'
      BY FetchTakeInvariant DEF At, JobsRight, Fetches
    <3> QED
      BY <3>1 DEF TypeOK, IsBarrier, HashKinds
  <2>2. Phase(jobs'[u][i]) = 0
    BY <2>1, PhaseIs
  <2>3. Phase(jobs'[u][i]) = cur - 1 /\ LastRow = 1
    BY <1>1, <1>4, <2>1 DEF VectorsPhased
  <2> QED
    BY <2>2, <2>3
<1>7. PICK b \in Range(jobsQueue) : IsBarrier(b) /\ b.of = 1
  <2>1. cur <= LastRow
    BY <1>6
  <2> QED
    BY <1>1, <1>2, <1>6, <2>1, RowInQueue DEF BarriersOf
<1>8. ~IsBarrier(s) /\ Phase(s) = 1
  BY <1>4, PhaseIs DEF IsBarrier
<1>9. \A j \in Range(h) : ~IsBarrier(j) => ~(b.of <= Phase(j))
  BY <1>1, <1>3, <1>4, <1>7, PhasesFetch DEF QueuePhased
<1>10. s \notin Range(h)
  BY <1>7, <1>8, <1>9
<1> QED
  BY <1>3, <1>5, <1>10

(* One job weighs something, so that a fetch for the weight 1 takes one.   *)
LEMMA OneJobWeighs ==
    ASSUME NEW j \in Job, NEW q, q = <<j>>
    PROVE  js!SumWeights(q) \in Nat /\ js!SumWeights(q) >= 1
<1> DEFINE wt == js!WeightOf(j)
           body(f) == [n \in 0..1 |-> IF n = 0 THEN 0 ELSE f[n - 1] + js!WeightOf(q[n])]
           sum == CHOOSE f : f = body(f)
<1>1. wt \in Nat /\ wt >= 1 /\ Len(q) = 1 /\ q[1] = j
  BY PoolAssumption DEF js!WeightOf, Job
<1> HIDE DEF wt
<1>2. \E f : f = body(f)
  <2> DEFINE g == [n \in 0..1 |-> IF n = 0 THEN 0 ELSE wt]
  <2>1. \A n \in 0..1 : n # 0 => n = 1 /\ n - 1 = 0
    OBVIOUS
  <2>2. g[0] = 0
    OBVIOUS
  <2>3. \A n \in 0..1 : g[n] = IF n = 0 THEN 0 ELSE g[n - 1] + js!WeightOf(q[n])
    BY <1>1, <2>1, <2>2 DEF wt
  <2>4. g = [n \in 0..1 |-> g[n]]
    OBVIOUS
  <2> HIDE DEF g
  <2>5. g = body(g)
    BY <2>3, <2>4
  <2> QED
    BY <2>5
<1>3. sum = body(sum)
  <2> HIDE DEF body
  <2> QED
    BY <1>2
<1>4. js!SumWeights(q) = sum[1]
  BY <1>1 DEF js!SumWeights
<1> HIDE DEF sum
<1>5. \A n \in 0..1 : sum[n] = IF n = 0 THEN 0 ELSE sum[n - 1] + js!WeightOf(q[n])
  BY <1>3
<1>6. sum[0] = 0 /\ sum[1] = sum[0] + js!WeightOf(q[1])
  <2>1. 0 \in 0..1 /\ 1 \in 0..1 /\ 1 - 1 = 0
    OBVIOUS
  <2> QED
    BY <1>5, <2>1
<1> QED
  BY <1>1, <1>4, <1>6 DEF wt

(* Where a table shares its vector with a barrier, a search is queued.     *)
LEMMA FetchSearchBehind ==
    ASSUME NEW cur \in 1..4, At(cur), Phased(cur), SearchBehind, TablesOneByOne,
           NEW w \in Workers, Fetches(w)
    PROVE  SearchBehind'
<1>1. TypeOK /\ Shape
  BY DEF At, JobsRight
<1>2. PICK k \in 1..availableWork :
          /\ \A i \in 1..(k - 1) : ~js!EndsFetch(i)
          /\ jobs' = [jobs EXCEPT ![w] = SubSeq(jobsQueue, 1, k)]
  BY DEF Fetches, js!FetchTake
<1>3. jobsQueue \in Seq(Job) /\ availableWork = Len(jobsQueue) /\ k \in 1..Len(jobsQueue)
  BY <1>1, Facts DEF Shape
<1> DEFINE h == SubSeq(jobsQueue, 1, k)
<1>4. jobs'[w] = h /\ \A u \in Workers : u # w => jobs'[u] = jobs[u]
  BY <1>1, <1>2 DEF TypeOK
<1> HIDE DEF h
<1>5. /\ k \in Nat /\ k >= 1 /\ k <= Len(jobsQueue) /\ DOMAIN jobsQueue = 1..Len(jobsQueue)
      /\ Len(jobsQueue) \in Nat
      /\ h \in Seq(Job) /\ Len(h) = k /\ \A i \in 1..k : h[i] = jobsQueue[i]
  <2> DEFINE q == jobsQueue
             t == SubSeq(q, k + 1, Len(q))
  <2>1. q \in Seq(Job) /\ k \in 1..Len(q) /\ Cut(q, k, h, t)
    BY <1>3 DEF Cut, h
  <2> HIDE DEF q, t
  <2>2. /\ k \in Nat /\ k >= 1 /\ k <= Len(q) /\ DOMAIN q = 1..Len(q)
        /\ Len(q) \in Nat
        /\ h \in Seq(Job) /\ Len(h) = k /\ \A i \in 1..k : h[i] = q[i]
    BY <2>1, CutPositions
  <2> QED
    BY <2>2 DEF q
<1>6. returning' = returning
  BY DEF Fetches
<1> SUFFICES ASSUME NEW u \in Workers, NEW i \in DOMAIN jobs'[u], jobs'[u][i].kind \in HashKinds,
                    ~(i = 1 /\ u \in returning'), IsBarrier(LastJob(u)')
             PROVE  \E s \in Range(jobsQueue) : s.kind = "MatchPrune"
  <2>1. ASSUME NEW u \in Workers, NEW i \in DOMAIN jobs'[u], jobs'[u][i].kind \in HashKinds,
               ~(i = 1 /\ u \in returning'), NEW s \in Range(jobsQueue), s.kind = "MatchPrune"
        PROVE  s \in Range(jobsQueue')
    BY <2>1, SearchesStay
  <2> QED
    BY <2>1 DEF SearchBehind
<1>7. CASE u # w
  <2>1. jobs'[u] = jobs[u] /\ IsBarrier(LastJob(u))
    BY <1>4, <1>7 DEF LastJob
  <2> QED
    BY <1>6, <2>1 DEF SearchBehind
<1>8. CASE u = w
  <2>1. i \in 1..k /\ h[i].kind \in HashKinds /\ IsBarrier(h[k])
    BY <1>4, <1>5, <1>8 DEF LastJob
  <2>2. k # 1
    BY <2>1 DEF IsBarrier, HashKinds
  <2>3. 1 \in 1..k - 1 /\ 1 \in 1..Len(jobsQueue) /\ i \in 1..Len(jobsQueue)
    BY <1>5, <2>1, <2>2
  <2>4. ~js!EndsFetch(1)
    BY <1>2, <2>3
  <2> DEFINE one == SubSeq(jobsQueue, 1, 1)
  <2>5. jobsQueue[1] \in Job /\ one = <<jobsQueue[1]>>
    <3>1. jobsQueue[1] \in Job
      BY <1>3, <2>3
    <3>2. one \in Seq(Job) /\ Len(one) = 1 /\ one[1] = jobsQueue[1]
      BY <1>3, <2>3
    <3> HIDE DEF one
    <3> QED
      BY <3>1, <3>2
  <2>6. ~(js!SumWeights(one) >= js!MaxWeight)
    BY <2>4 DEF js!EndsFetch
  <2> HIDE DEF one
  <2>7. js!SumWeights(one) \in Nat /\ js!SumWeights(one) >= 1
    BY <2>5, OneJobWeighs
  <2>8. js!MaxWeight # 1
    BY <2>6, <2>7
  <2>9. jobsQueue[i] \in Range(jobsQueue) /\ jobsQueue[i].kind \in HashKinds
    BY <1>5, <2>1, <2>3 DEF Range
  <2> QED
    BY <2>8, <2>9 DEF TablesOneByOne
<1> QED
  BY <1>7, <1>8

(* A job leaves the vector.                                                *)
LEMMA FinishSearchBehind ==
    ASSUME TypeOK, Shape, SearchBehind, NEW w \in Workers, Finishes(w)
    PROVE  SearchBehind'
<1> DEFINE s == jobs[w]
           t == Tail(s)
           n == Len(s)
<1>1. s # <<>> /\ jobs' = [jobs EXCEPT ![w] = t] /\ jobsQueue' = jobsQueue
  BY DEF Finishes, RunPlain, Return, js!RunJob, js!Finish, js!queueVars
<1>2. returning \ {w} \subseteq returning'
  BY DEF Finishes, RunPlain, Return
<1>3. jobs'[w] = t /\ \A u \in Workers : u # w => jobs'[u] = jobs[u]
  BY <1>1 DEF TypeOK
<1>4. t # <<>> => t[Len(t)] = LastJob(w)
  BY <1>1, WithoutHead
<1>5. s \in Seq(scheduled)
  BY DEF TypeOK
<1>6. /\ n \in Nat /\ DOMAIN s = 1..n /\ t \in Seq(scheduled) /\ Len(t) = n - 1
      /\ \A i \in 1..n - 1 : i + 1 \in 1..n /\ t[i] = s[i + 1]
  BY <1>1, <1>5, TailOf
<1>7. s = jobs[w]
  OBVIOUS
<1> HIDE DEF s, t, n
<1> SUFFICES ASSUME NEW u \in Workers, NEW i \in DOMAIN jobs'[u], jobs'[u][i].kind \in HashKinds,
                    ~(i = 1 /\ u \in returning'), IsBarrier(LastJob(u)')
             PROVE  \E x \in Range(jobsQueue) : x.kind = "MatchPrune"
  BY <1>1 DEF SearchBehind
<1>8. CASE u # w
  <2>1. jobs'[u] = jobs[u] /\ IsBarrier(LastJob(u)) /\ ~(i = 1 /\ u \in returning)
    BY <1>2, <1>3, <1>8 DEF LastJob
  <2> QED
    BY <2>1 DEF SearchBehind
<1>9. CASE u = w
  <2>1. i \in 1..n - 1 /\ t[i].kind \in HashKinds
    BY <1>3, <1>6, <1>9
  <2> DEFINE l == i + 1
  <2>2. l \in DOMAIN jobs[w] /\ jobs[w][l].kind \in HashKinds /\ l # 1
    BY <1>6, <1>7, <2>1
  <2>3. t # <<>>
    BY <1>6, <2>1
  <2>4. IsBarrier(LastJob(w))
    BY <1>3, <1>4, <1>9, <2>3 DEF LastJob
  <2> HIDE DEF l
  <2> QED
    BY <2>2, <2>4 DEF SearchBehind
<1> QED
  BY <1>8, <1>9

(* What is pending was pending, unless a table is scheduled.               *)
LEMMA PendingShrinks ==
    ASSUME TypeOK, Shape, LastRow # 0,
           Grows \/ \E w \in Workers : Finishes(w) \/ Fetches(w)
    PROVE  \A p : p \in Pending(HashKinds)' => p \in Pending(HashKinds)
<1> SUFFICES ASSUME NEW p, p \in Pending(HashKinds)' PROVE p \in Pending(HashKinds)
  OBVIOUS
<1>1. /\ p \in scheduled' /\ p \notin done' /\ p.kind \in HashKinds
      /\ \A w \in returning' : Head(jobs'[w]) # p
  BY DEF Pending
<1>2. ASSUME p \in scheduled, done \subseteq done',
             \A w \in returning : Head(jobs[w]) \in done' \/ (w \in returning' /\ jobs'[w] = jobs[w])
      PROVE  p \in Pending(HashKinds)
  BY <1>1, <1>2 DEF Pending
<1>3. CASE Grows
  BY <1>1, <1>2, <1>3 DEF Grows
<1>4. ASSUME NEW w \in Workers, Finishes(w) PROVE p \in Pending(HashKinds)
  <2>1. /\ done' = done \union {Head(jobs[w])} /\ scheduled' = scheduled
        /\ returning \ {w} \subseteq returning' /\ jobs' = [jobs EXCEPT ![w] = Tail(@)]
    BY <1>4 DEF Finishes, RunPlain, Return, js!RunJob, js!Finish
  <2>2. \A u \in returning : u # w => u \in returning' /\ jobs'[u] = jobs[u]
    BY <2>1 DEF TypeOK
  <2> QED
    BY <1>1, <1>2, <2>1, <2>2
<1>5. ASSUME NEW w \in Workers, Fetches(w) PROVE p \in Pending(HashKinds)
  <2>1. jobs[w] = <<>> /\ scheduled' = scheduled /\ done' = done /\ returning' = returning
        /\ \E h : jobs' = [jobs EXCEPT ![w] = h]
    BY <1>5 DEF Fetches, js!FetchTake, js!Fetching
  <2>2. \A u \in returning : u \in Workers /\ u # w
    BY <2>1 DEF Shape, TypeOK
  <2>3. \A u \in returning : jobs'[u] = jobs[u]
    BY <2>1, <2>2 DEF TypeOK
  <2> QED
    BY <1>1, <1>2, <2>1, <2>3
<1> QED
  BY <1>3, <1>4, <1>5

(* The queue is empty: every worker has fetched its barrier of the first   *)
(* row, and had no table in front of it, or the row is open.               *)
LEMMA TablesAreFilled ==
    ASSUME NEW cur \in 1..4, At(cur), Phased(cur), SearchBehind, jobsQueue = <<>>
    PROVE  Pending(HashKinds) = {}
<1> SUFFICES ASSUME NEW p \in Pending(HashKinds) PROVE FALSE
  OBVIOUS
<1>1. TypeOK /\ Shape /\ NoneLost /\ VectorsPhased(cur) /\ AtRow(cur)
  BY DEF At, JobsRight, Phased
<1>2. Range(jobsQueue) = {}
  BY DEF Range
<1>3. p \in Job /\ p.kind \in HashKinds
  BY <1>1, WherePending
<1>w. PICK w \in Workers : \E i \in DOMAIN jobs[w] : p = jobs[w][i] /\ ~(i = 1 /\ w \in returning)
  BY <1>1, <1>2, WherePending
<1>4. PICK i \in DOMAIN jobs[w] : p = jobs[w][i] /\ ~(i = 1 /\ w \in returning)
  BY <1>w
<1>5. ~IsBarrier(p) /\ Phase(p) = 0
  BY <1>3, PhaseIs DEF IsBarrier, HashKinds
<1>6. cur = 1 /\ LastRow = 1
  <2>1. Phase(p) = cur - 1 /\ LastRow = 1
    BY <1>1, <1>3, <1>4, <1>5 DEF VectorsPhased
  <2> QED
    BY <1>5, <2>1
<1>7. w \in Held
  <2>1. BarriersOf(jobsQueue, cur) = {}
    BY <1>2 DEF BarriersOf
  <2>2. cur <= LastRow
    BY <1>6
  <2> QED
    BY <1>1, <2>1, <2>2, RowInQueue
<1>8. IsBarrier(LastJob(w))
  BY <1>7 DEF Held
<1> QED
  BY <1>2, <1>3, <1>4, <1>8 DEF SearchBehind

(* Every step keeps the invariant of the phases.                           *)
LEMMA NextTables == TInv /\ TablesOneByOne /\ [Next]_vars => TInv'
<1> SUFFICES ASSUME TInv, TablesOneByOne, [Next]_vars PROVE TInv'
  OBVIOUS
<1>1. PInv /\ SearchesScheduled /\ SearchBehind
  BY DEF TInv
<1> PICK cur \in 1..4 : At(cur) /\ Phased(cur)
  BY <1>1 DEF PInv
<1>2. TypeOK /\ Shape
  BY DEF At, JobsRight
<1>3. PInv' /\ (Grows \/ \E w \in Workers : Finishes(w) \/ Fetches(w))
  BY <1>1, NextPhased
<1>4. SearchBehind'
  <2>1. CASE Grows
    BY <1>1, <2>1 DEF Grows, SearchBehind, LastJob
  <2>2. ASSUME NEW w \in Workers, Finishes(w) PROVE SearchBehind'
    BY <1>1, <1>2, <2>2, FinishSearchBehind
  <2>3. ASSUME NEW w \in Workers, Fetches(w) PROVE SearchBehind'
    BY <1>1, <2>3, FetchSearchBehind
  <2> QED
    BY <1>3, <2>1, <2>2, <2>3
<1>5. SearchesScheduled'
  <2> SUFFICES ASSUME pc' = "count_barr", NEW p, p \in Pending(HashKinds)' PROVE FALSE
    BY DEF SearchesScheduled
  <2>1. pc = "count_barr" \/ ReturnNoJobLeft
    <3>1. CASE StartRun \/ SpuriousWakeup \/ UNCHANGED vars \/ \E w \in Workers : Fetch(w)
      BY <3>1 DEF StartRun, SpuriousWakeup, Fetch, runVars, vars
    <3>2. CASE JobRun
      BY <3>2 DEF JobRun, SplitGenHashes, CallNoJobLeft, WaitNoJobLeft, ScheduleBarr, ScheduleGenRes,
          ScheduleResRow, ScheduleGenerateRes, runVars
    <3>3. ASSUME NEW w \in Workers, RunHead(w) PROVE pc' = pc
      BY <3>3 DEF RunHead, RunGenHashes, RunGenHashesToken, RunPlain, BarrierWait, BarrierOpen,
          RunGenerateRes, Return, runVars
    <3> QED
      BY <3>1, <3>2, <3>3 DEF Next, Terminated
  <2>2. LastRow = 1
    <3>1. pc = "count_barr" \/ pc = "nojobleft"
      BY <2>1 DEF At, JobsRight, Calling, ReturnNoJobLeft, js!ReturnNoJobLeft
    <3> QED
      BY <3>1 DEF LastRow, count_genhashes
  <2>3. p \in Pending(HashKinds)
    BY <1>2, <1>3, <2>2, PendingShrinks
  <2>4. CASE pc = "count_barr"
    BY <1>1, <2>3, <2>4 DEF SearchesScheduled
  <2>5. CASE ReturnNoJobLeft
    <3>1. availableWork = 0 /\ availableWork = Len(jobsQueue) /\ jobsQueue \in Seq(scheduled)
      BY <1>2, <2>5 DEF ReturnNoJobLeft, js!ReturnNoJobLeft, Shape
    <3>2. jobsQueue = <<>>
      BY <3>1
    <3> QED
      BY <1>1, <2>3, <3>2, TablesAreFilled
  <2> QED
    BY <2>1, <2>4, <2>5
<1> QED
  BY <1>3, <1>4, <1>5 DEF TInv

(* If a fetch that takes a table takes no barrier with it but where a      *)
(* search is queued, all jobs stay in the phases of their batch.           *)
THEOREM PhasesHold == Spec /\ []TablesOneByOne => []TInv
<1>1. Init => TInv
  <2> SUFFICES ASSUME Init PROVE TInv
    OBVIOUS
  <2>1. 4 \in 1..4 /\ At(4) /\ Phased(4)
    BY InitInvariant, InitPhased
  <2>2. pc = "idle" /\ jobs = [w \in Workers |-> <<>>]
    BY DEF Init, js!Init
  <2> QED
    BY <2>1, <2>2 DEF TInv, PInv, SearchesScheduled, SearchBehind
<1>2. TInv /\ TablesOneByOne /\ [Next]_vars => TInv'
  BY NextTables
<1> QED
  BY <1>1, <1>2, PTL DEF Spec

(* What a worker runs is of the phase before cur, what is pending of none  *)
(* before that.                                                            *)
LEMMA OrderOfPhases ==
    ASSUME PInv
    PROVE  PhaseOrder
<1> PICK cur \in 1..4 : At(cur) /\ Phased(cur)
  BY DEF PInv
<1>1. TypeOK /\ Shape /\ NoneLost
  BY DEF At, JobsRight, Phased
<1>2. ASSUME NEW w \in Workers, NEW kind \in {"MatchPrune", "GenRes", "GenerateRes"},
             NEW j \in Running(w, {kind}), NEW kinds, NEW p \in Pending(kinds), ~IsBarrier(p)
      PROVE  Phase(j) <= Phase(p) /\ p \in Job /\ p.kind \in kinds /\ j \in Job /\ j.kind = kind
  <2>1. j \in Job /\ j.kind = kind
    BY <1>1, RunningFacts
  <2>2. Phase(j) = cur - 1
    BY <2>1, RunningPhase DEF IsBarrier
  <2>3. p \in Job /\ p.kind \in kinds
    BY <1>1, WherePending
  <2>4. cur <= Phase(p) + 1 /\ Phase(p) \in 0..3
    BY <1>2, <2>3, PendingPhase, PhaseIs
  <2> QED
    BY <2>1, <2>2, <2>3, <2>4
<1>3. \A kinds : \A p \in Pending(kinds) : p.kind \in kinds
  BY DEF Pending
<1> SUFFICES ASSUME NEW w \in Workers
             PROVE  /\ Running(w, {"MatchPrune"}) # {} => Pending(HashKinds) = {}
                    /\ Running(w, {"GenRes"}) # {} => Pending(HashKinds \union {"MatchPrune"}) = {}
                    /\ Running(w, {"GenerateRes"}) # {} =>
                          Pending(HashKinds \union {"MatchPrune", "GenRes"}) = {}
  BY DEF PhaseOrder
<1>4. ASSUME NEW j \in Running(w, {"MatchPrune"}), NEW p \in Pending(HashKinds) PROVE FALSE
  <2>1. ~IsBarrier(p)
    BY <1>3 DEF IsBarrier, HashKinds
  <2>2. Phase(j) <= Phase(p) /\ p \in Job /\ p.kind \in HashKinds /\ j \in Job /\ j.kind = "MatchPrune"
    BY <1>2, <2>1
  <2>3. Phase(p) = 0 /\ Phase(j) = 1
    BY <2>1, <2>2, PhaseIs DEF IsBarrier
  <2> QED
    BY <2>2, <2>3
<1>5. ASSUME NEW j \in Running(w, {"GenRes"}), NEW p \in Pending(HashKinds \union {"MatchPrune"}) PROVE FALSE
  <2>1. ~IsBarrier(p)
    BY <1>3 DEF IsBarrier, HashKinds
  <2>2. /\ Phase(j) <= Phase(p) /\ p \in Job /\ p.kind \in HashKinds \union {"MatchPrune"}
        /\ j \in Job /\ j.kind = "GenRes"
    BY <1>2, <2>1
  <2>3. Phase(p) \in {0, 1} /\ Phase(j) = 2
    BY <2>1, <2>2, PhaseIs DEF IsBarrier
  <2> QED
    BY <2>2, <2>3
<1>6. ASSUME NEW j \in Running(w, {"GenerateRes"}), NEW p \in Pending(HashKinds \union {"MatchPrune", "GenRes"})
      PROVE  FALSE
  <2>1. ~IsBarrier(p)
    BY <1>3 DEF IsBarrier, HashKinds
  <2>2. /\ Phase(j) <= Phase(p) /\ p \in Job /\ p.kind \in HashKinds \union {"MatchPrune", "GenRes"}
        /\ j \in Job /\ j.kind = "GenerateRes"
    BY <1>2, <2>1
  <2>3. Phase(p) \in {0, 1, 2} /\ Phase(j) = 3
    BY <2>1, <2>2, PhaseIs DEF IsBarrier
  <2> QED
    BY <2>2, <2>3
<1> QED
  BY <1>4, <1>5, <1>6

(* With the results done all rows are open and the queue is empty.         *)
LEMMA NothingIsLeft ==
    ASSUME PInv
    PROVE  RunEndIsSafe
<1> SUFFICES ASSUME pc = "idle", Pending({"GenerateRes"}) = {}
             PROVE  Pending(Kinds) = {} /\ barrWait = {}
  BY DEF RunEndIsSafe
<1> PICK cur \in 1..4 : At(cur) /\ Phased(cur)
  BY DEF PInv
<1>1. TypeOK /\ Shape /\ NoneLost
  BY DEF At, JobsRight, Phased
<1>2. /\ Range(jobsQueue) = {}
      /\ \A w \in Workers : \A i \in DOMAIN jobs[w] : i = 1 /\ w \in returning
  BY BatchIsOver
<1>3. Pending(Kinds) = {}
  BY <1>1, <1>2, WherePending
<1>4. barrWait = {}
  BY <1>1, AllRowsOpen, Blocked
<1> QED
  BY <1>3, <1>4

(* On that condition every job starts after all jobs of the phases before  *)
(* its own have had their effect: a search after the tables are filled, a  *)
(* job that reads the relations after the searches, a job that makes a     *)
(* result after those.                                                     *)
THEOREM PhaseOrderHolds == Spec /\ []TablesOneByOne => []PhaseOrder
<1>1. TInv => PhaseOrder
  BY OrderOfPhases DEF TInv
<1> QED
  BY <1>1, PhasesHold, PTL

(* On the same condition nothing of a batch is left, in the queue, in a    *)
(* vector or running, when the client has its last result.                 *)
THEOREM RunEndIsSafeHolds == Spec /\ []TablesOneByOne => []RunEndIsSafe
<1>1. TInv => RunEndIsSafe
  BY NothingIsLeft DEF TInv
<1> QED
  BY <1>1, PhasesHold, PTL

-------------------------------------------------------------------------------
(* The batch as BatchPhases has it.                                         *)

(* The jobs that JobRun::Run is about to schedule count as waiting already. *)
PlannedTables == Range(Jobs("GenHashes", 0, DocTables) \o Jobs("GenHashesToken", 0, QueryTables))
PlannedResults == Range(Jobs("GenerateRes", 0, Docs))

(* Results are scheduled last.                                             *)
ResultsLast == pc = "JobGenerateRes" => Pending({"GenerateRes"}) = {}

(* A pending job waits for rows that are there.                            *)
LEMMA PendingWithin ==
    ASSUME NEW cur \in 1..4, At(cur), Phased(cur), NEW kinds, NEW p \in Pending(kinds), ~IsBarrier(p)
    PROVE  p \in Job /\ p.kind \in kinds /\ Phase(p) <= LastRow /\ (p.kind \in HashKinds => LastRow = 1)
<1>1. TypeOK /\ Shape /\ NoneLost /\ QueuePhased(cur) /\ VectorsPhased(cur) /\ cur \in 1..LastRow + 1
  BY DEF At, JobsRight, AtRow, Phased
<1>2. p \in Job /\ p.kind \in kinds /\ LastRow \in 0..3
  BY <1>1, Facts, WherePending
<1>3. CASE p \in Range(jobsQueue)
  BY <1>1, <1>2, <1>3 DEF QueuePhased
<1>4. ASSUME NEW w \in Workers, NEW i \in DOMAIN jobs[w], p = jobs[w][i], ~(i = 1 /\ w \in returning)
      PROVE  Phase(p) <= LastRow /\ (p.kind \in HashKinds => LastRow = 1)
  <2>1. Phase(p) = cur - 1 /\ (p.kind \in HashKinds => LastRow = 1)
    BY <1>1, <1>4 DEF VectorsPhased
  <2> QED
    BY <1>1, <1>2, <2>1
<1> QED
  BY <1>1, <1>2, <1>3, <1>4, WherePending

(* Before the tables are scheduled nothing waits, and no result before     *)
(* JobRun::Run is over.                                                    *)
LEMMA NothingTooEarly ==
    ASSUME PInv, ResultsLast
    PROVE  /\ pc = "SplitGenHashes" => \A kinds : "Barrier" \notin kinds => Pending(kinds) = {}
           /\ pc # "idle" => Pending({"GenerateRes"}) = {}
<1> PICK cur \in 1..4 : At(cur) /\ Phased(cur)
  BY DEF PInv
<1>1. \A kinds : \A p \in Pending(kinds) : p.kind \in kinds
  BY DEF Pending
<1>2. ASSUME pc = "SplitGenHashes", NEW kinds, "Barrier" \notin kinds, NEW p \in Pending(kinds) PROVE FALSE
  <2>1. ~IsBarrier(p)
    BY <1>1, <1>2 DEF IsBarrier
  <2>2. LastRow = 0
    BY <1>2 DEF LastRow
  <2>3. p \in Job /\ Phase(p) <= 0 /\ (p.kind \in HashKinds => FALSE)
    BY <2>1, <2>2, PendingWithin
  <2>4. Phase(p) \in 0..3 /\ (p.kind \in HashKinds <=> Phase(p) = 0)
    BY <2>1, <2>3, PhaseIs
  <2> QED
    BY <2>3, <2>4
<1>3. ASSUME pc # "idle", NEW p \in Pending({"GenerateRes"}) PROVE FALSE
  <2>1. ~IsBarrier(p) /\ pc # "JobGenerateRes"
    BY <1>1, <1>3 DEF IsBarrier, ResultsLast
  <2>2. LastRow \in {0, 1, 2}
    BY <1>3, <2>1 DEF LastRow, At, JobsRight, TypeOK, count_genhashes, count_barr
  <2>3. p \in Job /\ p.kind = "GenerateRes" /\ Phase(p) <= LastRow
    BY <2>1, PendingWithin
  <2>4. Phase(p) = 3
    BY <2>1, <2>3, PhaseIs
  <2> QED
    BY <2>2, <2>3, <2>4
<1> QED
  BY <1>2, <1>3

-------------------------------------------------------------------------------
(* What a step does to the jobs that wait.                                  *)

(* Nobody joins and nobody leaves.                                         *)
LEMMA PendingStays ==
    ASSUME UNCHANGED <<scheduled, done, returning, jobs>>, NEW kinds
    PROVE  Pending(kinds)' = Pending(kinds)
  BY DEF Pending

(* Scheduled jobs join those of their kind.                                *)
LEMMA PendingAdds ==
    ASSUME TypeOK, Shape, NEW v, Adds(v), returning' = returning, NEW kinds
    PROVE  /\ Pending(kinds) \subseteq Pending(kinds)'
           /\ \A p \in Pending(kinds)' : p \in Pending(kinds) \/ (p \in Range(v) /\ p.kind \in kinds)
           /\ \A j \in Range(v) : j \notin scheduled /\ j.kind \in kinds => j \in Pending(kinds)'
<1>1. scheduled' = scheduled \union Range(v) /\ jobs' = jobs /\ done' = done
  BY DEF Adds
<1>2. done \subseteq scheduled /\ \A w \in returning : Head(jobs[w]) \in scheduled
  <2>1. \A w \in returning : w \in Workers /\ jobs[w] # <<>>
    BY DEF TypeOK, Shape
  <2> QED
    BY <2>1, HeadOf DEF TypeOK
<1> QED
  BY <1>1, <1>2 DEF Pending

(* A job has its effect and is waited for no more.                         *)
LEMMA PendingEffect ==
    ASSUME TypeOK, Shape, NEW w \in Workers, NEW v, Adds(v), Effect(w), NEW kinds
    PROVE  /\ Pending(kinds) \ {Head(jobs[w])} \subseteq Pending(kinds)'
           /\ \A p \in Pending(kinds)' : \/ p \in Pending(kinds) \ {Head(jobs[w])}
                                         \/ p \in Range(v) /\ p.kind \in kinds
<1>1. scheduled' = scheduled \union Range(v) /\ jobs' = jobs /\ done' = done
      /\ returning' = returning \union {w}
  BY DEF Adds, Effect
<1> QED
  BY <1>1 DEF Pending

(* A search or a job for the relations returns in the step of its effect.  *)
LEMMA PendingPlain ==
    ASSUME TypeOK, Shape, NEW w \in Workers, RunPlain(w), NEW kinds
    PROVE  Pending(kinds)' = Pending(kinds) \ {Head(jobs[w])}
<1>1. /\ scheduled' = scheduled /\ done' = done \union {Head(jobs[w])}
      /\ returning' = returning /\ jobs' = [jobs EXCEPT ![w] = Tail(@)]
  BY DEF RunPlain, js!RunJob, js!Finish
<1>2. w \notin returning
  BY DEF RunPlain, Running
<1>3. \A u \in returning : jobs'[u] = jobs[u]
  BY <1>1, <1>2 DEF TypeOK
<1> QED
  BY <1>1, <1>3 DEF Pending

(* A job that had its effect before returns.                               *)
LEMMA PendingReturn ==
    ASSUME TypeOK, Shape, NEW w \in Workers, Return(w), NEW kinds
    PROVE  Pending(kinds)' = Pending(kinds)
<1>1. /\ scheduled' = scheduled /\ done' = done \union {Head(jobs[w])}
      /\ returning' = returning \ {w} /\ jobs' = [jobs EXCEPT ![w] = Tail(@)] /\ w \in returning
  BY DEF Return, js!RunJob, js!Finish
<1>3. \A u \in returning' : jobs'[u] = jobs[u] /\ u \in returning
  BY <1>1 DEF TypeOK
<1>4. \A u \in returning : u = w \/ u \in returning'
  BY <1>1
<1> QED
  BY <1>1, <1>3, <1>4 DEF Pending

(* A fetched job waits as before.                                          *)
LEMMA PendingFetch ==
    ASSUME TypeOK, Shape, NEW w \in Workers, Fetches(w), NEW kinds
    PROVE  Pending(kinds)' = Pending(kinds)
<1>1. /\ jobs[w] = <<>> /\ scheduled' = scheduled /\ done' = done /\ returning' = returning
      /\ \E h : jobs' = [jobs EXCEPT ![w] = h]
  BY DEF Fetches, js!FetchTake, js!Fetching
<1>2. \A u \in returning : u \in Workers /\ u # w
  BY <1>1 DEF Shape, TypeOK
<1>3. \A u \in returning : jobs'[u] = jobs[u]
  BY <1>1, <1>2 DEF TypeOK
<1> QED
  BY <1>1, <1>3 DEF Pending

(* A row that opens has its barriers return, which no phase waits for.     *)
LEMMA PendingOpen ==
    ASSUME TypeOK, Shape, NEW w \in Workers, BarrierOpen(w), NEW kinds, "Barrier" \notin kinds
    PROVE  Pending(kinds)' = Pending(kinds)
<1>1. /\ scheduled' = scheduled /\ done' = done /\ jobs' = jobs
      /\ returning' = returning \union barrWait \union {w}
  BY DEF BarrierOpen, poolVars
<1>2. \A u \in barrWait \union {w} : Head(jobs[u]).kind = "Barrier"
  <2>1. Head(jobs[w]).kind = "Barrier"
    BY DEF BarrierOpen, Running
  <2> QED
    BY <2>1 DEF Shape, IsBarrier
<1>3. \A p : p.kind \in kinds => \A u \in barrWait \union {w} : Head(jobs[u]) # p
  BY <1>2
<1> QED
  BY <1>1, <1>3 DEF Pending

-------------------------------------------------------------------------------
(* The steps.                                                               *)

(* The four sets and the flag stay as they are.                            *)
LEMMA Stutter ==
    ASSUME pc' = pc, batch' = batch,
           \A kinds : "Barrier" \notin kinds => Pending(kinds)' = Pending(kinds)
    PROVE  UNCHANGED phases!vars
<1>1. /\ Pending(HashKinds)' = Pending(HashKinds) /\ Pending({"MatchPrune"})' = Pending({"MatchPrune"})
      /\ Pending({"GenRes"})' = Pending({"GenRes"}) /\ Pending({"GenerateRes"})' = Pending({"GenerateRes"})
  <2>1. /\ "Barrier" \notin HashKinds /\ "Barrier" \notin {"MatchPrune"} /\ "Barrier" \notin {"GenRes"}
        /\ "Barrier" \notin {"GenerateRes"}
    BY DEF HashKinds
  <2> QED
    BY <2>1
<1>2. PlannedTables' = PlannedTables /\ PlannedResults' = PlannedResults
  BY DEF PlannedTables, PlannedResults, Jobs
<1> QED
  BY <1>1, <1>2 DEF phases!vars, PlannedTables, PlannedResults

(* JobRun::Run goes on, or nojobleft is called or waits.                   *)
LEMMA CallingStutters ==
    ASSUME PInv, CallNoJobLeft \/ WaitNoJobLeft \/ ReturnNoJobLeft
    PROVE  UNCHANGED phases!vars
<1>1. UNCHANGED <<scheduled, done, returning, jobs, batch>>
  BY DEF CallNoJobLeft, WaitNoJobLeft, ReturnNoJobLeft, runVars, js!CallNoJobLeft, js!WaitNoJobLeft,
         js!ReturnNoJobLeft, js!queueVars, js!runVars
<1>2. \A kinds : Pending(kinds)' = Pending(kinds)
  BY <1>1, PendingStays
<1>3. CASE pc' = pc
  BY <1>1, <1>2, <1>3, Stutter
<1>4. CASE ReturnNoJobLeft
  <2>1. pc = "nojobleft" /\ pc' = "count_barr"
    BY <1>4 DEF PInv, At, JobsRight, Calling, ReturnNoJobLeft, js!ReturnNoJobLeft
  <2>2. PlannedResults' = PlannedResults
    BY <1>1 DEF PlannedResults, Jobs
  <2> QED
    BY <1>2, <2>1, <2>2 DEF phases!vars, PlannedResults
<1> QED
  BY <1>3, <1>4 DEF CallNoJobLeft, WaitNoJobLeft, runVars

(* A batch begins when nothing of the one before is left.                  *)
LEMMA StartRunBegins ==
    ASSUME PInv, StartRun
    PROVE  phases!Next
<1>1. /\ pc = "idle" /\ pc' = "SplitGenHashes" /\ Pending({"GenerateRes"}) = {}
      /\ UNCHANGED <<scheduled, done, returning, jobs>>
  BY DEF StartRun, poolVars
<1>2. Pending(Kinds) = {}
  BY <1>1, NothingIsLeft DEF RunEndIsSafe
<1>3. /\ Pending(HashKinds) = {} /\ Pending({"MatchPrune"}) = {} /\ Pending({"GenRes"}) = {}
  BY <1>2 DEF Pending, Kinds, HashKinds
<1>4. \A kinds : Pending(kinds)' = Pending(kinds)
  BY <1>1, PendingStays
<1>5. PlannedTables' # {} /\ PlannedResults' # {}
  <2>1. PICK b : batch' = b
    OBVIOUS
  <2> DEFINE ofBatch(kind, n) == [i \in 1..n |-> [kind |-> kind, batch |-> b, of |-> 0, n |-> i]]
             tables == ofBatch("GenHashes", DocTables) \o ofBatch("GenHashesToken", QueryTables)
             results == ofBatch("GenerateRes", Docs)
  <2>2. PlannedTables' = Range(tables) /\ PlannedResults' = Range(results)
    BY <2>1 DEF PlannedTables, PlannedResults, Jobs
  <2>3. DocTables \in Nat \ {0} /\ QueryTables \in Nat /\ Docs \in Nat \ {0}
    BY ShapeAssumption
  <2>4. 1 \in DOMAIN tables
    BY <2>3
  <2>5. 1 \in DOMAIN results
    BY <2>3
  <2> QED
    BY <2>2, <2>4, <2>5 DEF Range
<1>6. phases!Begin
  BY <1>1, <1>3, <1>4, <1>5 DEF phases!Begin, PlannedTables, PlannedResults
<1> QED
  BY <1>6 DEF phases!Next

(* The tables were planned and are waited for now.                         *)
LEMMA SplitGenHashesStutters ==
    ASSUME PInv, ResultsLast, SplitGenHashes
    PROVE  UNCHANGED phases!vars
<1> PICK cur \in 1..4 : At(cur) /\ Phased(cur)
  BY DEF PInv
<1>1. TypeOK /\ Shape /\ Calling /\ InTime
  BY DEF At, JobsRight
<1>2. pc = "SplitGenHashes" /\ pc' = "nojobleft" /\ batch' = batch /\ returning' = returning /\ LastRow = 0
  BY DEF SplitGenHashes, LastRow
<1>3. PICK ab, c, v \in Seq(Job) :
          /\ Adds(v) /\ Joined(v, ab, c)
          /\ ab = Jobs("GenHashes", 0, DocTables) \o Jobs("GenHashesToken", 0, QueryTables)
          /\ \A j \in Range(ab) : j.kind \in HashKinds /\ j.batch = batch
          /\ \A j \in Range(c) : IsBarrier(j)
  BY <1>1, TablesAndRow
<1>4. Range(v) = Range(ab) \union Range(c) /\ Range(ab) = PlannedTables
  <2>1. Joined(v, ab, c) /\ ab \in Seq(Job) /\ c \in Seq(Job)
    BY <1>3
  <2>2. Range(v) = Range(ab) \union Range(c)
    BY <2>1, Positions
  <2> QED
    BY <1>3, <2>2 DEF PlannedTables
<1>5. \A j \in Range(ab) : j \notin scheduled
  <2> SUFFICES ASSUME NEW j \in Range(ab), j \in scheduled PROVE FALSE
    OBVIOUS
  <2>1. j.batch < batch /\ j.batch = batch
    BY <1>1, <1>2, <1>3 DEF InTime
  <2>2. batch \in Nat
    BY <1>1 DEF TypeOK
  <2> QED
    BY <2>1, <2>2
<1>6. \A kinds : "Barrier" \notin kinds => Pending(kinds) = {}
  BY <1>2, NothingTooEarly
<1>7. \A j \in Range(c) : j.kind = "Barrier"
  BY <1>3 DEF IsBarrier
<1>8. Pending(HashKinds)' = Range(ab)
  <2>1. "Barrier" \notin HashKinds
    BY DEF HashKinds
  <2>2. \A p \in Pending(HashKinds)' : p \in Range(v) /\ p.kind \in HashKinds
    BY <1>1, <1>2, <1>3, <1>6, <2>1, PendingAdds
  <2>3. \A j \in Range(ab) : j \in Pending(HashKinds)'
    BY <1>1, <1>2, <1>3, <1>4, <1>5, PendingAdds
  <2> QED
    BY <1>4, <1>7, <2>1, <2>2, <2>3
<1>9. ASSUME NEW kinds, kinds \intersect (HashKinds \union {"Barrier"}) = {} PROVE Pending(kinds)' = {}
  <2>1. \A p \in Pending(kinds)' : p \in Range(v) /\ p.kind \in kinds
    BY <1>1, <1>2, <1>3, <1>6, <1>9, PendingAdds
  <2> QED
    BY <1>3, <1>4, <1>7, <1>9, <2>1
<1>10. /\ Pending({"MatchPrune"}) = {} /\ Pending({"GenRes"}) = {}
       /\ Pending({"MatchPrune"})' = {} /\ Pending({"GenRes"})' = {}
  BY <1>6, <1>9 DEF HashKinds
<1>11. PlannedResults' = PlannedResults
  BY <1>2 DEF PlannedResults, Jobs
<1> QED
  BY <1>2, <1>4, <1>8, <1>10, <1>11 DEF phases!vars, PlannedTables, PlannedResults

(* A row of barriers is scheduled.                                         *)
LEMMA RowKeepsPending ==
    ASSUME TypeOK, Shape, batch > 0, NEW r \in 1..3, Schedule(Row(r)), returning' = returning
    PROVE  \A kinds : "Barrier" \notin kinds => Pending(kinds)' = Pending(kinds)
<1> DEFINE v == Row(r)
<1>1. batch \in 1..Batches /\ THREADS \in Nat /\ "Barrier" \in Kinds /\ r \in Nat
  BY PoolAssumption, FS_CardinalityType DEF TypeOK, THREADS, Kinds
<1>2. \A j \in Range(v) : j.kind = "Barrier"
  BY <1>1, JobsAre DEF Row
<1>3. Adds(v)
  BY SchedulingAdds
<1> HIDE DEF v
<1> SUFFICES ASSUME NEW kinds, "Barrier" \notin kinds PROVE Pending(kinds)' = Pending(kinds)
  OBVIOUS
<1>4. \A p \in Pending(kinds)' : p \in Pending(kinds)
  BY <1>2, <1>3, PendingAdds
<1>5. Pending(kinds) \subseteq Pending(kinds)'
  BY <1>3, PendingAdds
<1> QED
  BY <1>4, <1>5

(* The second row is scheduled.                                            *)
LEMMA ScheduleBarrStutters ==
    ASSUME PInv, ScheduleBarr
    PROVE  UNCHANGED phases!vars
<1>1. TypeOK /\ Shape /\ Calling
  BY DEF PInv, At, JobsRight
<1>2. /\ pc = "count_barr" /\ pc' = "scheduleGenRes" /\ batch' = batch /\ returning' = returning
      /\ Schedule(Row(2)) /\ 2 \in 1..3
  BY DEF ScheduleBarr, count_barr
<1>3. batch > 0
  BY <1>1, <1>2 DEF Calling
<1>4. \A kinds : "Barrier" \notin kinds => Pending(kinds)' = Pending(kinds)
  BY <1>1, <1>2, <1>3, RowKeepsPending
<1>5. /\ Pending(HashKinds)' = Pending(HashKinds) /\ Pending({"MatchPrune"})' = Pending({"MatchPrune"})
      /\ Pending({"GenRes"})' = Pending({"GenRes"})
  BY <1>4 DEF HashKinds
<1>6. PlannedResults' = PlannedResults
  BY <1>2 DEF PlannedResults, Jobs
<1> QED
  BY <1>2, <1>5, <1>6 DEF phases!vars, PlannedResults

(* With the third row no job that reads the relations joins any more.      *)
LEMMA ScheduleResRowJoins ==
    ASSUME PInv, ScheduleResRow
    PROVE  phases!Next
<1>1. TypeOK /\ Shape /\ Calling
  BY DEF PInv, At, JobsRight
<1>2. /\ pc = "scheduleGenRes" /\ pc' = "JobGenerateRes" /\ batch' = batch /\ returning' = returning
      /\ Schedule(Row(3)) /\ 3 \in 1..3
  BY DEF ScheduleResRow, scount_barr
<1>3. batch > 0
  BY <1>1, <1>2 DEF Calling
<1>4. \A kinds : "Barrier" \notin kinds => Pending(kinds)' = Pending(kinds)
  BY <1>1, <1>2, <1>3, RowKeepsPending
<1>5. /\ Pending(HashKinds)' = Pending(HashKinds) /\ Pending({"MatchPrune"})' = Pending({"MatchPrune"})
      /\ Pending({"GenRes"})' = Pending({"GenRes"})
  BY <1>4 DEF HashKinds
<1>6. PlannedResults' = PlannedResults
  BY <1>2 DEF PlannedResults, Jobs
<1>7. phases!Join
  BY <1>2, <1>5, <1>6 DEF phases!Join, PlannedResults
<1> QED
  BY <1>7 DEF phases!Next

(* The jobs of one word length join.                                       *)
LEMMA ScheduleGenResJoins ==
    ASSUME PInv, ScheduleGenRes
    PROVE  phases!Next
<1>1. TypeOK /\ Shape /\ Calling
  BY DEF PInv, At, JobsRight
<1>2. /\ pc = "scheduleGenRes" /\ pc' = pc /\ batch' = batch /\ returning' = returning
  BY DEF ScheduleGenRes, barrVars
<1>3. PICK n \in 0..MaxRes : Schedule(Jobs("GenRes", list, n))
  BY DEF ScheduleGenRes
<1>4. batch \in 1..Batches /\ list \in Nat /\ n \in Nat /\ "GenRes" \in Kinds
  BY <1>1, <1>2, ShapeAssumption DEF TypeOK, Calling, Kinds
<1> DEFINE v == Jobs("GenRes", list, n)
<1>5. \A j \in Range(v) : j.kind = "GenRes"
  BY <1>4, JobsAre
<1>6. Adds(v)
  BY <1>3, SchedulingAdds
<1> HIDE DEF v
<1>7. ASSUME NEW kinds, "GenRes" \notin kinds PROVE Pending(kinds)' = Pending(kinds)
  <2>1. \A p \in Pending(kinds)' : p \in Pending(kinds)
    BY <1>1, <1>2, <1>5, <1>6, <1>7, PendingAdds
  <2>2. Pending(kinds) \subseteq Pending(kinds)'
    BY <1>1, <1>2, <1>6, PendingAdds
  <2> QED
    BY <2>1, <2>2
<1>8. Pending({"GenRes"}) \subseteq Pending({"GenRes"})'
  BY <1>1, <1>2, <1>6, PendingAdds
<1>9. Pending(HashKinds)' = Pending(HashKinds) /\ Pending({"MatchPrune"})' = Pending({"MatchPrune"})
  BY <1>7 DEF HashKinds
<1>10. PlannedResults' = PlannedResults
  BY <1>2 DEF PlannedResults, Jobs
<1>11. phases!Join
  BY <1>2, <1>8, <1>9, <1>10 DEF phases!Join, PlannedResults
<1> QED
  BY <1>11 DEF phases!Next

(* The results were planned and are waited for now.                        *)
LEMMA ScheduleGenerateResStutters ==
    ASSUME PInv, ResultsLast, ScheduleGenerateRes
    PROVE  UNCHANGED phases!vars
<1>1. TypeOK /\ Shape /\ Calling /\ InTime
  BY DEF PInv, At, JobsRight
<1>2. /\ pc = "JobGenerateRes" /\ pc' = "idle" /\ batch' = batch /\ returning' = returning
      /\ Schedule(Jobs("GenerateRes", 0, Docs))
  BY DEF ScheduleGenerateRes
<1>3. batch \in 1..Batches /\ 0 \in Nat /\ Docs \in Nat /\ "GenerateRes" \in Kinds
  BY <1>1, <1>2, ShapeAssumption DEF TypeOK, Calling, Kinds
<1> DEFINE v == Jobs("GenerateRes", 0, Docs)
<1>4. \A j \in Range(v) : j.kind = "GenerateRes" /\ j.batch = batch
  BY <1>3, JobsAre
<1>5. Adds(v)
  BY <1>2, SchedulingAdds
<1>6. Range(v) = PlannedResults
  BY DEF PlannedResults
<1> HIDE DEF v
<1>7. \A j \in Range(v) : j \notin scheduled
  <2> SUFFICES ASSUME NEW j \in Range(v), j \in scheduled PROVE FALSE
    OBVIOUS
  <2>1. j.batch < batch /\ j.batch = batch
    BY <1>1, <1>2, <1>4 DEF InTime
  <2> QED
    BY <1>3, <2>1
<1>8. ASSUME NEW kinds, "GenerateRes" \notin kinds PROVE Pending(kinds)' = Pending(kinds)
  <2>1. \A p \in Pending(kinds)' : p \in Pending(kinds)
    BY <1>1, <1>2, <1>4, <1>5, <1>8, PendingAdds
  <2>2. Pending(kinds) \subseteq Pending(kinds)'
    BY <1>1, <1>2, <1>5, PendingAdds
  <2> QED
    BY <2>1, <2>2
<1>9. Pending({"GenerateRes"})' = Range(v)
  <2>1. Pending({"GenerateRes"}) = {}
    BY <1>2 DEF ResultsLast
  <2>2. \A p \in Pending({"GenerateRes"})' : p \in Range(v)
    BY <1>1, <1>2, <1>5, <2>1, PendingAdds
  <2>3. \A j \in Range(v) : j \in Pending({"GenerateRes"})'
    BY <1>1, <1>2, <1>4, <1>5, <1>7, PendingAdds
  <2> QED
    BY <2>2, <2>3
<1>10. /\ Pending(HashKinds)' = Pending(HashKinds) /\ Pending({"MatchPrune"})' = Pending({"MatchPrune"})
       /\ Pending({"GenRes"})' = Pending({"GenRes"})
  BY <1>8 DEF HashKinds
<1> QED
  BY <1>2, <1>6, <1>9, <1>10 DEF phases!vars, PlannedResults

(* What a worker runs is waited for until it has had its effect.           *)
LEMMA RunningIsPending ==
    ASSUME NEW cur \in 1..4, At(cur), Phased(cur), NEW w \in Workers, NEW kinds, NEW j \in Running(w, kinds),
           Planned(j)
    PROVE  j \in Pending(kinds)
<1>1. TypeOK /\ Shape /\ PlannedOnce /\ VectorsOnce
  BY DEF At, JobsRight, Phased
<1>2. jobs[w] # <<>> /\ j = Head(jobs[w]) /\ j.kind \in kinds /\ w \notin returning
  BY <1>1, RunningFacts
<1>3. jobs[w] \in Seq(scheduled)
  BY <1>1 DEF TypeOK
<1>4. 1 \in DOMAIN jobs[w] /\ jobs[w][1] = j
  BY <1>2, <1>3
<1> QED
  BY <1>1, <1>2, <1>4, PlannedPending

(* A table is filled and its searches join.                                *)
LEMMA TablesHash ==
    ASSUME PInv, NEW w \in Workers, RunGenHashes(w) \/ RunGenHashesToken(w)
    PROVE  phases!Next
<1> PICK cur \in 1..4 : At(cur) /\ Phased(cur)
  BY DEF PInv
<1>1. TypeOK /\ Shape
  BY DEF At, JobsRight
<1>2. PICK j \in Running(w, HashKinds) :
          /\ Effect(w) /\ UNCHANGED <<runVars, barrVars>>
          /\ UNCHANGED poolVars \/ \E n \in 0..MaxPrunes : Schedule(Prunes(j, n))
  BY DEF RunGenHashes, RunGenHashesToken, Running, HashKinds
<1>3. jobs[w] # <<>> /\ j = Head(jobs[w]) /\ j \in Job /\ j.kind \in HashKinds
  BY <1>1, RunningFacts
<1>4. ~IsBarrier(j) /\ Planned(j)
  BY <1>3 DEF HashKinds, IsBarrier, Planned
<1>5. LastRow = 1
  BY <1>3, <1>4, RunningPhase
<1>6. pc \in {"nojobleft", "count_barr"} /\ pc' = pc /\ batch' = batch
  BY <1>1, <1>2, <1>5 DEF LastRow, TypeOK, runVars, count_barr, scount_barr
<1>7. j \in Pending(HashKinds)
  BY <1>4, RunningIsPending
<1>8. PICK v : Adds(v) /\ \A i \in Range(v) : i.kind = "MatchPrune"
  <2>1. CASE UNCHANGED poolVars
    <3>1. Range(<<>>) = {}
      BY DEF Range
    <3> QED
      BY <1>1, <2>1, <3>1, SchedulingAdds
  <2>2. CASE \E n \in 0..MaxPrunes : Schedule(Prunes(j, n))
    BY <1>3, <2>2, PrunesAre, SchedulingAdds
  <2> QED
    BY <1>2, <2>1, <2>2
<1>9. Pending(HashKinds)' = Pending(HashKinds) \ {j}
  <2>1. Pending(HashKinds) \ {j} \subseteq Pending(HashKinds)'
    BY <1>1, <1>2, <1>3, <1>8, PendingEffect
  <2>2. \A p \in Pending(HashKinds)' : p \in Pending(HashKinds) \ {j} \/ (p \in Range(v) /\ p.kind \in HashKinds)
    BY <1>1, <1>2, <1>3, <1>8, PendingEffect
  <2>3. \A p \in Range(v) : p.kind \notin HashKinds
    BY <1>8 DEF HashKinds
  <2> QED
    BY <2>1, <2>2, <2>3
<1>10. ASSUME NEW kinds, j.kind \notin kinds PROVE Pending(kinds) \subseteq Pending(kinds)'
  <2>1. \A p \in Pending(kinds) : p # j
    BY <1>10 DEF Pending
  <2>2. Pending(kinds) \ {j} \subseteq Pending(kinds)'
    BY <1>1, <1>2, <1>3, <1>8, PendingEffect
  <2> QED
    BY <2>1, <2>2
<1>11. ASSUME NEW kinds, j.kind \notin kinds, "MatchPrune" \notin kinds PROVE Pending(kinds)' = Pending(kinds)
  <2>1. \A p \in Pending(kinds)' : p \in Pending(kinds) \/ (p \in Range(v) /\ p.kind \in kinds)
    BY <1>1, <1>2, <1>3, <1>8, PendingEffect
  <2>2. \A p \in Range(v) : p.kind \notin kinds
    BY <1>8, <1>11
  <2> QED
    BY <1>10, <1>11, <2>1, <2>2
<1>12. Pending({"MatchPrune"}) \subseteq Pending({"MatchPrune"})' /\ Pending({"GenRes"})' = Pending({"GenRes"})
  BY <1>3, <1>10, <1>11 DEF HashKinds
<1>13. PlannedResults' = PlannedResults
  BY <1>6 DEF PlannedResults, Jobs
<1>14. phases!Hash
  BY <1>6, <1>7, <1>9, <1>12, <1>13 DEF phases!Hash, PlannedResults
<1> QED
  BY <1>14 DEF phases!Next

(* A search or a job that reads the relations returns.                     *)
LEMMA PlainJobs ==
    ASSUME PInv, NEW w \in Workers, RunPlain(w)
    PROVE  phases!Next \/ UNCHANGED phases!vars
<1> PICK cur \in 1..4 : At(cur) /\ Phased(cur)
  BY DEF PInv
<1>1. TypeOK /\ Shape /\ cur \in 1..LastRow + 1 /\ LastRow \in 0..3
  BY Facts DEF At, JobsRight, AtRow
<1>2. PICK j \in Running(w, {"MatchPrune", "GenRes"}) : pc' = pc /\ batch' = batch
  BY DEF RunPlain, runVars
<1>3. j = Head(jobs[w]) /\ j \in Job /\ j.kind \in {"MatchPrune", "GenRes"}
  BY <1>1, RunningFacts
<1>4. ~IsBarrier(j)
  BY <1>3 DEF IsBarrier
<1>5. pc # "SplitGenHashes"
  <2>1. Phase(j) = cur - 1 /\ Phase(j) \in {1, 2}
    BY <1>3, <1>4, RunningPhase, PhaseIs
  <2>2. LastRow # 0
    BY <1>1, <2>1
  <2> QED
    BY <2>2 DEF LastRow
<1>6. \A kinds : Pending(kinds)' = Pending(kinds) \ {j}
  BY <1>1, <1>3, PendingPlain
<1>7. \A kinds : \A p \in Pending(kinds) : p.kind \in kinds
  BY DEF Pending
<1>8. Pending(HashKinds)' = Pending(HashKinds) /\ Pending({"GenerateRes"})' = Pending({"GenerateRes"})
  BY <1>3, <1>6, <1>7 DEF HashKinds
<1>9. PlannedResults' = PlannedResults
  BY <1>2 DEF PlannedResults, Jobs
<1>10. PhaseOrder
  BY OrderOfPhases
<1>11. CASE j.kind = "MatchPrune"
  <2>1. Pending({"GenRes"})' = Pending({"GenRes"})
    BY <1>6, <1>7, <1>11
  <2>2. j \in Running(w, {"MatchPrune"})
    BY <1>11 DEF Running
  <2>3. Pending(HashKinds) = {}
    BY <1>10, <2>2 DEF PhaseOrder
  <2>4. CASE j \in Pending({"MatchPrune"})
    <3>1. phases!Prune
      BY <1>2, <1>5, <1>6, <1>8, <1>9, <2>1, <2>3, <2>4 DEF phases!Prune, PlannedResults
    <3> QED
      BY <3>1 DEF phases!Next
  <2>5. CASE j \notin Pending({"MatchPrune"})
    <3>1. Pending({"MatchPrune"})' = Pending({"MatchPrune"})
      BY <1>6, <2>5
    <3> QED
      BY <1>2, <1>5, <1>8, <1>9, <2>1, <3>1 DEF phases!vars, PlannedResults
  <2> QED
    BY <2>4, <2>5
<1>12. CASE j.kind = "GenRes"
  <2>1. Pending({"MatchPrune"})' = Pending({"MatchPrune"})
    BY <1>6, <1>7, <1>12
  <2>2. j \in Running(w, {"GenRes"})
    BY <1>12 DEF Running
  <2>3. Pending(HashKinds \union {"MatchPrune"}) = {}
    BY <1>10, <2>2 DEF PhaseOrder
  <2>4. Pending(HashKinds) = {} /\ Pending({"MatchPrune"}) = {}
    BY <2>3 DEF Pending
  <2>5. CASE j \in Pending({"GenRes"})
    <3>1. phases!Collect
      BY <1>2, <1>5, <1>6, <1>8, <1>9, <2>1, <2>4, <2>5 DEF phases!Collect, PlannedResults
    <3> QED
      BY <3>1 DEF phases!Next
  <2>6. CASE j \notin Pending({"GenRes"})
    <3>1. Pending({"GenRes"})' = Pending({"GenRes"})
      BY <1>6, <2>6
    <3> QED
      BY <1>2, <1>5, <1>8, <1>9, <2>1, <3>1 DEF phases!vars, PlannedResults
  <2> QED
    BY <2>5, <2>6
<1> QED
  BY <1>3, <1>11, <1>12

(* A result is made when all else is done.                                 *)
LEMMA ResultsEmit ==
    ASSUME PInv, ResultsLast, NEW w \in Workers, RunGenerateRes(w)
    PROVE  phases!Next
<1> PICK cur \in 1..4 : At(cur) /\ Phased(cur)
  BY DEF PInv
<1>1. TypeOK /\ Shape
  BY DEF At, JobsRight
<1>2. PICK j \in Running(w, {"GenerateRes"}) : Effect(w) /\ UNCHANGED <<poolVars, runVars, barrVars>>
  BY DEF RunGenerateRes
<1>3. j = Head(jobs[w]) /\ j \in Job /\ j.kind = "GenerateRes" /\ Planned(j)
  BY <1>1, RunningFacts DEF Planned
<1>4. j \in Pending({"GenerateRes"})
  BY <1>3, RunningIsPending
<1>5. pc = "idle" /\ pc' = pc /\ batch' = batch
  BY <1>2, <1>4, NothingTooEarly DEF runVars
<1>6. PICK v : Adds(v) /\ Range(v) = {}
  <2>1. Range(<<>>) = {}
    BY DEF Range
  <2> QED
    BY <1>1, <1>2, <2>1, SchedulingAdds
<1>7. \A kinds : Pending(kinds)' = Pending(kinds) \ {j}
  <2> SUFFICES ASSUME NEW kinds PROVE Pending(kinds)' = Pending(kinds) \ {j}
    OBVIOUS
  <2>1. Pending(kinds) \ {j} \subseteq Pending(kinds)'
    BY <1>1, <1>2, <1>3, <1>6, PendingEffect
  <2>2. \A p \in Pending(kinds)' : p \in Pending(kinds) \ {j}
    BY <1>1, <1>2, <1>3, <1>6, PendingEffect
  <2> QED
    BY <2>1, <2>2
<1>8. Pending(HashKinds \union {"MatchPrune", "GenRes"}) = {}
  BY OrderOfPhases DEF PhaseOrder
<1>9. Pending(HashKinds) = {} /\ Pending({"MatchPrune"}) = {} /\ Pending({"GenRes"}) = {}
  BY <1>8 DEF Pending
<1>10. Pending(HashKinds)' = {} /\ Pending({"MatchPrune"})' = {} /\ Pending({"GenRes"})' = {}
  BY <1>7, <1>9
<1>11. phases!Emit
  BY <1>4, <1>5, <1>7, <1>9, <1>10 DEF phases!Emit
<1> QED
  BY <1>11 DEF phases!Next

(* Every step is one of BatchPhases or leaves its variables alone.         *)
LEMMA StepsOfThePhases ==
    ASSUME PInv, ResultsLast, [Next]_vars
    PROVE  [phases!Next]_(phases!vars)
<1>1. TypeOK /\ Shape
  BY DEF PInv, At, JobsRight
<1>2. CASE StartRun
  BY <1>2, StartRunBegins
<1>3. CASE JobRun
  BY <1>3, CallingStutters, SplitGenHashesStutters, ScheduleBarrStutters, ScheduleResRowJoins,
     ScheduleGenResJoins, ScheduleGenerateResStutters DEF JobRun
<1>4. ASSUME NEW w \in Workers, RunHead(w) PROVE [phases!Next]_(phases!vars)
  <2>1. CASE BarrierWait(w)
    <3>1. UNCHANGED <<scheduled, done, returning, jobs, pc, batch>>
      BY <2>1 DEF BarrierWait, poolVars, runVars
    <3> QED
      BY <3>1, PendingStays, Stutter
  <2>2. CASE BarrierOpen(w)
    <3>1. pc' = pc /\ batch' = batch
      BY <2>2 DEF BarrierOpen, runVars
    <3> QED
      BY <1>1, <2>2, <3>1, PendingOpen, Stutter
  <2>3. CASE Return(w)
    <3>1. pc' = pc /\ batch' = batch
      BY <2>3 DEF Return, runVars
    <3> QED
      BY <1>1, <2>3, <3>1, PendingReturn, Stutter
  <2> QED
    BY <1>4, <2>1, <2>2, <2>3, TablesHash, PlainJobs, ResultsEmit DEF RunHead
<1>5. ASSUME NEW w \in Workers, Fetch(w) PROVE UNCHANGED phases!vars
  <2>1. pc' = pc /\ batch' = batch
    BY <1>5 DEF Fetch, runVars
  <2>2. CASE js!FetchTake(w)
    <3>1. Fetches(w)
      BY <1>5, <2>2 DEF Fetch, Fetches
    <3> QED
      BY <1>1, <2>1, <3>1, PendingFetch, Stutter
  <2>3. CASE js!FetchWait(w)
    <3>1. UNCHANGED <<scheduled, done, returning, jobs>>
      BY <1>5, <2>3 DEF Fetch, js!FetchWait, js!queueVars, js!runVars
    <3> QED
      BY <2>1, <3>1, PendingStays, Stutter
  <2> QED
    BY <1>5, <2>2, <2>3 DEF Fetch
<1>6. CASE SpuriousWakeup \/ UNCHANGED vars
  <2>1. UNCHANGED <<scheduled, done, returning, jobs, pc, batch>>
    BY <1>6 DEF SpuriousWakeup, js!SpuriousWakeup, js!runVars, runVars, vars, poolVars
  <2> QED
    BY <2>1, PendingStays, Stutter
<1> QED
  BY <1>2, <1>3, <1>4, <1>5, <1>6 DEF Next, Terminated

(* Results stay last.                                                      *)
LEMMA ResultsStayLast ==
    ASSUME PInv, ResultsLast, [Next]_vars
    PROVE  ResultsLast'
<1> DEFINE Empty == Pending({"GenerateRes"})
<1> SUFFICES ASSUME pc' = "JobGenerateRes" PROVE Empty' = {}
  BY DEF ResultsLast
<1> PICK cur \in 1..4 : At(cur) /\ Phased(cur)
  BY DEF PInv
<1>1. TypeOK /\ Shape /\ Calling
  BY DEF At, JobsRight
<1>2. ASSUME pc # "idle", Empty' \subseteq Empty PROVE Empty' = {}
  BY <1>2, NothingTooEarly
<1>3. ASSUME pc' = pc, UNCHANGED <<scheduled, done, returning, jobs>> PROVE Empty' = {}
  BY <1>2, <1>3, PendingStays
<1>4. CASE StartRun \/ SplitGenHashes \/ ReturnNoJobLeft \/ ScheduleBarr \/ ScheduleGenRes \/ ScheduleGenerateRes
  BY <1>4 DEF StartRun, SplitGenHashes, ReturnNoJobLeft, ScheduleBarr, ScheduleGenRes, ScheduleGenerateRes
<1>5. CASE CallNoJobLeft \/ WaitNoJobLeft \/ SpuriousWakeup \/ UNCHANGED vars
  BY <1>3, <1>5 DEF CallNoJobLeft, WaitNoJobLeft, SpuriousWakeup, runVars, js!CallNoJobLeft,
     js!WaitNoJobLeft, js!SpuriousWakeup, js!queueVars, js!runVars, vars, poolVars
<1>6. CASE ScheduleResRow
  <2>1. pc = "scheduleGenRes" /\ returning' = returning /\ Schedule(Row(3)) /\ 3 \in 1..3
    BY <1>6 DEF ScheduleResRow, scount_barr
  <2>2. batch > 0
    BY <1>1, <2>1 DEF Calling
  <2>3. \A kinds : "Barrier" \notin kinds => Pending(kinds)' = Pending(kinds)
    BY <1>1, <2>1, <2>2, RowKeepsPending
  <2> QED
    BY <1>2, <2>1, <2>3
<1>7. ASSUME NEW w \in Workers, RunGenHashes(w) \/ RunGenHashesToken(w) PROVE FALSE
  <2>1. PICK j \in Running(w, HashKinds) : pc' = pc
    BY <1>7 DEF RunGenHashes, RunGenHashesToken, Running, HashKinds, runVars
  <2>2. j.kind \in HashKinds
    BY <1>1, RunningFacts
  <2>3. LastRow = 1
    BY <2>2, RunningPhase DEF IsBarrier, HashKinds
  <2> QED
    BY <2>1, <2>3 DEF LastRow, scount_barr
<1>8. ASSUME NEW w \in Workers, RunGenerateRes(w) PROVE FALSE
  <2>1. PICK j \in Running(w, {"GenerateRes"}) : pc' = pc
    BY <1>8 DEF RunGenerateRes, runVars
  <2>2. Planned(j)
    BY <1>1, RunningFacts DEF Planned
  <2>3. j \in Empty
    BY <2>2, RunningIsPending
  <2> QED
    BY <2>1, <2>3, NothingTooEarly
<1>9. ASSUME NEW w \in Workers, RunPlain(w) PROVE Empty' = {}
  BY <1>1, <1>2, <1>9, PendingPlain DEF RunPlain, runVars
<1>10. ASSUME NEW w \in Workers, BarrierWait(w) PROVE Empty' = {}
  BY <1>3, <1>10 DEF BarrierWait, poolVars, runVars
<1>11. ASSUME NEW w \in Workers, BarrierOpen(w) PROVE Empty' = {}
  BY <1>1, <1>2, <1>11, PendingOpen DEF BarrierOpen, runVars
<1>12. ASSUME NEW w \in Workers, Return(w) PROVE Empty' = {}
  BY <1>1, <1>2, <1>12, PendingReturn DEF Return, runVars
<1>13. ASSUME NEW w \in Workers, Fetch(w) PROVE Empty' = {}
  <2>1. pc' = pc
    BY <1>13 DEF Fetch, runVars
  <2>2. CASE js!FetchTake(w)
    <3>1. Fetches(w)
      BY <1>13, <2>2 DEF Fetch, Fetches
    <3> QED
      BY <1>1, <1>2, <2>1, <3>1, PendingFetch
  <2>3. CASE js!FetchWait(w)
    BY <1>3, <1>13, <2>1, <2>3 DEF Fetch, js!FetchWait, js!queueVars, js!runVars
  <2> QED
    BY <1>13, <2>2, <2>3 DEF Fetch
<1> QED
  BY <1>4, <1>5, <1>6, <1>7, <1>8, <1>9, <1>10, <1>11, <1>12, <1>13 DEF Next, JobRun, RunHead, Terminated

(* If no fetch takes a table together with a barrier before a search is    *)
(* queued, the pipeline does what BatchPhases promises of a batch: tables  *)
(* are complete before they are searched, relations before they are read,  *)
(* and everything before a result is made; every step of the one is a step *)
(* of the other or none.                                                   *)
THEOREM PhasesImplemented == Spec /\ []TablesOneByOne => ImplementsPhases
<1>1. Init => phases!Init /\ ResultsLast
  <2> SUFFICES ASSUME Init PROVE phases!Init /\ ResultsLast
    OBVIOUS
  <2>1. pc = "idle" /\ scheduled = {}
    BY DEF Init, js!Init
  <2>2. \A kinds : Pending(kinds) = {}
    BY <2>1 DEF Pending
  <2> QED
    BY <2>1, <2>2 DEF phases!Init, ResultsLast
<1>2. TInv /\ ResultsLast /\ [Next]_vars => ResultsLast' /\ [phases!Next]_(phases!vars)
  BY StepsOfThePhases, ResultsStayLast DEF TInv
<1> QED
  BY <1>1, <1>2, PhasesHold, PTL DEF Spec, ImplementsPhases, phases!Spec

===============================================================================

---------------------------- MODULE QueryIndex_proofs ---------------------------
(***************************************************************************)
(* Theorems of QueryIndex, for any words, ids, queries and documents: the  *)
(* invariant that ties cells, lists and ids together, and what the index   *)
(* promises because of it.                                                 *)
(***************************************************************************)
EXTENDS QueryIndex, SequenceFacts, FiniteSetTheorems, TLAPS

-------------------------------------------------------------------------------
(* The invariant.                                                          *)

Cells   == [type : Exact..Edit, dist : 0..3, tids_ : Seq(Tokens), qids : Seq(Qids)]
Entries == [qmid : Nat, position : Nat]

(* What the variables range over.                                          *)
Shapes ==
    /\ vault_ \in Seq(Cells)
    /\ emptycells_ \in Seq(Nat)
    /\ qmidindex \subseteq Nat \X (1..Len(vault_))
    /\ qidindex \in [Qids -> 0..Len(vault_)]
    /\ querypointer_ \in [Tokens -> [Bucket -> Seq(Entries)]]
    /\ alive \in BOOLEAN
    /\ active \in [DOMAIN active -> Queries]
    /\ DOMAIN active \subseteq used /\ used \subseteq Qids

Mids == 1..Len(vault_)
Live(m) == m \in Mids /\ vault_[m].qids # <<>>

Ordered == \A m \in Mids : Increasing(vault_[m].qids)

(* The stack holds the cells without queries, once each; they are clean.   *)
Empties ==
    /\ \A i, j \in 1..Len(emptycells_) : emptycells_[i] = emptycells_[j] => i = j
    /\ \A m : Contains(emptycells_, m) <=> m \in Mids /\ vault_[m].qids = <<>>
    /\ \A m \in Mids : vault_[m].qids = <<>> => vault_[m].tids_ = <<>>

(* A cell has the ids that are active and that qidindex leads to it.       *)
Members ==
    \A m \in Mids, id \in Qids :
        Contains(vault_[m].qids, id) <=> id \in DOMAIN active /\ qidindex[id] = m

Located == \A id \in DOMAIN active : qidindex[id] \in Mids

(* The cell of an active query is what AddQuery made for such a query, and *)
(* filed under its hash value.                                             *)
Stands ==
    \A id \in DOMAIN active :
        LET q == active[id]  m == qidindex[id]
        IN  /\ vault_[m].type = q.type /\ vault_[m].dist = q.dist
            /\ vault_[m].tids_ = TokensOf(q)
            /\ <<hashvalue(q), m>> \in qmidindex

(* Lists of entries.                                                       *)
Has(list, m) == \E i \in 1..Len(list) : list[i].qmid = m
OneEach(list) == \A i, j \in 1..Len(list) : list[i].qmid = list[j].qmid => i = j

(* An entry leads to a cell with queries and to the token in it.           *)
Fits(vault, e, t, b) ==
    /\ e.qmid \in 1..Len(vault) /\ vault[e.qmid].qids # <<>>
    /\ b \in InsertBucket(vault[e.qmid].type, vault[e.qmid].dist)
    /\ e.position \in 1..Len(vault[e.qmid].tids_)
    /\ vault[e.qmid].tids_[e.position] = t

Lists ==
    \A t \in Tokens, b \in Bucket :
        /\ OneEach(querypointer_[t][b])
        /\ \A i \in 1..Len(querypointer_[t][b]) : Fits(vault_, querypointer_[t][b][i], t, b)

(* Each token of a cell with queries leads to it.                          *)
Reached ==
    \A m \in Mids : vault_[m].qids # <<>> =>
        \A b \in InsertBucket(vault_[m].type, vault_[m].dist), x \in 1..Len(vault_[m].tids_) :
            Has(querypointer_[vault_[m].tids_[x]][b], m)

IInv == /\ Shapes /\ Ordered /\ Empties /\ Members /\ Located /\ Stands /\ Lists /\ Reached

(* Active queries with the same tokens, type and distance share a cell.    *)
Alike(p, q) == TokensOf(p) = TokensOf(q) /\ p.type = q.type /\ p.dist = q.dist
Shared == \A i, j \in DOMAIN active : Alike(active[i], active[j]) => qidindex[i] = qidindex[j]
-------------------------------------------------------------------------------
(* Queries and ids.                                                        *)

(* AddToken keeps the tokens in order and once each.                       *)
LEMMA AddTokenProperties ==
    ASSUME NEW tokens \in Seq(Tokens), Increasing(tokens), NEW token \in Tokens
    PROVE  /\ AddToken(tokens, token) \in Seq(Tokens)
           /\ Increasing(AddToken(tokens, token))
           /\ Len(AddToken(tokens, token)) <= Len(tokens) + 1
           /\ \A x : Contains(AddToken(tokens, token), x) <=> Contains(tokens, x) \/ x = token
<1> DEFINE n == Len(tokens)
           Stops(i) == /\ \A j \in 1..(i - 1) : tokens[j] < token
                       /\ i <= n => tokens[i] >= token
           i0 == CHOOSE i \in 1..(n + 1) : Stops(i)
<1>1. n \in Nat /\ token \in Nat /\ \A i \in 1..n : tokens[i] \in Nat
  <2>1. n \in Nat
    BY LenProperties
  <2>2. \A i \in 1..n : tokens[i] \in Nat
    BY ElementOfSeq, TokensAssumption
  <2> QED
    BY <2>1, <2>2, TokensAssumption
<1>2. \E i \in 1..(n + 1) : Stops(i)
  <2> DEFINE T == {i \in 1..(n + 1) : i <= n => tokens[i] >= token}
  <2>1. T \subseteq Nat /\ n + 1 \in T
    BY <1>1
  <2>2. PICK i \in T : \A j \in T : i <= j
    <3> HIDE DEF T
    <3> QED
      BY <2>1, SmallestNat
  <2>3. ASSUME NEW j \in 1..(i - 1) PROVE tokens[j] < token
    <3>1. j \in 1..n /\ ~(i <= j)
      BY <1>1, <2>2
    <3>2. j \notin T
      BY <2>2, <3>1
    <3> QED
      BY <1>1, <3>1, <3>2
  <2> QED
    BY <2>2, <2>3
<1>3. i0 \in 1..(n + 1) /\ Stops(i0)
  BY <1>2
<1>4. AddToken(tokens, token) = IF i0 <= n /\ tokens[i0] = token THEN tokens
                                ELSE InsertAt(tokens, i0, token)
  BY DEF AddToken
<1> HIDE DEF i0
<1>5. CASE i0 <= n /\ tokens[i0] = token
  <2>1. AddToken(tokens, token) = tokens /\ Contains(tokens, token)
    BY <1>3, <1>4, <1>5 DEF Contains
  <2> QED
    BY <1>1, <2>1
<1>6. CASE ~(i0 <= n /\ tokens[i0] = token)
  <2>1. \A j \in 1..(i0 - 1) : tokens[j] < token
    BY <1>3
  <2>2. ASSUME NEW j \in i0..n PROVE token < tokens[j]
    <3>1. j \in 1..n /\ i0 \in 1..n
      BY <1>1, <1>3
    <3>2. token < tokens[i0]
      BY <1>1, <1>3, <1>6, <3>1
    <3>3. j = i0 \/ tokens[i0] < tokens[j]
      BY <1>1, <1>3, <3>1 DEF Increasing
    <3> QED
      BY <1>1, <3>1, <3>2, <3>3
  <2>3. i0 \in 1..(Len(tokens) + 1) /\ Tokens \subseteq Nat
    BY <1>3, TokensAssumption
  <2> HIDE DEF n
  <2>4. \A j \in i0..Len(tokens) : token < tokens[j]
    BY <2>2 DEF n
  <2>5. /\ InsertAt(tokens, i0, token) \in Seq(Tokens)
        /\ Len(InsertAt(tokens, i0, token)) = Len(tokens) + 1
        /\ Increasing(InsertAt(tokens, i0, token))
        /\ \A x : Contains(InsertAt(tokens, i0, token), x) <=> Contains(tokens, x) \/ x = token
    <3>1. InsertAt(tokens, i0, token) \in Seq(Tokens)
      BY <2>1, <2>3, <2>4, InsertInOrder
    <3>2. Len(InsertAt(tokens, i0, token)) = Len(tokens) + 1
      BY <2>3, InsertAtProperties
    <3>3. Increasing(InsertAt(tokens, i0, token))
      BY <2>1, <2>3, <2>4, InsertInOrder
    <3>4. \A x : Contains(InsertAt(tokens, i0, token), x) <=> Contains(tokens, x) \/ x = token
      BY <2>1, <2>3, <2>4, InsertInOrder
    <3> QED
      BY <3>1, <3>2, <3>3, <3>4
  <2> QED
    BY <1>1, <1>4, <1>6, <2>5 DEF n
<1> QED
  BY <1>5, <1>6

(* The tokens of a query are its words, in order and once each.            *)
LEMMA TokensOfProperties ==
    ASSUME NEW q \in Queries
    PROVE  /\ TokensOf(q) \in Seq(Tokens)
           /\ Increasing(TokensOf(q))
           /\ TokensOf(q) # <<>>
           /\ Len(TokensOf(q)) \in 1..5
           /\ \A x : Contains(TokensOf(q), x) <=> Contains(q.words, x)
<1> DEFINE k == Len(q.words)
           body(h) == [n \in 0..k |-> IF n = 0 THEN <<>> ELSE AddToken(h[n - 1], q.words[n])]
           a1 == AddToken(<<>>, q.words[1])
           a2 == AddToken(a1, q.words[2])
           a3 == AddToken(a2, q.words[3])
           a4 == AddToken(a3, q.words[4])
           a5 == AddToken(a4, q.words[5])
           g == [n \in 0..k |-> IF n = 0 THEN <<>> ELSE IF n = 1 THEN a1 ELSE IF n = 2 THEN a2
                              ELSE IF n = 3 THEN a3 ELSE IF n = 4 THEN a4 ELSE a5]
           f == CHOOSE h : h = body(h)
<1>0. k \in 1..5
  BY QueriesAssumption
<1>1. k \in 1..5 /\ q.words \in Seq(Tokens) /\ \A i \in 1..k : q.words[i] \in Tokens
  BY QueriesAssumption, ElementOfSeq
<1>2. g = body(g)
  <2> HIDE DEF a1, a2, a3, a4, a5
  <2>1. /\ g = [n \in 0..k |-> g[n]]
        /\ g[0] = <<>> /\ g[1] = a1
        /\ 2 <= k => g[2] = a2
        /\ 3 <= k => g[3] = a3
        /\ 4 <= k => g[4] = a4
        /\ 5 <= k => g[5] = a5
    <3> HIDE DEF k
    <3>1. g = [n \in 0..k |-> g[n]]
      OBVIOUS
    <3>2. k \in 1..5
      BY <1>1
    <3>3. 0 \in 0..k /\ 1 \in 0..k /\ \A i \in {2, 3, 4, 5} : i <= k => i \in 0..k
      BY <3>2
    <3>4. g[0] = <<>> /\ g[1] = a1
      BY <3>3
    <3>5. (2 <= k => g[2] = a2) /\ (3 <= k => g[3] = a3)
      BY <3>3
    <3>6. (4 <= k => g[4] = a4) /\ (5 <= k => g[5] = a5)
      BY <3>3
    <3> QED
      BY <3>1, <3>4, <3>5, <3>6
  <2> HIDE DEF g
  <2>2. ASSUME NEW n \in 0..k
        PROVE  g[n] = IF n = 0 THEN <<>> ELSE AddToken(g[n - 1], q.words[n])
    <3>1. n = 0 \/ n = 1 \/ n = 2 \/ n = 3 \/ n = 4 \/ n = 5
      BY <1>1
    <3>2. CASE n = 0
      BY <2>1, <3>2
    <3>3. CASE n = 1
      BY <2>1, <3>3 DEF a1
    <3>4. CASE n = 2
      BY <1>1, <2>1, <3>4 DEF a2
    <3>5. CASE n = 3
      BY <1>1, <2>1, <3>5 DEF a3
    <3>6. CASE n = 4
      BY <1>1, <2>1, <3>6 DEF a4
    <3>7. CASE n = 5
      BY <1>1, <2>1, <3>7 DEF a5
    <3> QED
      BY <3>1, <3>2, <3>3, <3>4, <3>5, <3>6, <3>7
  <2> QED
    BY <2>1, <2>2
<1>3. f = body(f)
  <2> HIDE DEF g, body
  <2> QED
    BY <1>2
<1>4. TokensOf(q) = f[k]
  BY DEF TokensOf
<1> HIDE DEF f
<1>5. f[0] = <<>> /\ \A n \in 1..k : f[n] = AddToken(f[n - 1], q.words[n])
  <2>1. \A n \in 0..k : f[n] = IF n = 0 THEN <<>> ELSE AddToken(f[n - 1], q.words[n])
    BY <1>3
  <2>2. 0 \in 0..k /\ \A n \in 1..k : n \in 0..k /\ n # 0
    BY <1>1
  <2> HIDE DEF k
  <2> QED
    BY <2>1, <2>2
<1> DEFINE P(n) == /\ f[n] \in Seq(Tokens) /\ Increasing(f[n]) /\ Len(f[n]) <= n
                   /\ \A x : Contains(f[n], x) <=> \E i \in 1..n : q.words[i] = x
           T == {n \in 0..k : ~P(n)}
<1>6. P(0)
  <2>1. <<>> \in Seq(Tokens) /\ Len(<<>>) = 0
    OBVIOUS
  <2>2. Increasing(<<>>) /\ \A x : ~Contains(<<>>, x)
    BY <2>1 DEF Increasing, Contains
  <2> QED
    BY <1>5, <2>1, <2>2
<1>7. ASSUME NEW n \in 1..k, P(n - 1) PROVE P(n)
  <2>1. n \in Nat /\ n >= 1 /\ q.words[n] \in Tokens /\ f[n] = AddToken(f[n - 1], q.words[n])
    BY <1>1, <1>5
  <2>2. /\ f[n] \in Seq(Tokens) /\ Increasing(f[n])
        /\ Len(f[n]) <= Len(f[n - 1]) + 1
        /\ \A x : Contains(f[n], x) <=> Contains(f[n - 1], x) \/ x = q.words[n]
    <3> DEFINE s == f[n - 1]
    <3>1. s \in Seq(Tokens) /\ Increasing(s)
      BY <1>7
    <3>2. f[n] = AddToken(s, q.words[n])
      BY <2>1
    <3> HIDE DEF s
    <3>3. /\ AddToken(s, q.words[n]) \in Seq(Tokens) /\ Increasing(AddToken(s, q.words[n]))
          /\ Len(AddToken(s, q.words[n])) <= Len(s) + 1
      BY <2>1, <3>1, AddTokenProperties
    <3>4. \A x : Contains(AddToken(s, q.words[n]), x) <=> Contains(s, x) \/ x = q.words[n]
      BY <2>1, <3>1, AddTokenProperties
    <3> QED
      BY <3>2, <3>3, <3>4 DEF s
  <2>3. Len(f[n]) \in Nat /\ Len(f[n - 1]) \in Nat
    <3>1. f[n - 1] \in Seq(Tokens) /\ f[n] \in Seq(Tokens)
      BY <1>7, <2>2
    <3> QED
      BY <3>1, LenProperties
  <2>4. Len(f[n]) <= n
    BY <1>7, <2>1, <2>2, <2>3
  <2>5. \A i : i \in 1..n <=> i \in 1..(n - 1) \/ i = n
    BY <2>1
  <2> QED
    BY <1>7, <2>2, <2>4, <2>5
<1>8. T = {}
  <2> SUFFICES ASSUME T # {} PROVE FALSE
    OBVIOUS
  <2>1. PICK n \in T : \A m \in T : n <= m
    <3>1. T \subseteq Nat
      BY <1>1
    <3> HIDE DEF T
    <3> QED
      BY <3>1, SmallestNat
  <2> HIDE DEF P
  <2>2. n # 0 /\ n \in 0..k
    BY <1>6, <2>1
  <2>3. n \in 1..k /\ n - 1 \in 0..k /\ ~(n <= n - 1)
    BY <1>1, <2>2
  <2>4. n - 1 \notin T
    BY <2>1, <2>3
  <2>5. P(n - 1)
    BY <2>3, <2>4
  <2> QED
    BY <1>7, <2>1, <2>3, <2>5
<1>9. P(k)
  <2> HIDE DEF P
  <2> QED
    BY <1>1, <1>8
<1>10. \A x : Contains(TokensOf(q), x) <=> Contains(q.words, x)
  BY <1>4, <1>9 DEF Contains
<1>11. TokensOf(q) \in Seq(Tokens) /\ Increasing(TokensOf(q)) /\ Len(TokensOf(q)) <= k
  BY <1>4, <1>9
<1> HIDE DEF k
<1>12. Contains(TokensOf(q), q.words[1])
  <2>1. Contains(q.words, q.words[1])
    BY <1>1 DEF Contains, k
  <2> QED
    BY <1>10, <2>1
<1>13. Len(TokensOf(q)) \in Nat /\ Len(TokensOf(q)) # 0
  BY <1>11, <1>12, LenProperties DEF Contains
<1>14. Len(TokensOf(q)) \in 1..5
  <2> DEFINE l == Len(TokensOf(q))
  <2>1. l \in Nat /\ l # 0 /\ l <= k
    BY <1>11, <1>13
  <2> HIDE DEF l
  <2>2. l \in 1..5
    BY <1>0, <2>1
  <2> QED
    BY <2>2 DEF l
<1>15. TokensOf(q) # <<>>
  BY <1>13
<1> QED
  BY <1>10, <1>11, <1>14, <1>15

(* A hash value is a number, with type and distance above 100000.          *)
LEMMA HashProperties ==
    ASSUME NEW q \in Queries
    PROVE  /\ hashvalue(q) \in Nat
           /\ (\A t \in Tokens : 9 * Weight[t] < 100000) =>
                  hashvalue(q) \div 100000 = 3 * q.type + q.dist
<1> DEFINE s == TokensOf(q)
           term(x) == IF x <= Len(s) THEN x * Weight[s[x]] ELSE 0
           sum == term(1) + term(3) + term(5)
           k == q.dist + 3 * q.type
<1>1. Len(s) \in Nat /\ \A x \in 1..Len(s) : Weight[s[x]] \in Nat /\ s[x] \in Tokens
  <2>1. s \in Seq(Tokens) /\ Len(s) \in Nat
    BY TokensOfProperties
  <2>2. \A x \in 1..Len(s) : s[x] \in Tokens
    BY <2>1, ElementOfSeq
  <2> QED
    BY <2>1, <2>2, TokensAssumption
<1>2. hashvalue(q) = sum + 100000 * k
  BY DEF hashvalue
<1> HIDE DEF s
<1>3. q.type \in Nat /\ q.dist \in Nat /\ k \in Nat /\ k = 3 * q.type + q.dist
  <2>1. q.type \in 0..2 /\ q.dist \in 0..3
    BY QueriesAssumption DEF Exact, Edit
  <2> QED
    BY <2>1
<1>4. term(1) \in Nat /\ term(3) \in Nat /\ term(5) \in Nat
  BY <1>1
<1>5. ASSUME \A t \in Tokens : 9 * Weight[t] < 100000
      PROVE  9 * term(1) < 100000 /\ 9 * term(3) < 300000 /\ 9 * term(5) < 500000
  <2>1. ASSUME NEW x \in {1, 3, 5} PROVE 9 * term(x) < x * 100000
    <3>1. CASE x <= Len(s)
      <4>1. Weight[s[x]] \in Nat /\ 9 * Weight[s[x]] < 100000
        BY <1>1, <1>5, <3>1
      <4>2. \A w \in Nat : 9 * w < 100000 =>
                9 * (1 * w) < 100000 /\ 9 * (3 * w) < 300000 /\ 9 * (5 * w) < 500000
        OBVIOUS
      <4> QED
        BY <3>1, <4>1, <4>2
    <3>2. CASE ~(x <= Len(s))
      BY <3>2
    <3> QED
      BY <3>1, <3>2
  <2> QED
    BY <2>1
<1> HIDE DEF term, k
<1>6. hashvalue(q) \in Nat
  BY <1>2, <1>3, <1>4
<1>7. ASSUME \A t \in Tokens : 9 * Weight[t] < 100000
      PROVE  hashvalue(q) \div 100000 = k
  <2>1. sum \in Nat /\ sum < 100000
    BY <1>4, <1>5, <1>7
  <2> HIDE DEF sum
  <2>2. \A a, b \in Nat : a < 100000 => (a + 100000 * b) \div 100000 = b
    OBVIOUS
  <2> QED
    BY <1>2, <1>3, <2>1, <2>2
<1> QED
  BY <1>3, <1>6, <1>7

(* QidsVault::Add puts an id that is not there at its place.               *)
LEMMA AddQidProperties ==
    ASSUME NEW qids \in Seq(Qids), Increasing(qids), NEW id \in Qids, ~Contains(qids, id)
    PROVE  /\ AddQid(qids, id) \in Seq(Qids) /\ AddQid(qids, id) # <<>>
           /\ Increasing(AddQid(qids, id))
           /\ \A x : Contains(AddQid(qids, id), x) <=> Contains(qids, x) \/ x = id
<1> DEFINE n == Len(qids)
           smaller == {i \in DOMAIN qids : qids[i] < id}
           last == IF smaller = {} THEN 0
                   ELSE CHOOSE i \in smaller : \A j \in smaller : j <= i
<1>1. n \in Nat /\ id \in Nat /\ \A i \in 1..n : qids[i] \in Nat
  <2>1. n \in Nat
    BY LenProperties
  <2>2. \A i \in 1..n : qids[i] \in Nat
    BY ElementOfSeq, QidsAssumption
  <2> QED
    BY <2>1, <2>2, QidsAssumption
<1>2. smaller = {i \in 1..n : qids[i] < id}
  BY LenProperties
<1>3. /\ last \in 0..n
      /\ last # 0 => qids[last] < id
      /\ \A j \in 1..n : qids[j] < id => j <= last
  <2>1. CASE smaller = {}
    BY <1>1, <1>2, <2>1
  <2>2. CASE smaller # {}
    <3>1. \E i \in smaller : \A j \in smaller : j <= i
      <4>1. smaller \subseteq 0..n
        BY <1>1, <1>2
      <4> HIDE DEF smaller
      <4> QED
        BY <1>1, <2>2, <4>1, GreatestNat
    <3>2. last \in smaller /\ \A j \in smaller : j <= last
      BY <2>2, <3>1
    <3> HIDE DEF last
    <3> QED
      BY <1>1, <1>2, <3>2
  <2> QED
    BY <2>1, <2>2
<1>4. AddQid(qids, id) = InsertAt(qids, last + 1, id)
  BY DEF AddQid
<1> HIDE DEF last, smaller
<1>5. \A i \in 1..((last + 1) - 1) : qids[i] < id
  <2> SUFFICES ASSUME NEW i \in 1..((last + 1) - 1) PROVE qids[i] < id
    OBVIOUS
  <2>1. i \in 1..n /\ last \in 1..n /\ (i < last \/ i = last)
    BY <1>1, <1>3
  <2>2. qids[last] < id /\ (i = last \/ qids[i] < qids[last])
    BY <1>3, <2>1 DEF Increasing
  <2> QED
    BY <1>1, <2>1, <2>2
<1>6. \A i \in (last + 1)..n : id < qids[i]
  <2> SUFFICES ASSUME NEW i \in (last + 1)..n PROVE id < qids[i]
    OBVIOUS
  <2>1. i \in 1..n /\ ~(i <= last)
    BY <1>1, <1>3
  <2>2. qids[i] # id
    BY <2>1 DEF Contains
  <2> QED
    BY <1>1, <1>3, <2>1, <2>2
<1>7. last + 1 \in 1..(Len(qids) + 1) /\ Qids \subseteq Nat
  BY <1>1, <1>3, QidsAssumption
<1>8. InsertAt(qids, last + 1, id) \in Seq(Qids)
  BY <1>5, <1>6, <1>7, InsertInOrder
<1>9. Increasing(InsertAt(qids, last + 1, id))
  BY <1>5, <1>6, <1>7, InsertInOrder
<1>10. \A x : Contains(InsertAt(qids, last + 1, id), x) <=> Contains(qids, x) \/ x = id
  BY <1>5, <1>6, <1>7, InsertInOrder
<1>11. InsertAt(qids, last + 1, id) # <<>>
  <2>1. Contains(InsertAt(qids, last + 1, id), id)
    BY <1>10
  <2> QED
    BY <2>1 DEF Contains
<1> QED
  BY <1>4, <1>8, <1>9, <1>10, <1>11

(* QidsVault::Remove takes out the id and nothing else.                    *)
LEMMA RemoveQidProperties ==
    ASSUME NEW qids \in Seq(Qids), Increasing(qids), NEW id \in Qids
    PROVE  /\ RemoveQid(qids, id) \in Seq(Qids)
           /\ Increasing(RemoveQid(qids, id))
           /\ \A x : Contains(RemoveQid(qids, id), x) <=> Contains(qids, x) /\ x # id
<1> DEFINE I == {i \in 1..Len(qids) : qids[i] = id}
           k == Min(I)
<1>1. CASE ~Contains(qids, id)
  <2>1. RemoveQid(qids, id) = qids
    BY <1>1 DEF RemoveQid, RemoveFirst, Contains
  <2>2. \A x : Contains(qids, x) => x # id
    BY <1>1
  <2> QED
    BY <2>1, <2>2
<1>2. CASE Contains(qids, id)
  <2>1. I # {}
    BY <1>2 DEF Contains
  <2>2. RemoveQid(qids, id) = RemoveAt(qids, k)
    BY <1>2, <2>1 DEF RemoveQid, RemoveFirst, SelectInSeq, Contains
  <2>3. k \in I
    <3>1. I \subseteq Nat
      BY LenProperties
    <3> HIDE DEF I
    <3>2. \E x \in I : \A y \in I : x <= y
      BY <2>1, <3>1, SmallestNat
    <3> QED
      BY <3>2 DEF Min
  <2>4. k \in 1..Len(qids) /\ qids[k] = id
    BY <2>3
  <2> HIDE DEF k
  <2>5. RemoveAt(qids, k) \in Seq(Qids)
    BY <2>4, RemoveInOrder, QidsAssumption
  <2>6. Increasing(RemoveAt(qids, k))
    BY <2>4, RemoveInOrder, QidsAssumption
  <2>7. \A x : Contains(RemoveAt(qids, k), x) <=> Contains(qids, x) /\ x # qids[k]
    BY <2>4, RemoveInOrder, QidsAssumption
  <2> QED
    BY <2>2, <2>4, <2>5, <2>6, <2>7
<1> QED
  BY <1>1, <1>2

-------------------------------------------------------------------------------
(* Lists of entries.                                                       *)

(* The position of a word of a query is where TokensOf has it.             *)
LEMMA PositionProperties ==
    ASSUME NEW q \in Queries, NEW t, Contains(TokensOf(q), t)
    PROVE  /\ Position(q, t) \in 1..Len(TokensOf(q)) /\ TokensOf(q)[Position(q, t)] = t
           /\ Position(q, t) \in Nat /\ t \in Tokens
<1> DEFINE s == TokensOf(q)
<1>1. s \in Seq(Tokens) /\ DOMAIN s = 1..Len(s) /\ \A i \in 1..Len(s) : s[i] \in Tokens
  BY TokensOfProperties, LenProperties, ElementOfSeq
<1>2. \E i \in DOMAIN s : s[i] = t
  BY <1>1 DEF Contains
<1> QED
  BY <1>1, <1>2 DEF Position

(* The list of a removal is the one of the insertion, if there was one.    *)
LEMMA BucketProperties ==
    ASSUME NEW type \in Exact..Edit, NEW dist \in 0..3
    PROVE  /\ RemoveBucket(type, dist) \in Bucket
           /\ InsertBucket(type, dist) \subseteq {RemoveBucket(type, dist)}
           /\ type = Exact \/ dist > 0 => InsertBucket(type, dist) = {RemoveBucket(type, dist)}
<1>1. type = 0 \/ type = 1 \/ type = 2
  BY DEF Exact, Edit
<1>2. CASE type = 0
  <2>1. RemoveBucket(type, dist) = 0
    BY <1>2 DEF RemoveBucket, Exact, Hamming, Edit
  <2>2. InsertBucket(type, dist) = {0}
    BY <1>2 DEF InsertBucket, Exact
  <2> QED
    BY <2>1, <2>2 DEF Bucket
<1>3. CASE type = 1
  <2>1. RemoveBucket(type, dist) = dist
        /\ InsertBucket(type, dist) = {b \in {dist} : dist > 0}
    BY <1>3 DEF RemoveBucket, InsertBucket, Exact, Hamming, Edit
  <2> QED
    BY <1>3, <2>1 DEF Bucket, Exact
<1>4. CASE type = 2
  <2>1. RemoveBucket(type, dist) = 3 + dist
        /\ InsertBucket(type, dist) = {b \in {3 + dist} : dist > 0}
    BY <1>4 DEF RemoveBucket, InsertBucket, Exact, Hamming, Edit
  <2> QED
    BY <1>4, <2>1 DEF Bucket, Exact
<1> QED
  BY <1>1, <1>2, <1>3, <1>4

(* One more entry, of a cell that the list did not have.                   *)
LEMMA AppendEntry ==
    ASSUME NEW list \in Seq(Entries), OneEach(list), NEW e \in Entries, ~Has(list, e.qmid)
    PROVE  /\ Append(list, e) \in Seq(Entries)
           /\ OneEach(Append(list, e))
           /\ \A i \in 1..Len(Append(list, e)) :
                  Append(list, e)[i] = e \/ (i \in 1..Len(list) /\ Append(list, e)[i] = list[i])
           /\ \A n : Has(list, n) \/ n = e.qmid => Has(Append(list, e), n)
<1> DEFINE r == Append(list, e)
<1>1. /\ r \in Seq(Entries) /\ Len(list) \in Nat /\ Len(r) = Len(list) + 1
      /\ \A i \in 1..Len(list) : r[i] = list[i]
      /\ r[Len(list) + 1] = e
  BY LenProperties, AppendProperties
<1> HIDE DEF r
<1>2. \A i \in 1..Len(r) : \/ i = Len(list) + 1 /\ r[i] = e
                           \/ i \in 1..Len(list) /\ r[i] = list[i]
  BY <1>1
<1>3. OneEach(r)
  <2> SUFFICES ASSUME NEW i \in 1..Len(r), NEW j \in 1..Len(r), r[i].qmid = r[j].qmid
               PROVE  i = j
    BY DEF OneEach
  <2>1. CASE i \in 1..Len(list) /\ r[i] = list[i] /\ j \in 1..Len(list) /\ r[j] = list[j]
    BY <2>1 DEF OneEach
  <2>2. CASE r[i] = e /\ j \in 1..Len(list) /\ r[j] = list[j]
    BY <2>2 DEF Has
  <2>3. CASE r[j] = e /\ i \in 1..Len(list) /\ r[i] = list[i]
    BY <2>3 DEF Has
  <2> QED
    BY <1>2, <2>1, <2>2, <2>3
<1>4. ASSUME NEW n, Has(list, n) \/ n = e.qmid PROVE Has(r, n)
  <2>1. CASE n = e.qmid
    <3>1. Len(list) + 1 \in 1..Len(r)
      BY <1>1
    <3> QED
      BY <1>1, <2>1, <3>1 DEF Has
  <2>2. CASE Has(list, n)
    <3>1. PICK i \in 1..Len(list) : list[i].qmid = n
      BY <2>2 DEF Has
    <3>2. i \in 1..Len(r) /\ r[i] = list[i]
      BY <1>1
    <3> QED
      BY <3>1, <3>2 DEF Has
  <2> QED
    BY <1>4, <2>1, <2>2
<1>5. \A i \in 1..Len(r) : r[i] = e \/ (i \in 1..Len(list) /\ r[i] = list[i])
  BY <1>2
<1>6. r \in Seq(Entries)
  BY <1>1
<1> QED
  BY <1>3, <1>4, <1>5, <1>6 DEF r

(* What RemoveQmids makes of a list.                                       *)
Erased(list, m) ==
    LET i == SelectInSeq(list, LAMBDA e : e.qmid = m)
    IN  IF i = 0 THEN list ELSE RemoveAt(list, i)

(* The entry of a cell goes, if there is one, and no other.                *)
LEMMA EraseEntry ==
    ASSUME NEW list \in Seq(Entries), OneEach(list), NEW m
    PROVE  /\ Erased(list, m) \in Seq(Entries)
           /\ OneEach(Erased(list, m))
           /\ \A i \in 1..Len(Erased(list, m)) :
                  \E j \in 1..Len(list) : Erased(list, m)[i] = list[j] /\ list[j].qmid # m
           /\ \A n : Has(list, n) /\ n # m => Has(Erased(list, m), n)
<1> DEFINE I == {i \in 1..Len(list) : list[i].qmid = m}
           k == Min(I)
           r == RemoveAt(list, k)
           J(i) == IF i < k THEN i ELSE i + 1
<1>1. Len(list) \in Nat
  BY LenProperties
<1>2. CASE I = {}
  <2>1. Erased(list, m) = list
    BY <1>2 DEF Erased, SelectInSeq
  <2>2. \A i \in 1..Len(list) : list[i].qmid # m
    BY <1>2
  <2> QED
    BY <2>1, <2>2
<1>3. CASE I # {}
  <2>1. k \in I
    <3>1. I \subseteq Nat
      OBVIOUS
    <3> HIDE DEF I
    <3>2. \E x \in I : \A y \in I : x <= y
      BY <1>3, <3>1, SmallestNat
    <3> QED
      BY <3>2 DEF Min
  <2>2. Erased(list, m) = RemoveAt(list, k)
    <3>1. Erased(list, m) = IF k = 0 THEN list ELSE RemoveAt(list, k)
      BY <1>3 DEF Erased, SelectInSeq
    <3>2. k # 0
      <4> HIDE DEF k
      <4> QED
        BY <2>1
    <3> HIDE DEF k
    <3> QED
      BY <3>1, <3>2
  <2>3. k \in 1..Len(list) /\ list[k].qmid = m
    BY <2>1
  <2> HIDE DEF k
  <2>4. /\ r \in Seq(Entries) /\ Len(r) = Len(list) - 1
        /\ \A i \in 1..(Len(list) - 1) : r[i] = list[J(i)]
    BY <2>3, RemoveAtProperties
  <2>5. \A i \in 1..(Len(list) - 1) : J(i) \in 1..Len(list) /\ J(i) # k
    BY <1>1, <2>3
  <2>6. \A i, j \in 1..(Len(list) - 1) : J(i) = J(j) => i = j
    BY <1>1, <2>3
  <2>7. \A j \in 1..Len(list) : j # k => \E i \in 1..(Len(list) - 1) : J(i) = j
    <3> SUFFICES ASSUME NEW j \in 1..Len(list), j # k
                 PROVE  \E i \in 1..(Len(list) - 1) : J(i) = j
      OBVIOUS
    <3>1. CASE j < k
      BY <1>1, <2>3, <3>1
    <3>2. CASE j > k
      <4>1. j - 1 \in 1..(Len(list) - 1) /\ J(j - 1) = j
        BY <1>1, <2>3, <3>2
      <4> QED
        BY <4>1
    <3> QED
      BY <1>1, <2>3, <3>1, <3>2
  <2> HIDE DEF J, r
  <2>8. \A i \in 1..Len(r) : /\ J(i) \in 1..Len(list) /\ J(i) # k
                             /\ r[i] = list[J(i)] /\ list[J(i)].qmid # m
    <3>1. \A j \in 1..Len(list) : j # k => list[j].qmid # m
      BY <2>3 DEF OneEach
    <3> QED
      BY <2>4, <2>5, <3>1
  <2>9. OneEach(r)
    <3> SUFFICES ASSUME NEW i \in 1..Len(r), NEW j \in 1..Len(r), r[i].qmid = r[j].qmid
                 PROVE  i = j
      BY DEF OneEach
    <3>1. J(i) = J(j)
      BY <2>8 DEF OneEach
    <3> QED
      BY <2>4, <2>6, <3>1
  <2>10. ASSUME NEW n, Has(list, n), n # m PROVE Has(r, n)
    <3>1. PICK j \in 1..Len(list) : list[j].qmid = n
      BY <2>10 DEF Has
    <3>2. j # k
      BY <2>3, <2>10, <3>1
    <3>3. PICK i \in 1..(Len(list) - 1) : J(i) = j
      BY <2>7, <3>2
    <3>4. i \in 1..Len(r) /\ r[i].qmid = n
      BY <2>4, <3>1, <3>3
    <3> QED
      BY <3>4 DEF Has
  <2> QED
    BY <2>2, <2>4, <2>8, <2>9, <2>10 DEF r
<1> QED
  BY <1>2, <1>3

-------------------------------------------------------------------------------
(* The invariant holds at first.                                           *)

(* No cell, no list, no id.                                                *)
LEMMA InitInvariant == Init => IInv
<1> SUFFICES ASSUME Init PROVE IInv
  OBVIOUS
<1>1. /\ vault_ = <<>> /\ emptycells_ = <<>> /\ qmidindex = {}
      /\ qidindex = [id \in Qids |-> 0]
      /\ querypointer_ = [t \in Tokens |-> [b \in Bucket |-> <<>>]]
      /\ alive = TRUE /\ active = <<>> /\ used = {}
  BY DEF Init
<1>2. Len(<<>>) = 0 /\ Mids = {} /\ DOMAIN active = {}
  BY <1>1 DEF Mids
<1>3. <<>> \in Seq(Cells) /\ <<>> \in Seq(Nat) /\ <<>> \in Seq(Entries)
  OBVIOUS
<1>4. Shapes
  <2>1. querypointer_ \in [Tokens -> [Bucket -> Seq(Entries)]]
    BY <1>1, <1>3
  <2>2. qidindex \in [Qids -> 0..Len(vault_)]
    BY <1>1, <1>2
  <2>3. active \in [DOMAIN active -> Queries]
    BY <1>1, <1>2
  <2> QED
    BY <1>1, <1>2, <1>3, <2>1, <2>2, <2>3 DEF Shapes
<1>5. Empties
  BY <1>1, <1>2 DEF Empties, Contains
<1>6. Ordered /\ Members /\ Located /\ Stands /\ Reached
  BY <1>2 DEF Ordered, Members, Located, Stands, Reached
<1>7. Lists
  BY <1>1, <1>2 DEF Lists, OneEach
<1> QED
  BY <1>4, <1>5, <1>6, <1>7 DEF IInv

-------------------------------------------------------------------------------
(* What the parts of the invariant say together.                           *)

(* What is known of a cell.                                                *)
LEMMA CellFacts ==
    ASSUME IInv, NEW m \in Mids
    PROVE  /\ Len(vault_) \in Nat /\ vault_ \in Seq(Cells) /\ vault_[m] \in Cells
           /\ vault_[m].type \in Exact..Edit /\ vault_[m].dist \in 0..3
           /\ vault_[m].tids_ \in Seq(Tokens) /\ vault_[m].qids \in Seq(Qids)
           /\ Increasing(vault_[m].qids)
<1>1. vault_ \in Seq(Cells) /\ Len(vault_) \in Nat
  BY LenProperties DEF IInv, Shapes
<1>2. vault_[m] \in Cells
  BY <1>1, ElementOfSeq DEF Mids
<1>3. Increasing(vault_[m].qids)
  BY DEF IInv, Ordered
<1> QED
  BY <1>1, <1>2, <1>3 DEF Cells

(* The cell of an active id has the id, and so it has ids.                 *)
LEMMA ActiveIsLive ==
    ASSUME IInv, NEW id \in DOMAIN active
    PROVE  /\ id \in Qids /\ id \in used /\ active[id] \in Queries
           /\ Live(qidindex[id]) /\ Contains(vault_[qidindex[id]].qids, id)
<1>1. id \in Qids /\ id \in used /\ active[id] \in Queries
  BY DEF IInv, Shapes
<1>2. qidindex[id] \in Mids
  BY DEF IInv, Located
<1>3. Contains(vault_[qidindex[id]].qids, id)
  BY <1>1, <1>2 DEF IInv, Members
<1>4. vault_[qidindex[id]].qids # <<>>
  BY <1>3 DEF Contains
<1> QED
  BY <1>1, <1>2, <1>3, <1>4 DEF Live

(* A cell with ids is the cell of an active query.                         *)
LEMMA LiveIsActive ==
    ASSUME IInv, NEW m, Live(m)
    PROVE  \E id \in DOMAIN active : qidindex[id] = m
<1>1. m \in Mids /\ vault_[m].qids # <<>> /\ vault_[m].qids \in Seq(Qids)
  BY CellFacts DEF Live
<1>2. Len(vault_[m].qids) \in Nat /\ Len(vault_[m].qids) >= 1
  BY <1>1, EmptySeq, LenProperties
<1>3. vault_[m].qids[1] \in Qids /\ Contains(vault_[m].qids, vault_[m].qids[1])
  BY <1>1, <1>2, ElementOfSeq DEF Contains
<1> QED
  BY <1>1, <1>3 DEF IInv, Members

(* What is known of a list.                                                *)
LEMMA ListFacts ==
    ASSUME IInv, NEW t \in Tokens, NEW b \in Bucket
    PROVE  /\ querypointer_[t][b] \in Seq(Entries)
           /\ OneEach(querypointer_[t][b])
           /\ \A i \in 1..Len(querypointer_[t][b]) :
                  /\ querypointer_[t][b][i] \in Entries
                  /\ Fits(vault_, querypointer_[t][b][i], t, b)
           /\ \A m : Has(querypointer_[t][b], m) => Live(m)
<1>1. querypointer_[t][b] \in Seq(Entries)
  BY DEF IInv, Shapes
<1>2. \A i \in 1..Len(querypointer_[t][b]) : querypointer_[t][b][i] \in Entries
  BY <1>1, ElementOfSeq
<1>3. OneEach(querypointer_[t][b])
      /\ \A i \in 1..Len(querypointer_[t][b]) : Fits(vault_, querypointer_[t][b][i], t, b)
  BY DEF IInv, Lists
<1>4. \A m : Has(querypointer_[t][b], m) => Live(m)
  BY <1>3 DEF Has, Fits, Live, Mids
<1> QED
  BY <1>1, <1>2, <1>3, <1>4

(* A cell that StandFor makes of an empty one.                             *)
LEMMA StandForProperties ==
    ASSUME NEW cell \in Cells, cell.tids_ = <<>>, cell.qids = <<>>,
           NEW id \in Qids, NEW q \in Queries
    PROVE  LET c == StandFor(cell, id, q)
           IN  /\ c \in Cells
               /\ c.type = q.type /\ c.dist = q.dist /\ c.tids_ = TokensOf(q)
               /\ c.qids # <<>> /\ Increasing(c.qids)
               /\ \A x : Contains(c.qids, x) <=> x = id
<1>1. <<>> \in Seq(Qids) /\ Increasing(<<>>) /\ \A x : ~Contains(<<>>, x)
  <2>1. Len(<<>>) = 0
    OBVIOUS
  <2> QED
    BY <2>1 DEF Increasing, Contains
<1> DEFINE ids == AddQid(<<>>, id)
           c == StandFor(cell, id, q)
<1>2. ids \in Seq(Qids) /\ ids # <<>> /\ Increasing(ids)
  BY <1>1, AddQidProperties
<1>3. \A x : Contains(ids, x) <=> x = id
  BY <1>1, AddQidProperties
<1>4. <<>> \o TokensOf(q) = TokensOf(q) /\ TokensOf(q) \in Seq(Tokens)
  BY TokensOfProperties, ConcatEmptySeq
<1> HIDE DEF ids
<1>5. c = [type |-> q.type, dist |-> q.dist, tids_ |-> TokensOf(q), qids |-> ids]
  <2>1. c = [[[[cell EXCEPT !.type = q.type] EXCEPT !.dist = q.dist] EXCEPT !.qids = ids]
                EXCEPT !.tids_ = <<>> \o TokensOf(q)]
    BY DEF StandFor, AddTokenIds, ids, Cells
  <2> QED
    BY <1>4, <2>1 DEF Cells
<1>6. q.type \in Exact..Edit /\ q.dist \in 0..3
  BY QueriesAssumption
<1>7. c \in Cells
  BY <1>2, <1>4, <1>5, <1>6 DEF Cells
<1> HIDE DEF c
<1>8. c.type = q.type /\ c.dist = q.dist /\ c.tids_ = TokensOf(q) /\ c.qids = ids
  BY <1>5
<1> QED
  BY <1>2, <1>3, <1>7, <1>8 DEF c

-------------------------------------------------------------------------------
(* AddQuery keeps the invariant.                                           *)

(* A step that puts a query in a cell without queries, old or new.         *)
LEMMA FreshCell ==
    ASSUME IInv, NEW id \in Qids, id \notin used, NEW q \in Queries, NEW m, ~Live(m),
           vault_' \in Seq(Cells), emptycells_' \in Seq(Nat), m \in Mids',
           \A n \in Mids : n \in Mids',
           \A n \in Mids' : n # m => n \in Mids /\ vault_'[n] = vault_[n],
           vault_'[m].type = q.type, vault_'[m].dist = q.dist, vault_'[m].tids_ = TokensOf(q),
           vault_'[m].qids # <<>>, Increasing(vault_'[m].qids),
           \A x : Contains(vault_'[m].qids, x) <=> x = id,
           qidindex' = [qidindex EXCEPT ![id] = m],
           qmidindex' = qmidindex \union {<<hashvalue(q), m>>},
           querypointer_' = InsertQmids(q, m),
           used' = used \union {id},
           active' = [i \in DOMAIN active \union {id} |-> IF i = id THEN q ELSE active[i]],
           alive' = alive
    PROVE  Shapes' /\ Ordered' /\ Members' /\ Located' /\ Stands' /\ Lists' /\ Reached'
<1>1. /\ qidindex \in [Qids -> 0..Len(vault_)] /\ DOMAIN active \subseteq used /\ used \subseteq Qids
      /\ active \in [DOMAIN active -> Queries]
      /\ qmidindex \subseteq Nat \X (1..Len(vault_))
      /\ alive \in BOOLEAN
  BY DEF IInv, Shapes
<1>2. Len(vault_) \in Nat /\ Len(vault_') \in Nat /\ m \in Nat /\ 1 <= m /\ m <= Len(vault_')
  <2>1. Len(vault_) \in Nat /\ Len(vault_') \in Nat
    BY LenProperties DEF IInv, Shapes
  <2> QED
    BY <2>1 DEF Mids
<1>3. Len(vault_) <= Len(vault_')
  <2>1. CASE Len(vault_) = 0
    BY <1>2, <2>1
  <2>2. CASE Len(vault_) # 0
    BY <1>2, <2>2 DEF Mids
  <2> QED
    BY <2>1, <2>2
<1>4. /\ DOMAIN active' = DOMAIN active \union {id}
      /\ active'[id] = q /\ id \notin DOMAIN active
      /\ \A i \in DOMAIN active : active'[i] = active[i]
      /\ qidindex'[id] = m
      /\ \A i \in Qids : i # id => qidindex'[i] = qidindex[i]
      /\ \A i \in DOMAIN active : i \in Qids
  BY <1>1
<1>5. \A n \in Mids : Live(n) => n # m /\ n \in Mids' /\ vault_'[n] = vault_[n]
  OBVIOUS
<1>6. Ordered'
  BY DEF IInv, Ordered
<1>7. Located'
  BY <1>4, <1>5 DEF IInv, Located
<1>8. Members'
  <2> SUFFICES ASSUME NEW n \in Mids', NEW x \in Qids
               PROVE  Contains(vault_'[n].qids, x) <=> x \in DOMAIN active' /\ qidindex'[x] = n
    BY DEF Members
  <2>1. \A i \in DOMAIN active : qidindex[i] # m
    BY ActiveIsLive
  <2>2. CASE n = m
    BY <1>4, <2>1, <2>2
  <2>3. CASE n # m
    <3>1. n \in Mids /\ vault_'[n] = vault_[n]
      BY <2>3
    <3>2. Contains(vault_[n].qids, x) <=> x \in DOMAIN active /\ qidindex[x] = n
      BY <3>1 DEF IInv, Members
    <3> QED
      BY <1>4, <2>3, <3>1, <3>2
  <2> QED
    BY <2>2, <2>3
<1>9. Stands'
  <2> SUFFICES ASSUME NEW i \in DOMAIN active'
               PROVE  /\ vault_'[qidindex'[i]].type = active'[i].type
                      /\ vault_'[qidindex'[i]].dist = active'[i].dist
                      /\ vault_'[qidindex'[i]].tids_ = TokensOf(active'[i])
                      /\ <<hashvalue(active'[i]), qidindex'[i]>> \in qmidindex'
    BY DEF Stands
  <2>1. CASE i = id
    BY <1>4, <2>1
  <2>2. CASE i # id
    <3>1. i \in DOMAIN active /\ active'[i] = active[i] /\ qidindex'[i] = qidindex[i]
      BY <1>4, <2>2
    <3>2. vault_'[qidindex[i]] = vault_[qidindex[i]]
      BY <1>5, <3>1, ActiveIsLive DEF Live
    <3> QED
      BY <3>1, <3>2 DEF IInv, Stands
  <2> QED
    BY <2>1, <2>2
<1> DEFINE B == InsertBucket(q.type, q.dist)
           e(t) == [qmid |-> m, position |-> Position(q, t)]
<1>10. B \subseteq Bucket
  BY QueriesAssumption, BucketProperties
<1>11. \A t \in Tokens, b \in Bucket : ~Has(querypointer_[t][b], m)
  BY ListFacts
<1>12. \A t \in Tokens, b \in Bucket :
          querypointer_'[t][b] = IF b \in B /\ Contains(TokensOf(q), t)
                                 THEN Append(querypointer_[t][b], e(t)) ELSE querypointer_[t][b]
  BY DEF InsertQmids
<1>13. \A t : Contains(TokensOf(q), t) =>
          /\ e(t) \in Entries /\ e(t).qmid = m /\ e(t).position = Position(q, t)
          /\ Position(q, t) \in 1..Len(TokensOf(q)) /\ TokensOf(q)[Position(q, t)] = t
  BY <1>2, PositionProperties DEF Entries
<1> HIDE DEF e, B
<1>14. ASSUME NEW t \in Tokens, NEW b \in Bucket
       PROVE  /\ querypointer_'[t][b] \in Seq(Entries)
              /\ OneEach(querypointer_'[t][b])
              /\ \A i \in 1..Len(querypointer_'[t][b]) : Fits(vault_', querypointer_'[t][b][i], t, b)
              /\ \A n : Has(querypointer_[t][b], n) => Has(querypointer_'[t][b], n)
              /\ b \in B /\ Contains(TokensOf(q), t) => Has(querypointer_'[t][b], m)
  <2> DEFINE list == querypointer_[t][b]
  <2>1. /\ list \in Seq(Entries) /\ OneEach(list) /\ ~Has(list, m)
        /\ \A i \in 1..Len(list) : list[i] \in Entries /\ Fits(vault_, list[i], t, b)
    BY <1>11, ListFacts
  <2>2. \A i \in 1..Len(list) : Fits(vault_', list[i], t, b)
    <3> SUFFICES ASSUME NEW i \in 1..Len(list) PROVE Fits(vault_', list[i], t, b)
      OBVIOUS
    <3>1. Fits(vault_, list[i], t, b)
      BY <2>1
    <3>2. vault_'[list[i].qmid] = vault_[list[i].qmid] /\ list[i].qmid \in Mids'
      BY <1>5, <3>1 DEF Fits, Live, Mids
    <3> QED
      BY <3>1, <3>2 DEF Fits, Live, Mids
  <2>3. CASE b \in B /\ Contains(TokensOf(q), t)
    <3> DEFINE r == Append(list, e(t))
    <3>1. querypointer_'[t][b] = r
      BY <1>12, <2>3
    <3>2. e(t) \in Entries /\ e(t).qmid = m
      BY <1>13, <2>3
    <3> HIDE DEF list
    <3>3. r \in Seq(Entries) /\ OneEach(r)
      BY <2>1, <3>2, AppendEntry
    <3>4. \A i \in 1..Len(r) : r[i] = e(t) \/ (i \in 1..Len(list) /\ r[i] = list[i])
      BY <2>1, <3>2, AppendEntry
    <3>5. \A n : Has(list, n) \/ n = m => Has(r, n)
      BY <2>1, <3>2, AppendEntry
    <3>6. Fits(vault_', e(t), t, b)
      <4>1. m \in 1..Len(vault_')
        BY DEF Mids
      <4> QED
        BY <1>13, <2>3, <4>1 DEF Fits, B
    <3> HIDE DEF r
    <3>7. \A i \in 1..Len(r) : Fits(vault_', r[i], t, b)
      BY <2>2, <3>4, <3>6
    <3> QED
      BY <3>1, <3>3, <3>5, <3>7 DEF list
  <2>4. CASE ~(b \in B /\ Contains(TokensOf(q), t))
    BY <1>12, <2>1, <2>2, <2>4
  <2> QED
    BY <2>3, <2>4
<1>15. Lists'
  BY <1>14 DEF Lists
<1>16. Reached'
  <2> SUFFICES ASSUME NEW n \in Mids', vault_'[n].qids # <<>>,
                      NEW b \in InsertBucket(vault_'[n].type, vault_'[n].dist),
                      NEW x \in 1..Len(vault_'[n].tids_)
               PROVE  Has(querypointer_'[vault_'[n].tids_[x]][b], n)
    BY DEF Reached
  <2>1. CASE n = m
    <3> DEFINE t == TokensOf(q)[x]
    <3>1. t \in Tokens /\ Contains(TokensOf(q), t)
      BY <2>1, TokensOfProperties, ElementOfSeq DEF Contains
    <3>2. b \in B /\ b \in Bucket
      BY <1>10, <2>1 DEF B
    <3> QED
      BY <1>14, <2>1, <3>1, <3>2
  <2>2. CASE n # m
    <3>1. n \in Mids /\ vault_'[n] = vault_[n]
      BY <2>2
    <3>2. vault_[n].tids_[x] \in Tokens /\ b \in Bucket
      <4>1. vault_[n].type \in Exact..Edit /\ vault_[n].dist \in 0..3 /\ vault_[n].tids_ \in Seq(Tokens)
        BY <3>1, CellFacts
      <4> QED
        BY <3>1, <4>1, BucketProperties, ElementOfSeq
    <3>3. Has(querypointer_[vault_[n].tids_[x]][b], n)
      BY <3>1 DEF IInv, Reached
    <3> QED
      BY <1>14, <3>1, <3>2, <3>3
  <2> QED
    BY <2>1, <2>2
<1>17. Shapes'
  <2>1. querypointer_' = [t \in Tokens |-> [b \in Bucket |-> querypointer_'[t][b]]]
    BY DEF InsertQmids
  <2>2. querypointer_' \in [Tokens -> [Bucket -> Seq(Entries)]]
    BY <1>14, <2>1
  <2>3. qidindex' \in [Qids -> 0..Len(vault_')]
    BY <1>1, <1>2, <1>3
  <2>4. qmidindex' \subseteq Nat \X (1..Len(vault_'))
    <3>1. hashvalue(q) \in Nat
      BY HashProperties
    <3> QED
      BY <1>1, <1>2, <1>3, <3>1
  <2>5. active' \in [DOMAIN active' -> Queries]
    BY <1>1
  <2>6. DOMAIN active' \subseteq used' /\ used' \subseteq Qids
    BY <1>1, <1>4
  <2> QED
    BY <1>1, <2>2, <2>3, <2>4, <2>5, <2>6 DEF Shapes
<1> QED
  BY <1>6, <1>7, <1>8, <1>9, <1>15, <1>16, <1>17

(* HashLookup takes a cell of active queries with the tokens, the type and *)
(* the distance of the query.                                              *)
LEMMA LookupFacts ==
    ASSUME IInv, NEW q \in Queries, NEW m \in HashLookup(q)
    PROVE  /\ Live(m) /\ <<hashvalue(q), m>> \in qmidindex
           /\ vault_[m].type = q.type /\ vault_[m].dist = q.dist
           /\ vault_[m].tids_ = TokensOf(q)
<1>1. /\ m \in DOMAIN vault_ /\ <<hashvalue(q), m>> \in qmidindex
      /\ vault_[m].type = q.type /\ vault_[m].dist = q.dist
      /\ vault_[m].tids_ = TokensOf(q)
  BY DEF HashLookup
<1>2. m \in Mids
  BY <1>1, LenProperties DEF IInv, Shapes, Mids
<1>3. vault_[m].tids_ # <<>>
  BY <1>1, TokensOfProperties
<1> QED
  BY <1>1, <1>2, <1>3 DEF IInv, Empties, Live

(* A step that changes the ids of one cell, which has some before and      *)
(* after, and no list.                                                     *)
LEMMA SameCells ==
    ASSUME IInv, NEW m, Live(m), NEW qids \in Seq(Qids), qids # <<>>, Increasing(qids),
           vault_' = [vault_ EXCEPT ![m].qids = qids],
           UNCHANGED <<emptycells_, querypointer_>>
    PROVE  /\ vault_' \in Seq(Cells) /\ Len(vault_') = Len(vault_) /\ Mids' = Mids
           /\ vault_'[m].qids = qids
           /\ \A n \in Mids : /\ vault_'[n].type = vault_[n].type /\ vault_'[n].dist = vault_[n].dist
                              /\ vault_'[n].tids_ = vault_[n].tids_
                              /\ n # m => vault_'[n].qids = vault_[n].qids
           /\ Ordered' /\ Empties' /\ Lists' /\ Reached'
<1> DEFINE c == [vault_[m] EXCEPT !.qids = qids]
<1>1. m \in 1..Len(vault_) /\ vault_[m].qids # <<>> /\ vault_ \in Seq(Cells) /\ vault_[m] \in Cells
      /\ Len(vault_) \in Nat
  BY CellFacts DEF Live, Mids
<1>2. /\ c \in Cells /\ c.qids = qids /\ c.type = vault_[m].type /\ c.dist = vault_[m].dist
      /\ c.tids_ = vault_[m].tids_
  BY <1>1 DEF Cells
<1>3. vault_' = [vault_ EXCEPT ![m] = c]
  OBVIOUS
<1> HIDE DEF c
<1>4. /\ vault_' \in Seq(Cells) /\ Len(vault_') = Len(vault_)
      /\ \A n \in 1..Len(vault_) : vault_'[n] = IF n = m THEN c ELSE vault_[n]
  <2>1. [vault_ EXCEPT ![m] = c] \in Seq(Cells) /\ Len([vault_ EXCEPT ![m] = c]) = Len(vault_)
    BY <1>1, <1>2, ExceptSeq
  <2>2. \A n \in 1..Len(vault_) : [vault_ EXCEPT ![m] = c][n] = IF n = m THEN c ELSE vault_[n]
    BY <1>1, <1>2, ExceptSeq
  <2> QED
    BY <1>3, <2>1, <2>2
<1>5. Mids' = Mids
  BY <1>4 DEF Mids
<1>6. \A n \in Mids : /\ vault_'[n].type = vault_[n].type /\ vault_'[n].dist = vault_[n].dist
                      /\ vault_'[n].tids_ = vault_[n].tids_
                      /\ n # m => vault_'[n].qids = vault_[n].qids
  BY <1>2, <1>4 DEF Mids
<1>7. vault_'[m].qids = qids
  BY <1>1, <1>2, <1>4
<1>8. \A n \in Mids : vault_'[n].qids = <<>> <=> vault_[n].qids = <<>>
  BY <1>1, <1>6, <1>7
<1>9. Ordered'
  <2>1. \A n \in Mids : vault_'[n].qids = qids \/ vault_'[n].qids = vault_[n].qids
    BY <1>6, <1>7
  <2> QED
    BY <1>5, <2>1 DEF IInv, Ordered
<1>10. Empties'
  BY <1>5, <1>6, <1>8 DEF IInv, Empties
<1>11. Lists'
  <2> SUFFICES ASSUME NEW t \in Tokens, NEW b \in Bucket, NEW i \in 1..Len(querypointer_[t][b])
               PROVE  Fits(vault_', querypointer_[t][b][i], t, b)
    BY ListFacts DEF Lists
  <2>1. Fits(vault_, querypointer_[t][b][i], t, b)
    BY ListFacts
  <2> QED
    BY <1>4, <1>6, <1>8, <2>1 DEF Fits, Mids
<1>12. Reached'
  <2> SUFFICES ASSUME NEW n \in Mids', vault_'[n].qids # <<>>,
                      NEW b \in InsertBucket(vault_'[n].type, vault_'[n].dist),
                      NEW x \in 1..Len(vault_'[n].tids_)
               PROVE  Has(querypointer_[vault_'[n].tids_[x]][b], n)
    BY DEF Reached
  <2>1. n \in Mids /\ vault_[n].qids # <<>>
    BY <1>5, <1>8
  <2>2. vault_'[n].type = vault_[n].type /\ vault_'[n].dist = vault_[n].dist
        /\ vault_'[n].tids_ = vault_[n].tids_
    BY <1>6, <2>1
  <2> QED
    BY <2>1, <2>2 DEF IInv, Reached
<1> QED
  BY <1>4, <1>5, <1>6, <1>7, <1>9, <1>10, <1>11, <1>12

(* The query exists: its cell gets one more id.                            *)
LEMMA ShareCellInvariant ==
    ASSUME IInv, NEW id \in Qids, id \notin used, NEW q \in Queries, ShareCell(id, q),
           used' = used \union {id},
           active' = [i \in DOMAIN active \union {id} |-> IF i = id THEN q ELSE active[i]],
           alive' = alive
    PROVE  IInv'
<1>1. PICK m \in HashLookup(q) :
          /\ vault_' = [vault_ EXCEPT ![m].qids = AddQid(@, id)]
          /\ qidindex' = [qidindex EXCEPT ![id] = m]
          /\ UNCHANGED <<emptycells_, qmidindex, querypointer_>>
  BY DEF ShareCell
<1>2. /\ Live(m) /\ m \in Mids /\ <<hashvalue(q), m>> \in qmidindex
      /\ vault_[m].type = q.type /\ vault_[m].dist = q.dist
      /\ vault_[m].tids_ = TokensOf(q)
  BY LookupFacts DEF Live
<1>3. /\ qidindex \in [Qids -> 0..Len(vault_)] /\ DOMAIN active \subseteq used /\ used \subseteq Qids
      /\ active \in [DOMAIN active -> Queries] /\ alive \in BOOLEAN
  BY DEF IInv, Shapes
<1>4. /\ DOMAIN active' = DOMAIN active \union {id}
      /\ active'[id] = q /\ id \notin DOMAIN active
      /\ \A i \in DOMAIN active : active'[i] = active[i]
      /\ qidindex'[id] = m
      /\ \A i \in Qids : i # id => qidindex'[i] = qidindex[i]
      /\ \A i \in DOMAIN active : i \in Qids
  BY <1>1, <1>3
<1> DEFINE qids == AddQid(vault_[m].qids, id)
<1>5. vault_[m].qids \in Seq(Qids) /\ Increasing(vault_[m].qids) /\ ~Contains(vault_[m].qids, id)
  BY <1>2, <1>4, CellFacts DEF IInv, Members
<1>6. qids \in Seq(Qids) /\ qids # <<>> /\ Increasing(qids)
  BY <1>5, AddQidProperties
<1>7. \A x : Contains(qids, x) <=> Contains(vault_[m].qids, x) \/ x = id
  BY <1>5, AddQidProperties
<1>8. vault_' = [vault_ EXCEPT ![m].qids = qids]
  BY <1>1
<1> HIDE DEF qids
<1>9. /\ vault_' \in Seq(Cells) /\ Len(vault_') = Len(vault_) /\ Mids' = Mids
      /\ vault_'[m].qids = qids
      /\ \A n \in Mids : /\ vault_'[n].type = vault_[n].type /\ vault_'[n].dist = vault_[n].dist
                         /\ vault_'[n].tids_ = vault_[n].tids_
                         /\ n # m => vault_'[n].qids = vault_[n].qids
  BY <1>1, <1>2, <1>6, <1>8, SameCells
<1>10. Ordered' /\ Empties' /\ Lists' /\ Reached'
  BY <1>1, <1>2, <1>6, <1>8, SameCells
<1>11. Located'
  BY <1>2, <1>4, <1>9 DEF IInv, Located
<1>12. Members'
  <2> SUFFICES ASSUME NEW n \in Mids, NEW x \in Qids
               PROVE  Contains(vault_'[n].qids, x) <=> x \in DOMAIN active' /\ qidindex'[x] = n
    BY <1>9 DEF Members
  <2>1. Contains(vault_[n].qids, x) <=> x \in DOMAIN active /\ qidindex[x] = n
    BY DEF IInv, Members
  <2>2. CASE n = m
    BY <1>4, <1>7, <1>9, <2>1, <2>2
  <2>3. CASE n # m
    BY <1>4, <1>9, <2>1, <2>3
  <2> QED
    BY <2>2, <2>3
<1>13. Stands'
  <2> SUFFICES ASSUME NEW i \in DOMAIN active'
               PROVE  /\ vault_'[qidindex'[i]].type = active'[i].type
                      /\ vault_'[qidindex'[i]].dist = active'[i].dist
                      /\ vault_'[qidindex'[i]].tids_ = TokensOf(active'[i])
                      /\ <<hashvalue(active'[i]), qidindex'[i]>> \in qmidindex'
    BY DEF Stands
  <2>1. CASE i = id
    <3>1. qidindex'[i] = m /\ active'[i] = q
      BY <1>4, <2>1
    <3>2. vault_'[m].type = q.type /\ vault_'[m].dist = q.dist /\ vault_'[m].tids_ = TokensOf(q)
      BY <1>2, <1>9
    <3>3. <<hashvalue(q), m>> \in qmidindex'
      BY <1>1, <1>2
    <3> QED
      BY <3>1, <3>2, <3>3
  <2>2. CASE i # id
    <3>1. i \in DOMAIN active /\ active'[i] = active[i] /\ qidindex'[i] = qidindex[i]
      BY <1>4, <2>2
    <3>2. qidindex[i] \in Mids
      BY <3>1 DEF IInv, Located
    <3> QED
      BY <1>1, <1>9, <3>1, <3>2 DEF IInv, Stands
  <2> QED
    BY <2>1, <2>2
<1>14. Shapes'
  <2>1. qidindex' \in [Qids -> 0..Len(vault_)]
    BY <1>1, <1>2, <1>3 DEF Mids
  <2>2. active' \in [DOMAIN active' -> Queries]
    BY <1>3
  <2>3. DOMAIN active' \subseteq used' /\ used' \subseteq Qids
    BY <1>3, <1>4
  <2> QED
    BY <1>1, <1>9, <2>1, <2>2, <2>3 DEF IInv, Shapes
<1> QED
  BY <1>10, <1>11, <1>12, <1>13, <1>14 DEF IInv

(* A cell is taken from the stack.                                         *)
LEMMA RecycleCellInvariant ==
    ASSUME IInv, NEW id \in Qids, id \notin used, NEW q \in Queries, RecycleCell(id, q),
           used' = used \union {id},
           active' = [i \in DOMAIN active \union {id} |-> IF i = id THEN q ELSE active[i]],
           alive' = alive
    PROVE  IInv'
<1> DEFINE k == Len(emptycells_)
           m == emptycells_[k]
           c == StandFor(vault_[m], id, q)
<1>1. /\ emptycells_ # <<>> /\ emptycells_' = SubSeq(emptycells_, 1, k - 1)
      /\ qmidindex' = qmidindex \union {<<hashvalue(q), m>>}
      /\ vault_' = [vault_ EXCEPT ![m] = c]
      /\ qidindex' = [qidindex EXCEPT ![id] = m]
      /\ querypointer_' = InsertQmids(q, m)
  BY DEF RecycleCell, Last, Front
<1>2. emptycells_ \in Seq(Nat) /\ k \in Nat /\ k >= 1
  BY <1>1, EmptySeq, LenProperties DEF IInv, Shapes
<1>3. m \in Mids /\ vault_[m].qids = <<>> /\ vault_[m].tids_ = <<>>
  <2>1. Contains(emptycells_, m)
    BY <1>2 DEF Contains
  <2> HIDE DEF m
  <2> QED
    BY <2>1 DEF IInv, Empties
<1>4. ~Live(m)
  BY <1>3 DEF Live
<1> HIDE DEF m
<1>5. vault_[m] \in Cells /\ vault_ \in Seq(Cells) /\ m \in 1..Len(vault_)
  BY <1>3, CellFacts DEF Mids
<1>6. /\ c \in Cells /\ c.type = q.type /\ c.dist = q.dist /\ c.tids_ = TokensOf(q)
      /\ c.qids # <<>> /\ Increasing(c.qids)
  BY <1>3, <1>5, StandForProperties
<1>7. \A x : Contains(c.qids, x) <=> x = id
  BY <1>3, <1>5, StandForProperties
<1> HIDE DEF c
<1>8. /\ vault_' \in Seq(Cells) /\ Len(vault_') = Len(vault_) /\ Mids' = Mids
      /\ vault_'[m] = c
      /\ \A n \in Mids : n # m => vault_'[n] = vault_[n]
  <2>1. /\ vault_' \in Seq(Cells) /\ Len(vault_') = Len(vault_)
        /\ \A n \in 1..Len(vault_) : vault_'[n] = IF n = m THEN c ELSE vault_[n]
    BY <1>1, <1>5, <1>6, ExceptSeq
  <2> QED
    BY <1>5, <2>1 DEF Mids
<1>9. /\ emptycells_' \in Seq(Nat) /\ Len(emptycells_') = k - 1
      /\ \A i \in 1..(k - 1) : emptycells_'[i] = emptycells_[i]
  <2>1. \A i \in 1..(k - 1) : emptycells_[i] \in Nat
    BY <1>2, ElementOfSeq
  <2>2. 1 \in Int /\ k - 1 \in Int
    BY <1>2
  <2> HIDE DEF k
  <2>3. SubSeq(emptycells_, 1, k - 1) \in Seq(Nat)
    BY <2>1, <2>2, SubSeqProperties
  <2>4. Len(SubSeq(emptycells_, 1, k - 1)) = IF 1 <= k - 1 THEN (k - 1) - 1 + 1 ELSE 0
    BY <2>1, <2>2, SubSeqProperties
  <2>5. \A i \in 1..((k - 1) - 1 + 1) : SubSeq(emptycells_, 1, k - 1)[i] = emptycells_[1 + i - 1]
    BY <2>1, <2>2, SubSeqProperties
  <2>6. Len(SubSeq(emptycells_, 1, k - 1)) = k - 1
    BY <1>2, <2>4
  <2>7. \A i \in 1..(k - 1) : SubSeq(emptycells_, 1, k - 1)[i] = emptycells_[i]
    BY <1>2, <2>5
  <2> QED
    BY <1>1, <2>3, <2>6, <2>7
<1>10. Shapes' /\ Ordered' /\ Members' /\ Located' /\ Stands' /\ Lists' /\ Reached'
  <2>1. m \in Mids'
    BY <1>3, <1>8
  <2>2. \A n \in Mids : n \in Mids'
    BY <1>8
  <2>3. \A n \in Mids' : n # m => n \in Mids /\ vault_'[n] = vault_[n]
    BY <1>8
  <2>4. /\ vault_'[m].type = q.type /\ vault_'[m].dist = q.dist
        /\ vault_'[m].tids_ = TokensOf(q)
        /\ vault_'[m].qids # <<>> /\ Increasing(vault_'[m].qids)
    BY <1>6, <1>8
  <2>5. \A x : Contains(vault_'[m].qids, x) <=> x = id
    BY <1>7, <1>8
  <2> QED
    BY <1>1, <1>4, <1>8, <1>9, <2>1, <2>2, <2>3, <2>4, <2>5, FreshCell
<1>11. Empties'
  <2>1. \A i, j \in 1..k : emptycells_[i] = emptycells_[j] => i = j
    BY DEF IInv, Empties
  <2>2. \A i, j \in 1..Len(emptycells_') : emptycells_'[i] = emptycells_'[j] => i = j
    <3>1. \A i \in 1..(k - 1) : i \in 1..k
      BY <1>2
    <3> HIDE DEF k
    <3> QED
      BY <1>9, <2>1, <3>1
  <2>3. \A n : Contains(emptycells_', n) <=> Contains(emptycells_, n) /\ n # m
    <3>1. \A i \in 1..k : i # k => emptycells_[i] # m
      BY <1>2, <2>1 DEF m
    <3>2. k \in 1..k /\ \A i : i \in 1..(k - 1) <=> i \in 1..k /\ i # k
      BY <1>2
    <3>3. \A n : Contains(emptycells_, n) <=> \E i \in 1..k : emptycells_[i] = n
      BY DEF Contains
    <3>4. emptycells_[k] = m
      BY DEF m
    <3> HIDE DEF k
    <3>5. \A n : Contains(emptycells_', n) <=> \E i \in 1..(k - 1) : emptycells_[i] = n
      BY <1>9 DEF Contains
    <3> QED
      BY <3>1, <3>2, <3>3, <3>4, <3>5
  <2>4. \A n : Contains(emptycells_, n) <=> n \in Mids /\ vault_[n].qids = <<>>
    BY DEF IInv, Empties
  <2>5. \A n : Contains(emptycells_', n) <=> n \in Mids' /\ vault_'[n].qids = <<>>
    BY <1>6, <1>8, <2>3, <2>4
  <2>6. \A n \in Mids' : vault_'[n].qids = <<>> => vault_'[n].tids_ = <<>>
    BY <1>6, <1>8 DEF IInv, Empties
  <2> QED
    BY <2>2, <2>5, <2>6 DEF Empties
<1> QED
  BY <1>10, <1>11 DEF IInv

(* A cell is made.                                                         *)
LEMMA NewCellInvariant ==
    ASSUME IInv, NEW id \in Qids, id \notin used, NEW q \in Queries, NewCell(id, q),
           used' = used \union {id},
           active' = [i \in DOMAIN active \union {id} |-> IF i = id THEN q ELSE active[i]],
           alive' = alive
    PROVE  IInv'
<1> DEFINE m == Len(vault_) + 1
           c == StandFor(QueryInfo, id, q)
<1>1. /\ vault_' = Append(vault_, c)
      /\ qmidindex' = qmidindex \union {<<hashvalue(q), m>>}
      /\ qidindex' = [qidindex EXCEPT ![id] = m]
      /\ querypointer_' = InsertQmids(q, m)
      /\ emptycells_' = emptycells_
  BY DEF NewCell
<1>2. vault_ \in Seq(Cells) /\ Len(vault_) \in Nat /\ emptycells_ \in Seq(Nat)
  BY LenProperties DEF IInv, Shapes
<1>3. QueryInfo \in Cells /\ QueryInfo.tids_ = <<>> /\ QueryInfo.qids = <<>>
  <2>1. <<>> \in Seq(Tokens) /\ <<>> \in Seq(Qids)
    OBVIOUS
  <2> QED
    BY <2>1 DEF QueryInfo, Cells, Exact, Edit
<1>4. /\ c \in Cells /\ c.type = q.type /\ c.dist = q.dist /\ c.tids_ = TokensOf(q)
      /\ c.qids # <<>> /\ Increasing(c.qids)
  BY <1>3, StandForProperties
<1>5. \A x : Contains(c.qids, x) <=> x = id
  BY <1>3, StandForProperties
<1> HIDE DEF c
<1>6. /\ vault_' \in Seq(Cells) /\ Len(vault_') = m /\ vault_'[m] = c
      /\ \A n \in 1..Len(vault_) : vault_'[n] = vault_[n]
  BY <1>1, <1>2, <1>4, AppendProperties
<1>7. ~Live(m) /\ m \notin Mids /\ m \in Mids'
  BY <1>2, <1>6 DEF Live, Mids
<1>8. \A n : n \in Mids' <=> n \in Mids \/ n = m
  BY <1>2, <1>6 DEF Mids
<1>9. \A n \in Mids : n # m /\ vault_'[n] = vault_[n]
  BY <1>6, <1>7 DEF Mids
<1> HIDE DEF m
<1>10. Shapes' /\ Ordered' /\ Members' /\ Located' /\ Stands' /\ Lists' /\ Reached'
  <2>1. \A n \in Mids : n \in Mids'
    BY <1>8
  <2>2. \A n \in Mids' : n # m => n \in Mids /\ vault_'[n] = vault_[n]
    BY <1>8, <1>9
  <2>3. /\ vault_'[m].type = q.type /\ vault_'[m].dist = q.dist
        /\ vault_'[m].tids_ = TokensOf(q)
        /\ vault_'[m].qids # <<>> /\ Increasing(vault_'[m].qids)
    BY <1>4, <1>6
  <2>4. \A x : Contains(vault_'[m].qids, x) <=> x = id
    BY <1>5, <1>6
  <2> QED
    BY <1>1, <1>2, <1>6, <1>7, <2>1, <2>2, <2>3, <2>4, FreshCell
<1>11. Empties'
  <2>1. \A n : n \in Mids' /\ vault_'[n].qids = <<>> <=> n \in Mids /\ vault_[n].qids = <<>>
    BY <1>4, <1>6, <1>8, <1>9
  <2>2. \A n \in Mids' : vault_'[n].qids = <<>> => vault_'[n].tids_ = <<>>
    BY <1>4, <1>6, <1>8, <1>9 DEF IInv, Empties
  <2> QED
    BY <1>1, <2>1, <2>2 DEF IInv, Empties
<1> QED
  BY <1>10, <1>11 DEF IInv

(* StartQuery, whatever AddQuery finds.                                    *)
LEMMA AddQueryInvariant ==
    ASSUME IInv, NEW id \in Qids, NEW q \in Queries, AddQuery(id, q)
    PROVE  IInv'
<1>1. /\ id \notin used /\ used' = used \union {id} /\ alive' = alive
      /\ active' = [i \in DOMAIN active \union {id} |-> IF i = id THEN q ELSE active[i]]
  BY DEF AddQuery
<1>2. CASE ShareCell(id, q)
  BY <1>1, <1>2, ShareCellInvariant
<1>3. CASE RecycleCell(id, q)
  BY <1>1, <1>3, RecycleCellInvariant
<1>4. CASE NewCell(id, q)
  BY <1>1, <1>4, NewCellInvariant
<1> QED
  BY <1>2, <1>3, <1>4 DEF AddQuery

-------------------------------------------------------------------------------
(* RemoveQuery keeps the invariant.                                        *)

(* The ids and cells of the other queries, when one is gone.               *)
LEMMA RemoveFacts ==
    ASSUME IInv, NEW id \in Qids, RemoveQuery(id)
    PROVE  LET m == qidindex[id]  qids == RemoveQid(vault_[m].qids, id)
           IN  /\ id \in DOMAIN active /\ Live(m) /\ m \in Mids
               /\ qids \in Seq(Qids) /\ Increasing(qids)
               /\ \A x : Contains(qids, x) <=> Contains(vault_[m].qids, x) /\ x # id
               /\ DOMAIN active' = DOMAIN active \ {id}
               /\ \A i \in DOMAIN active' : active'[i] = active[i]
               /\ active' \in [DOMAIN active' -> Queries]
               /\ UNCHANGED <<qmidindex, qidindex, used>>
<1> DEFINE m == qidindex[id]
           qids == RemoveQid(vault_[m].qids, id)
<1>1. /\ id \in DOMAIN active /\ active' = [i \in DOMAIN active \ {id} |-> active[i]]
      /\ UNCHANGED <<qmidindex, qidindex, used>>
  BY DEF RemoveQuery
<1>2. Live(m) /\ m \in Mids
  BY <1>1, ActiveIsLive DEF Live
<1>3. vault_[m].qids \in Seq(Qids) /\ Increasing(vault_[m].qids)
  BY <1>2, CellFacts
<1>4. qids \in Seq(Qids) /\ Increasing(qids)
  BY <1>3, RemoveQidProperties
<1>5. \A x : Contains(qids, x) <=> Contains(vault_[m].qids, x) /\ x # id
  BY <1>3, RemoveQidProperties
<1>6. active' \in [DOMAIN active' -> Queries]
  BY <1>1 DEF IInv, Shapes
<1> HIDE DEF m, qids
<1>7. DOMAIN active' = DOMAIN active \ {id} /\ \A i \in DOMAIN active' : active'[i] = active[i]
  BY <1>1
<1> QED
  BY <1>1, <1>2, <1>4, <1>5, <1>6, <1>7 DEF m, qids

(* What a removal leaves as it is, if the cells of the other queries are   *)
(* still what they were.                                                   *)
LEMMA OthersStay ==
    ASSUME IInv, NEW id \in DOMAIN active, Mids' = Mids,
           DOMAIN active' = DOMAIN active \ {id},
           \A i \in DOMAIN active' : active'[i] = active[i],
           UNCHANGED <<qmidindex, qidindex>>,
           \A x : Contains(vault_'[qidindex[id]].qids, x) <=>
                      Contains(vault_[qidindex[id]].qids, x) /\ x # id,
           \A n \in Mids : n # qidindex[id] => vault_'[n] = vault_[n],
           \A i \in DOMAIN active' :
               /\ vault_'[qidindex[i]].type = vault_[qidindex[i]].type
               /\ vault_'[qidindex[i]].dist = vault_[qidindex[i]].dist
               /\ vault_'[qidindex[i]].tids_ = vault_[qidindex[i]].tids_
    PROVE  Members' /\ Located' /\ Stands'
<1>1. Located'
  BY DEF IInv, Located
<1>2. Members'
  <2> SUFFICES ASSUME NEW n \in Mids, NEW x \in Qids
               PROVE  Contains(vault_'[n].qids, x) <=> x \in DOMAIN active' /\ qidindex[x] = n
    BY DEF Members
  <2>1. Contains(vault_[n].qids, x) <=> x \in DOMAIN active /\ qidindex[x] = n
    BY DEF IInv, Members
  <2>2. CASE n = qidindex[id]
    BY <2>1, <2>2
  <2>3. CASE n # qidindex[id]
    BY <2>1, <2>3
  <2> QED
    BY <2>2, <2>3
<1>3. Stands'
  <2> SUFFICES ASSUME NEW i \in DOMAIN active'
               PROVE  /\ vault_'[qidindex[i]].type = active'[i].type
                      /\ vault_'[qidindex[i]].dist = active'[i].dist
                      /\ vault_'[qidindex[i]].tids_ = TokensOf(active'[i])
                      /\ <<hashvalue(active'[i]), qidindex[i]>> \in qmidindex
    BY DEF Stands
  <2>1. i \in DOMAIN active /\ active'[i] = active[i]
    OBVIOUS
  <2> QED
    BY <2>1 DEF IInv, Stands
<1> QED
  BY <1>1, <1>2, <1>3

(* The cell has other queries.                                             *)
LEMMA KeepCellInvariant ==
    ASSUME IInv, NEW id \in Qids, RemoveQuery(id),
           RemoveQid(vault_[qidindex[id]].qids, id) # <<>>
    PROVE  IInv'
<1> DEFINE m == qidindex[id]
           qids == RemoveQid(vault_[m].qids, id)
<1>1. /\ vault_' = [vault_ EXCEPT ![m].qids = qids]
      /\ UNCHANGED <<emptycells_, querypointer_, alive>>
  BY DEF RemoveQuery
<1>2. /\ id \in DOMAIN active /\ Live(m) /\ m \in Mids
      /\ qids \in Seq(Qids) /\ Increasing(qids) /\ qids # <<>>
      /\ DOMAIN active' = DOMAIN active \ {id}
      /\ \A i \in DOMAIN active' : active'[i] = active[i]
      /\ active' \in [DOMAIN active' -> Queries]
      /\ UNCHANGED <<qmidindex, qidindex, used>>
  BY RemoveFacts
<1>3. \A x : Contains(qids, x) <=> Contains(vault_[m].qids, x) /\ x # id
  BY RemoveFacts
<1> HIDE DEF qids
<1>4. /\ vault_' \in Seq(Cells) /\ Len(vault_') = Len(vault_) /\ Mids' = Mids
      /\ vault_'[m].qids = qids
  BY <1>1, <1>2, SameCells
<1>5. \A n \in Mids : /\ vault_'[n].type = vault_[n].type /\ vault_'[n].dist = vault_[n].dist
                      /\ vault_'[n].tids_ = vault_[n].tids_
  BY <1>1, <1>2, SameCells
<1>6. Ordered' /\ Empties' /\ Lists' /\ Reached'
  BY <1>1, <1>2, SameCells
<1>7. \A n \in Mids : n # m => vault_'[n] = vault_[n]
  <2> HIDE DEF m
  <2>1. vault_ \in Seq(Cells)
    BY DEF IInv, Shapes
  <2> QED
    BY <1>1, <2>1, LenProperties DEF Mids
<1>8. Members' /\ Located' /\ Stands'
  <2>1. \A i \in DOMAIN active' : qidindex[i] \in Mids
    BY <1>2 DEF IInv, Located
  <2>2. \A i \in DOMAIN active' :
            /\ vault_'[qidindex[i]].type = vault_[qidindex[i]].type
            /\ vault_'[qidindex[i]].dist = vault_[qidindex[i]].dist
            /\ vault_'[qidindex[i]].tids_ = vault_[qidindex[i]].tids_
    BY <1>5, <2>1
  <2>3. \A x : Contains(vault_'[m].qids, x) <=> Contains(vault_[m].qids, x) /\ x # id
    BY <1>3, <1>4
  <2> QED
    BY <1>2, <1>4, <1>7, <2>2, <2>3, OthersStay
<1>9. Shapes'
  BY <1>1, <1>2, <1>4 DEF IInv, Shapes
<1> QED
  BY <1>6, <1>8, <1>9 DEF IInv

(* RemoveQmids erases the entries of the cell, and no other.               *)
LEMMA ErasedLists ==
    ASSUME IInv, NEW m, Live(m), NEW t \in Tokens, NEW b \in Bucket
    PROVE  /\ RemoveQmids(m)[t][b] \in Seq(Entries)
           /\ OneEach(RemoveQmids(m)[t][b])
           /\ \A i \in 1..Len(RemoveQmids(m)[t][b]) :
                  \E j \in 1..Len(querypointer_[t][b]) :
                      /\ RemoveQmids(m)[t][b][i] = querypointer_[t][b][j]
                      /\ querypointer_[t][b][j].qmid # m
           /\ \A n : Has(querypointer_[t][b], n) /\ n # m => Has(RemoveQmids(m)[t][b], n)
<1> DEFINE list == querypointer_[t][b]
           r == RemoveQmids(m)[t][b]
           at == b = RemoveBucket(vault_[m].type, vault_[m].dist) /\ Contains(vault_[m].tids_, t)
<1>1. r = IF at THEN Erased(list, m) ELSE list
  BY DEF RemoveQmids, Erased
<1>2. list \in Seq(Entries) /\ OneEach(list)
      /\ \A i \in 1..Len(list) : Fits(vault_, list[i], t, b)
  BY ListFacts
<1>3. CASE at
  <2>1. r = Erased(list, m)
    BY <1>1, <1>3
  <2> HIDE DEF r, list
  <2>2. Erased(list, m) \in Seq(Entries) /\ OneEach(Erased(list, m))
    BY <1>2, EraseEntry
  <2>3. \A i \in 1..Len(Erased(list, m)) :
            \E j \in 1..Len(list) : Erased(list, m)[i] = list[j] /\ list[j].qmid # m
    BY <1>2, EraseEntry
  <2>4. \A n : Has(list, n) /\ n # m => Has(Erased(list, m), n)
    BY <1>2, EraseEntry
  <2> QED
    BY <2>1, <2>2, <2>3, <2>4 DEF r, list
<1>4. CASE ~at
  <2>1. r = list
    BY <1>1, <1>4
  <2>2. vault_[m].type \in Exact..Edit /\ vault_[m].dist \in 0..3 /\ m \in Mids
    BY CellFacts DEF Live
  <2>3. \A i \in 1..Len(list) : list[i].qmid # m
    <3> SUFFICES ASSUME NEW i \in 1..Len(list), list[i].qmid = m PROVE FALSE
      OBVIOUS
    <3>1. Fits(vault_, list[i], t, b)
      BY <1>2
    <3>2. b \in InsertBucket(vault_[m].type, vault_[m].dist) /\ Contains(vault_[m].tids_, t)
      BY <3>1 DEF Fits, Contains
    <3>3. InsertBucket(vault_[m].type, vault_[m].dist)
              \subseteq {RemoveBucket(vault_[m].type, vault_[m].dist)}
      BY <2>2, BucketProperties
    <3> QED
      BY <1>4, <3>2, <3>3
  <2> HIDE DEF r, list
  <2> QED
    BY <1>2, <2>1, <2>3 DEF r, list
<1> QED
  BY <1>3, <1>4

(* What is left of a cell without queries.                                 *)
LEMMA CleanCell ==
    ASSUME NEW cell \in Cells
    PROVE  LET c == clean([cell EXCEPT !.qids = <<>>])
           IN  c \in Cells /\ c.qids = <<>> /\ c.tids_ = <<>>
<1> DEFINE d == [cell EXCEPT !.qids = <<>>]
           c == clean(d)
<1>1. <<>> \in Seq(Tokens) /\ <<>> \in Seq(Qids)
  OBVIOUS
<1>2. d \in Cells /\ d.qids = <<>>
  BY <1>1 DEF Cells
<1> HIDE DEF d
<1>3. c \in Cells /\ c.tids_ = <<>> /\ c.qids = d.qids
  BY <1>1, <1>2 DEF Cells, clean
<1> QED
  BY <1>2, <1>3 DEF d

(* The cell has no other query.                                            *)
LEMMA EmptyCellInvariant ==
    ASSUME IInv, NEW id \in Qids, RemoveQuery(id),
           RemoveQid(vault_[qidindex[id]].qids, id) = <<>>
    PROVE  IInv'
<1> DEFINE m == qidindex[id]
           c == clean([vault_[m] EXCEPT !.qids = <<>>])
<1>1. /\ vault_' = [vault_ EXCEPT ![m] = c]
      /\ querypointer_' = RemoveQmids(m)
      /\ emptycells_' = Append(emptycells_, m)
      /\ alive' = ListsExist(m)
  BY DEF RemoveQuery, EmptyCell
<1>2. /\ id \in DOMAIN active /\ Live(m) /\ m \in Mids
      /\ DOMAIN active' = DOMAIN active \ {id}
      /\ \A i \in DOMAIN active' : active'[i] = active[i]
      /\ active' \in [DOMAIN active' -> Queries]
      /\ UNCHANGED <<qmidindex, qidindex, used>>
  BY RemoveFacts
<1>3. \A x : ~Contains(<<>>, x)
  <2>1. Len(<<>>) = 0
    OBVIOUS
  <2> QED
    BY <2>1 DEF Contains
<1>4. \A x : Contains(vault_[m].qids, x) => x = id
  <2>1. \A x : Contains(<<>>, x) <=> Contains(vault_[m].qids, x) /\ x # id
    BY RemoveFacts
  <2> QED
    BY <1>3, <2>1
<1>5. vault_ \in Seq(Cells) /\ vault_[m] \in Cells /\ m \in 1..Len(vault_) /\ Len(vault_) \in Nat
  BY <1>2, CellFacts DEF Mids
<1>6. /\ c \in Cells /\ c.qids = <<>> /\ c.tids_ = <<>>
  BY <1>5, CleanCell
<1> HIDE DEF c
<1>7. /\ vault_' \in Seq(Cells) /\ Len(vault_') = Len(vault_) /\ Mids' = Mids
      /\ vault_'[m] = c
      /\ \A n \in Mids : n # m => vault_'[n] = vault_[n]
  <2> HIDE DEF m
  <2>1. [vault_ EXCEPT ![m] = c] \in Seq(Cells) /\ Len([vault_ EXCEPT ![m] = c]) = Len(vault_)
    BY <1>5, <1>6, ExceptSeq
  <2>2. \A n \in 1..Len(vault_) : [vault_ EXCEPT ![m] = c][n] = IF n = m THEN c ELSE vault_[n]
    BY <1>5, <1>6, ExceptSeq
  <2> QED
    BY <1>1, <1>5, <2>1, <2>2 DEF Mids
<1>8. m \in Nat
  BY <1>5
<1>9. Ordered'
  <2>1. Increasing(<<>>)
    BY DEF Increasing
  <2> QED
    BY <1>6, <1>7, <2>1 DEF IInv, Ordered
<1>10. Members' /\ Located' /\ Stands'
  <2>1. \A i \in DOMAIN active' : i \in DOMAIN active /\ qidindex[i] # m /\ qidindex[i] \in Mids
    <3>1. \A i \in DOMAIN active :
              Contains(vault_[qidindex[i]].qids, i) /\ qidindex[i] \in Mids
      BY ActiveIsLive DEF Live
    <3> HIDE DEF m
    <3> QED
      BY <1>2, <1>4, <3>1
  <2>2. \A i \in DOMAIN active' :
            /\ vault_'[qidindex[i]].type = vault_[qidindex[i]].type
            /\ vault_'[qidindex[i]].dist = vault_[qidindex[i]].dist
            /\ vault_'[qidindex[i]].tids_ = vault_[qidindex[i]].tids_
    BY <1>7, <2>1
  <2>3. \A x : Contains(vault_'[m].qids, x) <=> Contains(vault_[m].qids, x) /\ x # id
    BY <1>3, <1>4, <1>6, <1>7
  <2> QED
    BY <1>2, <1>7, <2>2, <2>3, OthersStay
<1>11. Empties'
  <2> DEFINE k == Len(emptycells_)
  <2>1. emptycells_ \in Seq(Nat) /\ k \in Nat
    BY LenProperties DEF IInv, Shapes
  <2>2. \A n : Contains(emptycells_, n) <=> n \in Mids /\ vault_[n].qids = <<>>
    BY DEF IInv, Empties
  <2>3. \A i, j \in 1..k : emptycells_[i] = emptycells_[j] => i = j
    BY DEF IInv, Empties
  <2>4. \A i \in 1..k : emptycells_[i] # m
    BY <1>2, <2>2 DEF Contains, Live
  <2> HIDE DEF m
  <2>5. /\ Len(emptycells_') = k + 1 /\ emptycells_'[k + 1] = m
        /\ \A i \in 1..k : emptycells_'[i] = emptycells_[i]
    BY <1>1, <1>8, <2>1, AppendProperties
  <2>6. \A i : i \in 1..(k + 1) <=> i \in 1..k \/ i = k + 1
    BY <2>1
  <2>7. \A n : Contains(emptycells_, n) <=> \E i \in 1..k : emptycells_[i] = n
    BY DEF Contains
  <2>8. \A n : Contains(emptycells_', n) <=> \E i \in 1..(k + 1) : emptycells_'[i] = n
    BY <2>5 DEF Contains
  <2> HIDE DEF k
  <2>9. \A i, j \in 1..(k + 1) : emptycells_'[i] = emptycells_'[j] => i = j
    BY <2>3, <2>4, <2>5, <2>6
  <2>10. \A n : Contains(emptycells_', n) <=> Contains(emptycells_, n) \/ n = m
    BY <2>5, <2>6, <2>7, <2>8
  <2>11. \A n : Contains(emptycells_', n) <=> n \in Mids' /\ vault_'[n].qids = <<>>
    BY <1>2, <1>6, <1>7, <2>2, <2>10
  <2>12. \A n \in Mids' : vault_'[n].qids = <<>> => vault_'[n].tids_ = <<>>
    BY <1>6, <1>7 DEF IInv, Empties
  <2>13. \A i, j \in 1..Len(emptycells_') : emptycells_'[i] = emptycells_'[j] => i = j
    BY <2>5, <2>9
  <2> QED
    BY <2>11, <2>12, <2>13 DEF Empties
<1>12. Lists'
  <2> SUFFICES ASSUME NEW t \in Tokens, NEW b \in Bucket
               PROVE  /\ OneEach(querypointer_'[t][b])
                      /\ \A i \in 1..Len(querypointer_'[t][b]) :
                             Fits(vault_', querypointer_'[t][b][i], t, b)
    BY DEF Lists
  <2>1. OneEach(querypointer_'[t][b])
    BY <1>1, <1>2, ErasedLists
  <2> SUFFICES ASSUME NEW i \in 1..Len(querypointer_'[t][b])
               PROVE  Fits(vault_', querypointer_'[t][b][i], t, b)
    BY <2>1
  <2>2. PICK j \in 1..Len(querypointer_[t][b]) :
            /\ querypointer_'[t][b][i] = querypointer_[t][b][j]
            /\ querypointer_[t][b][j].qmid # m
    BY <1>1, <1>2, ErasedLists
  <2>3. Fits(vault_, querypointer_[t][b][j], t, b)
    BY ListFacts
  <2> QED
    BY <1>7, <2>2, <2>3 DEF Fits, Mids
<1>13. Reached'
  <2> SUFFICES ASSUME NEW n \in Mids', vault_'[n].qids # <<>>,
                      NEW b \in InsertBucket(vault_'[n].type, vault_'[n].dist),
                      NEW x \in 1..Len(vault_'[n].tids_)
               PROVE  Has(querypointer_'[vault_'[n].tids_[x]][b], n)
    BY DEF Reached
  <2>1. n \in Mids /\ n # m /\ vault_'[n] = vault_[n]
    BY <1>6, <1>7
  <2>2. vault_[n].tids_[x] \in Tokens /\ b \in Bucket
    <3>1. vault_[n].type \in Exact..Edit /\ vault_[n].dist \in 0..3 /\ vault_[n].tids_ \in Seq(Tokens)
      BY <2>1, CellFacts
    <3> QED
      BY <2>1, <3>1, BucketProperties, ElementOfSeq
  <2>3. Has(querypointer_[vault_[n].tids_[x]][b], n)
    BY <2>1 DEF IInv, Reached
  <2> QED
    BY <1>1, <1>2, <2>1, <2>2, <2>3, ErasedLists
<1>14. Shapes'
  <2>1. emptycells_' \in Seq(Nat)
    BY <1>1, <1>8, AppendProperties DEF IInv, Shapes
  <2>2. querypointer_' \in [Tokens -> [Bucket -> Seq(Entries)]]
    <3>1. querypointer_' = [t \in Tokens |-> [b \in Bucket |-> querypointer_'[t][b]]]
      BY <1>1 DEF RemoveQmids
    <3>2. \A t \in Tokens, b \in Bucket : querypointer_'[t][b] \in Seq(Entries)
      BY <1>1, <1>2, ErasedLists
    <3> QED
      BY <3>1, <3>2
  <2>3. alive' \in BOOLEAN
    BY <1>1 DEF ListsExist
  <2> QED
    BY <1>2, <1>7, <2>1, <2>2, <2>3 DEF IInv, Shapes
<1> QED
  BY <1>9, <1>10, <1>11, <1>12, <1>13, <1>14 DEF IInv

-------------------------------------------------------------------------------
(* The invariant of the query index.                                       *)

(* No step breaks it.                                                      *)
LEMMA NextInvariant == IInv /\ [Next]_vars => IInv'
<1> SUFFICES ASSUME IInv, [Next]_vars PROVE IInv'
  OBVIOUS
<1>1. ASSUME NEW id \in Qids, NEW q \in Queries, AddQuery(id, q) PROVE IInv'
  BY <1>1, AddQueryInvariant
<1>2. ASSUME NEW id \in Qids, RemoveQuery(id) PROVE IInv'
  BY <1>2, KeepCellInvariant, EmptyCellInvariant
<1>3. CASE UNCHANGED vars
  BY <1>3 DEF vars, IInv, Shapes, Ordered, Empties, Members, Located, Stands, Lists, Reached, Mids
<1> QED
  BY <1>1, <1>2, <1>3 DEF Next

(* Cells, lists and ids agree, whatever queries come and go: each active   *)
(* query has its cell, filed and led to from each of its words; no list    *)
(* leads to a cell without queries; and those cells wait on the stack.     *)
THEOREM InvariantHolds == Spec => []IInv
<1> QED
  BY InitInvariant, NextInvariant, PTL DEF Spec

(* The cells of active queries, and the empty ones, are of the type they   *)
(* have in the code: five tokens at most, and entries of cells that exist. *)
THEOREM TypeHolds == Spec => []TypeOK
<1>1. ASSUME IInv PROVE TypeOK
  <2>1. /\ vault_ \in Seq(Cells) /\ Len(vault_) \in Nat /\ DOMAIN vault_ = Mids
    BY <1>1, LenProperties DEF IInv, Shapes, Mids
  <2>2. ASSUME NEW m \in Mids
        PROVE  /\ vault_[m].type \in Exact..Edit /\ vault_[m].dist \in 0..3
               /\ vault_[m].tids_ \in Seq(Tokens)
               /\ vault_[m].qids \in Seq(Qids)
    BY <1>1, CellFacts
  <2>3. ASSUME NEW m \in Mids PROVE Len(vault_[m].tids_) \in 0..5
    <3>1. CASE vault_[m].qids = <<>>
      <4>1. vault_[m].tids_ = <<>>
        BY <1>1, <3>1 DEF IInv, Empties
      <4>2. Len(<<>>) = 0 /\ 0 \in 0..5
        OBVIOUS
      <4> QED
        BY <4>1, <4>2
    <3>2. CASE vault_[m].qids # <<>>
      <4>1. PICK id \in DOMAIN active : qidindex[id] = m
        BY <1>1, <3>2, LiveIsActive DEF Live
      <4>2. vault_[m].tids_ = TokensOf(active[id]) /\ active[id] \in Queries
        BY <1>1, <4>1, ActiveIsLive DEF IInv, Stands
      <4>3. Len(TokensOf(active[id])) \in 1..5
        BY <4>2, TokensOfProperties
      <4>4. \A n \in 1..5 : n \in 0..5
        OBVIOUS
      <4> QED
        BY <4>2, <4>3, <4>4
    <3> QED
      BY <3>1, <3>2
  <2>4. emptycells_ \in Seq(DOMAIN vault_)
    <3>1. emptycells_ \in [1..Len(emptycells_) -> Nat] /\ Len(emptycells_) \in Nat
      BY <1>1, LenProperties DEF IInv, Shapes
    <3>2. \A i \in 1..Len(emptycells_) : emptycells_[i] \in Mids
      BY <1>1 DEF IInv, Empties, Contains
    <3>3. emptycells_ \in [1..Len(emptycells_) -> Mids]
      BY <3>1, <3>2
    <3> QED
      BY <2>1, <3>1, <3>3, SeqDef
  <2>5. ASSUME NEW t \in Tokens, NEW b \in Bucket
        PROVE  querypointer_[t][b] \in Seq([qmid : DOMAIN vault_, position : 1..5])
    <3> DEFINE list == querypointer_[t][b]
               E == [qmid : Mids, position : 1..5]
    <3>1. list \in Seq(Entries) /\ list \in [1..Len(list) -> Entries] /\ Len(list) \in Nat
      BY <1>1, ListFacts, LenProperties
    <3>2. ASSUME NEW i \in 1..Len(list) PROVE list[i] \in E
      <4>1. list[i] \in Entries /\ Fits(vault_, list[i], t, b)
        BY <1>1, ListFacts
      <4> DEFINE e == list[i]
                 l == Len(vault_[e.qmid].tids_)
      <4> HIDE DEF list, l
      <4>2. e.qmid \in Mids /\ e.position \in 1..l
        BY <4>1 DEF Fits, Mids, l
      <4>3. l \in 0..5
        BY <2>3, <4>2 DEF l
      <4>4. e.position \in 1..5
        BY <4>2, <4>3
      <4> QED
        BY <4>1, <4>2, <4>4 DEF Entries
    <3> HIDE DEF list, E
    <3>3. list \in [1..Len(list) -> E]
      BY <3>1, <3>2
    <3>4. list \in Seq(E)
      BY <3>1, <3>3, SeqDef
    <3> QED
      BY <2>1, <3>4 DEF list, E
  <2>6. /\ qmidindex \subseteq Nat \X DOMAIN vault_
        /\ qidindex \in [Qids -> 0..Len(vault_)]
        /\ alive \in BOOLEAN
        /\ DOMAIN active \subseteq used /\ used \subseteq Qids
    BY <1>1, <2>1 DEF IInv, Shapes, Mids
  <2>7. \A m \in Mids : Len(vault_[m].tids_) <= 5
    <3>1. \A n \in 0..5 : n <= 5
      OBVIOUS
    <3> QED
      BY <2>3, <3>1
  <2> QED
    BY <2>1, <2>2, <2>4, <2>5, <2>6, <2>7 DEF TypeOK
<1> QED
  BY <1>1, InvariantHolds, PTL

(* The ids of a cell are in order, without one twice: bitarea::results     *)
(* merges them as runs that are sorted already.                            *)
THEOREM GroupsSortedHolds == Spec => []GroupsSorted
<1>1. ASSUME IInv PROVE GroupsSorted
  <2> SUFFICES ASSUME NEW m \in DOMAIN vault_,
                      NEW i \in DOMAIN vault_[m].qids, NEW j \in DOMAIN vault_[m].qids, i < j
               PROVE  vault_[m].qids[i] < vault_[m].qids[j]
    BY DEF GroupsSorted
  <2>1. m \in Mids
    BY <1>1, LenProperties DEF IInv, Shapes, Mids
  <2>2. vault_[m].qids \in Seq(Qids) /\ Increasing(vault_[m].qids)
    BY <1>1, <2>1, CellFacts
  <2>3. DOMAIN vault_[m].qids = 1..Len(vault_[m].qids)
    BY <2>2, LenProperties
  <2> QED
    BY <2>2, <2>3 DEF Increasing
<1> QED
  BY <1>1, InvariantHolds, PTL

-------------------------------------------------------------------------------
(* What holds if no query has the type hamming or edit and distance 0.     *)

NonzeroDist == \A q \in Queries : q.type # Exact => q.dist > 0

(* The one list of a token that leads to a cell.                           *)
LEMMA OneBucket ==
    ASSUME NonzeroDist, IInv, NEW id \in DOMAIN active
    PROVE  LET cell == vault_[qidindex[id]]
           IN  InsertBucket(cell.type, cell.dist) = {RemoveBucket(cell.type, cell.dist)}
<1>1. active[id] \in Queries
  BY ActiveIsLive
<1>2. vault_[qidindex[id]].type = active[id].type /\ vault_[qidindex[id]].dist = active[id].dist
  BY DEF IInv, Stands
<1>3. active[id].type \in Exact..Edit /\ active[id].dist \in 0..3
      /\ (active[id].type = Exact \/ active[id].dist > 0)
  BY <1>1, QueriesAssumption DEF NonzeroDist
<1> QED
  BY <1>2, <1>3, BucketProperties

(* RemoveQmid finds each list that it reads.                               *)
LEMMA ListsAreThere ==
    ASSUME NonzeroDist, IInv, NEW id \in DOMAIN active
    PROVE  ListsExist(qidindex[id])
<1> DEFINE m == qidindex[id]
           b == RemoveBucket(vault_[m].type, vault_[m].dist)
<1>1. m \in Mids /\ vault_[m].qids # <<>> /\ vault_[m].tids_ \in Seq(Tokens)
  BY ActiveIsLive, CellFacts DEF Live
<1>2. b \in InsertBucket(vault_[m].type, vault_[m].dist)
  BY OneBucket
<1> SUFFICES ASSUME NEW t \in ToSet(vault_[m].tids_) PROVE querypointer_[t][b] # <<>>
  BY DEF ListsExist
<1>3. PICK x \in 1..Len(vault_[m].tids_) : vault_[m].tids_[x] = t
  BY <1>1, LenProperties DEF ToSet
<1>4. Has(querypointer_[t][b], m)
  BY <1>1, <1>2, <1>3 DEF IInv, Reached
<1>5. Len(<<>>) = 0
  OBVIOUS
<1> HIDE DEF b, m
<1>6. ~Has(<<>>, m)
  BY <1>5 DEF Has
<1> QED
  BY <1>4, <1>6 DEF b

(* The process does not die of a list that is not there.                   *)
LEMMA StaysAlive ==
    ASSUME NonzeroDist
    PROVE  Spec => []alive
<1>1. Init => alive
  BY DEF Init
<1>2. ASSUME IInv, alive, [Next]_vars PROVE alive'
  <2>1. ASSUME NEW id \in Qids, NEW q \in Queries, AddQuery(id, q) PROVE alive'
    BY <1>2, <2>1 DEF AddQuery
  <2>2. ASSUME NEW id \in Qids, RemoveQuery(id) PROVE alive'
    <3>1. id \in DOMAIN active
      BY <2>2 DEF RemoveQuery
    <3>2. ListsExist(qidindex[id])
      BY <1>2, <3>1, ListsAreThere
    <3> QED
      BY <1>2, <2>2, <3>2 DEF RemoveQuery, EmptyCell
  <2>3. CASE UNCHANGED vars
    BY <1>2, <2>3 DEF vars
  <2> QED
    BY <1>2, <2>1, <2>2, <2>3 DEF Next
<1> QED
  BY <1>1, <1>2, InvariantHolds, PTL DEF Spec

(* A cell waits to be recycled exactly when it has no query and nothing    *)
(* leads to it, and every list that a removal reads is there.              *)
THEOREM CellsKeptHolds ==
    ASSUME NonzeroDist
    PROVE  Spec => []CellsKept
<1>1. ASSUME IInv, alive PROVE CellsKept
  <2>1. /\ DOMAIN vault_ = Mids /\ DOMAIN emptycells_ = 1..Len(emptycells_)
    BY <1>1, LenProperties DEF IInv, Shapes, Mids
  <2>2. IsInjective(emptycells_)
    BY <1>1, <2>1 DEF IInv, Empties, IsInjective
  <2>3. \A m \in DOMAIN vault_ : Contains(emptycells_, m) <=> vault_[m].qids = <<>>
    BY <1>1, <2>1 DEF IInv, Empties
  <2>4. ASSUME NEW m \in ToSet(emptycells_), NEW t \in Tokens, NEW b \in Bucket,
               NEW e \in ToSet(querypointer_[t][b])
        PROVE  e.qmid # m
    <3>1. Contains(emptycells_, m)
      BY <2>1 DEF ToSet, Contains
    <3>2. vault_[m].qids = <<>>
      BY <1>1, <3>1 DEF IInv, Empties
    <3>3. PICK i \in 1..Len(querypointer_[t][b]) : querypointer_[t][b][i] = e
      <4>1. DOMAIN querypointer_[t][b] = 1..Len(querypointer_[t][b])
        BY <1>1, ListFacts, LenProperties
      <4> QED
        BY <4>1 DEF ToSet
    <3>4. Fits(vault_, e, t, b)
      BY <1>1, <3>3, ListFacts
    <3> QED
      BY <3>2, <3>4 DEF Fits
  <2> QED
    BY <1>1, <2>2, <2>3, <2>4 DEF CellsKept
<1> QED
  BY <1>1, InvariantHolds, StaysAlive, PTL

(* The bits of a cell are positions of its tokens: those that the lists of *)
(* the document's pairs lead to.                                           *)
LEMMA BitsOfCell ==
    ASSUME NonzeroDist, IInv, NEW doc \in Docs, NEW id \in DOMAIN active
    PROVE  LET cell == vault_[qidindex[id]]
           IN  /\ Bits(doc, qidindex[id]) \subseteq 1..Len(cell.tids_)
               /\ \A x \in 1..Len(cell.tids_) :
                      x \in Bits(doc, qidindex[id]) <=>
                          <<cell.tids_[x], RemoveBucket(cell.type, cell.dist)>> \in doc
<1> DEFINE m == qidindex[id]
           tids == vault_[m].tids_
           b == RemoveBucket(vault_[m].type, vault_[m].dist)
           list(p) == querypointer_[p[1]][p[2]]
<1>1. /\ m \in Mids /\ vault_[m].qids # <<>> /\ tids \in Seq(Tokens)
      /\ vault_[m].type \in Exact..Edit /\ vault_[m].dist \in 0..3
  BY ActiveIsLive, CellFacts DEF Live
<1>2. InsertBucket(vault_[m].type, vault_[m].dist) = {b}
  BY OneBucket
<1>3. Increasing(tids) /\ Len(tids) \in Nat
  <2>1. tids = TokensOf(active[id]) /\ active[id] \in Queries
    BY ActiveIsLive DEF IInv, Stands
  <2> QED
    BY <1>1, <2>1, TokensOfProperties, LenProperties
<1>4. ASSUME NEW p \in doc
      PROVE  /\ p[1] \in Tokens /\ p[2] \in Bucket /\ p = <<p[1], p[2]>>
             /\ ToSet(list(p)) = {list(p)[i] : i \in 1..Len(list(p))}
             /\ \A i \in 1..Len(list(p)) : Fits(vault_, list(p)[i], p[1], p[2])
  <2>1. p \in Tokens \X Bucket
    BY DocsAssumption
  <2>2. p[1] \in Tokens /\ p[2] \in Bucket /\ p = <<p[1], p[2]>>
    BY <2>1
  <2>3. DOMAIN list(p) = 1..Len(list(p))
    BY <2>2, ListFacts, LenProperties
  <2>4. \A i \in 1..Len(list(p)) : Fits(vault_, list(p)[i], p[1], p[2])
    BY <2>2, ListFacts
  <2> QED
    BY <2>2, <2>3, <2>4 DEF ToSet
<1>5. \A x : x \in Bits(doc, m) <=>
          \E p \in doc : \E i \in 1..Len(list(p)) : list(p)[i].qmid = m /\ list(p)[i].position = x
  <2>1. \A x : x \in Bits(doc, m) <=>
            \E p \in doc : \E e \in ToSet(list(p)) : e.qmid = m /\ e.position = x
    BY DEF Bits
  <2> HIDE DEF list, m
  <2>2. \A p \in doc : ToSet(list(p)) = {list(p)[i] : i \in 1..Len(list(p))}
    BY <1>4
  <2> QED
    BY <2>1, <2>2
<1>6. ASSUME NEW p \in doc, NEW i \in 1..Len(list(p)), list(p)[i].qmid = m
      PROVE  /\ list(p)[i].position \in 1..Len(tids) /\ p = <<tids[list(p)[i].position], b>>
  <2>1. Fits(vault_, list(p)[i], p[1], p[2]) /\ p = <<p[1], p[2]>>
    BY <1>4
  <2> HIDE DEF list, m
  <2> QED
    BY <1>2, <1>6, <2>1 DEF Fits
<1> HIDE DEF list
<1>7. Bits(doc, m) \subseteq 1..Len(tids)
  BY <1>5, <1>6
<1>8. ASSUME NEW x \in 1..Len(tids), x \in Bits(doc, m) PROVE <<tids[x], b>> \in doc
  BY <1>5, <1>6, <1>8
<1>9. ASSUME NEW x \in 1..Len(tids), <<tids[x], b>> \in doc PROVE x \in Bits(doc, m)
  <2> DEFINE p == <<tids[x], b>>
  <2>1. p \in doc /\ list(p) = querypointer_[tids[x]][b]
    BY <1>9 DEF list
  <2>2. Has(querypointer_[tids[x]][b], m)
    BY <1>1, <1>2, <1>9 DEF IInv, Reached
  <2>3. PICK i \in 1..Len(list(p)) : list(p)[i].qmid = m
    BY <2>1, <2>2 DEF Has
  <2> DEFINE y == list(p)[i].position
  <2>4. y \in 1..Len(tids) /\ p = <<tids[y], b>>
    BY <1>6, <2>1, <2>3
  <2>5. y \in Bits(doc, m)
    BY <1>5, <2>1, <2>3
  <2> HIDE DEF y, m
  <2>6. tids[y] = tids[x]
    BY <2>4
  <2> HIDE DEF p
  <2>7. y = x
    <3>1. tids[x] \in Nat /\ tids[y] \in Nat
      BY <1>1, <1>9, <2>4, ElementOfSeq, TokensAssumption
    <3>2. ~(tids[x] < tids[y]) /\ ~(tids[y] < tids[x])
      BY <2>6, <3>1
    <3>3. ~(x < y) /\ ~(y < x) /\ x \in Nat /\ y \in Nat
      BY <1>3, <1>9, <2>4, <3>2 DEF Increasing
    <3> QED
      BY <3>3
  <2> QED
    BY <2>5, <2>7
<1> QED
  BY <1>7, <1>8, <1>9

(* CheckQmid answers for a cell what the client wants to know of each of   *)
(* its queries: whether each word matches a word of the document.          *)
LEMMA CellAnswers ==
    ASSUME NonzeroDist, IInv, NEW doc \in Docs, NEW id \in DOMAIN active
    PROVE  CheckQmid(doc, qidindex[id]) <=> Matches(doc, active[id])
<1> DEFINE m == qidindex[id]
           q == active[id]
           tids == vault_[m].tids_
           b == RemoveBucket(vault_[m].type, vault_[m].dist)
           B == Bits(doc, m)
<1>1. /\ q \in Queries /\ m \in Mids
      /\ vault_[m].type = q.type /\ vault_[m].dist = q.dist /\ tids = TokensOf(q)
  BY ActiveIsLive DEF IInv, Stands, Live
<1>2. Len(tids) \in Nat /\ tids \in Seq(Tokens)
  BY <1>1, TokensOfProperties, LenProperties
<1>3. B \subseteq 1..Len(tids)
      /\ \A x \in 1..Len(tids) : x \in B <=> <<tids[x], b>> \in doc
  BY BitsOfCell
<1>4. CheckQmid(doc, m) <=> B = 1..Len(tids)
  <2> DEFINE n == Len(tids)
  <2>1. IsFiniteSet(1..n) /\ Cardinality(1..n) = n
    <3> HIDE DEF n
    <3>1. n \in Nat
      BY <1>2 DEF n
    <3>2. Cardinality(1..n) = IF 1 > n THEN 0 ELSE n - 1 + 1
      BY <3>1, FS_Interval
    <3> QED
      BY <3>1, <3>2, FS_Interval
  <2>2. CheckQmid(doc, m) <=> Cardinality(B) = n
    BY DEF CheckQmid
  <2> HIDE DEF B, n
  <2>3. B \in SUBSET (1..n)
    BY <1>3 DEF n
  <2>4. Cardinality(1..n) = Cardinality(B) => 1..n = B
    BY <2>1, <2>3, FS_Subset
  <2> QED
    BY <2>1, <2>2, <2>4 DEF n
<1>5. Matches(doc, q) <=> \A w \in ToSet(q.words) : <<w, b>> \in doc
  <2> DEFINE means == IF q.type = Exact \/ q.dist = 0 THEN {0} ELSE InsertBucket(q.type, q.dist)
  <2>1. means = {b}
    <3>1. InsertBucket(q.type, q.dist) = {b}
      BY <1>1, OneBucket
    <3>2. q.dist = 0 => q.type = Exact
      BY <1>1, QueriesAssumption DEF NonzeroDist
    <3>3. q.type = Exact => InsertBucket(q.type, q.dist) = {0}
      BY DEF InsertBucket
    <3> QED
      BY <3>1, <3>2, <3>3
  <2> HIDE DEF b, m, q
  <2>2. Matches(doc, q) <=> \A w \in ToSet(q.words) : \E c \in means : <<w, c>> \in doc
    BY DEF Matches
  <2> HIDE DEF means
  <2> QED
    BY <2>1, <2>2
<1>6. \A w : w \in ToSet(q.words) <=> \E x \in 1..Len(tids) : tids[x] = w
  <2>1. DOMAIN q.words = 1..Len(q.words)
    BY <1>1, QueriesAssumption, LenProperties
  <2>2. \A w : w \in ToSet(q.words) <=> Contains(q.words, w)
    BY <2>1 DEF ToSet, Contains
  <2>3. \A w : Contains(tids, w) <=> Contains(q.words, w)
    BY <1>1, TokensOfProperties
  <2> QED
    BY <2>2, <2>3 DEF Contains
<1> HIDE DEF b, B, tids
<1>7. (\A w \in ToSet(q.words) : <<w, b>> \in doc) <=> \A x \in 1..Len(tids) : <<tids[x], b>> \in doc
  BY <1>6
<1>8. B = 1..Len(tids) <=> \A x \in 1..Len(tids) : x \in B
  BY <1>3
<1> QED
  BY <1>3, <1>4, <1>5, <1>7, <1>8

(* Each document is answered with the active queries that match it, each   *)
(* once, and with no other, whatever cells were shared and recycled.       *)
THEOREM ResultsExactHolds ==
    ASSUME NonzeroDist
    PROVE  Spec => []ResultsExact
<1>1. ASSUME IInv PROVE ResultsExact
  <2> SUFFICES ASSUME NEW doc \in Docs
               PROVE  /\ IsInjective(FlattenSeq(Groups(doc)))
                      /\ ToSet(FlattenSeq(Groups(doc))) =
                             {id \in DOMAIN active : Matches(doc, active[id])}
    BY DEF ResultsExact
  <2> DEFINE G == Groups(doc)
             ids == FlattenSeq(G)
  <2>1. Len(vault_) \in Nat /\ \A m \in Mids : vault_[m].qids \in Seq(Qids)
    BY <1>1, LenProperties, CellFacts DEF IInv, Shapes
  <2>2. \A m \in Mids : G[m] = IF CheckQmid(doc, m) THEN vault_[m].qids ELSE <<>>
    BY DEF Groups, Mids
  <2>3. <<>> \in Seq(Qids) /\ Len(<<>>) = 0
    OBVIOUS
  <2>4. \A x : ~Contains(<<>>, x)
    BY <2>3 DEF Contains
  <2>5. \A m \in Mids : G[m] \in Seq(Qids)
    BY <2>1, <2>2, <2>3
  <2>6. G = [m \in Mids |-> G[m]]
    BY DEF Groups, Mids
  <2> HIDE DEF G
  <2>7. G \in [1..Len(vault_) -> Seq(Qids)]
    BY <2>5, <2>6 DEF Mids
  <2>8. G \in Seq(Seq(Qids))
    BY <2>1, <2>7, SeqDef
  <2>9. 1..Len(G) = Mids
    <3>1. DOMAIN G = 1..Len(G)
      BY <2>8, LenProperties
    <3> QED
      BY <2>7, <3>1 DEF Mids
  <2>10. ASSUME NEW m \in Mids, NEW x
         PROVE  Contains(G[m], x) <=>
                    x \in DOMAIN active /\ qidindex[x] = m /\ Matches(doc, active[x])
    <3>1. Contains(G[m], x) <=> CheckQmid(doc, m) /\ Contains(vault_[m].qids, x)
      BY <2>2, <2>4
    <3>2. Contains(vault_[m].qids, x) => x \in Qids
      BY <2>1, ElementOfSeq DEF Contains
    <3>3. x \in DOMAIN active => x \in Qids
      BY <1>1, ActiveIsLive
    <3>4. Contains(vault_[m].qids, x) <=> x \in DOMAIN active /\ qidindex[x] = m
      BY <1>1, <3>2, <3>3 DEF IInv, Members
    <3> QED
      BY <1>1, <3>1, <3>4, CellAnswers
  <2>11. \A m \in Mids : Once(G[m])
    <3> SUFFICES ASSUME NEW m \in Mids PROVE Once(G[m])
      OBVIOUS
    <3>1. Once(<<>>)
      BY <2>3 DEF Once
    <3>2. Once(vault_[m].qids)
      <4> DEFINE s == vault_[m].qids
      <4>1. s \in Seq(Qids) /\ Increasing(s)
        BY <1>1, CellFacts
      <4> HIDE DEF s
      <4> SUFFICES ASSUME NEW i \in 1..Len(s), NEW j \in 1..Len(s), s[i] = s[j] PROVE i = j
        BY DEF Once, s
      <4>2. s[i] \in Nat /\ s[j] \in Nat
        BY <4>1, ElementOfSeq, QidsAssumption
      <4>3. ~(s[i] < s[j]) /\ ~(s[j] < s[i])
        BY <4>2
      <4>4. ~(i < j) /\ ~(j < i)
        BY <4>1, <4>3 DEF Increasing
      <4> QED
        BY <4>4
    <3> QED
      BY <2>2, <3>1, <3>2
  <2>12. \A m, n \in Mids : m # n => \A x : ~(Contains(G[m], x) /\ Contains(G[n], x))
    BY <2>10
  <2>13. ids \in Seq(Qids) /\ Once(ids)
    BY <2>8, <2>9, <2>11, <2>12, FlattenProperties
  <2>14. \A x : Contains(ids, x) <=> \E m \in Mids : Contains(G[m], x)
    BY <2>8, <2>9, FlattenProperties
  <2> HIDE DEF ids
  <2>15. DOMAIN ids = 1..Len(ids)
    BY <2>13, LenProperties
  <2>16. IsInjective(ids)
    BY <2>13, <2>15 DEF IsInjective, Once
  <2>17. \A x : x \in ToSet(ids) <=> Contains(ids, x)
    BY <2>15 DEF ToSet, Contains
  <2>18. \A x \in DOMAIN active : qidindex[x] \in Mids
    BY <1>1 DEF IInv, Located
  <2>19. \A x : x \in ToSet(ids) <=> x \in DOMAIN active /\ Matches(doc, active[x])
    BY <2>10, <2>14, <2>17, <2>18
  <2>20. ToSet(ids) = {id \in DOMAIN active : Matches(doc, active[id])}
    BY <2>19
  <2> QED
    BY <2>16, <2>20 DEF ids, G
<1> QED
  BY <1>1, InvariantHolds, PTL

-------------------------------------------------------------------------------
(* What holds if the words of the queries are short enough for hashvalue() *)
(* to keep the words, the distance and the type of a query apart.          *)

LightWeights == \A t \in Tokens : 9 * Weight[t] < 100000

(* Queries with the same words, type and distance have one hash value.     *)
LEMMA SameHash ==
    ASSUME NEW q, NEW p, Alike(p, q)
    PROVE  hashvalue(p) = hashvalue(q)
<1> QED
  BY DEF Alike, hashvalue

(* HashLookup finds the cell of a query that is there.                     *)
LEMMA LookupFinds ==
    ASSUME LightWeights, IInv, NEW q \in Queries, NEW m, Live(m),
           vault_[m].type = q.type, vault_[m].dist = q.dist, vault_[m].tids_ = TokensOf(q)
    PROVE  m \in HashLookup(q)
<1>1. PICK id \in DOMAIN active : qidindex[id] = m
  BY LiveIsActive
<1> DEFINE p == active[id]
<1>2. /\ vault_[m].type = p.type /\ vault_[m].dist = p.dist /\ vault_[m].tids_ = TokensOf(p)
      /\ <<hashvalue(p), m>> \in qmidindex
  BY <1>1 DEF IInv, Stands
<1> HIDE DEF p
<1>3. hashvalue(p) = hashvalue(q)
  BY <1>2, SameHash DEF Alike
<1>4. hashvalue(q) \div 100000 = 3 * q.type + q.dist
  BY HashProperties DEF LightWeights
<1>5. m \in DOMAIN vault_
  BY LenProperties DEF IInv, Shapes, Live, Mids
<1> QED
  BY <1>2, <1>3, <1>4, <1>5 DEF HashLookup

(* AddQuery shares the cell of a query like the new one, if there is one.  *)
LEMMA AddKeepsShared ==
    ASSUME LightWeights, IInv, Shared, NEW id \in Qids, NEW q \in Queries, AddQuery(id, q)
    PROVE  Shared'
<1>1. /\ id \notin used /\ DOMAIN active \subseteq used
      /\ active' = [i \in DOMAIN active \union {id} |-> IF i = id THEN q ELSE active[i]]
      /\ qidindex \in [Qids -> 0..Len(vault_)]
  BY DEF AddQuery, IInv, Shapes
<1>2. PICK m : qidindex' = [qidindex EXCEPT ![id] = m] /\ (m \in HashLookup(q) \/ HashLookup(q) = {})
  BY DEF AddQuery, ShareCell, RecycleCell, NewCell
<1>3. /\ DOMAIN active' = DOMAIN active \union {id} /\ id \notin DOMAIN active
      /\ active'[id] = q /\ qidindex'[id] = m
      /\ \A i \in DOMAIN active : active'[i] = active[i] /\ qidindex'[i] = qidindex[i]
  <2>1. \A i \in DOMAIN active : i \in Qids /\ i # id
    BY <1>1, ActiveIsLive
  <2>2. DOMAIN active' = DOMAIN active \union {id} /\ id \notin DOMAIN active
        /\ active'[id] = q /\ \A i \in DOMAIN active : active'[i] = active[i]
    BY <1>1, <2>1
  <2>3. qidindex'[id] = m /\ \A i \in DOMAIN active : qidindex'[i] = qidindex[i]
    BY <1>1, <1>2, <2>1
  <2> QED
    BY <2>2, <2>3
<1>4. ASSUME NEW j \in DOMAIN active, Alike(active[j], q) PROVE qidindex[j] = m
  <2>1. /\ active[j] \in Queries /\ Live(qidindex[j])
        /\ vault_[qidindex[j]].type = q.type /\ vault_[qidindex[j]].dist = q.dist
        /\ vault_[qidindex[j]].tids_ = TokensOf(q)
    BY <1>4, ActiveIsLive DEF IInv, Stands, Alike
  <2>2. qidindex[j] \in HashLookup(q)
    BY <2>1, LookupFinds
  <2>3. m \in HashLookup(q)
    BY <1>2, <2>2
  <2>4. /\ Live(m) /\ vault_[m].type = q.type /\ vault_[m].dist = q.dist
        /\ vault_[m].tids_ = TokensOf(q)
    BY <2>3, LookupFacts
  <2>5. PICK i \in DOMAIN active : qidindex[i] = m
    BY <2>4, LiveIsActive
  <2>6. Alike(active[i], active[j])
    BY <1>4, <2>4, <2>5 DEF IInv, Stands, Alike
  <2> QED
    BY <2>5, <2>6 DEF Shared
<1> SUFFICES ASSUME NEW i \in DOMAIN active', NEW j \in DOMAIN active',
                    Alike(active'[i], active'[j])
             PROVE  qidindex'[i] = qidindex'[j]
  BY DEF Shared, Alike
<1>5. Alike(active'[j], active'[i])
  BY DEF Alike
<1>6. CASE i \in DOMAIN active /\ j \in DOMAIN active
  BY <1>3, <1>6 DEF Shared
<1>7. CASE i = id /\ j \in DOMAIN active
  BY <1>3, <1>4, <1>5, <1>7
<1>8. CASE i \in DOMAIN active /\ j = id
  BY <1>3, <1>4, <1>8
<1> QED
  BY <1>3, <1>6, <1>7, <1>8

(* Queries with the same words, in whatever order, are alike.              *)
LEMMA SameWords ==
    ASSUME NEW p \in Queries, NEW q \in Queries, ToSet(p.words) = ToSet(q.words)
    PROVE  TokensOf(p) = TokensOf(q)
<1>1. \A x : Contains(TokensOf(p), x) <=> Contains(TokensOf(q), x)
  <2>1. ASSUME NEW r \in Queries PROVE \A x : Contains(TokensOf(r), x) <=> x \in ToSet(r.words)
    <3>1. DOMAIN r.words = 1..Len(r.words)
      BY QueriesAssumption, LenProperties
    <3>2. \A x : Contains(r.words, x) <=> x \in ToSet(r.words)
      BY <3>1 DEF ToSet, Contains
    <3> QED
      BY <3>2, TokensOfProperties
  <2> QED
    BY <2>1
<1>2. /\ TokensOf(p) \in Seq(Tokens) /\ Increasing(TokensOf(p))
      /\ TokensOf(q) \in Seq(Tokens) /\ Increasing(TokensOf(q))
  BY TokensOfProperties
<1> QED
  BY <1>1, <1>2, SameMembers, TokensAssumption

(* Active queries with the same words, type and distance share a cell: the *)
(* hash values, which skip words, and the recycled cells hide none.        *)
THEOREM OneCellPerQueryHolds ==
    ASSUME LightWeights
    PROVE  Spec => []OneCellPerQuery
<1>1. Init => Shared
  BY DEF Init, Shared
<1>2. ASSUME IInv, Shared, [Next]_vars PROVE Shared'
  <2>1. ASSUME NEW id \in Qids, NEW q \in Queries, AddQuery(id, q) PROVE Shared'
    BY <1>2, <2>1, AddKeepsShared
  <2>2. ASSUME NEW id \in Qids, RemoveQuery(id) PROVE Shared'
    <3>1. active' = [i \in DOMAIN active \ {id} |-> active[i]] /\ qidindex' = qidindex
      BY <2>2 DEF RemoveQuery
    <3>2. \A i \in DOMAIN active' : i \in DOMAIN active /\ active'[i] = active[i]
      BY <3>1
    <3> QED
      BY <1>2, <3>1, <3>2 DEF Shared, Alike
  <2>3. CASE UNCHANGED vars
    BY <1>2, <2>3 DEF vars, Shared, Alike
  <2> QED
    BY <1>2, <2>1, <2>2, <2>3 DEF Next
<1>3. ASSUME IInv, Shared PROVE OneCellPerQuery
  <2> SUFFICES ASSUME NEW i \in DOMAIN active, NEW j \in DOMAIN active,
                      ToSet(active[i].words) = ToSet(active[j].words),
                      active[i].type = active[j].type, active[i].dist = active[j].dist
               PROVE  qidindex[i] = qidindex[j]
    BY DEF OneCellPerQuery
  <2>1. active[i] \in Queries /\ active[j] \in Queries
    BY <1>3, ActiveIsLive
  <2>2. TokensOf(active[i]) = TokensOf(active[j])
    BY <2>1, SameWords
  <2> QED
    BY <1>3, <2>2 DEF Shared, Alike
<1> QED
  BY <1>1, <1>2, <1>3, InvariantHolds, PTL DEF Spec
===============================================================================

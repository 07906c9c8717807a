-------------------------- MODULE TokenManager_proofs --------------------------
(***************************************************************************)
(* Theorems of TokenManager, for every set of strings, every distance and  *)
(* neighbourhood that fit together, every set of requests and every number *)
(* of documents and batches.                                               *)
(***************************************************************************)
EXTENDS TokenManager, TLAPS

(* The pairs a token may be asked for: a word within its highest request.  *)
Wanted(d, t) == t \in isqueryt_ /\ Dist[d, t] <= highest_request[t]

(* highest_request covers every active request, also after the requests    *)
(* have dropped to none and risen again.                                   *)
HighestCovers ==
    \A r \in querypointer_ :
        r.token \in isqueryt_ /\ r.dist <= highest_request[r.token]

(* A wanted pair with a hashed word is related, or its token waits to be   *)
(* searched at a level that finds it.                                      *)
HashedOrDue ==
    \A d \in dhash_, t \in Tokens :
        Wanted(d, t) => \/ <<d, t>> \in rel
                        \/ \E k \in Level : Dist[d, t] <= k /\ t \in qbrandnew_[k]

(* In the first batch, which searches no word on its own, every token      *)
(* waits at its highest level.                                             *)
FirstBatch ==
    batchno = 0 => \A t \in isqueryt_ :
        \E k \in Level : highest_request[t] <= k /\ t \in qbrandnew_[k]

(* What is not hashed is new.                                              *)
NewOrHashed ==
    /\ isqueryt_ \subseteq qhash_ \union qbrandnew
    /\ isdoct_ \ memory_refreshed \subseteq dhash_ \union dbrandnew
    /\ wordbatchv \subseteq dhash_ \union dbrandnew

(* After a batch has been matched nothing is left to hash or to search.    *)
NothingDue ==
    phase = "matched" =>
        /\ isqueryt_ \subseteq qhash_
        /\ isdoct_ \ memory_refreshed \subseteq dhash_
        /\ wordbatchv \subseteq dhash_
        /\ \A d \in dhash_, t \in Tokens : Wanted(d, t) => <<d, t>> \in rel

(* lastbatch_ tells the words of this batch from those of earlier ones.    *)
LastBatch ==
    /\ \A d \in Tokens : lastbatch_[d] = batchno => d \in wordbatchv
    /\ \A d \in Tokens : lastbatch_[d] <= batchno

(* Once matched, a batch counts.                                           *)
BatchCounted == phase # "queries" => batchno < MaxBatches

IInv ==
    /\ TypeOK /\ HighestCovers /\ HashedOrDue /\ FirstBatch /\ NewOrHashed
    /\ NothingDue /\ LastBatch /\ BatchCounted /\ WordsOfTheBatch

-------------------------------------------------------------------------------
(* Level is a small set of numbers: each of its nonempty sets has a        *)
(* greatest one.                                                           *)
LEMMA LevelMaximum ==
    ASSUME NEW S \in SUBSET Level, S # {}
    PROVE  \E k \in S : \A l \in S : l <= k
<1> USE DEF Level
<1>1. CASE 3 \in S
  BY <1>1
<1>2. CASE 3 \notin S /\ 2 \in S
  BY <1>2
<1>3. CASE 3 \notin S /\ 2 \notin S /\ 1 \in S
  BY <1>3
<1>4. CASE 3 \notin S /\ 2 \notin S /\ 1 \notin S
  <2>1. \A l \in S : l = 0
    BY <1>4
  <2>2. PICK k \in S : TRUE
    OBVIOUS
  <2> QED
    BY <2>1, <2>2
<1> QED
  BY <1>1, <1>2, <1>3, <1>4

(* A distance is a number up to 4.                                         *)
LEMMA DistRange ==
    ASSUME NEW d \in Tokens, NEW t \in Tokens
    PROVE  Dist[d, t] \in 0..4
<1>1. <<d, t>> \in Tokens \X Tokens
  OBVIOUS
<1> QED
  BY <1>1, DistAssumption

(* Distances and levels compare like numbers.                              *)
LEMMA AtMostTransitive ==
    ASSUME NEW x \in 0..4, NEW y \in Level, NEW z \in Level, x <= y, y <= z
    PROVE  x <= z
BY DEF Level

(* InsertQmid raises highest_request as far as the new request asks, and   *)
(* never lowers it.                                                        *)
LEMMA RaisedCovers ==
    ASSUME NEW S \in SUBSET Requests, NEW h \in Level
    PROVE  /\ Raised(S, h) \in Level
           /\ h <= Raised(S, h)
           /\ \A r \in S : r.dist <= Raised(S, h)
           /\ Raised(S, h) = h \/ \E r \in S : Raised(S, h) = r.dist
<1> DEFINE D == {h} \union {r.dist : r \in S}
<1>1. D \in SUBSET Level /\ D # {}
  BY RequestAssumption
<1>2. \E k \in D : \A l \in D : l <= k
  BY <1>1, LevelMaximum, Zenon
<1>3. Raised(S, h) \in D /\ \A l \in D : l <= Raised(S, h)
  BY <1>2 DEF Raised
<1> QED
  BY <1>1, <1>3

(* A token with one request joins the qbrandnew of its distance.           *)
LEMMA FirstLevel ==
    ASSUME NEW r \in Requests
    PROVE  r.dist \in Level /\ BitsLevel({r}) = r.dist
<1>1. r.dist \in Level /\ r.type \in {"exact", "ham", "edit"} /\ (r.type = "exact" <=> r.dist = 0)
  BY RequestAssumption
<1>2. \A type : {q.dist : q \in {q \in {r} : q.type = type}} = IF r.type = type THEN {r.dist} ELSE {}
  OBVIOUS
<1>3. BitsLevel({r}) = CHOOSE k \in {r.dist} : \A l \in {r.dist} : l <= k
  BY <1>1, <1>2 DEF BitsLevel
<1>4. \A k \in Level : k <= k
  BY DEF Level
<1> QED
  BY <1>1, <1>3, <1>4

-------------------------------------------------------------------------------
(* Nothing is wanted before the first query and the first document.        *)
LEMMA InitInvariant == Init => IInv
<1> SUFFICES ASSUME Init PROVE IInv
  OBVIOUS
<1> USE DEF Init
<1>1. TypeOK
  BY BatchesAssumption DEF TypeOK, Level
<1>2. HighestCovers /\ HashedOrDue /\ FirstBatch /\ NewOrHashed /\ NothingDue
  BY DEF HighestCovers, HashedOrDue, FirstBatch, NewOrHashed, NothingDue
<1>3. LastBatch /\ BatchCounted /\ WordsOfTheBatch
  BY DEF LastBatch, BatchCounted, WordsOfTheBatch
<1> QED
  BY <1>1, <1>2, <1>3 DEF IInv

(* A request, whether its token is new or not, leaves the token hashed or  *)
(* about to be, and searched as far as the request asks.                   *)
LEMMA AddQueryTokenInvariant ==
    ASSUME IInv, NEW r \in Requests, AddQueryToken(r)
    PROVE  IInv'
<1> DEFINE t == r.token
<1> USE DEF IInv
<1>1. /\ phase = "queries" /\ r \notin querypointer_
      /\ querypointer_' = querypointer_ \union {r}
      /\ UNCHANGED <<wordVars, hashVars, batchno, phase, content>>
  BY DEF AddQueryToken
<1>2. t \in Tokens /\ r.dist \in Level
  BY RequestAssumption
<1>3. /\ highest_request \in [Tokens -> Level] /\ qbrandnew_ \in [Level -> SUBSET Tokens]
      /\ querypointer_ \subseteq Requests
  BY DEF TypeOK
(* What the two ways have in common: t is a query token, is hashed or will *)
(* be, asks for at least r.dist, and for more than before only if it waits *)
(* to be searched again.                                                   *)
<1>4. /\ isqueryt_' = isqueryt_ \union {t}
      /\ qbrandnew' \subseteq isqueryt_' /\ qbrandnew \subseteq qbrandnew'
      /\ t \in isqueryt_ \union qbrandnew'
      /\ \E high \in Level, k \in Level :
            /\ highest_request' = [highest_request EXCEPT ![t] = high]
            /\ r.dist <= high
            /\ t \in isqueryt_ => highest_request[t] <= high
            /\ \/ qbrandnew_' = qbrandnew_ /\ t \in isqueryt_ /\ high = highest_request[t]
               \/ qbrandnew_' = [qbrandnew_ EXCEPT ![k] = @ \union {t}] /\ high <= k
  <2>1. CASE NewQueryToken(r)
    <3>1. BitsLevel({r}) = r.dist
      BY FirstLevel
    <3>2. /\ t \notin isqueryt_ /\ isqueryt_' = isqueryt_ \union {t}
          /\ highest_request' = [highest_request EXCEPT ![t] = r.dist]
          /\ qbrandnew' = qbrandnew \union {t}
          /\ qbrandnew_' = [qbrandnew_ EXCEPT ![r.dist] = @ \union {t}]
      BY <2>1, <3>1 DEF NewQueryToken
    <3>3. r.dist <= r.dist
      BY <1>2 DEF Level
    <3>4. qbrandnew \subseteq isqueryt_
      BY DEF TypeOK
    <3> HIDE DEF t
    <3> QED
      BY <1>2, <3>2, <3>3, <3>4
  <2>2. CASE InsertNewQmid(r)
    <3> DEFINE high == Raised(Of(querypointer_, t) \union {r}, highest_request[t])
    <3>1. Of(querypointer_, t) \union {r} \in SUBSET Requests /\ highest_request[t] \in Level
      BY <1>2, <1>3 DEF Of
    <3>2. /\ high \in Level /\ highest_request[t] <= high
          /\ \A q \in Of(querypointer_, t) \union {r} : q.dist <= high
      BY <3>1, RaisedCovers
    <3>3. /\ t \in isqueryt_ /\ UNCHANGED <<isqueryt_, qbrandnew>>
          /\ highest_request' = [highest_request EXCEPT ![t] = high]
          /\ qbrandnew_' = IF high = highest_request[t] THEN qbrandnew_
                           ELSE [qbrandnew_ EXCEPT ![high] = @ \union {t}]
      BY <2>2 DEF InsertNewQmid
    <3> HIDE DEF high
    <3>4. r.dist <= high /\ high <= high
      BY <3>2 DEF Level
    <3> QED
      BY <3>2, <3>3, <3>4 DEF TypeOK
  <2> QED
    BY <2>1, <2>2 DEF AddQueryToken
<1>5. PICK high \in Level, k \in Level :
          /\ highest_request' = [highest_request EXCEPT ![t] = high]
          /\ r.dist <= high
          /\ t \in isqueryt_ => highest_request[t] <= high
          /\ \/ qbrandnew_' = qbrandnew_ /\ t \in isqueryt_ /\ high = highest_request[t]
             \/ qbrandnew_' = [qbrandnew_ EXCEPT ![k] = @ \union {t}] /\ high <= k
  BY <1>4
<1> HIDE DEF t
<1>6. TypeOK'
  BY <1>1, <1>2, <1>3, <1>4, <1>5 DEF TypeOK, wordVars, hashVars
<1>7. /\ qbrandnew_' \in [Level -> SUBSET Tokens]
      /\ \A l \in Level : qbrandnew_[l] \subseteq qbrandnew_'[l]
      /\ \A s \in Tokens : s # t => highest_request'[s] = highest_request[s]
      /\ highest_request'[t] = high
  BY <1>2, <1>3, <1>5
<1>8. \/ qbrandnew_' = qbrandnew_ /\ t \in isqueryt_ /\ high = highest_request[t]
      \/ t \in qbrandnew_'[k] /\ high <= k
  BY <1>3, <1>5
<1>9. HighestCovers'
  <2> SUFFICES ASSUME NEW q \in querypointer_ \union {r}
               PROVE  q.token \in isqueryt_' /\ q.dist <= highest_request'[q.token]
    BY <1>1 DEF HighestCovers
  <2>1. q.token \in Tokens /\ q.dist \in Level
    BY <1>3, RequestAssumption
  <2>2. CASE q = r
    BY <1>4, <1>5, <1>7, <2>2 DEF t
  <2>3. CASE q \in querypointer_
    <3>1. q.token \in isqueryt_ /\ q.dist <= highest_request[q.token]
      BY <2>3 DEF HighestCovers
    <3>2. CASE q.token = t
      BY <1>2, <1>3, <1>4, <1>5, <1>7, <2>1, <3>1, <3>2 DEF Level
    <3>3. CASE q.token # t
      BY <1>4, <1>7, <2>1, <3>1, <3>3
    <3> QED
      BY <3>2, <3>3
  <2> QED
    BY <2>2, <2>3
<1>10. dhash_' = dhash_ /\ rel' = rel /\ dhash_ \subseteq Tokens
  BY <1>1 DEF hashVars, TypeOK
<1>11. HashedOrDue'
  <2> SUFFICES ASSUME NEW d \in dhash_, NEW s \in Tokens, s \in isqueryt_',
                      Dist[d, s] <= highest_request'[s]
               PROVE  \/ <<d, s>> \in rel
                      \/ \E l \in Level : Dist[d, s] <= l /\ s \in qbrandnew_'[l]
    BY <1>10 DEF HashedOrDue, Wanted
  <2>1. Dist[d, s] \in 0..4
    BY <1>10, DistRange
  <2>2. CASE s = t /\ t \in qbrandnew_'[k] /\ high <= k
    <3>1. Dist[d, s] <= high
      BY <1>7, <2>2
    <3>2. Dist[d, s] <= k
      BY <2>1, <2>2, <3>1, AtMostTransitive
    <3> QED
      BY <2>2, <3>2
  <2>3. CASE \/ s # t
             \/ qbrandnew_' = qbrandnew_ /\ t \in isqueryt_ /\ high = highest_request[t]
    <3>1. s \in isqueryt_ /\ Dist[d, s] <= highest_request[s]
      BY <1>4, <1>7, <2>3
    <3>2. \/ <<d, s>> \in rel
          \/ \E l \in Level : Dist[d, s] <= l /\ s \in qbrandnew_[l]
      BY <3>1 DEF HashedOrDue, Wanted
    <3> QED
      BY <1>7, <3>2
  <2> QED
    BY <1>8, <2>2, <2>3
<1>12. FirstBatch'
  <2> SUFFICES ASSUME batchno = 0, NEW s \in isqueryt_'
               PROVE  \E l \in Level : highest_request'[s] <= l /\ s \in qbrandnew_'[l]
    BY <1>1 DEF FirstBatch
  <2>1. s \in Tokens
    BY <1>6 DEF TypeOK
  <2>2. CASE s = t /\ t \in qbrandnew_'[k] /\ high <= k
    BY <1>7, <2>2
  <2>3. CASE \/ s # t
             \/ qbrandnew_' = qbrandnew_ /\ t \in isqueryt_ /\ high = highest_request[t]
    <3>1. s \in isqueryt_ /\ highest_request'[s] = highest_request[s]
      BY <1>4, <1>7, <2>1, <2>3
    <3>2. \E l \in Level : highest_request[s] <= l /\ s \in qbrandnew_[l]
      BY <3>1 DEF FirstBatch
    <3> QED
      BY <1>7, <3>1, <3>2
  <2> QED
    BY <1>8, <2>2, <2>3
<1>13. NewOrHashed' /\ NothingDue'
  BY <1>1, <1>4 DEF NewOrHashed, NothingDue, wordVars, hashVars
<1>14. LastBatch' /\ BatchCounted' /\ WordsOfTheBatch'
  BY <1>1 DEF LastBatch, BatchCounted, WordsOfTheBatch, wordVars
<1> QED
  BY <1>6, <1>9, <1>11, <1>12, <1>13, <1>14

(* Ending a query takes highest_request back only when no request is left. *)
LEMMA RemoveInvariant ==
    ASSUME IInv, NEW r \in Requests, RemoveTokenQmidInfo(r)
    PROVE  IInv'
<1> DEFINE t == r.token
<1>1. /\ phase = "queries"
      /\ r \in querypointer_ /\ querypointer_' = querypointer_ \ {r}
      /\ highest_request' = [highest_request EXCEPT ![t] =
                                 IF Of(querypointer_, t) = {r} THEN 0 ELSE @]
      /\ UNCHANGED <<isqueryt_, qbrandnew, qbrandnew_, wordVars, hashVars, batchno, phase, content>>
  BY DEF RemoveTokenQmidInfo
<1>2. t \in Tokens /\ r.dist \in Level
  BY RequestAssumption
<1>3. /\ highest_request \in [Tokens -> Level] /\ querypointer_ \subseteq Requests
      /\ isqueryt_ \subseteq Tokens /\ dhash_ \subseteq Tokens
  BY DEF IInv, TypeOK
<1>4. \A s \in Tokens : /\ highest_request'[s] \in Level
                        /\ highest_request'[s] <= highest_request[s]
  BY <1>1, <1>2, <1>3 DEF Level
<1>5. TypeOK'
  <2>1. 0 \in Level
    BY DEF Level
  <2>2. highest_request' \in [Tokens -> Level]
    BY <1>1, <1>3, <2>1
  <2> QED
    BY <1>1, <2>2 DEF IInv, TypeOK, wordVars, hashVars
<1>6. HighestCovers'
  <2> SUFFICES ASSUME NEW q \in querypointer_, q # r
               PROVE  q.token \in isqueryt_ /\ q.dist <= highest_request'[q.token]
    BY <1>1 DEF HighestCovers
  <2>1. /\ q.token \in isqueryt_ /\ q.token \in Tokens
        /\ q.dist <= highest_request[q.token]
    BY <1>3 DEF IInv, HighestCovers
  <2>2. q.token = t => Of(querypointer_, t) # {r}
    BY DEF Of
  <2>3. highest_request'[q.token] = highest_request[q.token]
    BY <1>1, <1>3, <2>1, <2>2
  <2> QED
    BY <2>1, <2>3
<1>7. \A d \in dhash_, s \in Tokens : Wanted(d, s)' => Wanted(d, s)
  <2> SUFFICES ASSUME NEW d \in dhash_, NEW s \in Tokens,
                      Dist[d, s] <= highest_request'[s]
               PROVE  Dist[d, s] <= highest_request[s]
    BY <1>1 DEF Wanted
  <2> QED
    BY <1>3, <1>4, AtMostTransitive, DistRange
<1>8. HashedOrDue'
  BY <1>1, <1>7 DEF IInv, HashedOrDue, hashVars
<1>9. FirstBatch'
  <2> SUFFICES ASSUME batchno = 0, NEW s \in isqueryt_
               PROVE  \E k \in Level : highest_request'[s] <= k /\ s \in qbrandnew_[k]
    BY <1>1 DEF FirstBatch
  <2>1. PICK k \in Level : highest_request[s] <= k /\ s \in qbrandnew_[k]
    BY DEF IInv, FirstBatch
  <2>2. highest_request'[s] <= k
    BY <1>3, <1>4, <2>1 DEF Level
  <2> QED
    BY <2>1, <2>2
<1>10. NewOrHashed' /\ NothingDue'
  BY <1>1 DEF IInv, NewOrHashed, NothingDue, wordVars, hashVars
<1>11. LastBatch' /\ BatchCounted' /\ WordsOfTheBatch'
  BY <1>1 DEF IInv, LastBatch, BatchCounted, WordsOfTheBatch, wordVars
<1> QED
  BY <1>5, <1>6, <1>8, <1>9, <1>10, <1>11 DEF IInv

(* A word of a document is hashed already or becomes new, and is entered   *)
(* in the batch once.                                                      *)
LEMMA AddDocTokenInvariant ==
    ASSUME IInv, NEW d \in Tokens, NEW did \in Dids, AddDocToken(d, did)
    PROVE  IInv'
<1> USE DEF AddDocToken, InsertDid
<1>a. /\ isdoct_' = isdoct_ \union {d} /\ memory_refreshed' = memory_refreshed \ {d}
      /\ dbrandnew' = IF d \notin isdoct_ \/ d \in memory_refreshed
                      THEN dbrandnew \union {d} ELSE dbrandnew
  <2>1. CASE NewDocToken(d)
    <3>1. d \notin memory_refreshed
      BY <2>1 DEF NewDocToken, IInv, TypeOK
    <3>2. memory_refreshed' = memory_refreshed \ {d}
      BY <2>1, <3>1 DEF NewDocToken
    <3> QED
      BY <2>1, <3>2 DEF NewDocToken
  <2>2. CASE InsertNewDocid(d)
    BY <2>2 DEF InsertNewDocid
  <2> QED
    BY <2>1, <2>2
<1>1. UNCHANGED <<querypointer_, isqueryt_, highest_request, qbrandnew, qbrandnew_,
                  qhash_, dhash_, rel, batchno>> /\ phase' = "docs"
  BY DEF queryVars, hashVars
<1>2. TypeOK'
  BY <1>a, <1>1 DEF IInv, TypeOK
<1>3. HighestCovers' /\ HashedOrDue' /\ FirstBatch'
  BY <1>a, <1>1 DEF IInv, HighestCovers, HashedOrDue, FirstBatch, Wanted
<1>4. NewOrHashed' /\ NothingDue'
  BY <1>a, <1>1 DEF IInv, NewOrHashed, NothingDue
<1>5. LastBatch' /\ BatchCounted'
  <2>1. lastbatch_ \in [Tokens -> -1..MaxBatches] /\ batchno \in 0..MaxBatches
    BY DEF IInv, TypeOK
  <2> QED
    BY <1>a, <1>1, <2>1 DEF IInv, LastBatch, BatchCounted
<1>6. WordsOfTheBatch'
  <2>1. d \in wordbatchv'
    BY DEF IInv, LastBatch
  <2>2. wordbatchv' = wordbatchv \union {d}
    BY DEF IInv, LastBatch
  <2>3. /\ docpointer_' = [docpointer_ EXCEPT ![d] = @ \union {did}]
        /\ content' = [content EXCEPT ![did] = @ \union {d}]
        /\ docpointer_ \in [Tokens -> SUBSET Dids] /\ content \in [Dids -> SUBSET Tokens]
        /\ wordbatchv \subseteq Tokens
    BY DEF IInv, TypeOK
  <2>4. ASSUME NEW i \in Dids
        PROVE  content'[i] = {w \in wordbatchv' : i \in docpointer_'[w]}
    <3>1. content[i] = {w \in wordbatchv : i \in docpointer_[w]}
      BY DEF IInv, WordsOfTheBatch
    <3>2. d \notin wordbatchv => docpointer_[d] = {}
      BY DEF IInv, WordsOfTheBatch
    <3>3. ASSUME NEW w
          PROVE  w \in content'[i] <=> w \in wordbatchv' /\ i \in docpointer_'[w]
      BY <2>2, <2>3, <3>1, <3>2
    <3> QED
      BY <3>3
  <2>5. \A w \in Tokens \ wordbatchv' : docpointer_'[w] = {}
    BY <2>2, <2>3 DEF IInv, WordsOfTheBatch
  <2> QED
    BY <2>4, <2>5 DEF WordsOfTheBatch
<1> QED
  BY <1>2, <1>3, <1>4, <1>5, <1>6 DEF IInv

(* Matching a batch relates every wanted pair of a hashed word and a token *)
(* and leaves nothing due.                                                 *)
LEMMA MatchBatchInvariant ==
    ASSUME IInv, MatchBatch
    PROVE  IInv'
<1>1. /\ phase = "docs" /\ phase' = "matched"
      /\ dhash_' = dhash_ \union dbrandnew
      /\ qhash_' = qhash_ \union qbrandnew
      /\ rel' = rel \union QD \union DQ
      /\ UNCHANGED <<queryVars, wordVars, batchno, content>>
  BY DEF MatchBatch
<1>2. /\ isqueryt_ \subseteq Tokens /\ isdoct_ \subseteq Tokens
      /\ highest_request \in [Tokens -> Level]
      /\ qbrandnew_ \in [Level -> SUBSET Tokens]
      /\ dhash_ \subseteq isdoct_ /\ dbrandnew \subseteq isdoct_
      /\ qhash_ \subseteq isqueryt_ /\ qbrandnew \subseteq Tokens
  BY DEF IInv, TypeOK
<1>3. ASSUME NEW words, NEW tokens, NEW k \in Level
      PROVE  /\ Found(words, tokens, k) \subseteq words \X tokens
             /\ \A d \in words \cap Tokens, t \in tokens \cap Tokens :
                    Dist[d, t] <= k => <<d, t>> \in Found(words, tokens, k)
  <2>1. Found(words, tokens, k) \subseteq words \X tokens
    BY DEF Found
  <2>2. ASSUME NEW d \in words \cap Tokens, NEW t \in tokens \cap Tokens, Dist[d, t] <= k
        PROVE  <<d, t>> \in Found(words, tokens, k)
    <3>1. <<d, t>> \in Share[k]
      BY <2>2, ShareAssumption
    <3>2. Dist[d, t] \in 0..4
      BY DistRange
    <3>3. 3 \in Level /\ k <= 3
      BY DEF Level
    <3>4. Dist[d, t] <= 3
      BY <2>2, <3>2, <3>3, AtMostTransitive
    <3> QED
      BY <3>1, <3>4 DEF Found
  <2> QED
    BY <2>1, <2>2
<1>4. TypeOK'
  <2>1. QD \subseteq Tokens \X Tokens
    <3>1. ASSUME NEW k \in Level
          PROVE  Found(dhash_ \union dbrandnew, qbrandnew_[k], k) \subseteq Tokens \X Tokens
      <4>1. Found(dhash_ \union dbrandnew, qbrandnew_[k], k)
                \subseteq (dhash_ \union dbrandnew) \X qbrandnew_[k]
        BY <1>3
      <4>2. dhash_ \union dbrandnew \subseteq Tokens /\ qbrandnew_[k] \subseteq Tokens
        BY <1>2
      <4> QED
        BY <4>1, <4>2
    <3> QED
      BY <3>1, Zenon DEF QD
  <2>2. DQ \subseteq Tokens \X Tokens
    <3>1. 3 \in Level
      BY DEF Level
    <3>2. Found(dbrandnew, qhash_ \union qbrandnew, 3) \subseteq dbrandnew \X (qhash_ \union qbrandnew)
      BY <1>3, <3>1
    <3> QED
      BY <1>2, <3>2 DEF DQ
  <2> QED
    BY <1>1, <2>1, <2>2 DEF IInv, TypeOK, queryVars, wordVars
<1>5. HighestCovers' /\ FirstBatch' /\ LastBatch' /\ WordsOfTheBatch'
  BY <1>1 DEF IInv, HighestCovers, FirstBatch, LastBatch, WordsOfTheBatch, queryVars, wordVars
<1>6. BatchCounted'
  BY <1>1 DEF IInv, BatchCounted
<1>7. NewOrHashed'
  BY <1>1 DEF IInv, NewOrHashed, queryVars, wordVars
<1>8. ASSUME NEW d \in dhash_', NEW t \in Tokens, Wanted(d, t)
      PROVE  <<d, t>> \in rel'
  <2>1. d \in Tokens /\ t \in isqueryt_ /\ highest_request[t] \in Level
    BY <1>1, <1>2, <1>8 DEF Wanted
  <2>2. Dist[d, t] \in 0..4 /\ Dist[d, t] <= highest_request[t]
    BY <1>8, <2>1, DistRange DEF Wanted
  <2>3. ASSUME NEW k \in Level, Dist[d, t] <= k, t \in qbrandnew_[k]
        PROVE  <<d, t>> \in QD
    <3>1. <<d, t>> \in Found(dhash_ \union dbrandnew, qbrandnew_[k], k)
      BY <1>1, <1>3, <2>1, <2>3
    <3> QED
      BY <3>1 DEF QD
  <2>4. CASE d \in dhash_
    <3>1. \/ <<d, t>> \in rel
          \/ \E k \in Level : Dist[d, t] <= k /\ t \in qbrandnew_[k]
      BY <1>8, <2>4 DEF IInv, HashedOrDue
    <3> QED
      BY <1>1, <2>3, <3>1
  <2>5. CASE d \in dbrandnew /\ batchno = 0
    <3>1. PICK k \in Level : highest_request[t] <= k /\ t \in qbrandnew_[k]
      BY <2>1, <2>5 DEF IInv, FirstBatch
    <3>2. Dist[d, t] <= k
      BY <2>1, <2>2, <3>1, AtMostTransitive
    <3> QED
      BY <1>1, <2>3, <3>1, <3>2
  <2>6. CASE d \in dbrandnew /\ batchno # 0
    <3>1. t \in qhash_ \union qbrandnew
      BY <2>1 DEF IInv, NewOrHashed
    <3>2. 3 \in Level /\ highest_request[t] <= 3
      BY <2>1 DEF Level
    <3>3. Dist[d, t] <= 3
      BY <2>1, <2>2, <3>2, AtMostTransitive
    <3>4. <<d, t>> \in Found(dbrandnew, qhash_ \union qbrandnew, 3)
      BY <1>3, <2>1, <2>6, <3>1, <3>2, <3>3
    <3> QED
      BY <1>1, <2>6, <3>4 DEF DQ
  <2> QED
    BY <1>1, <2>4, <2>5, <2>6
<1>9. \A d, t : Wanted(d, t)' = Wanted(d, t)
  BY <1>1 DEF Wanted, queryVars
<1>10. HashedOrDue'
  BY <1>8, <1>9 DEF HashedOrDue
<1>11. NothingDue'
  BY <1>1, <1>8, <1>9 DEF IInv, NewOrHashed, NothingDue, queryVars, wordVars
<1> QED
  BY <1>4, <1>5, <1>6, <1>7, <1>10, <1>11 DEF IInv

(* RunEnd forgets what was new, and with a Restart what was hashed: all of *)
(* it is related, or will be new again.                                    *)
LEMMA RunEndInvariant ==
    ASSUME IInv, RunEnd
    PROVE  IInv'
<1>1. /\ phase = "matched" /\ phase' = "queries"
      /\ NewBatch \/ Restart
      /\ dbrandnew' = {} /\ wordbatchv' = {}
      /\ docpointer_' = [d \in Tokens |-> IF d \in wordbatchv THEN {} ELSE docpointer_[d]]
      /\ batchno' = batchno + 1
      /\ content' = [i \in Dids |-> {}]
      /\ UNCHANGED <<querypointer_, isqueryt_, highest_request, isdoct_, lastbatch_, qhash_>>
  BY DEF RunEnd, ClearBatch
<1>2. batchno \in 0..MaxBatches /\ batchno < MaxBatches
  BY <1>1 DEF IInv, TypeOK, BatchCounted
<1>3. /\ qbrandnew' \subseteq isqueryt_
      /\ qbrandnew_' \in [Level -> SUBSET Tokens]
      /\ memory_refreshed' \subseteq isdoct_
      /\ dhash_' \subseteq dhash_ /\ rel' \subseteq rel
      /\ isdoct_ \ memory_refreshed' \subseteq dhash_'
      /\ dhash_' = {} \/ rel' = rel
  <2>1. CASE NewBatch
    BY <1>1, <2>1 DEF NewBatch, IInv, TypeOK, NothingDue
  <2>2. CASE Restart
    <3>1. {t \in Tokens : Of(querypointer_, t) # {}} \subseteq isqueryt_
      BY DEF Of, IInv, HighestCovers
    <3> QED
      BY <2>2, <3>1 DEF Restart, IInv, TypeOK
  <2> QED
    BY <1>1, <2>1, <2>2
<1>4. TypeOK'
  <2>1. batchno' \in 0..MaxBatches
    BY <1>1, <1>2, BatchesAssumption
  <2>2. docpointer_' \in [Tokens -> SUBSET Dids]
    BY <1>1 DEF IInv, TypeOK
  <2> QED
    BY <1>1, <1>3, <2>1, <2>2 DEF IInv, TypeOK
<1>5. HighestCovers'
  BY <1>1 DEF IInv, HighestCovers
<1>6. HashedOrDue'
  BY <1>1, <1>3 DEF IInv, HashedOrDue, NothingDue, Wanted
<1>7. FirstBatch'
  BY <1>1, <1>2 DEF FirstBatch
<1>8. NewOrHashed' /\ NothingDue'
  BY <1>1, <1>3 DEF IInv, NewOrHashed, NothingDue
<1>9. LastBatch' /\ BatchCounted'
  <2>1. lastbatch_ \in [Tokens -> -1..MaxBatches]
    BY DEF IInv, TypeOK
  <2> QED
    BY <1>1, <1>2, <2>1 DEF IInv, LastBatch, BatchCounted
<1>10. WordsOfTheBatch'
  BY <1>1 DEF IInv, WordsOfTheBatch
<1> QED
  BY <1>4, <1>5, <1>6, <1>7, <1>8, <1>9, <1>10 DEF IInv

(* Every step keeps the invariant.                                         *)
LEMMA NextInvariant == IInv /\ [Next]_vars => IInv'
<1> SUFFICES ASSUME IInv, [Next]_vars PROVE IInv'
  OBVIOUS
<1>1. ASSUME NEW r \in Requests, AddQueryToken(r) PROVE IInv'
  BY <1>1, AddQueryTokenInvariant
<1>2. ASSUME NEW r \in Requests, RemoveTokenQmidInfo(r) PROVE IInv'
  BY <1>2, RemoveInvariant
<1>3. ASSUME NEW d \in Tokens, NEW did \in Dids, AddDocToken(d, did) PROVE IInv'
  BY <1>3, AddDocTokenInvariant
<1>4. ASSUME MatchBatch PROVE IInv'
  BY <1>4, MatchBatchInvariant
<1>5. ASSUME RunEnd PROVE IInv'
  BY <1>5, RunEndInvariant
<1>6. ASSUME UNCHANGED vars PROVE IInv'
  <2>1. TypeOK' /\ HighestCovers' /\ HashedOrDue' /\ FirstBatch'
    BY <1>6 DEF IInv, TypeOK, HighestCovers, HashedOrDue, FirstBatch, Wanted,
                vars, queryVars, wordVars, hashVars
  <2>2. NewOrHashed' /\ NothingDue' /\ LastBatch' /\ BatchCounted' /\ WordsOfTheBatch'
    BY <1>6 DEF IInv, NewOrHashed, NothingDue, LastBatch, BatchCounted, WordsOfTheBatch, Wanted,
                vars, queryVars, wordVars, hashVars
  <2> QED
    BY <2>1, <2>2 DEF IInv
<1> QED
  BY <1>1, <1>2, <1>3, <1>4, <1>5, <1>6 DEF Next

-------------------------------------------------------------------------------
(* The inductive invariant holds in every reachable state.                 *)
THEOREM InvariantHolds == Spec => []IInv
BY InitInvariant, NextInvariant, PTL DEF Spec

(* The state keeps its shape; what is hashed or new stays a query token or *)
(* a word.                                                                 *)
THEOREM TypeCorrect == Spec => []TypeOK
<1>1. IInv => TypeOK
  BY DEF IInv
<1> QED
  BY <1>1, InvariantHolds, PTL

(* Searching only what is new loses no pair: once a batch is matched, each *)
(* of its words is related to every token an active query asks it of       *)
(* (TokenManager_Vector.cc:154-195, 221-260).                              *)
THEOREM NoPairIsLost == Spec => []RelationsComplete
<1>1. IInv => RelationsComplete
  <2> SUFFICES ASSUME IInv, phase = "matched", NEW d \in wordbatchv, NEW r \in querypointer_,
                      Dist[d, r.token] <= r.dist
               PROVE  <<d, r.token>> \in rel
    BY DEF RelationsComplete
  <2>1. /\ d \in Tokens /\ r.token \in Tokens /\ r.dist \in Level
        /\ r.token \in isqueryt_ /\ highest_request[r.token] \in Level
        /\ r.dist <= highest_request[r.token]
    BY RequestAssumption DEF IInv, TypeOK, HighestCovers
  <2>2. Dist[d, r.token] <= highest_request[r.token]
    BY <2>1, DistRange, AtMostTransitive
  <2>3. d \in dhash_ /\ Wanted(d, r.token)
    BY <2>1, <2>2 DEF IInv, NothingDue, Wanted
  <2> QED
    BY <2>1, <2>3 DEF IInv, NothingDue
<1> QED
  BY <1>1, InvariantHolds, PTL

(* A batch is matched with its own words and documents, with none that an  *)
(* earlier batch left behind (top_impl.cpp:218-226, 241-242).              *)
THEOREM NoWordIsLeftBehind == Spec => []WordsOfTheBatch
<1>1. IInv => WordsOfTheBatch
  BY DEF IInv
<1> QED
  BY <1>1, InvariantHolds, PTL
===============================================================================

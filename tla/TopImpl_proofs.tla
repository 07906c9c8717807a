----------------------------- MODULE TopImpl_proofs -----------------------------
(***************************************************************************)
(* Theorems of TopImpl, for every number of documents, of buffers and of   *)
(* queries.  The first invariant holds whatever the client does; the       *)
(* second one, and with it the contract of core.h, only for a client that  *)
(* takes the results of a batch before it goes on (Freedom = {}): the two  *)
(* runs that expect a violation show what the others get.                  *)
(***************************************************************************)
EXTENDS TopImpl, SequenceFacts, FiniteSetTheorems, SequenceTheorems, TLAPS

-------------------------------------------------------------------------------
(* The first invariant: types, buffers and the count of the results.       *)

(* A vector uses a part of its storage.                                    *)
Stores == {v \in [at : Seq(Nat), len : Nat] : v.len <= Len(v.at)}

Dedups == [kind : {"JobDedup"}, dn : Nat, doc : Docs, spot : 1..Spots]
Runs   == [kind : {"JobRun"}]
Results == [did : Nat, words : SUBSET Docs, queries : SUBSET Queries]

(* The shapes of the variables, for any client.                            *)
ClientShape ==
    /\ pc \in {"ready", "start", "end", "spot", "push", "await", "take", "return",
               "destroy", "gone"}
    /\ pc \in {"start", "end"} => arg \in Queries
    /\ pc = "push" => arg \in 1..Spots
    /\ pc \in {"spot", "push"} => Len(asked) > 0
    /\ our_id \in Nat /\ draining \in BOOLEAN /\ match \in BOOLEAN /\ gnflag \in BOOLEAN
    /\ active \subseteq Queries /\ started \subseteq Queries
    /\ asked \in Seq(SUBSET Queries) /\ Len(asked) <= MaxDocs
    /\ returned \in Seq([doc : Nat, words : SUBSET Docs, queries : SUBSET Queries])
    /\ result \in Results
    /\ docids \in Stores

ThreadShape ==
    /\ empty_spot \in Seq(1..Spots)
    /\ buff \in [1..Spots -> 0..MaxDocs]
    /\ mdq \in Seq(Dedups \union Runs)
    /\ releasing \in BOOLEAN
    /\ releasing => mdq # <<>> /\ mdq[1].kind = "JobDedup"
    /\ globaldocs \in Stores
    /\ words \in [Docs -> SUBSET Docs]
    /\ tasks \in Seq(Nat)
    /\ docs \in Seq(Results)
    /\ unannounced \in Nat /\ ResAvail \in Nat /\ docsofbatch \in Int /\ batchEnd \in Nat

(* The JobDedup at i holds a buffer.                                       *)
Holds(i) == mdq[i].kind = "JobDedup"

(* No buffer is in two places, each is in one.                             *)
SpotsApart ==
    /\ \A i, k \in 1..Len(empty_spot) : empty_spot[i] = empty_spot[k] => i = k
    /\ \A i, k \in 1..Len(mdq) : Holds(i) /\ Holds(k) /\ mdq[i].spot = mdq[k].spot => i = k
    /\ \A i \in 1..Len(empty_spot), k \in 1..Len(mdq) : Holds(k) => empty_spot[i] # mdq[k].spot
    /\ pc = "push" => /\ \A i \in 1..Len(empty_spot) : empty_spot[i] # arg
                      /\ \A k \in 1..Len(mdq) : Holds(k) => mdq[k].spot # arg

SpotsSomewhere ==
    \A s \in 1..Spots : \/ \E i \in 1..Len(empty_spot) : empty_spot[i] = s
                        \/ pc = "push" /\ arg = s
                        \/ \E k \in 1..Len(mdq) : Holds(k) /\ mdq[k].spot = s

BuffersFilled == \A k \in 1..Len(mdq) : Holds(k) => buff[mdq[k].spot] = mdq[k].doc

AInv ==
    /\ ClientShape /\ ThreadShape /\ SpotsApart /\ SpotsSomewhere /\ BuffersFilled
    /\ ResultsBacked

-------------------------------------------------------------------------------
(* The second invariant: one batch at a time.                              *)

(* The documents handed to matchdocjs, those of earlier batches, and how   *)
(* many of this batch matchdocjs has still to read.                        *)
Pushed == Len(asked) - (IF pc \in {"spot", "push"} THEN 1 ELSE 0)
Base   == Pushed - docids.len
Unread == Len(mdq) - (IF draining /\ mdq # <<>> THEN 1 ELSE 0)

(* The JobRun of the batch has run.                                        *)
Ran == draining /\ mdq = <<>>

(* The calls follow one another as test.cpp makes them.                    *)
CallOrder ==
    /\ pc \in {"spot", "push"} => ~draining /\ ~match
    /\ pc \in {"await", "take", "return"} => draining
    /\ pc \in {"start", "end"} => docsofbatch = 0
    /\ pc = "start" => arg \notin started
    /\ pc = "end" => arg \in active
    /\ active \subseteq started
    /\ match => docsofbatch = 0
    /\ gnflag <=> ~draining /\ docids.len > 0

(* Our ids start at 0 with each batch.                                     *)
OurIds ==
    /\ ~draining /\ ~match => our_id = docids.len
    /\ our_id <= Pushed
    /\ docids.len <= Pushed

(* docsofbatch counts the documents from MatchDocument until they are      *)
(* taken, and is 0 exactly between batches.                                *)
DocsCounted ==
    /\ docsofbatch = IF Ran THEN Len(tasks) + Len(docs)
                     ELSE docids.len + (IF pc = "push" THEN 1 ELSE 0)
    /\ docsofbatch = 0 => docids.len = 0
    /\ Len(asked) - Len(returned) = docsofbatch + (IF pc \in {"spot", "return"} THEN 1 ELSE 0)

(* The queue of matchdocjs: the documents not read, in order, then JobRun. *)
ReadingInOrder ==
    /\ globaldocs.len = docids.len - Unread + (IF releasing THEN 1 ELSE 0)
    /\ \A i \in 1..Unread : /\ Holds(i)
                            /\ mdq[i].dn = docids.len - Unread + i - 1
                            /\ mdq[i].doc = Pushed - Unread + i
    /\ draining /\ mdq # <<>> => docids.len > 0 /\ mdq[Len(mdq)].kind = "JobRun"

(* Our id i is the i-th document of the batch.                             *)
IdsOfTheBatch ==
    /\ \A i \in 1..globaldocs.len : globaldocs.at[i] = i
    /\ \A i \in Docs : words[i] = IF i <= globaldocs.len THEN {Base + i} ELSE {}
    /\ \A i \in 1..docids.len : docids.at[i] = Base + i
    /\ \A d \in (Base + 1)..Len(asked) : asked[d] = active

(* Each document of a batch that was run has one result: to be made, made, *)
(* in the hands of the client, or returned.                                *)
ResultsUnderway ==
    /\ ~Ran => tasks = <<>> /\ docs = <<>>
    /\ \A i \in 1..Len(tasks) : tasks[i] \in 1..docids.len
    /\ \A i, k \in 1..Len(tasks) : tasks[i] = tasks[k] => i = k
    /\ \A i \in 1..Len(docs) : /\ docs[i].did \in 1..docids.len
                               /\ docs[i].words = {Base + docs[i].did}
                               /\ docs[i].queries = active
    /\ \A i, k \in 1..Len(docs) : docs[i].did = docs[k].did => i = k
    /\ \A i \in 1..Len(tasks), k \in 1..Len(docs) : tasks[i] # docs[k].did

(* The documents whose result was returned or is in the client's hands.    *)
InHand == docids.at[result.did]
Had == {returned[i].doc : i \in 1..Len(returned)}
          \union (IF pc = "return" THEN {InHand} ELSE {})

ResultsHad ==
    /\ Had \subseteq 1..(Pushed - (IF Ran THEN 0 ELSE docids.len))
    /\ \A i \in 1..Len(tasks) : Base + tasks[i] \notin Had
    /\ \A i \in 1..Len(docs) : Base + docs[i].did \notin Had
    /\ pc = "return" => /\ result.did \in 1..Len(docids.at)
                        /\ result.words = {InHand} /\ result.queries = asked[InHand]
                        /\ \A i \in 1..Len(returned) : returned[i].doc # InHand
    /\ \A i \in 1..Len(returned) :
          returned[i] = [doc |-> returned[i].doc, words |-> {returned[i].doc},
                         queries |-> asked[returned[i].doc]]
    /\ \A i, k \in 1..Len(returned) : returned[i].doc = returned[k].doc => i = k

BInv ==
    /\ CallOrder /\ OurIds /\ DocsCounted /\ ReadingInOrder /\ IdsOfTheBatch
    /\ ResultsUnderway /\ ResultsHad
-------------------------------------------------------------------------------
(* Vectors and sequences.                                                   *)

(* A cleared vector has nothing in use.                                    *)
LEMMA EmptyStoreProperties == EmptyStore \in Stores /\ EmptyStore.len = 0
<1>1. <<>> \in Seq(Nat) /\ Len(<<>>) = 0
  OBVIOUS
<1> QED
  BY <1>1 DEF EmptyStore, Stores

(* push_back keeps what is in use, also when there is old storage behind.  *)
LEMMA PushBackProperties ==
    ASSUME NEW v \in Stores, NEW x \in Nat
    PROVE  /\ PushBack(v, x) \in Stores
           /\ PushBack(v, x).len = v.len + 1
           /\ \A i \in 1..v.len : PushBack(v, x).at[i] = v.at[i]
           /\ PushBack(v, x).at[v.len + 1] = x
<1> DEFINE a == SubSeq(v.at, 1, v.len)
           c == SubSeq(v.at, v.len + 2, Len(v.at))
           n == v.len
<1>1. n \in Nat /\ n <= Len(v.at) /\ v.at \in Seq(Nat) /\ Len(v.at) \in Nat
  BY DEF Stores
<1>2. a \in Seq(Nat) /\ Len(a) = n /\ \A i \in 1..n : a[i] = v.at[i]
  <2>1. \A i \in 1..n : v.at[i] \in Nat
    BY <1>1, LenProperties
  <2> HIDE DEF n
  <2>2. SubSeq(v.at, 1, n) \in Seq(Nat)
        /\ Len(SubSeq(v.at, 1, n)) = (IF 1 <= n THEN n - 1 + 1 ELSE 0)
        /\ \A i \in 1..(n - 1 + 1) : SubSeq(v.at, 1, n)[i] = v.at[1 + i - 1]
    BY <1>1, <2>1, SubSeqProperties
  <2>3. Len(SubSeq(v.at, 1, n)) = n /\ \A i \in 1..n : SubSeq(v.at, 1, n)[i] = v.at[i]
    BY <1>1, <2>2
  <2> QED
    BY <2>2, <2>3 DEF n
<1>3. c \in Seq(Nat) /\ Len(c) \in Nat
  <2>1. \A i \in (v.len + 2)..Len(v.at) : v.at[i] \in Nat
    BY <1>1, LenProperties
  <2>2. v.len + 2 \in Int /\ Len(v.at) \in Int
    BY <1>1
  <2>3. SubSeq(v.at, v.len + 2, Len(v.at)) \in Seq(Nat)
    BY <2>1, <2>2, SubSeqProperties
  <2> QED
    BY <2>3, LenProperties
<1> HIDE DEF a, c
<1>4. <<x>> \in Seq(Nat) /\ Len(<<x>>) = 1 /\ <<x>>[1] = x
  OBVIOUS
<1>5. /\ a \o <<x>> \in Seq(Nat)
      /\ Len(a \o <<x>>) = n + 1
      /\ \A i \in 1..n : (a \o <<x>>)[i] = v.at[i]
      /\ (a \o <<x>>)[n + 1] = x
  BY <1>1, <1>2, <1>4, ConcatProperties
<1>6. /\ (a \o <<x>>) \o c \in Seq(Nat)
      /\ Len((a \o <<x>>) \o c) = n + 1 + Len(c)
      /\ \A i \in 1..(n + 1) : ((a \o <<x>>) \o c)[i] = (a \o <<x>>)[i]
  <2> DEFINE b == a \o <<x>>
  <2>1. b \in Seq(Nat) /\ Len(b) = n + 1 /\ n + 1 \in Nat
    BY <1>1, <1>5
  <2> HIDE DEF b, n
  <2>2. /\ b \o c \in Seq(Nat)
        /\ Len(b \o c) = Len(b) + Len(c)
        /\ \A i \in 1..(Len(b) + Len(c)) :
              (b \o c)[i] = IF i <= Len(b) THEN b[i] ELSE c[i - Len(b)]
    BY <1>3, <2>1, ConcatProperties
  <2>3. \A i \in 1..(n + 1) : (b \o c)[i] = b[i]
    BY <1>3, <2>1, <2>2
  <2> QED
    BY <2>1, <2>2, <2>3 DEF b
<1>7. PushBack(v, x) = [at |-> (a \o <<x>>) \o c, len |-> n + 1]
  BY DEF PushBack, a, c
<1>8. PushBack(v, x).at = (a \o <<x>>) \o c /\ PushBack(v, x).len = n + 1
  BY <1>7
<1>9. PushBack(v, x) \in [at : Seq(Nat), len : Nat]
  BY <1>1, <1>6, <1>7
<1>10. PushBack(v, x) \in Stores
  BY <1>1, <1>3, <1>6, <1>8, <1>9 DEF Stores
<1>11. /\ \A i \in 1..n : PushBack(v, x).at[i] = v.at[i]
       /\ PushBack(v, x).at[n + 1] = x
  BY <1>1, <1>5, <1>6, <1>8
<1> QED
  BY <1>8, <1>10, <1>11

(* clear() keeps the storage.                                              *)
LEMMA ClearProperties ==
    ASSUME NEW v \in Stores
    PROVE  Clear(v) \in Stores /\ Clear(v).len = 0 /\ Clear(v).at = v.at
<1>1. v \in [at : Seq(Nat), len : Nat] /\ Len(v.at) \in Nat
  BY LenProperties DEF Stores
<1>2. Clear(v) = [at |-> v.at, len |-> 0]
  BY <1>1 DEF Clear
<1>3. v.at \in Seq(Nat) /\ 0 <= Len(v.at)
  BY <1>1
<1> QED
  BY <1>2, <1>3 DEF Stores

-------------------------------------------------------------------------------
(* The first invariant, for any client.                                     *)

Buffers == SpotsApart /\ SpotsSomewhere /\ BuffersFilled

(* Steps that move no buffer.                                              *)
LEMMA BuffersStay ==
    ASSUME Buffers, UNCHANGED <<empty_spot, buff, mdq>>,
           pc # "push", pc' # "push"
    PROVE  Buffers'
BY DEF Buffers, SpotsApart, SpotsSomewhere, BuffersFilled, Holds

(* At the start every buffer is free and nothing is underway.              *)
LEMMA InitA == Init => AInv
<1> SUFFICES ASSUME Init PROVE AInv
  OBVIOUS
<1>1. MaxDocs \in Nat /\ Spots \in Nat \ {0}
  BY SizeAssumption
<1>2. /\ <<>> \in Seq(SUBSET Queries) /\ <<>> \in Seq(Dedups \union Runs) /\ <<>> \in Seq(Nat)
      /\ <<>> \in Seq(Results) /\ Len(<<>>) = 0
      /\ <<>> \in Seq([doc : Nat, words : SUBSET Docs, queries : SUBSET Queries])
  OBVIOUS
<1>3. ClientShape
  <2>1. NoResult \in Results
    BY DEF NoResult, Results
  <2>2. pc = "ready" /\ result = NoResult /\ docids = EmptyStore /\ asked = <<>> /\ returned = <<>>
    BY DEF Init
  <2>3. Len(asked) <= MaxDocs /\ docids \in Stores
    BY <1>1, <1>2, <2>2, EmptyStoreProperties
  <2> QED
    BY <1>2, <2>1, <2>2, <2>3 DEF Init, ClientShape
<1>4. empty_spot \in Seq(1..Spots) /\ Len(empty_spot) = Spots
  BY <1>1 DEF Init
<1>5. ThreadShape
  <2>1. buff \in [1..Spots -> 0..MaxDocs] /\ words \in [Docs -> SUBSET Docs]
    BY <1>1 DEF Init
  <2>2. globaldocs \in Stores
    BY EmptyStoreProperties DEF Init
  <2>3. /\ mdq = <<>> /\ releasing = FALSE /\ tasks = <<>> /\ docs = <<>>
        /\ unannounced = 0 /\ ResAvail = 0 /\ docsofbatch = 0 /\ batchEnd = 1
    BY DEF Init
  <2>4. mdq \in Seq(Dedups \union Runs) /\ tasks \in Seq(Nat) /\ docs \in Seq(Results)
    BY <1>2, <2>3
  <2>5. releasing \in BOOLEAN /\ ~releasing
    BY <2>3
  <2>6. unannounced \in Nat /\ ResAvail \in Nat /\ docsofbatch \in Int /\ batchEnd \in Nat
    BY <2>3
  <2> QED
    BY <1>4, <2>1, <2>2, <2>4, <2>5, <2>6 DEF ThreadShape
<1>6. \A i \in 1..Spots : empty_spot[i] = i
  BY DEF Init
<1>7. SpotsApart /\ SpotsSomewhere /\ BuffersFilled
  <2>1. pc # "push" /\ \A k \in 1..Len(mdq) : FALSE
    BY <1>2 DEF Init
  <2> QED
    BY <1>4, <1>6, <2>1 DEF SpotsApart, SpotsSomewhere, BuffersFilled
<1>8. ResultsBacked
  BY <1>2 DEF Init, ResultsBacked
<1> QED
  BY <1>3, <1>5, <1>7, <1>8 DEF AInv

(* StartQuery and EndQuery up to the wait for batchEnd.                    *)
LEMMA CallQueryA ==
    ASSUME AInv, NEW q \in Queries, StartQuery(q) \/ EndQuery(q)
    PROVE  AInv'
<1> USE DEF AInv, StartQuery, EndQuery, MayChangeQueries, clientVars, queryVars, bufferVars,
            batchVars, threadVars, resultVars, history
<1>1. ClientShape'
  BY DEF ClientShape
<1>2. ThreadShape'
  BY DEF ThreadShape
<1>3. Buffers'
  BY BuffersStay DEF Buffers
<1>4. ResultsBacked'
  BY DEF ResultsBacked
<1> QED
  BY <1>1, <1>2, <1>3, <1>4 DEF Buffers

(* They pass batchEnd and change the queries.                              *)
LEMMA ChangeQueriesA ==
    ASSUME AInv, AwaitBatchEnd \/ ChangeQueries
    PROVE  AInv'
<1> USE DEF AInv, AwaitBatchEnd, ChangeQueries, clientVars, queryVars, bufferVars,
            batchVars, threadVars, resultVars, history
<1>1. ClientShape'
  BY DEF ClientShape
<1>2. ThreadShape'
  BY DEF ThreadShape
<1>3. Buffers'
  BY BuffersStay DEF Buffers
<1>4. ResultsBacked'
  BY DEF ResultsBacked
<1> QED
  BY <1>1, <1>2, <1>3, <1>4 DEF Buffers

(* The call of MatchDocument.                                              *)
LEMMA MatchA ==
    ASSUME AInv, Match
    PROVE  AInv'
<1> USE DEF AInv, Match, clientVars, queryVars, bufferVars,
            batchVars, threadVars, resultVars, history
<1>1. /\ asked' \in Seq(SUBSET Queries) /\ Len(asked) \in Nat
      /\ Len(asked') = Len(asked) + 1
  <2>1. active \in SUBSET Queries /\ asked \in Seq(SUBSET Queries)
    BY DEF ClientShape
  <2> QED
    BY <2>1, AppendTo
<1>2. ClientShape'
  <2>1. Len(asked') > 0 /\ Len(asked') <= MaxDocs
    BY <1>1, SizeAssumption
  <2>2. our_id' \in Nat /\ match' \in BOOLEAN /\ pc' = "spot"
    BY DEF ClientShape
  <2> QED
    BY <1>1, <2>1, <2>2 DEF ClientShape
<1>3. ThreadShape'
  BY DEF ThreadShape
<1>4. Buffers'
  BY BuffersStay DEF Buffers
<1>5. ResultsBacked'
  BY DEF ResultsBacked
<1> QED
  BY <1>2, <1>3, <1>4, <1>5 DEF Buffers

(* MatchDocument takes the buffer at the head of the queue.                *)
LEMMA TakeSpotA ==
    ASSUME AInv, TakeSpot
    PROVE  AInv'
<1> USE DEF AInv, TakeSpot, clientVars, queryVars, batchVars, threadVars, history
<1>1. /\ arg' = empty_spot[1] /\ arg' \in 1..Spots
      /\ empty_spot' \in Seq(1..Spots)
      /\ Len(empty_spot) \in Nat /\ Len(empty_spot) >= 1 /\ Len(empty_spot') = Len(empty_spot) - 1
      /\ \A i \in 1..(Len(empty_spot) - 1) :
            i + 1 \in 1..Len(empty_spot) /\ empty_spot'[i] = empty_spot[i + 1]
  BY TailOf DEF ThreadShape
<1>2. ClientShape'
  BY <1>1 DEF ClientShape
<1>3. ThreadShape'
  BY <1>1 DEF ThreadShape
<1>4. SpotsApart'
  BY <1>1 DEF SpotsApart, Holds
<1>5. SpotsSomewhere'
  <2> SUFFICES ASSUME NEW s \in 1..Spots
               PROVE  \/ \E i \in 1..Len(empty_spot') : empty_spot'[i] = s
                      \/ arg' = s
                      \/ \E k \in 1..Len(mdq) : Holds(k) /\ mdq[k].spot = s
    BY DEF SpotsSomewhere, Holds
  <2>1. CASE \E i \in 1..Len(empty_spot) : empty_spot[i] = s
    <3>1. PICK i \in 1..Len(empty_spot) : empty_spot[i] = s
      BY <2>1
    <3>2. CASE i = 1
      BY <1>1, <3>1, <3>2
    <3>3. CASE i # 1
      <4>1. i - 1 \in 1..Len(empty_spot') /\ (i - 1) + 1 = i
        BY <1>1, <3>3
      <4> QED
        BY <1>1, <3>1, <4>1
    <3> QED
      BY <3>2, <3>3
  <2>2. CASE \E k \in 1..Len(mdq) : Holds(k) /\ mdq[k].spot = s
    BY <2>2
  <2> QED
    BY <2>1, <2>2 DEF SpotsSomewhere
<1>6. BuffersFilled'
  BY DEF BuffersFilled, Holds
<1>7. ResultsBacked'
  BY DEF ResultsBacked
<1> QED
  BY <1>2, <1>3, <1>4, <1>5, <1>6, <1>7

(* MatchDocument fills its buffer and hands it to a JobDedup.              *)
LEMMA PushDocumentA ==
    ASSUME AInv, PushDocument
    PROVE  AInv'
<1> USE DEF AInv, PushDocument, clientVars, queryVars, resultVars, history
<1> DEFINE job == [kind |-> "JobDedup", dn |-> our_id, doc |-> Len(asked), spot |-> arg]
           m   == Len(mdq) + 1
<1>1. Len(asked) \in Docs /\ Len(asked) \in Nat /\ Len(asked) \in 0..MaxDocs
  BY SizeAssumption DEF ClientShape, Docs
<1>2. job \in Dedups \union Runs
  BY <1>1 DEF ClientShape, Dedups
<1>3. /\ mdq' \in Seq(Dedups \union Runs) /\ Len(mdq) \in Nat /\ Len(mdq') = m
      /\ \A i \in 1..Len(mdq) : mdq'[i] = mdq[i]
      /\ mdq'[m] = job
      /\ \A i \in 1..m : i \in 1..Len(mdq) \/ i = m
      /\ mdq' # <<>>
  <2>1. mdq' = Append(mdq, job) /\ mdq \in Seq(Dedups \union Runs)
    BY DEF ThreadShape
  <2> HIDE DEF job, PushDocument
  <2>2. /\ Append(mdq, job) \in Seq(Dedups \union Runs) /\ Append(mdq, job) # <<>>
        /\ Len(mdq) \in Nat /\ Len(Append(mdq, job)) = m
        /\ \A i \in 1..Len(mdq) : Append(mdq, job)[i] = mdq[i]
        /\ Append(mdq, job)[m] = job
        /\ \A i \in 1..m : i \in 1..Len(mdq) \/ i = m
    BY <1>2, <2>1, AppendTo
  <2> QED
    BY <2>1, <2>2
<1>4. job.kind = "JobDedup" /\ job.spot = arg /\ job.doc = Len(asked)
  OBVIOUS
<1>5. m \in 1..Len(mdq') /\ \A i \in 1..Len(mdq) : i # m
  BY <1>3
<1>6. buff' = [buff EXCEPT ![arg] = Len(asked)]
  OBVIOUS
<1> HIDE DEF job, m
<1>7. ClientShape'
  <2>1. docids' \in Stores
    BY <1>1, PushBackProperties DEF ClientShape
  <2>2. pc' = "ready" /\ our_id' \in Nat /\ gnflag' = TRUE
    BY DEF ClientShape
  <2> QED
    BY <2>1, <2>2 DEF ClientShape
<1>8. ThreadShape'
  <2>1. mdq # <<>> => mdq'[1] = mdq[1]
    BY <1>3, TailOf DEF ThreadShape
  <2> QED
    BY <1>1, <1>3, <1>6, <2>1 DEF ThreadShape, ClientShape
<1>9. SpotsApart'
  BY <1>3, <1>4 DEF SpotsApart, Holds
<1>10. SpotsSomewhere'
  BY <1>3, <1>4, <1>5 DEF SpotsSomewhere, Holds
<1>11. BuffersFilled'
  <2>1. arg \in 1..Spots /\ buff \in [1..Spots -> 0..MaxDocs]
    BY DEF ClientShape, ThreadShape
  <2> QED
    BY <1>3, <1>4, <1>6, <2>1 DEF BuffersFilled, Holds, SpotsApart, ThreadShape, Dedups, Runs
<1>12. ResultsBacked'
  BY DEF ResultsBacked
<1> QED
  BY <1>7, <1>8, <1>9, <1>10, <1>11, <1>12

(* The call of GetNextAvailRes, which may schedule a JobRun.               *)
LEMMA GetNextAvailResA ==
    ASSUME AInv, GetNextAvailRes
    PROVE  AInv'
<1> USE DEF AInv, GetNextAvailRes, clientVars, queryVars, bufferVars, batchVars, resultVars, history
<1>1. CASE ~gnflag
  <2>1. ClientShape' /\ ResultsBacked'
    BY <1>1 DEF ClientShape, ResultsBacked
  <2>2. ThreadShape'
    BY <1>1 DEF ThreadShape
  <2>3. Buffers'
    BY <1>1, BuffersStay DEF Buffers
  <2> QED
    BY <2>1, <2>2, <2>3 DEF Buffers
<1>2. CASE gnflag
  <2> DEFINE job == [kind |-> "JobRun"]
  <2>1. job \in Dedups \union Runs /\ job.kind # "JobDedup"
    BY DEF Runs
  <2> HIDE DEF job
  <2>2. /\ mdq' \in Seq(Dedups \union Runs) /\ Len(mdq) \in Nat /\ Len(mdq') = Len(mdq) + 1
        /\ \A i \in 1..Len(mdq) : mdq'[i] = mdq[i]
        /\ mdq'[Len(mdq) + 1] = job
        /\ \A i \in 1..(Len(mdq) + 1) : i \in 1..Len(mdq) \/ i = Len(mdq) + 1
        /\ mdq' # <<>>
    <3>1. mdq' = Append(mdq, job)
      BY <1>2 DEF job
    <3> QED
      BY <2>1, <3>1, AppendTo DEF ThreadShape
  <2>3. ClientShape' /\ ResultsBacked'
    BY <1>2 DEF ClientShape, ResultsBacked
  <2>4. ThreadShape'
    <3>1. mdq # <<>> => mdq'[1] = mdq[1]
      BY <2>2, TailOf DEF ThreadShape
    <3> QED
      BY <2>2, <3>1 DEF ThreadShape
  <2>5. \A i \in 1..Len(mdq') : Holds(i)' => i \in 1..Len(mdq) /\ Holds(i) /\ mdq'[i] = mdq[i]
    BY <2>1, <2>2 DEF Holds
  <2>6. \A i \in 1..Len(mdq) : i \in 1..Len(mdq') /\ mdq'[i] = mdq[i] /\ (Holds(i) => Holds(i)')
    BY <2>2 DEF Holds
  <2>7. SpotsApart' /\ BuffersFilled'
    BY <2>5 DEF SpotsApart, BuffersFilled
  <2>8. SpotsSomewhere'
    BY <2>6 DEF SpotsSomewhere
  <2> QED
    BY <2>3, <2>4, <2>7, <2>8
<1> QED
  BY <1>1, <1>2 DEF ClientShape

(* GetNextAvailRes waits and takes a result.                               *)
LEMMA AwaitResultA ==
    ASSUME AInv, AwaitResult
    PROVE  AInv'
<1> USE DEF AInv, AwaitResult, clientVars, queryVars, bufferVars, batchVars, threadVars, history
<1>1. ClientShape' /\ ResultsBacked'
  BY DEF ClientShape, ThreadShape, ResultsBacked
<1>2. ThreadShape'
  BY DEF ThreadShape
<1>3. Buffers'
  BY BuffersStay DEF Buffers
<1> QED
  BY <1>1, <1>2, <1>3 DEF Buffers

(* The first result leaves docs, which is not empty.                       *)
LEMMA TakeResultA ==
    ASSUME AInv, TakeResult
    PROVE  AInv'
<1> USE DEF AInv
<1>1. /\ pc = "take" /\ pc' = "return"
      /\ docsofbatch' = docsofbatch - 1 /\ docsofbatch' \in Int
      /\ docs # <<>> /\ result' = Head(docs) /\ docs' = Tail(docs)
      /\ UNCHANGED <<arg, draining, match, gnflag, our_id, queryVars, bufferVars, threadVars,
                     unannounced, ResAvail, history>>
  <2>1. pc = "take" /\ docs # <<>>
    BY DEF TakeResult, ResultsBacked, ThreadShape
  <2> QED
    BY <2>1 DEF TakeResult, ThreadShape
<1>2. /\ docids' \in Stores /\ globaldocs' \in Stores
      /\ words' \in [Docs -> SUBSET Docs] /\ batchEnd' \in Nat
  BY ClearProperties DEF TakeResult, batchVars, ClientShape, ThreadShape
<1>3. /\ result' \in Results /\ docs' \in Seq(Results) /\ Len(docs') = Len(docs) - 1
      /\ Len(docs) \in Nat
  BY <1>1, TailOf DEF ThreadShape
<1>4. ClientShape'
  BY <1>1, <1>2, <1>3 DEF ClientShape, queryVars, history
<1>5. ThreadShape'
  BY <1>1, <1>2, <1>3 DEF ThreadShape, bufferVars, threadVars
<1>6. Buffers'
  BY <1>1, BuffersStay DEF Buffers, bufferVars, threadVars
<1>7. ResultsBacked'
  BY <1>1, <1>3 DEF ResultsBacked, ThreadShape
<1> QED
  BY <1>4, <1>5, <1>6, <1>7 DEF Buffers

(* GetNextAvailRes looks up the client's id and returns.                   *)
LEMMA ReturnResultA ==
    ASSUME AInv, ReturnResult
    PROVE  AInv'
<1> USE DEF AInv, ReturnResult, clientVars, queryVars, bufferVars, batchVars, threadVars,
            resultVars
<1> DEFINE r == [doc     |-> IF result.did \in DOMAIN docids.at THEN docids.at[result.did] ELSE 0,
                 words   |-> result.words, queries |-> result.queries]
           Returned == [doc : Nat, words : SUBSET Docs, queries : SUBSET Queries]
<1>1. r \in Returned
  BY DEF ClientShape, Results, Stores
<1>2. returned \in Seq(Returned) /\ returned' = Append(returned, r)
  BY DEF ClientShape
<1>3. returned' \in Seq(Returned)
  <2> HIDE DEF r, Returned
  <2> QED
    BY <1>1, <1>2, AppendTo
<1>4. NoResult \in Results
  BY DEF NoResult, Results
<1>5. ClientShape'
  BY <1>3, <1>4 DEF ClientShape
<1>6. ThreadShape'
  BY DEF ThreadShape
<1>7. Buffers'
  BY BuffersStay DEF Buffers
<1>8. ResultsBacked'
  BY DEF ResultsBacked
<1> QED
  BY <1>5, <1>6, <1>7, <1>8 DEF Buffers

(* A JobDedup reads its buffer.                                            *)
LEMMA ReadDocumentA ==
    ASSUME AInv, ReadDocument
    PROVE  AInv'
<1> USE DEF AInv, ReadDocument, NextIs, clientVars, queryVars, bufferVars, resultVars, history
<1> DEFINE did == Head(mdq).dn + 1
<1>1. mdq # <<>> /\ Head(mdq) = mdq[1] /\ mdq[1].kind = "JobDedup" /\ mdq[1] \in Dedups \union Runs
      /\ 1 \in 1..Len(mdq)
  BY TailOf DEF ThreadShape
<1>2. mdq[1] \in Dedups
  BY <1>1 DEF Runs
<1>3. did \in Nat
  BY <1>1, <1>2 DEF Dedups
<1>4. buff[Head(mdq).spot] \in Docs
  BY <1>1, <1>2 DEF BuffersFilled, Holds, Dedups
<1> DEFINE doc == buff[Head(mdq).spot]
<1>5. words' = [words EXCEPT ![did] = words[did] \union {doc}]
      /\ globaldocs' = PushBack(globaldocs, did)
  OBVIOUS
<1> HIDE DEF did
<1>6. words' \in [Docs -> SUBSET Docs]
  <2> HIDE DEF doc, ReadDocument
  <2>1. doc \in Docs /\ words \in [Docs -> SUBSET Docs]
    BY <1>4 DEF ThreadShape, doc
  <2>2. CASE did \in Docs
    BY <1>5, <2>1, <2>2
  <2>3. CASE did \notin Docs
    BY <1>5, <2>1, <2>3
  <2> QED
    BY <2>2, <2>3
<1>7. globaldocs' \in Stores
  BY <1>3, <1>5, PushBackProperties DEF ThreadShape
<1>8. ClientShape' /\ ResultsBacked'
  BY DEF ClientShape, ResultsBacked
<1>9. ThreadShape'
  BY <1>1, <1>6, <1>7 DEF ThreadShape
<1>10. SpotsApart' /\ SpotsSomewhere' /\ BuffersFilled'
  BY DEF SpotsApart, SpotsSomewhere, BuffersFilled, Holds
<1> QED
  BY <1>8, <1>9, <1>10

(* ... and gives it back.                                                  *)
LEMMA ReleaseSpotA ==
    ASSUME AInv, ReleaseSpot
    PROVE  AInv'
<1> USE DEF AInv, ReleaseSpot, clientVars, queryVars, batchVars, resultVars, history
<1> DEFINE s0 == mdq[1].spot
           n  == Len(empty_spot) + 1
<1>1. /\ mdq # <<>> /\ Head(mdq) = mdq[1] /\ mdq[1].kind = "JobDedup"
      /\ mdq[1] \in Dedups \union Runs
      /\ Len(mdq) \in Nat /\ Len(mdq) >= 1
      /\ mdq' \in Seq(Dedups \union Runs) /\ Len(mdq') = Len(mdq) - 1
      /\ \A i \in 1..(Len(mdq) - 1) : i + 1 \in 1..Len(mdq) /\ mdq'[i] = mdq[i + 1]
  BY TailOf DEF ThreadShape
<1>2. s0 \in 1..Spots /\ Holds(1) /\ 1 \in 1..Len(mdq)
  BY <1>1 DEF Runs, Dedups, Holds
<1>3. /\ empty_spot' = Append(empty_spot, s0) /\ empty_spot' \in Seq(1..Spots)
      /\ Len(empty_spot) \in Nat /\ Len(empty_spot') = n
      /\ \A i \in 1..Len(empty_spot) : empty_spot'[i] = empty_spot[i]
      /\ empty_spot'[n] = s0
      /\ \A i \in 1..n : i \in 1..Len(empty_spot) \/ i = n
  BY <1>1, <1>2, AppendTo DEF ThreadShape
<1>4. \A i \in 1..Len(mdq') : i + 1 \in 1..Len(mdq) /\ i + 1 # 1 /\ mdq'[i] = mdq[i + 1]
                              /\ (Holds(i)' <=> Holds(i + 1))
  BY <1>1 DEF Holds
<1>5. \A i \in 1..Len(mdq) : i = 1 \/ (i - 1 \in 1..Len(mdq') /\ mdq'[i - 1] = mdq[i])
  <2> SUFFICES ASSUME NEW i \in 1..Len(mdq), i # 1
               PROVE  i - 1 \in 1..Len(mdq') /\ mdq'[i - 1] = mdq[i]
    OBVIOUS
  <2>1. i - 1 \in 1..Len(mdq') /\ (i - 1) + 1 = i
    BY <1>1
  <2> QED
    BY <1>1, <2>1
<1>6. n \in 1..Len(empty_spot') /\ \A i \in 1..Len(empty_spot) : i \in 1..Len(empty_spot')
  BY <1>3
<1> HIDE DEF s0, n
<1>7. ClientShape' /\ ResultsBacked'
  BY DEF ClientShape, ResultsBacked
<1>8. ThreadShape'
  BY <1>1, <1>3 DEF ThreadShape
<1>9. SpotsApart'
  <2>1. \A i \in 1..Len(mdq') : Holds(i)' => mdq'[i].spot # s0
    BY <1>2, <1>4 DEF SpotsApart, s0
  <2>2. \A i \in 1..Len(empty_spot) : empty_spot[i] # s0
    BY <1>2 DEF SpotsApart, s0
  <2>3. \A i, k \in 1..Len(empty_spot') : empty_spot'[i] = empty_spot'[k] => i = k
    BY <1>3, <2>2 DEF SpotsApart
  <2>4. \A i, k \in 1..Len(mdq') : Holds(i)' /\ Holds(k)' /\ mdq'[i].spot = mdq'[k].spot => i = k
    BY <1>4 DEF SpotsApart
  <2>5. \A i \in 1..Len(empty_spot'), k \in 1..Len(mdq') : Holds(k)' => empty_spot'[i] # mdq'[k].spot
    BY <1>3, <1>4, <2>1 DEF SpotsApart
  <2>6. pc = "push" => /\ \A i \in 1..Len(empty_spot') : empty_spot'[i] # arg
                       /\ \A k \in 1..Len(mdq') : Holds(k)' => mdq'[k].spot # arg
    BY <1>2, <1>3, <1>4 DEF SpotsApart, s0
  <2> QED
    BY <2>3, <2>4, <2>5, <2>6 DEF SpotsApart
<1>10. SpotsSomewhere'
  <2> SUFFICES ASSUME NEW s \in 1..Spots
               PROVE  \/ \E i \in 1..Len(empty_spot') : empty_spot'[i] = s
                      \/ pc = "push" /\ arg = s
                      \/ \E k \in 1..Len(mdq') : Holds(k)' /\ mdq'[k].spot = s
    BY DEF SpotsSomewhere
  <2>1. CASE \E i \in 1..Len(empty_spot) : empty_spot[i] = s
    BY <1>3, <1>6, <2>1
  <2>2. CASE \E k \in 1..Len(mdq) : Holds(k) /\ mdq[k].spot = s
    <3>1. PICK k \in 1..Len(mdq) : Holds(k) /\ mdq[k].spot = s
      BY <2>2
    <3>2. CASE k = 1
      BY <1>3, <1>6, <3>1, <3>2 DEF s0
    <3>3. CASE k # 1
      BY <1>5, <3>1, <3>3 DEF Holds
    <3> QED
      BY <3>2, <3>3
  <2> QED
    BY <2>1, <2>2 DEF SpotsSomewhere
<1>11. BuffersFilled'
  BY <1>4 DEF BuffersFilled
<1> QED
  BY <1>7, <1>8, <1>9, <1>10, <1>11

(* The JobRun at the head of the queue holds no buffer.                    *)
LEMMA RunBatchA ==
    ASSUME AInv, RunBatch
    PROVE  AInv'
<1> USE DEF AInv, RunBatch, NextIs, clientVars, queryVars, bufferVars, batchVars, resultVars, history
<1>1. /\ mdq # <<>> /\ mdq[1].kind = "JobRun"
      /\ Len(mdq) \in Nat /\ Len(mdq) >= 1
      /\ mdq' \in Seq(Dedups \union Runs) /\ Len(mdq') = Len(mdq) - 1
      /\ \A i \in 1..(Len(mdq) - 1) : i + 1 \in 1..Len(mdq) /\ mdq'[i] = mdq[i + 1]
  BY TailOf DEF ThreadShape
<1>2. \A i \in 1..Len(mdq') : i + 1 \in 1..Len(mdq) /\ mdq'[i] = mdq[i + 1]
                              /\ (Holds(i)' <=> Holds(i + 1))
  BY <1>1 DEF Holds
<1>3. \A i \in 1..Len(mdq) :
          Holds(i) => i - 1 \in 1..Len(mdq') /\ mdq'[i - 1] = mdq[i] /\ Holds(i - 1)'
  <2> SUFFICES ASSUME NEW i \in 1..Len(mdq), Holds(i)
               PROVE  i - 1 \in 1..Len(mdq') /\ mdq'[i - 1] = mdq[i]
    BY DEF Holds
  <2>1. i # 1
    BY <1>1 DEF Holds
  <2>2. i - 1 \in 1..Len(mdq') /\ (i - 1) + 1 = i
    BY <1>1, <2>1
  <2> QED
    BY <1>1, <2>2
<1>4. tasks' \in Seq(Nat)
  <2>1. globaldocs.len \in Nat
    BY DEF ThreadShape, Stores
  <2>2. [i \in 1..globaldocs.len |-> i] \in Seq(Nat)
    BY <2>1
  <2> QED
    BY <2>2, ConcatProperties DEF ThreadShape
<1>5. ClientShape' /\ ResultsBacked'
  BY DEF ClientShape, ResultsBacked
<1>6. ThreadShape'
  BY <1>1, <1>4 DEF ThreadShape
<1>7. SpotsApart' /\ BuffersFilled'
  BY <1>2 DEF SpotsApart, BuffersFilled
<1>8. SpotsSomewhere'
  <2> SUFFICES ASSUME NEW s \in 1..Spots
               PROVE  \/ \E i \in 1..Len(empty_spot) : empty_spot[i] = s
                      \/ pc = "push" /\ arg = s
                      \/ \E k \in 1..Len(mdq') : Holds(k)' /\ mdq'[k].spot = s
    BY DEF SpotsSomewhere
  <2>1. ASSUME NEW k \in 1..Len(mdq), Holds(k), mdq[k].spot = s
        PROVE  \E l \in 1..Len(mdq') : Holds(l)' /\ mdq'[l].spot = s
    BY <1>3, <2>1
  <2> QED
    BY <2>1 DEF SpotsSomewhere
<1> QED
  BY <1>5, <1>6, <1>7, <1>8

(* A result is pushed before it is announced.                              *)
LEMMA WorkersA ==
    ASSUME AInv, Workers
    PROVE  AInv'
<1> USE DEF AInv, clientVars, queryVars, bufferVars, batchVars, threadVars, history
<1>1. CASE Announce
  <2> USE <1>1 DEF Announce
  <2>1. ClientShape'
    BY DEF ClientShape
  <2>2. ThreadShape'
    BY DEF ThreadShape
  <2>4. ResultsBacked'
    BY DEF ThreadShape, ResultsBacked
  <2>3. SpotsApart' /\ SpotsSomewhere' /\ BuffersFilled'
    BY DEF SpotsApart, SpotsSomewhere, BuffersFilled, Holds
  <2> QED
    BY <2>1, <2>2, <2>3, <2>4
<1>2. ASSUME NEW k \in DOMAIN tasks, PushResult(k) PROVE AInv'
  <2> USE <1>2 DEF PushResult
  <2> DEFINE did == IF tasks[k] \in DOMAIN globaldocs.at THEN globaldocs.at[tasks[k]] ELSE 0
             r   == [did |-> did, words |-> IF did \in Docs THEN words[did] ELSE {},
                     queries |-> active]
  <2>1. did \in Nat
    <3>1. globaldocs.at \in Seq(Nat)
      BY DEF ThreadShape, Stores
    <3>2. \A n \in DOMAIN globaldocs.at : globaldocs.at[n] \in Nat
      BY <3>1, ElementOfSeq, LenProperties
    <3> QED
      BY <3>2
  <2>2. r \in Results
    <3> HIDE DEF did
    <3> QED
      BY <2>1 DEF ThreadShape, ClientShape, Results
  <2>3. docs' = Append(docs, r)
    OBVIOUS
  <2> HIDE DEF r, did
  <2>4. docs' \in Seq(Results) /\ Len(docs) \in Nat /\ Len(docs') = Len(docs) + 1
    BY <2>2, <2>3, AppendTo DEF ThreadShape
  <2>5. tasks' \in Seq(Nat)
    BY RemoveAtProperties DEF ThreadShape
  <2>6. ClientShape'
    BY DEF ClientShape
  <2>7. ThreadShape' /\ ResultsBacked'
    BY <2>4, <2>5 DEF ThreadShape, ResultsBacked
  <2>8. SpotsApart' /\ SpotsSomewhere' /\ BuffersFilled'
    BY DEF SpotsApart, SpotsSomewhere, BuffersFilled, Holds
  <2> QED
    BY <2>6, <2>7, <2>8
<1> QED
  BY <1>1, <1>2 DEF Workers

(* DestroyIndex, and a step of nothing.                                    *)
LEMMA QuietA ==
    ASSUME AInv, DestroyIndex \/ Destroyed \/ UNCHANGED vars
    PROVE  AInv'
<1> USE DEF AInv, DestroyIndex, Destroyed, vars, clientVars, queryVars, bufferVars, batchVars,
            threadVars, resultVars, history
<1>1. ClientShape'
  BY DEF ClientShape
<1>2. ThreadShape'
  BY DEF ThreadShape
<1>3. SpotsApart' /\ SpotsSomewhere' /\ BuffersFilled'
  BY DEF SpotsApart, SpotsSomewhere, BuffersFilled, Holds
<1>4. ResultsBacked'
  BY DEF ResultsBacked
<1> QED
  BY <1>1, <1>2, <1>3, <1>4

(* Every step keeps the first invariant.                                   *)
LEMMA NextA == AInv /\ [Next]_vars => AInv'
<1> SUFFICES ASSUME AInv, [Next]_vars PROVE AInv'
  OBVIOUS
<1>1. CASE \E q \in Queries : StartQuery(q) \/ EndQuery(q)
  BY <1>1, CallQueryA
<1>2. CASE Match \/ GetNextAvailRes \/ DestroyIndex
  BY <1>2, MatchA, GetNextAvailResA, QuietA
<1>3. CASE Call
  BY <1>3, ChangeQueriesA, TakeSpotA, PushDocumentA, AwaitResultA, TakeResultA, ReturnResultA,
     QuietA DEF Call
<1>4. CASE MatchThread
  BY <1>4, ReadDocumentA, ReleaseSpotA, RunBatchA DEF MatchThread
<1>5. CASE Workers
  BY <1>5, WorkersA
<1>6. CASE Terminated \/ UNCHANGED vars
  BY <1>6, QuietA DEF Terminated
<1> QED
  BY <1>1, <1>2, <1>3, <1>4, <1>5, <1>6 DEF Next

(* Each buffer has one holder.                                             *)
LEMMA OneHolder == AInv => BuffersKept
<1> SUFFICES ASSUME AInv PROVE BuffersKept
  OBVIOUS
<1>1. DOMAIN mdq = 1..Len(mdq) /\ DOMAIN empty_spot = 1..Len(empty_spot)
  BY DEF AInv, ThreadShape
<1>2. ASSUME NEW s \in 1..Spots PROVE Cardinality(Holders(s)) = 1
  <2>1. \A p : p \in Holders(s) <=>
               \/ \E i \in 1..Len(empty_spot) : empty_spot[i] = s /\ p = <<"free", i>>
               \/ pc = "push" /\ arg = s /\ p = <<"given", 0>>
               \/ \E i \in 1..Len(mdq) : Holds(i) /\ mdq[i].spot = s /\ p = <<"job", i>>
    BY <1>1 DEF Holders, Holds
  <2>2. \E p : p \in Holders(s)
    <3>1. CASE \E i \in 1..Len(empty_spot) : empty_spot[i] = s
      <4>1. PICK i \in 1..Len(empty_spot) : empty_spot[i] = s
        BY <3>1
      <4>2. <<"free", i>> \in Holders(s)
        BY <2>1, <4>1
      <4> QED
        BY <4>2
    <3>2. CASE pc = "push" /\ arg = s
      <4>1. <<"given", 0>> \in Holders(s)
        BY <2>1, <3>2
      <4> QED
        BY <4>1
    <3>3. CASE \E i \in 1..Len(mdq) : Holds(i) /\ mdq[i].spot = s
      <4>1. PICK i \in 1..Len(mdq) : Holds(i) /\ mdq[i].spot = s
        BY <3>3
      <4>2. <<"job", i>> \in Holders(s)
        BY <2>1, <4>1
      <4> QED
        BY <4>2
    <3>4. \/ \E i \in 1..Len(empty_spot) : empty_spot[i] = s
          \/ pc = "push" /\ arg = s
          \/ \E i \in 1..Len(mdq) : Holds(i) /\ mdq[i].spot = s
      BY DEF AInv, SpotsSomewhere
    <3> QED
      BY <3>1, <3>2, <3>3, <3>4
  <2>3. ASSUME NEW p \in Holders(s), NEW q \in Holders(s) PROVE p = q
    BY <2>1 DEF AInv, SpotsApart
  <2>4. PICK p : p \in Holders(s)
    BY <2>2
  <2>5. Holders(s) = {p}
    BY <2>3, <2>4
  <2> QED
    BY <2>5, FS_Singleton
<1>3. \A i \in DOMAIN mdq : mdq[i].kind = "JobDedup" => buff[mdq[i].spot] = mdq[i].doc
  BY <1>1 DEF AInv, BuffersFilled, Holds
<1> QED
  BY <1>2, <1>3 DEF BuffersKept

-------------------------------------------------------------------------------
(* The second invariant, for the client of test.cpp.                        *)

(* A JobDedup at the head is one of the documents that were not read.      *)
LEMMA HeadUnread ==
    ASSUME AInv, ReadingInOrder, mdq # <<>>, mdq[1].kind = "JobDedup"
    PROVE  Unread >= 1
<1> SUFFICES ASSUME ~(Unread >= 1) PROVE FALSE
  OBVIOUS
<1>1. Len(mdq) \in Nat /\ Len(mdq) >= 1
  BY TailOf DEF AInv, ThreadShape
<1>2. draining /\ Len(mdq) = 1
  <2>1. Unread = IF draining THEN Len(mdq) - 1 ELSE Len(mdq) - 0
    BY DEF Unread
  <2>2. CASE draining
    BY <1>1, <2>1, <2>2
  <2>3. CASE ~draining
    <3>1. Unread = Len(mdq)
      BY <1>1, <2>1, <2>3
    <3> QED
      BY <1>1, <3>1
  <2> QED
    BY <2>2, <2>3
<1>3. mdq[1].kind = "JobRun"
  BY <1>1, <1>2 DEF ReadingInOrder
<1> QED
  BY <1>3

(* The numbers that the second invariant relates, and their bounds.        *)
LEMMA BatchFacts ==
    ASSUME AInv, BInv
    PROVE  /\ docids.len \in Nat /\ globaldocs.len \in Nat
           /\ Len(mdq) \in Nat /\ Len(asked) \in Nat /\ Len(returned) \in Nat
           /\ Len(tasks) \in Nat /\ Len(docs) \in Nat
           /\ Pushed \in Nat /\ Base \in Nat /\ Pushed = Base + docids.len
           /\ Pushed <= Len(asked) /\ Len(asked) <= MaxDocs
           /\ Unread \in Nat /\ Unread <= Len(mdq) /\ Unread <= docids.len
           /\ globaldocs.len <= docids.len
           /\ releasing => Unread >= 1
           /\ docsofbatch \in Nat
<1>1. /\ docids.len \in Nat /\ globaldocs.len \in Nat
      /\ Len(mdq) \in Nat /\ Len(asked) \in Nat /\ Len(returned) \in Nat
      /\ Len(tasks) \in Nat /\ Len(docs) \in Nat /\ Len(asked) <= MaxDocs
  BY DEF AInv, ClientShape, ThreadShape, Stores
<1>2. Pushed \in Nat /\ Base \in Nat /\ Pushed = Base + docids.len /\ Pushed <= Len(asked)
  BY <1>1 DEF AInv, BInv, ClientShape, OurIds, Pushed, Base
<1>3. Unread \in Nat /\ Unread <= Len(mdq)
  <2>1. mdq # <<>> => Len(mdq) >= 1
    BY TailOf DEF AInv, ThreadShape
  <2> QED
    BY <1>1, <2>1 DEF Unread
<1>4. releasing => Unread >= 1
  BY HeadUnread DEF AInv, ThreadShape, BInv
<1>5. Unread <= docids.len
  <2>1. CASE Unread = 0
    BY <1>1, <2>1
  <2>2. CASE Unread # 0
    <3>1. 1 \in 1..Unread /\ 1 \in 1..Len(mdq)
      BY <1>1, <1>3, <2>2
    <3>2. Holds(1) /\ mdq[1].dn = docids.len - Unread + 1 - 1
      BY <3>1 DEF BInv, ReadingInOrder
    <3>3. mdq[1] \in Dedups
      BY <3>1, <3>2 DEF AInv, ThreadShape, Runs, Holds
    <3> QED
      BY <1>1, <1>3, <3>2, <3>3 DEF Dedups
  <2> QED
    BY <2>1, <2>2
<1>6. globaldocs.len <= docids.len
  BY <1>1, <1>3, <1>4, <1>5 DEF BInv, ReadingInOrder, AInv, ThreadShape
<1>7. docsofbatch \in Nat
  BY <1>1 DEF BInv, DocsCounted
<1> QED
  BY <1>1, <1>2, <1>3, <1>4, <1>5, <1>6, <1>7

(* Between batches nothing is underway.                                    *)
LEMMA NothingUnderway ==
    ASSUME AInv, BInv, docsofbatch = 0
    PROVE  /\ docids.len = 0 /\ globaldocs.len = 0 /\ Base = Pushed
           /\ mdq = <<>> /\ ~releasing /\ tasks = <<>> /\ docs = <<>>
           /\ unannounced = 0
           /\ pc # "push"
<1>1. docids.len = 0
  BY DEF BInv, DocsCounted
<1>2. globaldocs.len = 0 /\ Unread = 0 /\ ~releasing /\ Base = Pushed
  BY <1>1, BatchFacts
<1>3. mdq = <<>>
  <2>1. mdq # <<>> => Len(mdq) >= 1
    BY TailOf DEF AInv, ThreadShape
  <2> QED
    BY <1>1, <1>2, <2>1, BatchFacts DEF BInv, ReadingInOrder, Unread
<1>4. tasks = <<>> /\ docs = <<>>
  <2>1. CASE Ran
    <3>1. Len(tasks) = 0 /\ Len(docs) = 0
      BY <2>1, BatchFacts DEF BInv, DocsCounted
    <3> QED
      BY <3>1, EmptySeq DEF AInv, ThreadShape
  <2>2. CASE ~Ran
    BY <2>2 DEF BInv, ResultsUnderway
  <2> QED
    BY <2>1, <2>2
<1>5. unannounced = 0
  <2>1. Len(docs) = 0
    BY <1>4
  <2> QED
    BY <2>1 DEF AInv, ResultsBacked, ThreadShape
<1>6. pc # "push"
  BY <1>1 DEF BInv, DocsCounted, CallOrder, Ran
<1> QED
  BY <1>1, <1>2, <1>3, <1>4, <1>5, <1>6

(* At the start no batch is open.                                          *)
LEMMA InitB == Init => BInv
<1> SUFFICES ASSUME Init PROVE BInv
  OBVIOUS
<1>1. /\ pc = "ready" /\ draining = FALSE /\ match = FALSE /\ gnflag = FALSE /\ our_id = 0
      /\ active = {} /\ started = {} /\ docids.len = 0 /\ globaldocs.len = 0
      /\ mdq = <<>> /\ Len(mdq) = 0 /\ releasing = FALSE /\ tasks = <<>> /\ Len(tasks) = 0
      /\ docs = <<>> /\ Len(docs) = 0 /\ docsofbatch = 0
      /\ asked = <<>> /\ Len(asked) = 0 /\ returned = <<>> /\ Len(returned) = 0
      /\ words = [i \in Docs |-> {}]
  BY DEF Init, EmptyStore
<1>2. Pushed = 0 /\ Base = 0 /\ Unread = 0 /\ ~Ran /\ Had = {}
  BY <1>1 DEF Pushed, Base, Unread, Ran, Had
<1>3. CallOrder /\ OurIds /\ DocsCounted
  BY <1>1, <1>2 DEF CallOrder, OurIds, DocsCounted
<1>4. ReadingInOrder
  BY <1>1, <1>2 DEF ReadingInOrder
<1>5. IdsOfTheBatch
  BY <1>1, <1>2 DEF IdsOfTheBatch, Docs
<1>6. ResultsUnderway
  BY <1>1, <1>2 DEF ResultsUnderway
<1>7. ResultsHad
  BY <1>1, <1>2 DEF ResultsHad
<1> QED
  BY <1>3, <1>4, <1>5, <1>6, <1>7 DEF BInv

(* Steps that neither start nor end a call that moves a document.          *)
LEMMA BatchStays ==
    ASSUME BInv, pc \notin {"spot", "push", "return"}, pc' \notin {"spot", "push", "return"},
           UNCHANGED <<draining, our_id, active, asked, returned, docids, globaldocs, words,
                       mdq, releasing, tasks, docs, docsofbatch>>
    PROVE  /\ DocsCounted' /\ ReadingInOrder' /\ IdsOfTheBatch' /\ ResultsUnderway' /\ ResultsHad'
           /\ Pushed' = Pushed
<1>1. Pushed' = Pushed /\ Base' = Base /\ Unread' = Unread /\ (Ran' <=> Ran)
  BY DEF Pushed, Base, Unread, Ran
<1>2. Had' = Had
  BY DEF Had
<1>3. DocsCounted'
  BY <1>1 DEF BInv, DocsCounted
<1>4. ReadingInOrder'
  BY <1>1 DEF BInv, ReadingInOrder, Holds
<1>5. IdsOfTheBatch'
  BY <1>1 DEF BInv, IdsOfTheBatch
<1>6. ResultsUnderway'
  BY <1>1 DEF BInv, ResultsUnderway
<1>7. ResultsHad'
  BY <1>1, <1>2 DEF BInv, ResultsHad
<1> QED
  BY <1>1, <1>3, <1>4, <1>5, <1>6, <1>7

(* StartQuery and EndQuery up to the wait for batchEnd.                    *)
LEMMA CallQueryB ==
    ASSUME AInv, BInv, Freedom = {}, NEW q \in Queries, StartQuery(q) \/ EndQuery(q)
    PROVE  BInv'
<1>1. /\ pc = "ready" /\ pc' \in {"start", "end"} /\ arg' = q /\ Outstanding = 0
      /\ pc' = "start" => q \notin started
      /\ pc' = "end" => q \in active
      /\ UNCHANGED <<result, draining, match, gnflag, our_id, queryVars, bufferVars, batchVars,
                     threadVars, resultVars, history>>
  BY DEF StartQuery, EndQuery, MayChangeQueries
<1> USE DEF queryVars, bufferVars, batchVars, threadVars, resultVars, history
<1>2. docsofbatch = 0
  BY <1>1, BatchFacts DEF BInv, DocsCounted, Outstanding
<1>3. /\ DocsCounted' /\ ReadingInOrder' /\ IdsOfTheBatch' /\ ResultsUnderway' /\ ResultsHad'
      /\ Pushed' = Pushed
  BY <1>1, BatchStays
<1>4. CallOrder' /\ OurIds'
  BY <1>1, <1>2, <1>3 DEF BInv, CallOrder, OurIds
<1> QED
  BY <1>3, <1>4 DEF BInv

(* The wait for batchEnd.                                                  *)
LEMMA AwaitBatchEndB ==
    ASSUME AInv, BInv, AwaitBatchEnd
    PROVE  BInv'
<1> USE DEF AwaitBatchEnd, queryVars, bufferVars, batchVars, threadVars, history
<1>1. docsofbatch = 0
  BY DEF BInv, CallOrder
<1>2. /\ DocsCounted' /\ ReadingInOrder' /\ IdsOfTheBatch' /\ ResultsUnderway' /\ ResultsHad'
      /\ Pushed' = Pushed
  BY BatchStays
<1>3. CallOrder' /\ OurIds'
  BY <1>1, <1>2 DEF BInv, CallOrder, OurIds
<1> QED
  BY <1>2, <1>3 DEF BInv

(* The queries change between batches.                                     *)
LEMMA ChangeQueriesB ==
    ASSUME AInv, BInv, ChangeQueries
    PROVE  BInv'
<1>1. /\ pc \in {"start", "end"} /\ pc' = "ready" /\ draining' = FALSE /\ match
      /\ active' = (IF pc = "start" THEN active \union {arg} ELSE active \ {arg})
      /\ started' = (IF pc = "start" THEN started \union {arg} ELSE started)
      /\ UNCHANGED <<result, match, gnflag, our_id, docids, globaldocs, words, mdq, releasing, tasks,
                     docs, docsofbatch, asked, returned>>
  BY DEF ChangeQueries, bufferVars, batchVars, threadVars, resultVars, history
<1>2. docsofbatch = 0
  BY <1>1 DEF BInv, CallOrder
<1>3. /\ docids.len = 0 /\ globaldocs.len = 0 /\ Base = Pushed
      /\ mdq = <<>> /\ ~releasing /\ tasks = <<>> /\ docs = <<>>
  BY <1>2, NothingUnderway
<1>4. /\ Pushed' = Pushed /\ Base' = Base /\ Unread' = 0 /\ Unread = 0 /\ ~Ran' /\ Had' = Had
      /\ Len(tasks) = 0 /\ Len(docs) = 0 /\ Len(mdq) = 0
  <2>1. Len(tasks) = 0 /\ Len(docs) = 0 /\ Len(mdq) = 0 /\ mdq' = mdq
    BY <1>1, <1>3
  <2>2. Unread' = 0 /\ Unread = 0
    BY <1>3, <2>1 DEF Unread
  <2>3. Pushed' = Pushed /\ Base' = Base /\ ~Ran'
    BY <1>1 DEF Pushed, Base, Ran
  <2>4. Had' = Had
    BY <1>1 DEF Had
  <2> QED
    BY <2>1, <2>2, <2>3, <2>4
<1>5. CallOrder' /\ OurIds'
  BY <1>1, <1>2, <1>3, <1>4 DEF BInv, CallOrder, OurIds
<1>6. DocsCounted'
  BY <1>1, <1>2, <1>3, <1>4 DEF BInv, DocsCounted
<1>7. ReadingInOrder'
  BY <1>1, <1>3, <1>4 DEF ReadingInOrder
<1>8. IdsOfTheBatch'
  <2>1. Base = Len(asked) /\ Len(asked) \in Nat
    BY <1>1, <1>3, BatchFacts DEF Pushed
  <2>2. (Base + 1)..Len(asked) = {}
    BY <2>1
  <2>3. \A d \in (Base' + 1)..Len(asked') : asked'[d] = active'
    BY <1>1, <1>4, <2>2
  <2> QED
    BY <1>1, <1>3, <1>4, <2>3 DEF BInv, IdsOfTheBatch
<1>9. ResultsUnderway'
  BY <1>1, <1>3, <1>4 DEF ResultsUnderway
<1>10. ResultsHad'
  <2>1. Pushed - 0 = Pushed
    BY BatchFacts
  <2> QED
    BY <1>1, <1>3, <1>4, <2>1 DEF BInv, ResultsHad
<1> QED
  BY <1>5, <1>6, <1>7, <1>8, <1>9, <1>10 DEF BInv

(* MatchDocument of the first document after a query starts a batch.       *)
LEMMA MatchB ==
    ASSUME AInv, BInv, Freedom = {}, Match
    PROVE  BInv'
<1>1. /\ pc = "ready" /\ pc' = "spot" /\ ~draining /\ match' = FALSE
      /\ our_id' = (IF match THEN 0 ELSE our_id)
      /\ asked' = Append(asked, active)
      /\ UNCHANGED <<arg, result, draining, gnflag, active, started, docids, globaldocs, words, mdq,
                     releasing, tasks, docs, docsofbatch, returned>>
  BY DEF Match, queryVars, bufferVars, batchVars, threadVars, resultVars
<1>2. /\ Len(asked) \in Nat /\ Len(asked') = Len(asked) + 1
      /\ \A i \in 1..Len(asked) : asked'[i] = asked[i]
      /\ asked'[Len(asked) + 1] = active
      /\ \A i \in 1..(Len(asked) + 1) : i \in 1..Len(asked) \/ i = Len(asked) + 1
  <2>1. asked \in Seq(SUBSET Queries) /\ active \in SUBSET Queries
    BY DEF AInv, ClientShape
  <2> QED
    BY <1>1, <2>1, AppendTo
<1>3. Pushed' = Len(asked) /\ Pushed = Len(asked)
  BY <1>1, <1>2 DEF Pushed
<1>4. Base' = Base
  BY <1>1, <1>3 DEF Base
<1>5. Unread' = Unread /\ ~Ran /\ ~Ran'
  BY <1>1 DEF Unread, Ran
<1>6. Had' = Had
  BY <1>1 DEF Had
<1>7. OurIds'
  <2>1. match => docids.len = 0
    BY NothingUnderway DEF BInv, CallOrder
  <2>2. our_id' = docids.len
    BY <1>1, <2>1 DEF BInv, OurIds
  <2> QED
    BY <1>1, <1>3, <2>2 DEF BInv, OurIds
<1>8. CallOrder'
  BY <1>1 DEF BInv, CallOrder
<1>9. DocsCounted'
  BY <1>1, <1>2, <1>5, BatchFacts DEF BInv, DocsCounted
<1>10. ReadingInOrder'
  BY <1>1, <1>3, <1>5 DEF BInv, ReadingInOrder, Holds
<1>11. IdsOfTheBatch'
  <2>1. \A d \in (Base + 1)..(Len(asked) + 1) : asked'[d] = active
    <3> SUFFICES ASSUME NEW d \in (Base + 1)..(Len(asked) + 1) PROVE asked'[d] = active
      OBVIOUS
    <3>1. CASE d = Len(asked) + 1
      BY <1>2, <3>1
    <3>2. CASE d # Len(asked) + 1
      <4>1. d \in (Base + 1)..Len(asked) /\ d \in 1..Len(asked)
        BY <1>2, <3>2, BatchFacts
      <4> QED
        BY <1>2, <4>1 DEF BInv, IdsOfTheBatch
    <3> QED
      BY <3>1, <3>2
  <2> QED
    BY <1>1, <1>2, <1>4, <2>1 DEF BInv, IdsOfTheBatch
<1>12. ResultsUnderway'
  BY <1>1, <1>4, <1>5 DEF BInv, ResultsUnderway
<1>13. ResultsHad'
  <2>1. \A i \in 1..Len(returned) : returned[i].doc \in 1..Len(asked)
    <3>1. Had \subseteq 1..(Pushed - docids.len)
      BY <1>5 DEF BInv, ResultsHad
    <3>2. \A i \in 1..Len(returned) : returned[i].doc \in Had
      BY DEF Had
    <3>3. 1..(Pushed - docids.len) \subseteq 1..Len(asked)
      BY <1>3, BatchFacts
    <3> QED
      BY <3>1, <3>2, <3>3
  <2> QED
    BY <1>1, <1>2, <1>3, <1>4, <1>5, <1>6, <2>1 DEF BInv, ResultsHad
<1> QED
  BY <1>7, <1>8, <1>9, <1>10, <1>11, <1>12, <1>13 DEF BInv

(* The document is counted when it gets its buffer.                        *)
LEMMA TakeSpotB ==
    ASSUME AInv, BInv, TakeSpot
    PROVE  BInv'
<1>1. /\ pc = "spot" /\ pc' = "push" /\ docsofbatch' = docsofbatch + 1
      /\ UNCHANGED <<result, draining, match, gnflag, our_id, active, started, docids, globaldocs,
                     words, mdq, releasing, tasks, docs, asked, returned>>
  BY DEF TakeSpot, queryVars, batchVars, threadVars, history
<1>2. ~draining /\ ~match
  BY <1>1 DEF BInv, CallOrder
<1>3. Pushed' = Pushed /\ Base' = Base /\ Unread' = Unread /\ (Ran' <=> Ran)
  BY <1>1 DEF Pushed, Base, Unread, Ran
<1>4. Had' = Had
  BY <1>1 DEF Had
<1>5. CallOrder' /\ OurIds'
  BY <1>1, <1>2, <1>3 DEF BInv, CallOrder, OurIds
<1>6. DocsCounted'
  <2>1. docids.len \in Nat /\ Len(asked) \in Nat /\ Len(returned) \in Nat
    BY BatchFacts
  <2>2. docsofbatch = docids.len /\ Len(asked) - Len(returned) = docsofbatch + 1
        /\ (docsofbatch = 0 => docids.len = 0)
    BY <1>1, <1>2, <2>1 DEF BInv, DocsCounted, Ran
  <2> QED
    BY <1>1, <1>2, <2>1, <2>2 DEF DocsCounted, Ran
<1>7. ReadingInOrder'
  BY <1>1, <1>3 DEF BInv, ReadingInOrder, Holds
<1>8. IdsOfTheBatch'
  BY <1>1, <1>3 DEF BInv, IdsOfTheBatch
<1>10. ResultsUnderway'
  BY <1>1, <1>3 DEF BInv, ResultsUnderway
<1>9. ResultsHad'
  BY <1>1, <1>3, <1>4 DEF BInv, ResultsHad
<1> QED
  BY <1>5, <1>6, <1>7, <1>8, <1>9, <1>10 DEF BInv

(* The document joins the batch under the next of our ids.                 *)
LEMMA PushDocumentB ==
    ASSUME AInv, BInv, PushDocument
    PROVE  BInv'
<1> DEFINE job == [kind |-> "JobDedup", dn |-> our_id, doc |-> Len(asked), spot |-> arg]
           n   == docids.len
           m   == Len(mdq) + 1
<1>1. /\ pc = "push" /\ pc' = "ready" /\ mdq' = Append(mdq, job)
      /\ our_id' = our_id + 1 /\ gnflag' = TRUE
      /\ docids' = PushBack(docids, Len(asked))
      /\ UNCHANGED <<result, draining, match, active, started, globaldocs, words, releasing, tasks,
                     docs, docsofbatch, asked, returned>>
  BY DEF PushDocument, queryVars, resultVars, history
<1>2. ~draining /\ ~match /\ our_id = n /\ ~Ran /\ ~Ran'
  BY <1>1 DEF BInv, CallOrder, OurIds, Ran
<1>3. /\ n \in Nat /\ Len(mdq) \in Nat /\ Len(mdq') = m
      /\ \A i \in 1..Len(mdq) : mdq'[i] = mdq[i]
      /\ mdq'[m] = job
      /\ \A i \in 1..m : i \in 1..Len(mdq) \/ i = m
  <2>1. Len(asked) \in Docs /\ our_id \in Nat /\ arg \in 1..Spots /\ mdq \in Seq(Dedups \union Runs)
    BY <1>1, BatchFacts DEF AInv, ClientShape, ThreadShape, Docs
  <2>2. job \in Dedups \union Runs
    BY <2>1 DEF Dedups
  <2> HIDE DEF job
  <2>3. /\ Len(mdq) \in Nat /\ Len(Append(mdq, job)) = m
        /\ \A i \in 1..Len(mdq) : Append(mdq, job)[i] = mdq[i]
        /\ Append(mdq, job)[m] = job
        /\ \A i \in 1..m : i \in 1..Len(mdq) \/ i = m
    BY <2>1, <2>2, AppendTo
  <2> QED
    BY <1>1, <2>3, BatchFacts
<1>4. job.kind = "JobDedup" /\ job.dn = our_id /\ job.doc = Len(asked)
  OBVIOUS
<1> HIDE DEF job, n, m
<1>5. Pushed = Len(asked) - 1 /\ Pushed' = Len(asked) /\ Pushed' = Pushed + 1
  BY <1>1, BatchFacts DEF Pushed
<1>6. /\ docids'.len = n + 1
      /\ \A i \in 1..n : docids'.at[i] = docids.at[i]
      /\ docids'.at[n + 1] = Len(asked)
  BY <1>1, PushBackProperties, BatchFacts DEF AInv, ClientShape, n
<1>7. Base' = Base
  <2>1. Pushed \in Nat
    BY BatchFacts
  <2>2. Base = Pushed - n /\ Base' = Pushed' - docids'.len
    BY DEF Base, n
  <2> QED
    BY <1>3, <1>5, <1>6, <2>1, <2>2
<1>8. Unread = Len(mdq) /\ Unread' = Unread + 1
  BY <1>1, <1>2, <1>3 DEF Unread, m
<1>9. Had' = Had
  BY <1>1 DEF Had
<1>16. /\ n \in Nat /\ Pushed \in Nat /\ Base \in Nat /\ Pushed = Base + n /\ n <= Pushed
       /\ globaldocs.len \in Nat /\ n = docids.len /\ Len(asked) \in Nat
  BY BatchFacts DEF n
<1>17. CallOrder'
  <2>1. docids'.len > 0
    BY <1>3, <1>6
  <2> QED
    BY <1>1, <1>2, <2>1 DEF BInv, CallOrder
<1>10. CallOrder' /\ OurIds'
  <2>1. our_id' = n + 1 /\ n + 1 <= Pushed'
    BY <1>1, <1>2, <1>3, <1>5, <1>16
  <2> QED
    BY <1>6, <1>17, <2>1 DEF OurIds
<1>11. DocsCounted'
  BY <1>1, <1>2, <1>3, <1>6, BatchFacts DEF BInv, DocsCounted, n
<1>12. ReadingInOrder'
  <2>1. \A i \in 1..Unread' : /\ Holds(i)'
                              /\ mdq'[i].dn = n + 1 - Unread' + i - 1
                              /\ mdq'[i].doc = Pushed' - Unread' + i
    <3> SUFFICES ASSUME NEW i \in 1..m
                 PROVE  /\ Holds(i)'
                        /\ mdq'[i].dn = n - Unread + i - 1
                        /\ mdq'[i].doc = Pushed - Unread + i
      BY <1>3, <1>5, <1>8, BatchFacts DEF m
    <3>1. CASE i \in 1..Len(mdq)
      BY <1>3, <1>8, <3>1 DEF BInv, ReadingInOrder, Holds, n
    <3>2. CASE i = m
      <4>1. mdq'[i].kind = "JobDedup" /\ mdq'[i].dn = n /\ mdq'[i].doc = Pushed + 1
        BY <1>2, <1>3, <1>4, <1>5, <1>16, <3>2, BatchFacts
      <4>2. Unread \in Nat /\ i = Unread + 1
        BY <1>3, <1>8, <3>2 DEF m
      <4>3. \A x \in Int, u \in Nat, j \in Nat :
                j = u + 1 => x - u + j - 1 = x /\ x - u + j = x + 1
        OBVIOUS
      <4>4. n \in Int /\ Pushed \in Int /\ i \in Nat
        BY <1>16, <4>2
      <4>5. n - Unread + i - 1 = n /\ Pushed - Unread + i = Pushed + 1
        BY <4>2, <4>3, <4>4
      <4> QED
        BY <4>1, <4>5 DEF Holds
    <3> QED
      BY <1>3, <3>1, <3>2
  <2>2. globaldocs'.len = n + 1 - Unread' + (IF releasing' THEN 1 ELSE 0)
    <3>1. globaldocs.len = n - Unread + (IF releasing THEN 1 ELSE 0)
      BY DEF BInv, ReadingInOrder, n
    <3>2. n + 1 - Unread' = n - Unread
      BY <1>3, <1>8
    <3> QED
      BY <1>1, <3>1, <3>2
  <2>3. docids'.len = n + 1 /\ n \in Nat /\ Unread' \in Nat /\ Pushed' \in Nat
    BY <1>3, <1>5, <1>6, <1>8, <1>16
  <2>4. globaldocs'.len = docids'.len - Unread' + (IF releasing' THEN 1 ELSE 0)
    BY <2>2, <2>3
  <2>5. ~draining'
    BY <1>1, <1>2
  <2>6. \A i \in 1..Unread' : /\ Holds(i)'
                              /\ mdq'[i].dn = docids'.len - Unread' + i - 1
                              /\ mdq'[i].doc = Pushed' - Unread' + i
    BY <2>1, <2>3
  <2> QED
    BY <2>4, <2>5, <2>6 DEF ReadingInOrder
<1>13. IdsOfTheBatch'
  <2>1. \A i \in 1..(n + 1) : docids'.at[i] = Base + i
    <3> SUFFICES ASSUME NEW i \in 1..(n + 1) PROVE docids'.at[i] = Base + i
      OBVIOUS
    <3>1. CASE i = n + 1
      <4>1. Len(asked) = Base + (n + 1)
        BY <1>5, <1>16
      <4> QED
        BY <1>6, <3>1, <4>1
    <3>2. CASE i # n + 1
      <4>1. i \in 1..n
        BY <1>3, <3>2
      <4> QED
        BY <1>6, <4>1 DEF BInv, IdsOfTheBatch, n
    <3> QED
      BY <3>1, <3>2
  <2> QED
    BY <1>1, <1>6, <1>7, <2>1 DEF BInv, IdsOfTheBatch
<1>14. ResultsUnderway'
  <2>1. tasks = <<>> /\ docs = <<>> /\ Len(tasks) = 0 /\ Len(docs) = 0
    BY <1>2 DEF BInv, ResultsUnderway
  <2> QED
    BY <1>1, <1>2, <2>1 DEF ResultsUnderway
<1>15. ResultsHad'
  <2>1. tasks = <<>> /\ docs = <<>> /\ Len(tasks) = 0 /\ Len(docs) = 0
    BY <1>2 DEF BInv, ResultsUnderway
  <2>2. Pushed' - docids'.len = Pushed - docids.len
    <3>1. \A x, y \in Int : (x + 1) - (y + 1) = x - y
      OBVIOUS
    <3>2. /\ Pushed' = Pushed + 1 /\ docids'.len = docids.len + 1
          /\ Pushed \in Int /\ docids.len \in Int
      BY <1>5, <1>6, <1>16 DEF n
    <3> QED
      BY <3>1, <3>2
  <2>3. Had' \subseteq 1..(Pushed' - (IF Ran' THEN 0 ELSE docids'.len))
    BY <1>2, <1>9, <2>2 DEF BInv, ResultsHad
  <2> QED
    BY <1>1, <2>1, <2>3 DEF BInv, ResultsHad
<1> QED
  BY <1>10, <1>11, <1>12, <1>13, <1>14, <1>15 DEF BInv

(* The first GetNextAvailRes of a batch closes it with its JobRun.         *)
LEMMA GetNextAvailResB ==
    ASSUME AInv, BInv, GetNextAvailRes
    PROVE  BInv'
<1>1. /\ pc = "ready" /\ pc' = "await" /\ draining' = TRUE /\ gnflag' = FALSE
      /\ mdq' = (IF gnflag THEN Append(mdq, [kind |-> "JobRun"]) ELSE mdq)
      /\ UNCHANGED <<result, arg, match, our_id, active, started, docids, globaldocs, words,
                     releasing, tasks, docs, docsofbatch, asked, returned>>
  BY DEF GetNextAvailRes, queryVars, bufferVars, batchVars, resultVars, history
<1>2. docsofbatch # 0
  BY <1>1, BatchFacts DEF GetNextAvailRes, Outstanding, BInv, DocsCounted
<1>3. Pushed' = Pushed /\ Base' = Base /\ Had' = Had
  BY <1>1 DEF Pushed, Base, Had
<1>4. Unread' = Unread /\ (Ran' <=> Ran) /\ ReadingInOrder'
  <2>1. CASE ~gnflag
    <3>1. draining
      <4>1. ~draining => docids.len = 0
        BY <2>1, BatchFacts DEF BInv, CallOrder
      <4> QED
        BY <1>1, <1>2, <4>1 DEF BInv, DocsCounted, Ran
    <3>2. draining' = draining /\ mdq' = mdq
      BY <1>1, <2>1, <3>1 DEF AInv, ClientShape
    <3>3. Unread' = Unread /\ (Ran' <=> Ran)
      BY <3>2 DEF Unread, Ran
    <3> QED
      BY <1>1, <1>3, <3>2, <3>3 DEF BInv, ReadingInOrder, Holds
  <2>2. CASE gnflag
    <3> DEFINE job == [kind |-> "JobRun"]
    <3>1. ~draining /\ docids.len > 0
      BY <2>2 DEF BInv, CallOrder
    <3>2. job \in Dedups \union Runs /\ job.kind = "JobRun"
      BY DEF Runs
    <3>3. mdq' = Append(mdq, job) /\ mdq \in Seq(Dedups \union Runs)
      BY <1>1, <2>2 DEF AInv, ThreadShape
    <3> HIDE DEF job
    <3>4. /\ mdq' # <<>> /\ Len(mdq) \in Nat /\ Len(mdq') = Len(mdq) + 1
          /\ \A i \in 1..Len(mdq) : mdq'[i] = mdq[i]
          /\ mdq'[Len(mdq) + 1] = job
      BY <3>2, <3>3, AppendTo
    <3>5. Unread = Len(mdq) /\ Unread' = Len(mdq)
      BY <1>1, <3>1, <3>4 DEF Unread
    <3>6. ~Ran /\ ~Ran'
      BY <3>1, <3>4 DEF Ran
    <3>7. \A i \in 1..Unread' : /\ Holds(i)'
                                /\ mdq'[i].dn = docids.len - Unread' + i - 1
                                /\ mdq'[i].doc = Pushed' - Unread' + i
      BY <1>3, <3>4, <3>5 DEF BInv, ReadingInOrder, Holds
    <3>8. ReadingInOrder'
      BY <1>1, <3>1, <3>2, <3>4, <3>5, <3>7 DEF BInv, ReadingInOrder
    <3> QED
      BY <3>5, <3>6, <3>8
  <2> QED
    BY <2>1, <2>2
<1>5. CallOrder' /\ OurIds'
  BY <1>1, <1>2, <1>3 DEF BInv, CallOrder, OurIds
<1>6. DocsCounted'
  BY <1>1, <1>4 DEF BInv, DocsCounted
<1>7. IdsOfTheBatch'
  BY <1>1, <1>3 DEF BInv, IdsOfTheBatch
<1>9. ResultsUnderway'
  BY <1>1, <1>3, <1>4 DEF BInv, ResultsUnderway
<1>8. ResultsHad'
  BY <1>1, <1>3, <1>4 DEF BInv, ResultsHad
<1> QED
  BY <1>4, <1>5, <1>6, <1>7, <1>8, <1>9 DEF BInv

(* The client waits, a result is announced, DestroyIndex is called.        *)
LEMMA WaitingB ==
    ASSUME AInv, BInv, AwaitResult \/ Announce \/ DestroyIndex \/ Destroyed \/ UNCHANGED vars
    PROVE  BInv'
<1>1. CASE AwaitResult \/ DestroyIndex \/ Destroyed
  <2>1. /\ pc \in {"await", "ready", "destroy"} /\ pc' \in {"take", "destroy", "gone"}
        /\ pc' = "take" => draining
        /\ UNCHANGED <<arg, result, draining, match, gnflag, our_id, active, started, asked, returned,
                       docids, globaldocs, words, mdq, releasing, tasks, docs, docsofbatch>>
    BY <1>1 DEF AwaitResult, DestroyIndex, Destroyed, queryVars, bufferVars, batchVars, threadVars,
                resultVars, history, BInv, CallOrder
  <2>2. /\ DocsCounted' /\ ReadingInOrder' /\ IdsOfTheBatch' /\ ResultsUnderway' /\ ResultsHad'
        /\ Pushed' = Pushed
    BY <2>1, BatchStays
  <2>3. CallOrder' /\ OurIds'
    BY <2>1, <2>2 DEF BInv, CallOrder, OurIds
  <2> QED
    BY <2>2, <2>3 DEF BInv
<1>2. CASE Announce \/ UNCHANGED vars
  <2>1. UNCHANGED <<pc, arg, result, draining, match, gnflag, our_id, active, started, asked, returned,
                    docids, globaldocs, words, mdq, releasing, tasks, docs, docsofbatch>>
    BY <1>2 DEF Announce, vars, clientVars, queryVars, bufferVars, batchVars, threadVars, resultVars,
                history
  <2>6. Pushed' = Pushed /\ Base' = Base /\ Unread' = Unread /\ (Ran' <=> Ran)
    BY <2>1 DEF Pushed, Base, Unread, Ran
  <2>2. Pushed' = Pushed /\ Base' = Base /\ Unread' = Unread /\ (Ran' <=> Ran) /\ Had' = Had
    BY <2>1, <2>6 DEF Had, InHand
  <2>3. CallOrder' /\ OurIds' /\ DocsCounted'
    BY <2>1, <2>2 DEF BInv, CallOrder, OurIds, DocsCounted
  <2>4. ReadingInOrder'
    BY <2>1, <2>2 DEF BInv, ReadingInOrder, Holds
  <2>7. IdsOfTheBatch'
    BY <2>1, <2>2 DEF BInv, IdsOfTheBatch
  <2>8. ResultsUnderway'
    BY <2>1, <2>2 DEF BInv, ResultsUnderway
  <2>5. ResultsHad'
    BY <2>1, <2>2 DEF BInv, ResultsHad, InHand
  <2> QED
    BY <2>3, <2>4, <2>5, <2>7, <2>8 DEF BInv
<1> QED
  BY <1>1, <1>2

(* The result at the head goes to the client; with the last one RunEnd     *)
(* clears the batch.                                                       *)
LEMMA TakeResultB ==
    ASSUME AInv, BInv, TakeResult
    PROVE  BInv'
<1> DEFINE r == docs[1]
<1>1. /\ docs # <<>> /\ Len(docs) >= 1 /\ r \in Results
      /\ Len(Tail(docs)) = Len(docs) - 1 /\ Head(docs) = r
      /\ \A i \in 1..(Len(docs) - 1) : i + 1 \in 1..Len(docs) /\ Tail(docs)[i] = docs[i + 1]
  <2>1. docs \in Seq(Results) /\ docs # <<>>
    BY DEF AInv, ThreadShape, ResultsBacked, TakeResult
  <2> QED
    BY <2>1, TailOf
<1>2. /\ pc = "take" /\ pc' = "return" /\ docsofbatch' = docsofbatch - 1
      /\ result' = r /\ docs' = Tail(docs)
      /\ UNCHANGED <<arg, draining, match, gnflag, our_id, active, started, mdq, releasing, tasks,
                     asked, returned>>
  BY <1>1 DEF TakeResult, queryVars, threadVars, history
<1>3. draining /\ Ran /\ mdq = <<>> /\ 1 \in 1..Len(docs)
  BY <1>1, <1>2, BatchFacts DEF BInv, CallOrder, ResultsUnderway, Ran
<1> HIDE DEF r
<1>4. /\ r.did \in 1..docids.len /\ r.words = {Base + r.did} /\ r.queries = active
      /\ Base + r.did \notin Had
      /\ \A i \in 1..Len(tasks) : tasks[i] # r.did
      /\ \A i \in 2..Len(docs) : docs[i].did # r.did
  <2>1. \A i \in 2..Len(docs) : i \in 1..Len(docs) /\ i # 1
    OBVIOUS
  <2> QED
    BY <1>3, <2>1 DEF BInv, ResultsUnderway, ResultsHad, r
<1>5. Ran' /\ Pushed' = Pushed /\ Unread = 0 /\ Unread' = 0 /\ ~match /\ Len(mdq) = 0
  <2>1. ~match
    <3>1. docsofbatch # 0
      BY <1>1, <1>3, BatchFacts DEF BInv, DocsCounted
    <3> QED
      BY <3>1 DEF BInv, CallOrder
  <2>2. Len(mdq) = 0
    BY <1>3
  <2> QED
    BY <1>2, <1>3, <2>1, <2>2 DEF Ran, Pushed, Unread
<1>6. /\ docids'.at = docids.at /\ (docsofbatch' # 0 => docids' = docids)
      /\ docsofbatch' = 0 => docids'.len = 0
  <2>1. docids \in Stores
    BY DEF AInv, ClientShape
  <2> QED
    BY <2>1, ClearProperties DEF TakeResult, batchVars
<1>7. /\ docsofbatch' # 0 => globaldocs' = globaldocs /\ words' = words
      /\ docsofbatch' = 0 => globaldocs'.len = 0 /\ words' = [i \in Docs |-> {}]
  <2>1. globaldocs \in Stores
    BY DEF AInv, ThreadShape
  <2> QED
    BY <2>1, ClearProperties DEF TakeResult, batchVars
<1>8. docsofbatch' = Len(tasks') + Len(docs')
  BY <1>1, <1>2, <1>3, BatchFacts DEF BInv, DocsCounted
<1>9. docsofbatch' = 0 => tasks' = <<>> /\ docs' = <<>>
  <2>1. Len(tasks') \in Nat /\ Len(docs') \in Nat
    BY <1>1, <1>2, BatchFacts
  <2>2. docsofbatch' = 0 => Len(tasks') = 0 /\ Len(docs') = 0
    BY <1>8, <2>1
  <2>3. tasks' \in Seq(Nat) /\ docs' \in Seq(Results)
    BY <1>1, <1>2, TailOf DEF AInv, ThreadShape
  <2> QED
    BY <2>2, <2>3, EmptySeq
<1>10. /\ Base \in Nat /\ Base + r.did \in (Base + 1)..Pushed /\ Base + r.did \in 1..Len(asked)
       /\ Base + r.did \in Nat /\ Pushed \in Nat /\ Base + r.did \in 1..Pushed
  <2>1. /\ Base \in Nat /\ docids.len \in Nat /\ Pushed = Base + docids.len /\ Pushed <= Len(asked)
        /\ Len(asked) \in Nat
    BY BatchFacts
  <2>2. r.did \in Nat /\ 1 <= r.did /\ r.did <= docids.len
    BY <1>4, <2>1
  <2> DEFINE d == r.did
             n == docids.len
             l == Len(asked)
  <2>3. d \in Nat /\ 1 <= d /\ d <= n /\ n \in Nat /\ l \in Nat /\ Pushed <= l /\ Pushed = Base + n
    BY <2>1, <2>2
  <2> HIDE DEF d, n, l
  <2>4. /\ Base + d \in (Base + 1)..Pushed /\ Base + d \in 1..l
        /\ Base + d \in Nat /\ Pushed \in Nat /\ Base + d \in 1..Pushed
    BY <2>1, <2>3
  <2> QED
    BY <2>1, <2>4 DEF d, l
<1>11. /\ result'.did \in 1..Len(docids'.at) /\ InHand' = Base + r.did
  <2>1. docids.at[r.did] = Base + r.did
    BY <1>4 DEF BInv, IdsOfTheBatch
  <2>2. r.did \in 1..Len(docids.at)
    <3>1. docids.len \in Nat /\ Len(docids.at) \in Nat /\ docids.len <= Len(docids.at)
      BY DEF AInv, ClientShape, Stores
    <3> QED
      BY <1>4, <3>1
  <2> QED
    BY <1>2, <1>6, <2>1, <2>2 DEF InHand
<1>12. \A i \in 1..Len(docs') : i + 1 \in 2..Len(docs) /\ i + 1 \in 1..Len(docs) /\ docs'[i] = docs[i + 1]
  BY <1>1, <1>2, BatchFacts
<1>13. asked[Base + r.did] = active
  BY <1>10, BatchFacts DEF BInv, IdsOfTheBatch
<1>14. CallOrder' /\ OurIds'
  <2>1. docids'.len <= Pushed' /\ (gnflag' <=> ~draining' /\ docids'.len > 0)
    BY <1>2, <1>3, <1>5, <1>6, BatchFacts DEF BInv, CallOrder
  <2> QED
    BY <1>2, <1>3, <1>5, <2>1 DEF BInv, CallOrder, OurIds
<1>15. DocsCounted'
  <2>1. docsofbatch' = 0 => docids'.len = 0
    BY <1>6
  <2>2. Len(asked) - Len(returned) = docsofbatch' + 1
    BY <1>2, BatchFacts DEF BInv, DocsCounted
  <2> QED
    BY <1>2, <1>5, <1>8, <2>1, <2>2 DEF DocsCounted
<1>16. ReadingInOrder'
  <2>1. globaldocs.len = docids.len - Unread + (IF releasing THEN 1 ELSE 0) /\ ~releasing
    BY <1>3 DEF BInv, ReadingInOrder, AInv, ThreadShape
  <2>2. globaldocs'.len = docids'.len - Unread' + (IF releasing' THEN 1 ELSE 0)
    BY <1>2, <1>5, <1>6, <1>7, <2>1
  <2> QED
    BY <1>2, <1>3, <1>5, <2>2 DEF ReadingInOrder
<1>17. IdsOfTheBatch' /\ ResultsUnderway' /\ ResultsHad'
  <2>1. CASE docsofbatch' = 0
    <3>1. /\ docids'.len = 0 /\ globaldocs'.len = 0 /\ tasks' = <<>> /\ docs' = <<>>
          /\ Len(tasks') = 0 /\ Len(docs') = 0 /\ words' = [i \in Docs |-> {}]
      BY <1>6, <1>7, <1>9, <2>1
    <3>2. Base' = Pushed /\ Len(asked) = Pushed /\ Pushed \in Nat
      BY <1>2, <1>5, <3>1, BatchFacts DEF Base, Pushed
    <3>3. IdsOfTheBatch'
      <4>1. (Base' + 1)..Len(asked') = {}
        BY <1>2, <3>2
      <4> QED
        BY <3>1, <4>1 DEF IdsOfTheBatch, Docs
    <3>4. ResultsUnderway'
      BY <3>1 DEF ResultsUnderway
    <3>5. ResultsHad'
      <4>1. Had' = Had \union {Base + r.did}
        BY <1>2, <1>11 DEF Had
      <4>2. Had' \subseteq 1..Pushed'
        <5>1. Had \subseteq 1..Pushed
          <6>1. Had \subseteq 1..(Pushed - 0)
            BY <1>3 DEF BInv, ResultsHad
          <6>2. Pushed - 0 = Pushed
            BY <1>10
          <6> QED
            BY <6>1, <6>2
        <5> QED
          BY <1>5, <1>10, <4>1, <5>1
      <4>3. \A i \in 1..Len(returned') : returned'[i].doc # InHand'
        BY <1>2, <1>4, <1>11 DEF Had
      <4>4. result'.words = {InHand'} /\ result'.queries = asked'[InHand']
        BY <1>2, <1>4, <1>11, <1>13
      <4>5. Pushed' - (IF Ran' THEN 0 ELSE docids'.len) = Pushed'
        BY <1>5, <3>2
      <4>6. /\ \A i \in 1..Len(tasks') : Base' + tasks'[i] \notin Had'
            /\ \A i \in 1..Len(docs') : Base' + docs'[i].did \notin Had'
        BY <3>1
      <4>7. /\ \A i \in 1..Len(returned') :
                  returned'[i] = [doc |-> returned'[i].doc, words |-> {returned'[i].doc},
                                  queries |-> asked'[returned'[i].doc]]
            /\ \A i, k \in 1..Len(returned') : returned'[i].doc = returned'[k].doc => i = k
        BY <1>2 DEF BInv, ResultsHad
      <4>8. Had' \subseteq 1..(Pushed' - (IF Ran' THEN 0 ELSE docids'.len))
        BY <4>2, <4>5
      <4> QED
        BY <1>11, <4>3, <4>4, <4>6, <4>7, <4>8 DEF ResultsHad
    <3> QED
      BY <3>3, <3>4, <3>5
  <2>2. CASE docsofbatch' # 0
    <3>1. docids' = docids /\ globaldocs' = globaldocs /\ words' = words /\ Base' = Base
      BY <1>5, <1>6, <1>7, <2>2 DEF Base
    <3>2. IdsOfTheBatch'
      BY <1>2, <3>1 DEF BInv, IdsOfTheBatch
    <3>3. ResultsUnderway'
      <4>1. \A i \in 1..Len(docs') : /\ docs'[i].did \in 1..docids'.len
                                     /\ docs'[i].words = {Base' + docs'[i].did}
                                     /\ docs'[i].queries = active'
        BY <1>2, <1>12, <3>1 DEF BInv, ResultsUnderway
      <4>2. \A i, k \in 1..Len(docs') : docs'[i].did = docs'[k].did => i = k
        <5> SUFFICES ASSUME NEW i \in 1..Len(docs'), NEW k \in 1..Len(docs'),
                            docs'[i].did = docs'[k].did
                     PROVE  i = k
          OBVIOUS
        <5>1. i + 1 = k + 1
          BY <1>12 DEF BInv, ResultsUnderway
        <5> QED
          BY <5>1
      <4>3. \A i \in 1..Len(tasks'), k \in 1..Len(docs') : tasks'[i] # docs'[k].did
        BY <1>2, <1>12 DEF BInv, ResultsUnderway
      <4> QED
        BY <1>2, <1>5, <3>1, <4>1, <4>2, <4>3 DEF BInv, ResultsUnderway
    <3>4. ResultsHad'
      <4>1. Had' = Had \union {Base + r.did}
        BY <1>2, <1>11 DEF Had
      <4>2. Had' \subseteq 1..(Pushed' - (IF Ran' THEN 0 ELSE docids'.len))
        <5>1. Had \subseteq 1..Pushed
          <6>1. Had \subseteq 1..(Pushed - 0)
            BY <1>3 DEF BInv, ResultsHad
          <6>2. Pushed - 0 = Pushed
            BY <1>10
          <6> QED
            BY <6>1, <6>2
        <5>2. Had' \subseteq 1..Pushed'
          BY <1>5, <1>10, <4>1, <5>1
        <5>3. Pushed' - 0 = Pushed'
          BY <1>5, <1>10
        <5> QED
          BY <1>5, <5>2, <5>3
      <4>3. \A i \in 1..Len(returned') : returned'[i].doc # InHand'
        BY <1>2, <1>4, <1>11 DEF Had
      <4>4. result'.words = {InHand'} /\ result'.queries = asked'[InHand']
        BY <1>2, <1>4, <1>11, <1>13
      <4>5. \A i \in 1..Len(tasks') : Base' + tasks'[i] \notin Had'
        <5> SUFFICES ASSUME NEW i \in 1..Len(tasks)
                     PROVE  Base + tasks[i] \notin Had /\ Base + tasks[i] # Base + r.did
          BY <1>2, <3>1, <4>1
        <5>1. tasks[i] # r.did /\ tasks[i] \in Nat /\ r.did \in Nat
          BY <1>4 DEF BInv, ResultsUnderway
        <5>2. Base + tasks[i] # Base + r.did
          BY <1>10, <5>1
        <5> QED
          BY <5>2 DEF BInv, ResultsHad
      <4>6. \A i \in 1..Len(docs') : Base' + docs'[i].did \notin Had'
        <5> SUFFICES ASSUME NEW i \in 1..Len(docs')
                     PROVE  /\ Base + docs[i + 1].did \notin Had
                            /\ Base + docs[i + 1].did # Base + r.did
          BY <1>12, <3>1, <4>1
        <5>1. /\ docs[i + 1].did # r.did /\ docs[i + 1].did \in Nat /\ r.did \in Nat
              /\ i + 1 \in 1..Len(docs)
          BY <1>4, <1>12 DEF BInv, ResultsUnderway
        <5>2. \A x, y \in Nat : x # y => Base + x # Base + y
          BY <1>10
        <5>3. Base + docs[i + 1].did # Base + r.did
          BY <5>1, <5>2
        <5> QED
          BY <5>1, <5>3 DEF BInv, ResultsHad
      <4> QED
        BY <1>2, <1>11, <4>2, <4>3, <4>4, <4>5, <4>6 DEF BInv, ResultsHad
    <3> QED
      BY <3>2, <3>3, <3>4
  <2> QED
    BY <2>1, <2>2
<1> QED
  BY <1>14, <1>15, <1>16, <1>17 DEF BInv

(* The result in the client's hands is one that it has not had.            *)
LEMMA ReturnResultB ==
    ASSUME AInv, BInv, ReturnResult
    PROVE  BInv'
<1> DEFINE r == [doc |-> InHand, words |-> {InHand}, queries |-> asked[InHand]]
           m == Len(returned) + 1
<1>1. /\ pc = "return" /\ pc' = "ready"
      /\ UNCHANGED <<arg, draining, match, gnflag, our_id, active, started, docids, globaldocs, words,
                     mdq, releasing, tasks, docs, docsofbatch, asked>>
  BY DEF ReturnResult, queryVars, bufferVars, batchVars, threadVars, resultVars
<1>2. /\ result.did \in 1..Len(docids.at)
      /\ result.words = {InHand} /\ result.queries = asked[InHand]
      /\ \A i \in 1..Len(returned) : returned[i].doc # InHand
      /\ InHand \in Had
  BY <1>1 DEF BInv, ResultsHad, Had
<1>3. result.did \in DOMAIN docids.at
  BY <1>2 DEF AInv, ClientShape, Stores
<1>4. returned' = Append(returned, r)
  BY <1>2, <1>3 DEF ReturnResult, InHand
<1>5. /\ Len(returned) \in Nat /\ Len(returned') = m
      /\ \A i \in 1..Len(returned) : returned'[i] = returned[i]
      /\ returned'[m] = r
      /\ \A i \in 1..m : i \in 1..Len(returned) \/ i = m
      /\ m \in 1..m /\ \A i \in 1..Len(returned) : i \in 1..m
  <2>1. returned \in Seq([doc : Nat, words : SUBSET Docs, queries : SUBSET Queries])
    BY DEF AInv, ClientShape
  <2>2. r \in [doc : Nat, words : SUBSET Docs, queries : SUBSET Queries]
    <3>1. InHand \in Nat
      BY <1>3 DEF AInv, ClientShape, Stores, InHand
    <3>2. {InHand} \in SUBSET Docs /\ asked[InHand] \in SUBSET Queries
      BY <1>2 DEF AInv, ClientShape, Results
    <3> QED
      BY <3>1, <3>2
  <2> HIDE DEF r
  <2> QED
    BY <1>4, <2>1, <2>2, AppendTo
<1>6. r.doc = InHand /\ r = [doc |-> r.doc, words |-> {r.doc}, queries |-> asked[r.doc]]
  OBVIOUS
<1> HIDE DEF r, m
<1>7. Pushed' = Pushed /\ Base' = Base /\ Unread' = Unread /\ (Ran' <=> Ran)
  BY <1>1 DEF Pushed, Base, Unread, Ran
<1>8. Had' = Had
  <2>1. Had' = {returned'[i].doc : i \in 1..m}
    BY <1>1, <1>5 DEF Had
  <2>2. Had = {returned[i].doc : i \in 1..Len(returned)} \union {InHand}
    BY <1>1 DEF Had
  <2>3. {returned'[i].doc : i \in 1..m} = {returned[i].doc : i \in 1..Len(returned)} \union {r.doc}
    BY <1>5
  <2> QED
    BY <1>6, <2>1, <2>2, <2>3
<1>9. CallOrder' /\ OurIds'
  BY <1>1, <1>7 DEF BInv, CallOrder, OurIds
<1>10. DocsCounted'
  <2>1. Len(asked) - Len(returned') = docsofbatch
    <3>1. Len(asked) - Len(returned) = docsofbatch + 1
      BY <1>1 DEF BInv, DocsCounted
    <3>2. Len(asked) \in Nat /\ Len(returned) \in Nat /\ docsofbatch \in Nat
      BY BatchFacts
    <3>3. Len(returned') = Len(returned) + 1
      BY <1>5 DEF m
    <3> QED
      BY <3>1, <3>2, <3>3
  <2> QED
    BY <1>1, <1>7, <2>1, BatchFacts DEF BInv, DocsCounted
<1>11. ReadingInOrder'
  BY <1>1, <1>7 DEF BInv, ReadingInOrder, Holds
<1>12. IdsOfTheBatch'
  BY <1>1, <1>7 DEF BInv, IdsOfTheBatch
<1>13. ResultsUnderway'
  BY <1>1, <1>7 DEF BInv, ResultsUnderway
<1>14. ResultsHad'
  <2>1. \A i \in 1..Len(returned') :
            returned'[i] = [doc |-> returned'[i].doc, words |-> {returned'[i].doc},
                            queries |-> asked'[returned'[i].doc]]
    <3> SUFFICES ASSUME NEW i \in 1..m
                 PROVE  returned'[i] = [doc |-> returned'[i].doc, words |-> {returned'[i].doc},
                                        queries |-> asked[returned'[i].doc]]
      BY <1>1, <1>5
    <3>1. CASE i \in 1..Len(returned)
      <4>1. returned'[i] = returned[i]
        BY <1>5, <3>1
      <4> QED
        BY <3>1, <4>1 DEF BInv, ResultsHad
    <3>2. CASE i = m
      <4>1. returned'[i] = r
        BY <1>5, <3>2
      <4> QED
        BY <1>6, <4>1
    <3> QED
      BY <1>5, <3>1, <3>2
  <2>2. \A i, k \in 1..Len(returned') : returned'[i].doc = returned'[k].doc => i = k
    BY <1>2, <1>5, <1>6 DEF BInv, ResultsHad
  <2> QED
    BY <1>1, <1>7, <1>8, <2>1, <2>2 DEF BInv, ResultsHad
<1> QED
  BY <1>9, <1>10, <1>11, <1>12, <1>13, <1>14 DEF BInv

(* The next document is read under the id that follows the last one.       *)
LEMMA ReadDocumentB ==
    ASSUME AInv, BInv, ReadDocument
    PROVE  BInv'
<1> DEFINE did == Head(mdq).dn + 1
           n   == globaldocs.len
<1>1. /\ mdq # <<>> /\ Head(mdq) = mdq[1] /\ mdq[1].kind = "JobDedup" /\ ~releasing
      /\ Len(mdq) \in Nat /\ Len(mdq) >= 1 /\ mdq[1] \in Dedups
  <2>1. mdq \in Seq(Dedups \union Runs) /\ mdq # <<>>
    BY DEF AInv, ThreadShape, ReadDocument, NextIs
  <2>2. Len(mdq) \in Nat /\ Len(mdq) >= 1 /\ Head(mdq) = mdq[1] /\ mdq[1] \in Dedups \union Runs
    BY <2>1, TailOf
  <2>3. mdq[1].kind = "JobDedup" /\ ~releasing
    BY <2>2 DEF ReadDocument, NextIs
  <2> QED
    BY <2>1, <2>2, <2>3 DEF Runs
<1>2. /\ words' = [words EXCEPT ![did] = @ \union {buff[Head(mdq).spot]}]
      /\ globaldocs' = PushBack(globaldocs, did)
      /\ releasing' = TRUE
      /\ UNCHANGED <<pc, arg, result, draining, match, gnflag, our_id, active, started, docids, mdq,
                     tasks, docs, docsofbatch, asked, returned>>
  BY DEF ReadDocument, clientVars, queryVars, resultVars, history
<1>3. Unread >= 1
  BY <1>1, HeadUnread DEF BInv
<1>4. /\ n \in Nat /\ docids.len \in Nat /\ Unread \in Nat /\ Pushed \in Nat /\ Base \in Nat
      /\ Pushed = Base + docids.len /\ Unread <= docids.len
      /\ Pushed <= Len(asked) /\ Len(asked) <= MaxDocs /\ Len(asked) \in Nat
  BY BatchFacts
<1>5. n = docids.len - Unread
  <2>1. n = docids.len - Unread + 0
    BY <1>1 DEF BInv, ReadingInOrder
  <2> QED
    BY <1>4, <2>1
<1>6. did = n + 1 /\ did \in Nat /\ buff[Head(mdq).spot] = Base + did
  <2>1. 1 \in 1..Unread /\ 1 \in 1..Len(mdq)
    BY <1>1, <1>3, <1>4
  <2>2. /\ Holds(1) /\ mdq[1].dn = docids.len - Unread + 1 - 1
        /\ mdq[1].doc = Pushed - Unread + 1
    BY <2>1 DEF BInv, ReadingInOrder
  <2>3. buff[mdq[1].spot] = mdq[1].doc
    BY <2>1, <2>2 DEF AInv, BuffersFilled
  <2> DEFINE k == docids.len
             u == Unread
             e == mdq[1].dn
             b == buff[mdq[1].spot]
             p == Pushed
  <2>4. /\ n \in Nat /\ k \in Nat /\ u \in Nat /\ p \in Nat /\ Base \in Nat
        /\ p = Base + k /\ n = k - u /\ e = k - u + 1 - 1 /\ b = p - u + 1
        /\ did = e + 1 /\ buff[Head(mdq).spot] = b
    BY <1>1, <1>4, <1>5, <2>2, <2>3
  <2> HIDE DEF n, k, u, e, b, p, did
  <2>5. did = n + 1 /\ did \in Nat /\ b = Base + did
    BY <2>4
  <2> QED
    BY <2>4, <2>5
<1> HIDE DEF did
<1>7. /\ globaldocs'.len = n + 1
      /\ \A i \in 1..n : globaldocs'.at[i] = globaldocs.at[i]
      /\ globaldocs'.at[n + 1] = n + 1
  <2>1. globaldocs \in Stores /\ did \in Nat
    BY <1>6 DEF AInv, ThreadShape
  <2>2. /\ PushBack(globaldocs, did).len = globaldocs.len + 1
        /\ \A i \in 1..globaldocs.len : PushBack(globaldocs, did).at[i] = globaldocs.at[i]
        /\ PushBack(globaldocs, did).at[globaldocs.len + 1] = did
    BY <2>1, PushBackProperties
  <2> QED
    BY <1>2, <1>6, <2>2
<1> HIDE DEF n
<1>8. Pushed' = Pushed /\ Base' = Base /\ Unread' = Unread /\ (Ran' <=> Ran) /\ Had' = Had
  <2>1. Pushed' = Pushed /\ Base' = Base /\ Unread' = Unread /\ (Ran' <=> Ran)
    BY <1>2 DEF Pushed, Base, Unread, Ran
  <2>2. Had' = Had
    BY <1>2 DEF Had, InHand
  <2> QED
    BY <2>1, <2>2
<1>9. CallOrder' /\ OurIds' /\ DocsCounted'
  BY <1>2, <1>8 DEF BInv, CallOrder, OurIds, DocsCounted
<1>10. ReadingInOrder'
  <2>1. globaldocs'.len = docids.len - Unread + (IF releasing' THEN 1 ELSE 0)
    BY <1>2, <1>4, <1>5, <1>7
  <2> QED
    BY <1>2, <1>8, <2>1 DEF BInv, ReadingInOrder, Holds
<1>11. IdsOfTheBatch'
  <2>1. \A i \in 1..globaldocs'.len : i \in 1..n \/ i = n + 1
    BY <1>4, <1>7
  <2>2. \A i \in 1..n : globaldocs.at[i] = i
    BY DEF BInv, IdsOfTheBatch, n
  <2>3. \A i \in 1..globaldocs'.len : globaldocs'.at[i] = i
    BY <1>7, <2>1, <2>2
  <2>4. did \in Docs
    <3> DEFINE k == docids.len
               l == Len(asked)
    <3>1. /\ n \in Nat /\ k \in Nat /\ Unread \in Nat /\ l \in Nat /\ Base \in Nat /\ Pushed \in Nat
          /\ n = k - Unread /\ Unread >= 1 /\ Pushed = Base + k /\ Pushed <= l /\ l <= MaxDocs
          /\ MaxDocs \in Nat /\ did = n + 1
      BY <1>3, <1>4, <1>5, <1>6, SizeAssumption
    <3> HIDE DEF k, l
    <3>2. did \in 1..MaxDocs
      BY <3>1
    <3> QED
      BY <3>2 DEF Docs
  <2>5. words \in [Docs -> SUBSET Docs]
    BY DEF AInv, ThreadShape
  <2>6. ASSUME NEW i \in Docs
        PROVE  words'[i] = IF i <= globaldocs'.len THEN {Base + i} ELSE {}
    <3>1. words[i] = IF i <= n THEN {Base + i} ELSE {}
      BY DEF BInv, IdsOfTheBatch, n
    <3>2. i \in Nat
      BY SizeAssumption DEF Docs
    <3>3. CASE i = did
      <4>1. words[i] = {}
        BY <1>4, <1>6, <3>1, <3>3
      <4>2. words'[i] = words[i] \union {Base + i}
        BY <1>2, <1>6, <2>4, <2>5, <3>3
      <4>3. i <= globaldocs'.len
        BY <1>4, <1>6, <1>7, <3>3
      <4> QED
        BY <4>1, <4>2, <4>3
    <3>4. CASE i # did
      <4>1. words'[i] = words[i]
        BY <1>2, <2>4, <2>5, <3>4
      <4>2. i <= n <=> i <= globaldocs'.len
        BY <1>4, <1>6, <1>7, <3>2, <3>4
      <4> QED
        BY <3>1, <4>1, <4>2
    <3> QED
      BY <3>3, <3>4
  <2> QED
    BY <1>2, <1>8, <2>3, <2>6 DEF BInv, IdsOfTheBatch
<1>12. ResultsUnderway'
  BY <1>2, <1>8 DEF BInv, ResultsUnderway
<1>13. ResultsHad'
  BY <1>2, <1>8 DEF BInv, ResultsHad, InHand
<1> QED
  BY <1>9, <1>10, <1>11, <1>12, <1>13 DEF BInv

(* The JobDedup leaves the queue with one document less to read.           *)
LEMMA ReleaseSpotB ==
    ASSUME AInv, BInv, ReleaseSpot
    PROVE  BInv'
<1>1. /\ mdq # <<>> /\ releasing /\ releasing' = FALSE /\ mdq' = Tail(mdq)
      /\ Len(mdq) \in Nat /\ Len(mdq) >= 1 /\ Len(mdq') = Len(mdq) - 1
      /\ \A i \in 1..(Len(mdq) - 1) : i + 1 \in 1..Len(mdq) /\ mdq'[i] = mdq[i + 1]
      /\ mdq' \in Seq(Dedups \union Runs)
  <2>1. mdq \in Seq(Dedups \union Runs) /\ mdq # <<>> /\ mdq' = Tail(mdq)
    BY DEF AInv, ThreadShape, ReleaseSpot
  <2> QED
    BY <2>1, TailOf DEF ReleaseSpot
<1>2. UNCHANGED <<pc, arg, result, draining, match, gnflag, our_id, active, started, docids, globaldocs,
                  words, tasks, docs, docsofbatch, asked, returned>>
  BY DEF ReleaseSpot, clientVars, queryVars, batchVars, resultVars, history
<1>3. /\ docids.len \in Nat /\ Unread \in Nat /\ Pushed \in Nat /\ Unread >= 1
      /\ Unread <= Len(mdq)
  BY <1>1, BatchFacts
<1>4. draining => mdq' # <<>> /\ Unread = Len(mdq) - 1
  <2>1. draining => Unread = Len(mdq) - 1
    BY <1>1 DEF Unread
  <2>2. draining => Len(mdq') >= 1
    BY <1>1, <1>3, <2>1
  <2>3. mdq' = <<>> => Len(mdq') = 0
    OBVIOUS
  <2>4. mdq' = <<>> => ~(Len(mdq') >= 1)
    BY <2>3
  <2> QED
    BY <2>1, <2>2, <2>4
<1>5. Unread' = Unread - 1
  <2>1. CASE draining
    <3>1. Unread' = Len(mdq') - 1
      BY <1>2, <1>4, <2>1 DEF Unread
    <3> QED
      BY <1>1, <1>4, <2>1, <3>1
  <2>2. CASE ~draining
    <3>1. Unread' = Len(mdq') - 0 /\ Unread = Len(mdq) - 0
      BY <1>2, <2>2 DEF Unread
    <3> QED
      BY <1>1, <3>1
  <2> QED
    BY <2>1, <2>2
<1>6. Pushed' = Pushed /\ Base' = Base /\ ~Ran /\ ~Ran' /\ Had' = Had
  <2>1. Pushed' = Pushed /\ Base' = Base
    BY <1>2 DEF Pushed, Base
  <2>2. ~Ran /\ ~Ran'
    BY <1>1, <1>2, <1>4 DEF Ran
  <2>3. Had' = Had
    BY <1>2 DEF Had, InHand
  <2> QED
    BY <2>1, <2>2, <2>3
<1>7. CallOrder' /\ OurIds'
  BY <1>2, <1>6 DEF BInv, CallOrder, OurIds
<1>8. DocsCounted'
  BY <1>2, <1>6 DEF BInv, DocsCounted
<1>9. ReadingInOrder'
  <2>1. globaldocs'.len = docids'.len - Unread' + (IF releasing' THEN 1 ELSE 0)
    <3>1. globaldocs.len = docids.len - Unread + 1
      BY <1>1 DEF BInv, ReadingInOrder
    <3>2. docids.len - (Unread - 1) + 0 = docids.len - Unread + 1
      BY <1>3
    <3> QED
      BY <1>1, <1>2, <1>5, <3>1, <3>2
  <2>2. ASSUME NEW i \in 1..Unread'
        PROVE  /\ Holds(i)'
               /\ mdq'[i].dn = docids'.len - Unread' + i - 1
               /\ mdq'[i].doc = Pushed' - Unread' + i
    <3>1. i + 1 \in 1..Unread /\ i \in 1..(Len(mdq) - 1) /\ i \in Nat
      BY <1>1, <1>3, <1>5
    <3>2. mdq'[i] = mdq[i + 1]
      BY <1>1, <3>1
    <3>3. /\ mdq[i + 1].kind = "JobDedup"
          /\ mdq[i + 1].dn = docids.len - Unread + (i + 1) - 1
          /\ mdq[i + 1].doc = Pushed - Unread + (i + 1)
      BY <3>1 DEF BInv, ReadingInOrder, Holds
    <3>4. /\ docids.len - Unread + (i + 1) - 1 = docids.len - (Unread - 1) + i - 1
          /\ Pushed - Unread + (i + 1) = Pushed - (Unread - 1) + i
      BY <1>3, <3>1
    <3> QED
      BY <1>2, <1>5, <1>6, <3>2, <3>3, <3>4 DEF Holds
  <2>3. draining' /\ mdq' # <<>> => docids'.len > 0 /\ mdq'[Len(mdq')].kind = "JobRun"
    <3> SUFFICES ASSUME draining PROVE docids.len > 0 /\ mdq'[Len(mdq')].kind = "JobRun"
      BY <1>2
    <3>1. docids.len > 0 /\ mdq[Len(mdq)].kind = "JobRun"
      BY <1>1 DEF BInv, ReadingInOrder
    <3>2. Len(mdq) - 1 >= 1
      BY <1>3, <1>4
    <3>3. Len(mdq) - 1 \in 1..(Len(mdq) - 1) /\ (Len(mdq) - 1) + 1 = Len(mdq)
      BY <1>1, <3>2
    <3>4. mdq'[Len(mdq) - 1] = mdq[Len(mdq)]
      BY <1>1, <3>3
    <3> QED
      BY <1>1, <3>1, <3>4
  <2> QED
    BY <2>1, <2>2, <2>3 DEF ReadingInOrder
<1>10. IdsOfTheBatch'
  BY <1>2, <1>6 DEF BInv, IdsOfTheBatch
<1>11. ResultsUnderway'
  BY <1>2, <1>6 DEF BInv, ResultsUnderway
<1>12. ResultsHad'
  BY <1>2, <1>6 DEF BInv, ResultsHad, InHand
<1> QED
  BY <1>7, <1>8, <1>9, <1>10, <1>11, <1>12 DEF BInv

(* The batch was read: JobRun leaves one job for each of its documents.    *)
LEMMA RunBatchB ==
    ASSUME AInv, BInv, RunBatch
    PROVE  BInv'
<1> DEFINE K == docids.len
           all == [i \in 1..globaldocs.len |-> i]
<1>1. /\ mdq # <<>> /\ mdq[1].kind = "JobRun" /\ ~releasing /\ releasing' = releasing
      /\ mdq' = Tail(mdq) /\ tasks' = tasks \o all
      /\ Len(mdq) \in Nat /\ Len(mdq) >= 1 /\ Len(mdq') = Len(mdq) - 1
      /\ mdq' \in Seq(Dedups \union Runs)
  <2>1. mdq \in Seq(Dedups \union Runs) /\ mdq # <<>> /\ mdq' = Tail(mdq)
    BY DEF AInv, ThreadShape, RunBatch, NextIs
  <2> QED
    BY <2>1, TailOf DEF RunBatch, NextIs
<1>2. UNCHANGED <<pc, arg, result, draining, match, gnflag, our_id, active, started, docids, globaldocs,
                  words, docs, docsofbatch, asked, returned>>
  BY DEF RunBatch, clientVars, queryVars, batchVars, resultVars, history
<1>3. /\ K \in Nat /\ Pushed \in Nat /\ Base \in Nat /\ Pushed = Base + K /\ Unread \in Nat
      /\ Pushed <= Len(asked) /\ Len(asked) \in Nat
  BY BatchFacts
<1>4. Unread = 0
  <2> SUFFICES ASSUME Unread # 0 PROVE FALSE
    OBVIOUS
  <2>1. 1 \in 1..Unread
    BY <1>3
  <2>2. mdq[1].kind = "JobDedup"
    BY <2>1 DEF BInv, ReadingInOrder, Holds
  <2> QED
    BY <1>1, <2>2
<1>5. draining /\ mdq' = <<>> /\ Len(mdq') = 0
  <2>1. draining
    <3>1. ~draining => Unread = Len(mdq) - 0
      BY DEF Unread
    <3> QED
      BY <1>1, <1>4, <3>1
  <2>2. Unread = Len(mdq) - 1
    BY <1>1, <2>1 DEF Unread
  <2>3. Len(mdq') = 0
    BY <1>1, <1>4, <2>2
  <2>4. mdq' = <<>>
    BY <1>1, <2>3, EmptySeq
  <2> QED
    BY <2>1, <2>3, <2>4
<1>6. ~Ran /\ Ran' /\ Pushed' = Pushed /\ Base' = Base /\ Unread' = 0 /\ Had' = Had
  <2>1. ~Ran /\ Ran'
    BY <1>1, <1>2, <1>5 DEF Ran
  <2>2. Pushed' = Pushed /\ Base' = Base
    BY <1>2 DEF Pushed, Base
  <2>3. Unread' = 0
    BY <1>2, <1>5 DEF Unread
  <2>4. Had' = Had
    BY <1>2 DEF Had, InHand
  <2> QED
    BY <2>1, <2>2, <2>3, <2>4
<1>7. docs = <<>> /\ Len(docs) = 0 /\ tasks = <<>>
  BY <1>6 DEF BInv, ResultsUnderway
<1>8. globaldocs.len = K
  <2>1. globaldocs.len = K - Unread + 0
    BY <1>1 DEF BInv, ReadingInOrder
  <2> QED
    BY <1>3, <1>4, <2>1
<1> HIDE DEF K
<1>9. Len(tasks') = K /\ \A i \in 1..K : tasks'[i] = i
  <2>1. all \in Seq(Nat) /\ Len(all) = K /\ \A i \in 1..K : all[i] = i
    BY <1>3, <1>8
  <2> HIDE DEF all
  <2>2. tasks' = all
    BY <1>1, <1>7, <2>1, ConcatEmptySeq
  <2> QED
    BY <2>1, <2>2
<1>10. CallOrder' /\ OurIds'
  BY <1>2, <1>6 DEF BInv, CallOrder, OurIds
<1>11. DocsCounted'
  <2>1. docsofbatch = K
    <3>1. pc # "push"
      BY <1>5 DEF BInv, CallOrder
    <3>2. docsofbatch = K + 0
      BY <1>6, <3>1 DEF BInv, DocsCounted, K
    <3> QED
      BY <1>3, <3>2
  <2>2. Len(tasks') + Len(docs') = K
    BY <1>2, <1>3, <1>7, <1>9
  <2> QED
    BY <1>2, <1>6, <2>1, <2>2 DEF BInv, DocsCounted
<1>12. ReadingInOrder'
  <2>1. globaldocs'.len = docids'.len - Unread' + (IF releasing' THEN 1 ELSE 0)
    BY <1>1, <1>2, <1>4, <1>6 DEF BInv, ReadingInOrder
  <2> QED
    BY <1>5, <1>6, <2>1 DEF ReadingInOrder
<1>13. IdsOfTheBatch'
  BY <1>2, <1>6 DEF BInv, IdsOfTheBatch
<1>14. ResultsUnderway'
  BY <1>2, <1>6, <1>7, <1>9 DEF ResultsUnderway, K
<1>15. ResultsHad'
  <2>1. Had \subseteq 1..Base
    <3>1. Had \subseteq 1..(Pushed - K)
      BY <1>6 DEF BInv, ResultsHad, K
    <3>2. Pushed - K = Base
      BY <1>3
    <3> QED
      BY <3>1, <3>2
  <2>2. Had' \subseteq 1..(Pushed' - (IF Ran' THEN 0 ELSE docids'.len))
    <3>1. 1..Base \subseteq 1..(Pushed - 0)
      BY <1>3
    <3> QED
      BY <1>6, <2>1, <3>1
  <2>3. \A i \in 1..Len(tasks') : Base' + tasks'[i] \notin Had'
    <3> SUFFICES ASSUME NEW i \in 1..K PROVE Base + i \notin 1..Base
      BY <1>6, <1>9, <2>1
    <3> QED
      BY <1>3
  <2>4. \A i \in 1..Len(docs') : Base' + docs'[i].did \notin Had'
    BY <1>2, <1>7
  <2>5. /\ pc' = "return" => /\ result'.did \in 1..Len(docids'.at)
                             /\ result'.words = {InHand'} /\ result'.queries = asked'[InHand']
                             /\ \A i \in 1..Len(returned') : returned'[i].doc # InHand'
        /\ \A i \in 1..Len(returned') :
              returned'[i] = [doc |-> returned'[i].doc, words |-> {returned'[i].doc},
                              queries |-> asked'[returned'[i].doc]]
        /\ \A i, k \in 1..Len(returned') : returned'[i].doc = returned'[k].doc => i = k
    BY <1>2 DEF BInv, ResultsHad, InHand
  <2> QED
    BY <2>2, <2>3, <2>4, <2>5 DEF ResultsHad
<1> QED
  BY <1>10, <1>11, <1>12, <1>13, <1>14, <1>15 DEF BInv

(* A job of the batch makes the result of the document that it names.      *)
LEMMA PushResultB ==
    ASSUME AInv, BInv, NEW k \in DOMAIN tasks, PushResult(k)
    PROVE  BInv'
<1> DEFINE K == docids.len
           t == tasks[k]
           r == [did |-> t, words |-> {Base + t}, queries |-> active]
           did == IF t \in DOMAIN globaldocs.at THEN globaldocs.at[t] ELSE 0
           J(i) == IF i < k THEN i ELSE i + 1
<1>1. /\ tasks' = RemoveAt(tasks, k)
      /\ docs' = Append(docs, [did |-> did, words |-> IF did \in Docs THEN words[did] ELSE {},
                               queries |-> active])
      /\ UNCHANGED <<pc, arg, result, draining, match, gnflag, our_id, active, started, docids,
                     globaldocs, words, mdq, releasing, docsofbatch, asked, returned>>
  BY DEF PushResult, clientVars, queryVars, batchVars, resultVars, history
<1>2. k \in 1..Len(tasks) /\ Len(tasks) \in Nat /\ tasks \in Seq(Nat) /\ tasks # <<>>
  BY DEF AInv, ThreadShape
<1>3. Ran /\ mdq = <<>> /\ Len(mdq) = 0 /\ ~releasing /\ Unread = 0
  <2>1. Ran /\ mdq = <<>> /\ Len(mdq) = 0
    BY <1>2 DEF BInv, ResultsUnderway, Ran
  <2> QED
    BY <2>1 DEF AInv, ThreadShape, Unread
<1>4. /\ K \in Nat /\ Base \in Nat /\ Pushed = Base + K /\ Pushed \in Nat
      /\ Pushed <= Len(asked) /\ Len(asked) <= MaxDocs /\ Len(asked) \in Nat
      /\ Len(docs) \in Nat
  BY BatchFacts
<1>5. globaldocs.len = K
  <2>1. globaldocs.len = K - Unread + 0
    BY <1>3 DEF BInv, ReadingInOrder
  <2> QED
    BY <1>3, <1>4, <2>1
<1>6. t \in 1..K
  BY <1>2 DEF BInv, ResultsUnderway
<1>7. did = t
  <2>1. t \in DOMAIN globaldocs.at
    <3>1. /\ globaldocs.len \in Nat /\ Len(globaldocs.at) \in Nat
          /\ globaldocs.len <= Len(globaldocs.at) /\ DOMAIN globaldocs.at = 1..Len(globaldocs.at)
      BY DEF AInv, ThreadShape, Stores
    <3> HIDE DEF K, t
    <3> QED
      BY <1>5, <1>6, <3>1
  <2>2. globaldocs.at[t] = t
    BY <1>5, <1>6 DEF BInv, IdsOfTheBatch
  <2> QED
    BY <2>1, <2>2
<1> HIDE DEF K, t, did
<1>8. t \in Docs /\ t \in Nat /\ words[t] = {Base + t}
  <2>1. t \in 1..MaxDocs /\ t \in Nat
    BY <1>4, <1>6, SizeAssumption
  <2>2. t \in Docs /\ t <= globaldocs.len
    BY <1>4, <1>5, <1>6, <2>1 DEF Docs
  <2>3. words[t] = IF t <= globaldocs.len THEN {Base + t} ELSE {}
    BY <2>2 DEF BInv, IdsOfTheBatch
  <2> QED
    BY <2>1, <2>2, <2>3
<1>9. docs' = Append(docs, r)
  BY <1>1, <1>7, <1>8
<1>10. r.did = t /\ r.words = {Base + t} /\ r.queries = active
  OBVIOUS
<1>11. r \in Results
  <2>1. words[t] \in SUBSET Docs
    BY <1>8 DEF AInv, ThreadShape
  <2>2. active \in SUBSET Queries
    BY DEF AInv, ClientShape
  <2> QED
    BY <1>8, <2>1, <2>2 DEF Results
<1> HIDE DEF r
<1>12. /\ Len(docs') = Len(docs) + 1
       /\ \A i \in 1..Len(docs) : docs'[i] = docs[i]
       /\ docs'[Len(docs) + 1] = r
       /\ \A i \in 1..Len(docs') : i \in 1..Len(docs) \/ i = Len(docs) + 1
  BY <1>9, <1>11, AppendTo DEF AInv, ThreadShape
<1>13. /\ Len(tasks') = Len(tasks) - 1
       /\ \A i \in 1..Len(tasks') : /\ tasks'[i] = tasks[J(i)]
                                    /\ J(i) \in 1..Len(tasks) /\ J(i) # k
  <2>1. /\ Len(tasks') = Len(tasks) - 1
        /\ \A i \in 1..(Len(tasks) - 1) : tasks'[i] = tasks[IF i < k THEN i ELSE i + 1]
    BY <1>1, <1>2, RemoveAtProperties
  <2>2. \A i \in 1..(Len(tasks) - 1) : J(i) \in 1..Len(tasks) /\ J(i) # k
    BY <1>2
  <2> QED
    BY <2>1, <2>2
<1>14. \A i, l \in 1..Len(tasks') : J(i) = J(l) => i = l
  <2>1. k \in Int /\ \A i, l \in Int : J(i) = J(l) => i = l
    BY <1>2
  <2> QED
    BY <2>1
<1> HIDE DEF J
<1>15. Pushed' = Pushed /\ Base' = Base /\ Unread' = Unread /\ (Ran' <=> Ran) /\ Had' = Had
  <2>1. Pushed' = Pushed /\ Base' = Base /\ Unread' = Unread /\ (Ran' <=> Ran)
    BY <1>1 DEF Pushed, Base, Unread, Ran
  <2>2. Had' = Had
    BY <1>1 DEF Had, InHand
  <2> QED
    BY <2>1, <2>2
<1>16. \A i \in 1..Len(tasks') : tasks'[i] \in 1..K /\ tasks'[i] # t
  <2>1. \A j \in 1..Len(tasks) : tasks[j] \in 1..K /\ (j # k => tasks[j] # t)
    BY <1>2 DEF BInv, ResultsUnderway, K, t
  <2> QED
    BY <1>13, <2>1
<1>17. \A i \in 1..Len(docs) : docs[i].did \in 1..K /\ docs[i].did # t
  BY <1>2 DEF BInv, ResultsUnderway, K, t
<1>18. CallOrder' /\ OurIds'
  BY <1>1, <1>15 DEF BInv, CallOrder, OurIds
<1>19. DocsCounted'
  <2>1. docsofbatch = Len(tasks) + Len(docs)
    BY <1>3 DEF BInv, DocsCounted
  <2>2. (Len(tasks) - 1) + (Len(docs) + 1) = Len(tasks) + Len(docs)
    BY <1>2, <1>4
  <2>3. docsofbatch' = Len(tasks') + Len(docs')
    BY <1>1, <1>12, <1>13, <2>1, <2>2
  <2> QED
    BY <1>1, <1>3, <1>15, <2>3 DEF BInv, DocsCounted
<1>20. ReadingInOrder'
  BY <1>1, <1>15 DEF BInv, ReadingInOrder, Holds
<1>21. IdsOfTheBatch'
  BY <1>1, <1>15 DEF BInv, IdsOfTheBatch
<1>22. ResultsUnderway'
  <2>1. \A i, l \in 1..Len(tasks') : tasks'[i] = tasks'[l] => i = l
    BY <1>13, <1>14 DEF BInv, ResultsUnderway
  <2>2. \A i \in 1..Len(docs') : /\ docs'[i].did \in 1..docids'.len
                                 /\ docs'[i].words = {Base' + docs'[i].did}
                                 /\ docs'[i].queries = active'
    <3> SUFFICES ASSUME NEW i \in 1..Len(docs')
                 PROVE  /\ docs'[i].did \in 1..K
                        /\ docs'[i].words = {Base + docs'[i].did}
                        /\ docs'[i].queries = active
      BY <1>1, <1>15 DEF K
    <3>1. CASE i \in 1..Len(docs)
      BY <1>12, <3>1 DEF BInv, ResultsUnderway, K
    <3>2. CASE i = Len(docs) + 1
      BY <1>6, <1>10, <1>12, <3>2
    <3> QED
      BY <1>12, <3>1, <3>2
  <2>3. \A i, l \in 1..Len(docs') : docs'[i].did = docs'[l].did => i = l
    <3>1. \A i, l \in 1..Len(docs) : docs[i].did = docs[l].did => i = l
      BY DEF BInv, ResultsUnderway
    <3> QED
      BY <1>10, <1>12, <1>17, <3>1
  <2>4. \A i \in 1..Len(tasks'), l \in 1..Len(docs') : tasks'[i] # docs'[l].did
    <3> SUFFICES ASSUME NEW i \in 1..Len(tasks'), NEW l \in 1..Len(docs')
                 PROVE  tasks'[i] # docs'[l].did
      OBVIOUS
    <3>1. CASE l \in 1..Len(docs)
      <4>1. \A j \in 1..Len(tasks) : tasks[j] # docs[l].did
        BY <3>1 DEF BInv, ResultsUnderway
      <4>2. tasks'[i] # docs[l].did
        BY <1>13, <4>1
      <4>3. docs'[l] = docs[l]
        BY <1>12, <3>1
      <4> QED
        BY <4>2, <4>3
    <3>2. CASE l = Len(docs) + 1
      BY <1>10, <1>12, <1>16, <3>2
    <3> QED
      BY <1>12, <3>1, <3>2
  <2>5. \A i \in 1..Len(tasks') : tasks'[i] \in 1..docids'.len
    BY <1>1, <1>16 DEF K
  <2> QED
    BY <1>3, <1>15, <2>1, <2>2, <2>3, <2>4, <2>5 DEF ResultsUnderway
<1>23. ResultsHad'
  <2>1. \A i \in 1..Len(tasks') : Base' + tasks'[i] \notin Had'
    BY <1>13, <1>15 DEF BInv, ResultsHad
  <2>2. \A i \in 1..Len(docs') : Base' + docs'[i].did \notin Had'
    <3>1. Base + t \notin Had
      BY <1>2 DEF BInv, ResultsHad, t
    <3>2. \A i \in 1..Len(docs) : Base + docs[i].did \notin Had
      BY DEF BInv, ResultsHad
    <3> QED
      BY <1>10, <1>12, <1>15, <3>1, <3>2
  <2> QED
    BY <1>1, <1>15, <2>1, <2>2 DEF BInv, ResultsHad, InHand
<1> QED
  BY <1>18, <1>19, <1>20, <1>21, <1>22, <1>23 DEF BInv

(* Every step keeps the second invariant, under the first.                 *)
LEMMA NextB == AInv /\ BInv /\ Freedom = {} /\ [Next]_vars => BInv'
<1> SUFFICES ASSUME AInv, BInv, Freedom = {}, [Next]_vars PROVE BInv'
  OBVIOUS
<1>1. CASE \E q \in Queries : StartQuery(q) \/ EndQuery(q)
  BY <1>1, CallQueryB
<1>2. CASE Match \/ GetNextAvailRes \/ DestroyIndex
  BY <1>2, MatchB, GetNextAvailResB, WaitingB
<1>3. CASE Call
  BY <1>3, AwaitBatchEndB, ChangeQueriesB, TakeSpotB, PushDocumentB, TakeResultB, ReturnResultB,
     WaitingB DEF Call
<1>4. CASE MatchThread
  BY <1>4, ReadDocumentB, ReleaseSpotB, RunBatchB DEF MatchThread
<1>5. CASE Workers
  BY <1>5, PushResultB, WaitingB DEF Workers
<1>6. CASE Terminated \/ UNCHANGED vars
  BY <1>6, WaitingB DEF Terminated
<1> QED
  BY <1>1, <1>2, <1>3, <1>4, <1>5, <1>6 DEF Next

-------------------------------------------------------------------------------
(* Theorems.                                                                *)

(* The types of the interface, for any client: the part of TypeOK that     *)
(* does not depend on the order of the calls, and the account of the       *)
(* buffers and of the results.                                             *)
THEOREM FirstInvariantHolds == Spec => []AInv
<1>1. Init => AInv
  BY InitA
<1>2. AInv /\ [Next]_vars => AInv'
  BY NextA
<1> QED
  BY <1>1, <1>2, PTL DEF Spec

(* Whatever the client does, each of the 64 buffers is free, or given to   *)

(* MatchDocument, or holds the document of one JobDedup, until that has    *)
(* read it (matchdocjs_buff, top_impl.cpp:240-270).                        *)
THEOREM NoBufferOverwritten == Spec => []BuffersKept
<1>1. AInv => BuffersKept
  BY OneHolder
<1> QED
  BY <1>1, FirstInvariantHolds, PTL

(* Whatever the client does, GetNextAvailRes never finds docs empty once   *)
(* it was told of a result (top_impl.cpp:362-365).                         *)
THEOREM EveryResultIsThere == Spec => []ResultsBacked
<1>1. AInv => ResultsBacked
  BY DEF AInv
<1> QED
  BY <1>1, FirstInvariantHolds, PTL

(* The client of test.cpp has one batch in flight at a time: its ids, its  *)
(* documents and its results are those that BInv says.                     *)
THEOREM SecondInvariantHolds ==
    ASSUME Freedom = {}
    PROVE  Spec => []BInv
<1>1. Init => BInv
  BY InitB
<1>2. AInv /\ BInv /\ [Next]_vars => BInv'
  BY NextB
<1> QED
  BY <1>1, <1>2, FirstInvariantHolds, PTL DEF Spec

(* The types, with the bounds on our ids and on what the vectors hold.     *)
LEMMA Types == AInv /\ BInv => TypeOK
<1> SUFFICES ASSUME AInv, BInv PROVE TypeOK
  OBVIOUS
<1>1. /\ docids.len \in Nat /\ globaldocs.len \in Nat /\ docsofbatch \in Nat
      /\ Pushed \in Nat /\ our_id \in Nat /\ Len(asked) \in Nat
      /\ our_id <= Pushed /\ docids.len <= Pushed /\ globaldocs.len <= docids.len
      /\ Pushed <= Len(asked) /\ Len(asked) <= MaxDocs
  BY BatchFacts DEF AInv, BInv, ClientShape, OurIds
<1>2. our_id \in 0..MaxDocs /\ docids.len \in 0..MaxDocs /\ globaldocs.len \in 0..MaxDocs
  <2> DEFINE a == docids.len
             b == globaldocs.len
             c == Len(asked)
  <2>1. /\ a \in Nat /\ b \in Nat /\ c \in Nat /\ Pushed \in Nat /\ our_id \in Nat /\ MaxDocs \in Nat
        /\ our_id <= Pushed /\ a <= Pushed /\ b <= a /\ Pushed <= c /\ c <= MaxDocs
    BY <1>1, SizeAssumption
  <2> HIDE DEF a, b, c
  <2>2. our_id \in 0..MaxDocs /\ a \in 0..MaxDocs /\ b \in 0..MaxDocs
    BY <2>1
  <2> QED
    BY <2>2 DEF a, b
<1>3. unannounced \in Nat /\ ResAvail \in Nat /\ batchEnd \in Nat
  BY DEF AInv, ThreadShape
<1> QED
  BY <1>1, <1>2, <1>3 DEF AInv, BInv, ClientShape, ThreadShape, CallOrder, TypeOK

(* The types hold for the client of test.cpp; in particular our ids and    *)
(* the vectors stay within the documents that were pushed, and docsofbatch *)
(* is never negative.                                                      *)
THEOREM TypesHold ==
    ASSUME Freedom = {}
    PROVE  Spec => []TypeOK
<1>1. AInv /\ BInv => TypeOK
  BY Types
<1>2. Spec => []BInv
  BY SecondInvariantHolds
<1> QED
  BY <1>1, <1>2, FirstInvariantHolds, PTL

(* The client has had results of documents that it pushed.                 *)
LEMMA HadWasPushed ==
    ASSUME AInv, BInv
    PROVE  Had \subseteq 1..Len(asked)
<1> DEFINE n == docids.len
           l == Len(asked)
           e == IF Ran THEN 0 ELSE n
<1>1. Had \subseteq 1..(Pushed - e)
  BY DEF BInv, ResultsHad
<1>2. Pushed \in Nat /\ n \in Nat /\ l \in Nat /\ Pushed <= l
  BY BatchFacts
<1>3. e \in Nat
  BY <1>2
<1> HIDE DEF n, l, e
<1>4. 1..(Pushed - e) \subseteq 1..l
  BY <1>2, <1>3
<1> QED
  BY <1>1, <1>4 DEF l

(* No document is returned twice, none that was not pushed.                *)
THEOREM EachDocumentOnce ==
    ASSUME Freedom = {}
    PROVE  Spec => []DeliveredOnce
<1>1. AInv /\ BInv => DeliveredOnce
  <2> SUFFICES ASSUME AInv, BInv PROVE DeliveredOnce
    OBVIOUS
  <2>1. DOMAIN returned = 1..Len(returned) /\ DOMAIN asked = 1..Len(asked)
    BY DEF AInv, ClientShape
  <2>2. Had \subseteq 1..Len(asked)
    BY HadWasPushed
  <2>3. \A i \in 1..Len(returned) : returned[i].doc \in Had
    BY DEF Had
  <2> QED
    BY <2>1, <2>2, <2>3 DEF DeliveredOnce, BInv, ResultsHad
<1>2. Spec => []BInv
  BY SecondInvariantHolds
<1> QED
  BY <1>1, <1>2, FirstInvariantHolds, PTL

(* A result is made of the words of its document and of the queries that   *)
(* were active when the document was pushed, although it is computed later *)
(* and under an id of ours (top_impl.cpp:371).                             *)
THEOREM EachResultRight ==
    ASSUME Freedom = {}
    PROVE  Spec => []RightResult
<1>1. AInv /\ BInv => RightResult
  <2> SUFFICES ASSUME AInv, BInv, NEW i \in 1..Len(returned)
               PROVE  /\ returned[i].words = {returned[i].doc}
                      /\ returned[i].queries = asked[returned[i].doc]
    BY DEF RightResult, AInv, ClientShape
  <2>1. returned[i] = [doc |-> returned[i].doc, words |-> {returned[i].doc},
                       queries |-> asked[returned[i].doc]]
    BY DEF BInv, ResultsHad
  <2> QED
    BY <2>1
<1>2. Spec => []BInv
  BY SecondInvariantHolds
<1> QED
  BY <1>1, <1>2, FirstInvariantHolds, PTL

(* RunEnd clears the batch, and the queries change, only between batches.  *)
LEMMA StepsAreQuiet ==
    ASSUME AInv, BInv, Freedom = {}, [Next]_vars
    PROVE  QuietChange
<1>1. CASE TakeResult
  <2>1. pc = "take" /\ draining /\ active' = active /\ tasks' = tasks
    BY <1>1 DEF TakeResult, queryVars, threadVars, BInv, CallOrder
  <2>2. docs # <<>> /\ Len(docs) \in Nat /\ Len(docs) >= 1
    <3>1. docs \in Seq(Results) /\ docs # <<>>
      BY <1>1 DEF AInv, ThreadShape, ResultsBacked, TakeResult
    <3> QED
      BY <3>1, TailOf
  <2>3. Ran
    BY <2>2 DEF BInv, ResultsUnderway
  <2>4. SUFFICES ASSUME globaldocs'.len < globaldocs.len
                 PROVE  QuietThreads /\ unannounced = 0
    BY <2>1 DEF QuietChange
  <2>5. docsofbatch - 1 = 0
    <3>1. ~(globaldocs.len < globaldocs.len)
      BY BatchFacts
    <3>2. docsofbatch' = 0
      BY <1>1, <2>4, <3>1 DEF TakeResult, batchVars
    <3> QED
      BY <1>1, <3>2 DEF TakeResult
  <2>6. Len(tasks) = 0 /\ Len(docs) = 1
    <3> DEFINE a == Len(tasks)
               c == Len(docs)
    <3>1. docsofbatch = a + c /\ a \in Nat /\ c \in Nat /\ c >= 1 /\ docsofbatch \in Nat
      BY <2>2, <2>3, BatchFacts DEF BInv, DocsCounted
    <3> HIDE DEF a, c
    <3>2. a = 0 /\ c = 1
      BY <2>5, <3>1
    <3> QED
      BY <3>2 DEF a, c
  <2>7. mdq = <<>> /\ tasks = <<>>
    BY <2>3, <2>6, EmptySeq DEF Ran, AInv, ThreadShape
  <2>8. unannounced = 0
    <3>1. ResAvail + unannounced + 1 = 1 /\ ResAvail \in Nat /\ unannounced \in Nat
      BY <2>1, <2>6 DEF AInv, ThreadShape, ResultsBacked
    <3> QED
      BY <3>1
  <2> QED
    BY <2>7, <2>8 DEF QuietThreads
<1>2. CASE ChangeQueries
  <2>1. docsofbatch = 0 /\ pc \in {"start", "end"} /\ globaldocs' = globaldocs
    BY <1>2 DEF ChangeQueries, batchVars, BInv, CallOrder
  <2>2. QuietThreads
    BY <2>1, NothingUnderway DEF QuietThreads
  <2>3. Outstanding = 0
    <3>1. pc \notin {"spot", "return"}
      BY <2>1
    <3>2. Len(asked) - Len(returned) = 0 + 0
      BY <2>1, <3>1 DEF BInv, DocsCounted
    <3> QED
      BY <3>2 DEF Outstanding
  <2>4. ~(globaldocs.len < globaldocs.len)
    BY BatchFacts
  <2> QED
    BY <2>1, <2>2, <2>3, <2>4 DEF QuietChange
<1>3. CASE ReadDocument
  <2>1. active' = active
    BY <1>3 DEF ReadDocument, queryVars
  <2>2. globaldocs'.len = globaldocs.len + 1
    BY <1>3 DEF ReadDocument, PushBack
  <2>3. ~(globaldocs.len + 1 < globaldocs.len)
    BY BatchFacts
  <2> QED
    BY <2>1, <2>2, <2>3 DEF QuietChange
<1>4. CASE active' = active /\ globaldocs' = globaldocs
  <2>1. ~(globaldocs.len < globaldocs.len)
    BY BatchFacts
  <2> QED
    BY <1>4, <2>1 DEF QuietChange
<1>5. CASE \E q \in Queries : StartQuery(q) \/ EndQuery(q)
  BY <1>4, <1>5 DEF StartQuery, EndQuery, queryVars, batchVars
<1>6. CASE Match \/ GetNextAvailRes \/ DestroyIndex
  BY <1>4, <1>6 DEF Match, GetNextAvailRes, DestroyIndex, queryVars, batchVars
<1>7. CASE AwaitBatchEnd \/ TakeSpot \/ PushDocument \/ AwaitResult \/ ReturnResult \/ Destroyed
  BY <1>4, <1>7 DEF AwaitBatchEnd, TakeSpot, PushDocument, AwaitResult, ReturnResult, Destroyed,
                    queryVars, batchVars
<1>8. CASE ReleaseSpot \/ RunBatch
  BY <1>4, <1>8 DEF ReleaseSpot, RunBatch, queryVars, batchVars
<1>9. CASE Workers
  BY <1>4, <1>9 DEF Workers, PushResult, Announce, queryVars, batchVars
<1>10. CASE Terminated \/ UNCHANGED vars
  BY <1>4, <1>10 DEF Terminated, vars, queryVars, batchVars
<1> QED
  BY <1>1, <1>2, <1>3, <1>5, <1>6, <1>7, <1>8, <1>9, <1>10 DEF Next, Call, MatchThread

(* RunEnd clears globaldocs, docids and the words of the batch, and the    *)
(* index of queries has no lock: nobody is at work on what they change     *)
(* (top_impl.cpp:352-360, 134-172).                                        *)
THEOREM NobodyDisturbed ==
    ASSUME Freedom = {}
    PROVE  Spec => ChangesAreQuiet
<1>1. AInv /\ BInv /\ [Next]_vars => [QuietChange]_vars
  BY StepsAreQuiet
<1>2. Spec => []BInv
  BY SecondInvariantHolds
<1> QED
  BY <1>1, <1>2, FirstInvariantHolds, PTL DEF Spec, ChangesAreQuiet

-------------------------------------------------------------------------------
(* The contract of core.h.                                                  *)

(* Each step is a step of the contract, or none.                           *)
LEMMA StepsOfTheContract ==
    ASSUME AInv, BInv, Freedom = {}, [Next]_vars
    PROVE  [core!Next]_(core!vars)
<1>1. CASE ChangeQueries
  <2>1. /\ pc = "start" => arg \notin active
        /\ pc = "end" => arg \in active
    BY DEF BInv, CallOrder
  <2>2. /\ pc \in {"start", "end"} /\ UNCHANGED <<asked, returned>>
        /\ active' = IF pc = "start" THEN active \union {arg} ELSE active \ {arg}
    BY <1>1 DEF ChangeQueries, history
  <2>3. CASE pc = "start"
    <3>1. core!StartQuery
      BY <2>1, <2>2, <2>3 DEF core!StartQuery
    <3> QED
      BY <3>1 DEF core!Next
  <2>4. CASE pc = "end"
    <3>1. core!EndQuery
      BY <2>1, <2>2, <2>4 DEF core!EndQuery
    <3> QED
      BY <3>1 DEF core!Next
  <2> QED
    BY <2>2, <2>3, <2>4
<1>2. CASE Match
  <2>1. core!MatchDocument
    BY <1>2 DEF Match, queryVars, core!MatchDocument
  <2> QED
    BY <2>1 DEF core!Next
<1>3. CASE ReturnResult
  <2>1. /\ pc = "return" /\ UNCHANGED <<active, asked>>
    BY <1>3 DEF ReturnResult, queryVars
  <2>2. /\ result.did \in 1..Len(docids.at)
        /\ result.words = {InHand} /\ result.queries = asked[InHand]
        /\ \A i \in 1..Len(returned) : returned[i].doc # InHand
        /\ InHand \in Had
    BY <2>1 DEF BInv, ResultsHad, Had
  <2>3. result.did \in DOMAIN docids.at
    BY <2>2 DEF AInv, ClientShape, Stores
  <2>4. returned' = Append(returned,
                           [doc |-> InHand, words |-> {InHand}, queries |-> asked[InHand]])
    BY <1>3, <2>2, <2>3 DEF ReturnResult, InHand
  <2>5. InHand \in DOMAIN asked
    BY <2>2, HadWasPushed DEF AInv, ClientShape
  <2>6. \A i \in DOMAIN returned : returned[i].doc # InHand
    BY <2>2 DEF AInv, ClientShape
  <2>7. core!GetNextAvailRes
    BY <2>1, <2>4, <2>5, <2>6 DEF core!GetNextAvailRes
  <2> QED
    BY <2>7 DEF core!Next
<1>4. CASE UNCHANGED <<active, asked, returned>>
  BY <1>4 DEF core!vars
<1>5. CASE \E q \in Queries : StartQuery(q) \/ EndQuery(q)
  BY <1>4, <1>5 DEF StartQuery, EndQuery, queryVars, history
<1>6. CASE GetNextAvailRes \/ DestroyIndex
  BY <1>4, <1>6 DEF GetNextAvailRes, DestroyIndex, queryVars, history
<1>7. CASE AwaitBatchEnd \/ TakeSpot \/ PushDocument \/ AwaitResult \/ TakeResult \/ Destroyed
  BY <1>4, <1>7 DEF AwaitBatchEnd, TakeSpot, PushDocument, AwaitResult, TakeResult, Destroyed,
                    queryVars, history
<1>8. CASE MatchThread
  BY <1>4, <1>8 DEF MatchThread, ReadDocument, ReleaseSpot, RunBatch, queryVars, history
<1>9. CASE Workers
  BY <1>4, <1>9 DEF Workers, PushResult, Announce, queryVars, history
<1>10. CASE Terminated \/ UNCHANGED vars
  BY <1>4, <1>10 DEF Terminated, vars, queryVars, history
<1> QED
  BY <1>1, <1>2, <1>3, <1>5, <1>6, <1>7, <1>8, <1>9, <1>10 DEF Next, Call

(* The interface as test.cpp uses it does what core.h says: one result for *)
(* each document, in any order, made of the queries that were active when  *)
(* MatchDocument was called (Includes/core.h:120-228).                     *)
THEOREM InterfaceImplementsCore ==
    ASSUME Freedom = {}
    PROVE  Spec => ImplementsCore
<1>1. Init => core!Init
  BY DEF Init, core!Init
<1>2. AInv /\ BInv /\ [Next]_vars => [core!Next]_(core!vars)
  BY StepsOfTheContract
<1>3. Spec => []BInv
  BY SecondInvariantHolds
<1> QED
  BY <1>1, <1>2, <1>3, FirstInvariantHolds, PTL DEF Spec, ImplementsCore, core!Spec
===============================================================================

----------------------------- MODULE TokenManager -----------------------------
(***************************************************************************)
(* The token index: which pairs of a document word and a query token are   *)
(* known to be related, batch after batch (README:25).  A string is        *)
(* stored once, as one TokenInfo which may be a query token, a document    *)
(* word or both.  Only what is new is searched: in a batch the query       *)
(* tokens that are new or ask for more (qbrandnew) against every word      *)
(* hashed so far, and the new words (dbrandnew) against every token        *)
(* hashed so far.  BatchPipeline shows that a batch hashes everything      *)
(* before it searches; here a batch is one step.                           *)
(*                                                                         *)
(* What a deletion neighbourhood finds is a constant: two strings within   *)
(* an edit distance of k share one of level k, and those that do are       *)
(* related when stavroshtein says so, up to a distance of 3.               *)
(***************************************************************************)
EXTENDS Integers, FiniteSets

CONSTANTS
    Tokens,         \* the strings
    Dist,           \* the edit distance of two of them; 4 stands for more
    Share,          \* Share[k]: the pairs that share a k-deletion
    Requests,       \* what a query asks of one of its tokens
    Dids,           \* our ids of the documents of a batch
    MaxBatches      \* bound: the number of batches

Level == 0..3

ASSUME DistAssumption == Dist \in [Tokens \X Tokens -> 0..4]
ASSUME ShareAssumption ==
    \A k \in Level, d, t \in Tokens : Dist[d, t] <= k => <<d, t>> \in Share[k]
ASSUME RequestAssumption ==
    /\ Requests \subseteq [token : Tokens, type : {"exact", "ham", "edit"}, dist : Level, id : Nat]
    /\ \A r \in Requests : r.type = "exact" <=> r.dist = 0
ASSUME BatchesAssumption == MaxBatches \in Nat

VARIABLES
    querypointer_,      \* the requests in the lists of the tokens
    isqueryt_,          \* the tokens that are or were query tokens
    highest_request,    \* of each token
    qbrandnew,          \* the query tokens to hash
    qbrandnew_,         \* qbrandnew0 .. qbrandnew3: the query tokens to search
    isdoct_,            \* the tokens that are document words
    memory_refreshed,   \* the words whose hashes a Restart dropped
    docpointer_,        \* for each word, the documents of the batch that have it
    lastbatch_,         \* for each word, the batch that had it last
    wordbatchv,         \* the words of the batch
    dbrandnew,          \* the words to hash and to search
    qhash_, dhash_,     \* the tokens, the words hashed
    rel,                \* the related pairs of a word and a token
    batchno,
    phase,              \* what the client may do, as TopImpl has it
    content             \* history: the words of each document of the batch

queryVars == <<querypointer_, isqueryt_, highest_request, qbrandnew, qbrandnew_>>
wordVars  == <<isdoct_, memory_refreshed, docpointer_, lastbatch_, wordbatchv, dbrandnew>>
hashVars  == <<qhash_, dhash_, rel>>
vars == <<queryVars, wordVars, hashVars, batchno, phase, content>>

Init ==
    /\ querypointer_ = {} /\ isqueryt_ = {}
    /\ highest_request = [t \in Tokens |-> 0]
    /\ qbrandnew = {} /\ qbrandnew_ = [k \in Level |-> {}]
    /\ isdoct_ = {} /\ memory_refreshed = {}
    /\ docpointer_ = [d \in Tokens |-> {}]
    /\ lastbatch_ = [d \in Tokens |-> -1]
    /\ wordbatchv = {} /\ dbrandnew = {}
    /\ qhash_ = {} /\ dhash_ = {} /\ rel = {}
    /\ batchno = 0 /\ phase = "queries"
    /\ content = [i \in Dids |-> {}]

(* The requests of a token.                                                *)
Of(pointer, t) == {r \in pointer : r.token = t}

-------------------------------------------------------------------------------
(* Queries.                                                                *)

(* Which qbrandnew a token joins by its bits: the edit bits go first, and  *)
(* hide a hamming bit of a higher distance.                                *)
BitsLevel(requests) ==
    LET of(type) == {r.dist : r \in {r \in requests : r.type = type}}
        bits     == IF of("edit") # {} THEN of("edit")
                    ELSE IF of("ham") # {} THEN of("ham") ELSE {0}
    IN  CHOOSE k \in bits : \A l \in bits : l <= k

(* TokenInfo::InsertQmid raises highest_request to the highest bit.        *)
Raised(requests, highest) ==
    CHOOSE k \in {highest} \union {r.dist : r \in requests} :
        \A l \in {highest} \union {r.dist : r \in requests} : l <= k

(* AddQueryToken, AddQueryToken2: the token was not a query token.         *)
NewQueryToken(r) ==
    /\ r.token \notin isqueryt_
    /\ isqueryt_' = isqueryt_ \union {r.token}
    /\ highest_request' = [highest_request EXCEPT ![r.token] = r.dist]
    /\ qbrandnew' = qbrandnew \union {r.token}
    /\ qbrandnew_' = [qbrandnew_ EXCEPT ![BitsLevel({r})] = @ \union {r.token}]

(* Mutant of InsertNewQmid: a token that asks for more is not searched.    *)
InsertNewQmid_NoPush(r) ==
    /\ r.token \in isqueryt_
    /\ highest_request' = [highest_request EXCEPT ![r.token] =
                               Raised(Of(querypointer_, r.token) \union {r}, @)]
    /\ UNCHANGED <<isqueryt_, qbrandnew, qbrandnew_>>

(* InsertNewQmid: it was, and is searched again if it asks for more.       *)
InsertNewQmid(r) ==
    /\ r.token \in isqueryt_
    /\ LET old  == highest_request[r.token]
           high == Raised(Of(querypointer_, r.token) \union {r}, old)
       IN  /\ highest_request' = [highest_request EXCEPT ![r.token] = high]
           /\ qbrandnew_' = IF high = old THEN qbrandnew_
                            ELSE [qbrandnew_ EXCEPT ![high] = @ \union {r.token}]
    /\ UNCHANGED <<isqueryt_, qbrandnew>>

AddQueryToken(r) ==
    /\ phase = "queries"
    /\ r \notin querypointer_
    /\ querypointer_' = querypointer_ \union {r}
    /\ NewQueryToken(r) \/ InsertNewQmid(r)
    /\ UNCHANGED <<wordVars, hashVars, batchno, phase, content>>

(* RemoveQmid: the last request takes highest_request back to 0.           *)
RemoveTokenQmidInfo(r) ==
    /\ phase = "queries"
    /\ r \in querypointer_
    /\ querypointer_' = querypointer_ \ {r}
    /\ highest_request' = [highest_request EXCEPT ![r.token] =
                               IF Of(querypointer_, r.token) = {r} THEN 0 ELSE @]
    /\ UNCHANGED <<isqueryt_, qbrandnew, qbrandnew_, wordVars, hashVars, batchno, phase, content>>

-------------------------------------------------------------------------------
(* Document words.                                                         *)

(* SpaceBySize::AddDocToken, AddDocToken2: it was not a document word.     *)
NewDocToken(d) ==
    /\ d \notin isdoct_
    /\ isdoct_' = isdoct_ \union {d}
    /\ dbrandnew' = dbrandnew \union {d}
    /\ UNCHANGED memory_refreshed

(* InsertNewDocid: it was, and is hashed again if a Restart dropped it.    *)
InsertNewDocid(d) ==
    /\ d \in isdoct_
    /\ dbrandnew' = IF d \in memory_refreshed THEN dbrandnew \union {d} ELSE dbrandnew
    /\ memory_refreshed' = memory_refreshed \ {d}
    /\ UNCHANGED isdoct_

(* TokenInfo::InsertDid: the document, and the batch.                      *)
InsertDid(d, did) ==
    /\ docpointer_' = [docpointer_ EXCEPT ![d] = @ \union {did}]
    /\ lastbatch_' = [lastbatch_ EXCEPT ![d] = batchno]

(* AddDocToken, called by JobDedup for one word of a document.             *)
AddDocToken(d, did) ==
    /\ phase \in {"queries", "docs"} /\ batchno < MaxBatches
    /\ NewDocToken(d) \/ InsertNewDocid(d)
    /\ InsertDid(d, did)
    /\ wordbatchv' = IF lastbatch_[d] # batchno THEN wordbatchv \union {d} ELSE wordbatchv
    /\ content' = [content EXCEPT ![did] = @ \union {d}]
    /\ phase' = "docs"
    /\ UNCHANGED <<queryVars, hashVars, batchno>>

-------------------------------------------------------------------------------
(* A batch.                                                                *)

(* SetDimis, SetDimisAnapodi: the pairs a search of level k relates.       *)
Found(words, tokens, k) ==
    {p \in words \X tokens : p \in Share[k] /\ Dist[p] <= 3}

(* QD0 .. QD3: the new tokens against every word.                          *)
QD == UNION {Found(dhash_ \union dbrandnew, qbrandnew_[k], k) : k \in Level}

(* DQ: the new words against every token, from the second batch on.        *)
DQ == IF batchno = 0 THEN {} ELSE Found(dbrandnew, qhash_ \union qbrandnew, 3)

(* JobRun up to the third row of barriers.                                 *)
MatchBatch ==
    /\ phase = "docs"
    /\ phase' = "matched"
    /\ dhash_' = dhash_ \union dbrandnew
    /\ qhash_' = qhash_ \union qbrandnew
    /\ rel' = rel \union QD \union DQ
    /\ UNCHANGED <<queryVars, wordVars, batchno, content>>

(* Mutant of Restart: query tokens are marked too.                         *)
Restart_MarksQueries ==
    LET active == {t \in Tokens : Of(querypointer_, t) # {}}
    IN  /\ qbrandnew' = active
        /\ qbrandnew_' = [k \in Level |->
                             {t \in active : BitsLevel(Of(querypointer_, t)) = k}]
        /\ memory_refreshed' = isdoct_ \union isqueryt_
        /\ dhash_' = {}
        /\ rel' = {}

(* TokenManager::Restart, after NewBatch: forget the words and the pairs.  *)
Restart ==
    LET active == {t \in Tokens : Of(querypointer_, t) # {}}
    IN  /\ qbrandnew' = active
        /\ qbrandnew_' = [k \in Level |->
                             {t \in active : BitsLevel(Of(querypointer_, t)) = k}]
        /\ memory_refreshed' = isdoct_
        /\ dhash_' = {}
        /\ rel' = {}

(* TokenManager::NewBatch: forget what was new.                            *)
NewBatch ==
    /\ qbrandnew' = {}
    /\ qbrandnew_' = [k \in Level |-> {}]
    /\ UNCHANGED <<memory_refreshed, dhash_, rel>>

(* Mutant of ClearBatch: the words keep their documents.                   *)
ClearBatch_KeepsIds ==
    /\ dbrandnew' = {} /\ wordbatchv' = {}
    /\ UNCHANGED docpointer_

(* The rest of RunEnd: the words of the batch and their documents.         *)
ClearBatch ==
    /\ dbrandnew' = {} /\ wordbatchv' = {}
    /\ docpointer_' = [d \in Tokens |-> IF d \in wordbatchv THEN {} ELSE docpointer_[d]]

(* RunEnd; it calls Restart when the process has grown past 75 GB.         *)
RunEnd ==
    /\ phase = "matched"
    /\ phase' = "queries"
    /\ NewBatch \/ Restart
    /\ ClearBatch
    /\ batchno' = batchno + 1
    /\ content' = [i \in Dids |-> {}]
    /\ UNCHANGED <<querypointer_, isqueryt_, highest_request, isdoct_, lastbatch_, qhash_>>

Next ==
    \/ \E r \in Requests : AddQueryToken(r) \/ RemoveTokenQmidInfo(r)
    \/ \E d \in Tokens, did \in Dids : AddDocToken(d, did)
    \/ MatchBatch
    \/ RunEnd

Spec == Init /\ [][Next]_vars

-------------------------------------------------------------------------------
(* Properties.                                                             *)

TypeOK ==
    /\ querypointer_ \subseteq Requests
    /\ isqueryt_ \subseteq Tokens /\ isdoct_ \subseteq Tokens
    /\ highest_request \in [Tokens -> Level]
    /\ qbrandnew \subseteq isqueryt_ /\ qbrandnew_ \in [Level -> SUBSET Tokens]
    /\ memory_refreshed \subseteq isdoct_
    /\ docpointer_ \in [Tokens -> SUBSET Dids]
    /\ lastbatch_ \in [Tokens -> -1..MaxBatches]
    /\ wordbatchv \subseteq isdoct_ /\ dbrandnew \subseteq isdoct_
    /\ qhash_ \subseteq isqueryt_ /\ dhash_ \subseteq isdoct_
    /\ rel \subseteq Tokens \X Tokens
    /\ batchno \in 0..MaxBatches
    /\ phase \in {"queries", "docs", "matched"}
    /\ content \in [Dids -> SUBSET Tokens]

(* Searching only what is new finds every pair: when a batch has been      *)
(* matched, each of its words is related to each token that an active      *)
(* query asks it of, whichever came first, however the requests of the     *)
(* token rose and fell, and whatever a Restart forgot.                     *)
RelationsComplete ==
    phase = "matched" =>
        \A d \in wordbatchv, r \in querypointer_ :
            Dist[d, r.token] <= r.dist => <<d, r.token>> \in rel

(* The words and documents GenerateRes goes through are those of the batch *)
(* and of no batch before it.                                              *)
WordsOfTheBatch ==
    /\ \A i \in Dids : content[i] = {d \in wordbatchv : i \in docpointer_[d]}
    /\ \A d \in Tokens \ wordbatchv : docpointer_[d] = {}
===============================================================================

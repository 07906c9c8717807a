------------------------------ MODULE DocumentPath -----------------------------
(***************************************************************************)
(* The way of a string through the program: StartQuery splits a query into *)
(* words, JobDedup a document; the searches note in a table of each thread *)
(* which word matches which token; GenerateRes goes from the words of the  *)
(* batch, by those tables and the lists of the tokens, to the positions of *)
(* the queries, and CheckQmid counts them for each document.               *)
(*                                                                         *)
(* A string is a sequence of letters, 1, 2, .., and of 0 for a space;      *)
(* positions count from 0 as in the code.  How a pair is found             *)
(* (DeletionSearch, TokenManager), what keeps the phases of a batch apart  *)
(* (BatchPipeline) and how queries share cells (QueryIndex) is not         *)
(* repeated here: a batch does one phase after the other.                  *)
(***************************************************************************)
EXTENDS Distances, Functions

CONSTANTS
    Queries,            \* the sequences of queries to try
    Batches,            \* the sequences of documents that may be a batch
    MaxBatches,         \* bound: batches in a run
    THREADS,            \* the threads of js
    MIN_WORD_LENGTH, MAX_WORD_LENGTH

Lengths == MIN_WORD_LENGTH..MAX_WORD_LENGTH

(* The words of a string: its letters between spaces.                      *)
Words(str) ==
    {SubSeq(str, i, j) : <<i, j>> \in
        {<<i, j>> \in (DOMAIN str) \X (DOMAIN str) :
            /\ i <= j /\ \A x \in i..j : str[x] # 0
            /\ i = 1 \/ str[i - 1] = 0
            /\ j = Len(str) \/ str[j + 1] = 0}}

(* How the words of documents match those of queries.                      *)
DocWords == UNION {UNION {Words(d) : d \in Range(ds)} : ds \in Batches}
QueryWords == UNION {UNION {Words(q.str) : q \in Range(qs)} : qs \in Queries}
Matches == [v \in DocWords, w \in QueryWords |-> Bits(v, w)]

(* core.h:130-133 and 184-187: words have a length that there is an index  *)
(* for; a longer one would overrun buff of StartQuery, or wordbatchv.      *)
ASSUME InputAssumption ==
    /\ \A ds \in Batches : ds \in Seq(Seq(Nat)) /\ ds # <<>>
    /\ \A qs \in Queries : qs \in Seq([str : Seq(Nat), type : 0..6])
    /\ \A w \in DocWords \union QueryWords : Len(w) \in Lengths
ASSUME LimitsAssumption ==
    /\ MIN_WORD_LENGTH \in Nat \ {0} /\ MAX_WORD_LENGTH \in MIN_WORD_LENGTH..99
    /\ MaxBatches \in Nat

VARIABLES
    queries,    \* the queries that are started
    cells,      \* the words of each, in order
    docs,       \* the documents of the batch; a did is an index
    at,         \* the loops that split: the query or document, and the position in it
    doc_end,    \* the document is read
    tokens_,    \* by length: the strings, of which the position less one is the id
    docinfo,    \* by the key of a document word: its documents and the batch it was in
    wordbatchv, \* by length: the keys of the words of the batch
    rel,        \* by thread: the relations, a word's key with a token and the bits
    jobs,       \* of JobGenRes, with the part of a list that each has left
    results,    \* the bitarea: the tokens that are set by document, and how many a query has
    answer,     \* by document: the queries that match it
    batchno,
    pc

vars == <<queries, cells, docs, at, doc_end, tokens_, docinfo, wordbatchv, rel, jobs, results,
          answer, batchno, pc>>

Start(n) == [n |-> n, i |-> 0]

(* A word that no document has had yet.                                    *)
TokenInfo == [dids |-> <<>>, lastbatch |-> -1]

(* A new table of a thread.                                                *)
Relations == {}

(* A new bitarea: no token of a query is set, and each query has as many   *)
(* as the index says.                                                      *)
bitarea == [token |-> {}, count |-> [q \in DOMAIN cells |-> Len(cells[q])]]

NoBitarea == [token |-> {}, count |-> <<>>]

Init ==
    /\ queries \in Queries
    /\ cells = [n \in DOMAIN queries |-> <<>>]
    /\ docs = <<>> /\ at = Start(1) /\ doc_end = FALSE
    /\ tokens_ = [l \in Lengths |-> <<>>]
    /\ docinfo = [k \in {} |-> [dids |-> <<>>, lastbatch |-> -1]]
    /\ wordbatchv = [l \in Lengths |-> <<>>]
    /\ rel = [th \in THREADS |-> Relations]
    /\ jobs = {} /\ results = NoBitarea /\ answer = <<>>
    /\ batchno = 0 /\ pc = IF queries = <<>> THEN "idle" ELSE "query"

-------------------------------------------------------------------------------
(* Strings and tokens.                                                     *)

At(str, i) == str[i + 1]

(* The loop past the spaces, and the loop past the letters, from i on.     *)
PastSpaces(str, i)  == MinOf({j \in i..Len(str) : j = Len(str) \/ At(str, j) # 0})
PastLetters(str, i) == MinOf({j \in i..Len(str) : j = Len(str) \/ At(str, j) = 0})

(* TokenId, its key and back.                                              *)
TokenId(length, id) == [length |-> length, id |-> id]
Key(tid) == tid.id * 100 + tid.length
(* Mutant of FromKey: length and id are swapped.                           *)
FromKey_Swapped(key) == TokenId(key \div 100, key % 100)

FromKey(key) == TokenId(key % 100, key \div 100)

(* SpaceBySize::GetTokenString.                                            *)
TokenString(tid) == tokens_[tid.length][tid.id + 1]

(* LookUpTokenExactManager.                                                *)
Known(tokens, word) == word \in ToSet(tokens[Len(word)])

(* SpaceBySize: a string that is not known gets the next id.               *)
Stored(tokens, word) ==
    IF Known(tokens, word) THEN tokens ELSE [tokens EXCEPT ![Len(word)] = Append(@, word)]

IdOf(tokens, word) ==
    TokenId(Len(word), (CHOOSE i \in DOMAIN tokens[Len(word)] : tokens[Len(word)][i] = word) - 1)

-------------------------------------------------------------------------------
(* StartQuery.                                                             *)

(* strcmp(v, w) < 0                                                        *)
Less(v, w) ==
    \E i \in 0..Len(v) :
        /\ i < Len(w) /\ \A j \in 1..i : v[j] = w[j]
        /\ i = Len(v) \/ v[i + 1] < w[i + 1]

(* Query::AddToken: in order, and once.                                    *)
AddToken(words, word) ==
    IF word \in ToSet(words) THEN words
    ELSE SelectSeq(words, LAMBDA v : Less(v, word)) \o <<word>>
         \o SelectSeq(words, LAMBDA v : Less(word, v))

(* Once through the loop over the string: if it ends in a space, the last  *)
(* word is empty.                                                          *)
SplitQuery ==
    /\ pc = "query"
    /\ LET str  == queries[at.n].str
           from == PastSpaces(str, at.i)
           to   == PastLetters(str, from)
       IN  /\ at.i < Len(str)
           /\ cells' = [cells EXCEPT ![at.n] = AddToken(@, SubSeq(str, from + 1, to))]
           /\ at' = [at EXCEPT !.i = to]
    /\ UNCHANGED <<queries, docs, doc_end, tokens_, docinfo, wordbatchv, rel, jobs, results,
                   answer, batchno, pc>>

(* AddQuery, with AddQueryToken of each word, which does nothing if the    *)
(* length is out of range.                                                 *)
AddQuery ==
    /\ pc = "query"
    /\ at.i = Len(queries[at.n].str)
    /\ tokens_' = FoldLeft(Stored, tokens_, SelectSeq(cells[at.n], LAMBDA w : Len(w) \in Lengths))
    /\ at' = Start(IF at.n < Len(queries) THEN at.n + 1 ELSE 1)
    /\ pc' = IF at.n < Len(queries) THEN "query" ELSE "idle"
    /\ UNCHANGED <<queries, cells, docs, doc_end, docinfo, wordbatchv, rel, jobs, results,
                   answer, batchno>>

(* querypointer_[bit] of a token: the queries that have it, with the       *)
(* position that it has in each.                                           *)
QmidsOf(word, bit) ==
    {<<q, p>> \in (DOMAIN cells) \X (0..4) :
        p < Len(cells[q]) /\ At(cells[q], p) = word /\ queries[q].type = bit}

-------------------------------------------------------------------------------
(* JobDedup.                                                               *)

MatchDocument ==
    /\ pc = "idle" /\ batchno < MaxBatches
    /\ docs' \in Batches
    /\ at' = Start(1) /\ doc_end' = (docs'[1] = <<>>)
    /\ pc' = "read"
    /\ UNCHANGED <<queries, cells, tokens_, docinfo, wordbatchv, rel, jobs, results, answer, batchno>>

(* NewDocToken and InsertDid: a document is noted once.                    *)
InsertDid(key, did) ==
    LET old  == IF key \in DOMAIN docinfo THEN docinfo[key] ELSE TokenInfo
        dids == IF old.dids # <<>> /\ Last(old.dids) = did THEN old.dids ELSE Append(old.dids, did)
    IN  [k \in DOMAIN docinfo \union {key} |->
            IF k = key THEN [dids |-> dids, lastbatch |-> batchno] ELSE docinfo[k]]

(* AddDocToken, and the word joins the batch unless it is in it.           *)
AddDocToken(word) ==
    LET tokens == Stored(tokens_, word)
        key    == Key(IdOf(tokens, word))
        exists == key \in DOMAIN docinfo /\ docinfo[key].lastbatch = batchno
    IN  /\ tokens_' = tokens
        /\ docinfo' = InsertDid(key, at.n)
        /\ wordbatchv' = IF exists THEN wordbatchv
                         ELSE [wordbatchv EXCEPT ![Len(word)] = Append(@, key)]

(* Mutant of ReadWord: the end of the string is seen in the next round.    *)
ReadWord_LateEnd ==
    /\ pc = "read" /\ ~doc_end
    /\ LET str  == docs[at.n]
           from == PastSpaces(str, at.i)
           to   == PastLetters(str, from)
       IN  /\ at' = [at EXCEPT !.i = to]
           /\ IF from = to
              THEN UNCHANGED <<tokens_, docinfo, wordbatchv>>
              ELSE AddDocToken(SubSeq(str, from + 1, to))
           /\ doc_end' = (at.i = Len(str) /\ at.i # to)
    /\ UNCHANGED <<queries, cells, docs, rel, jobs, results, answer, batchno, pc>>

(* Once through the loop over the document.  With no letter left there is  *)
(* no word, and the loop goes on at the end of the string: for ever.       *)
ReadWord ==
    /\ pc = "read" /\ ~doc_end
    /\ LET str  == docs[at.n]
           from == PastSpaces(str, at.i)
           to   == PastLetters(str, from)
       IN  IF from = to
           THEN /\ at' = [at EXCEPT !.i = to]
                /\ UNCHANGED <<tokens_, docinfo, wordbatchv, doc_end>>
           ELSE /\ at' = [at EXCEPT !.i = to + 1]
                /\ doc_end' = (to = Len(str))
                /\ AddDocToken(SubSeq(str, from + 1, to))
    /\ UNCHANGED <<queries, cells, docs, rel, jobs, results, answer, batchno, pc>>

EndDocument ==
    /\ pc = "read" /\ doc_end
    /\ LET last == at.n = Len(docs)
       IN  /\ at' = Start(IF last THEN 1 ELSE at.n + 1)
           /\ doc_end' = (~last /\ docs[at.n + 1] = <<>>)
           /\ pc' = IF last THEN "search" ELSE "read"
    /\ UNCHANGED <<queries, cells, docs, tokens_, docinfo, wordbatchv, rel, jobs, results,
                   answer, batchno>>

-------------------------------------------------------------------------------
(* The searches, and GenerateRes.                                          *)

BatchWords == UNION {ToSet(wordbatchv[l]) : l \in Lengths}
QueryTokens ==
    {IdOf(tokens_, w) : w \in {w \in UNION {ToSet(c) : c \in Range(cells)} : Len(w) \in Lengths}}

(* WidToTid::Add: what an entry says of a word and a token.                *)
wordsat(wid, tid) ==
    [wid |-> wid, tid |-> tid, bits |-> Matches[TokenString(FromKey(wid)), TokenString(tid)]]

(* Relations::Add: what matches and is in no table yet comes into one, or  *)
(* into more if searches of more than one thread find it.  A bound: what   *)
(* is new for a token is found by the same threads.                        *)
Search ==
    /\ pc = "search"
    /\ LET new == {r \in {wordsat(wid, tid) : wid \in BatchWords, tid \in QueryTokens} :
                      r.bits # {} /\ \A th \in THREADS : r \notin rel[th]}
       IN  \E finders \in [{r.tid : r \in new} -> SUBSET THREADS \ {{}}] :
               rel' = [th \in THREADS |-> rel[th] \union {r \in new : th \in finders[r.tid]}]
    /\ pc' = "schedule"
    /\ UNCHANGED <<queries, cells, docs, at, doc_end, tokens_, docinfo, wordbatchv, jobs, results,
                   answer, batchno>>

(* A job for part of the list of a length.                                 *)
JobGenRes(s, e, l) == [start |-> s, end |-> e, length |-> l]

(* Mutant of Chunks: there is no job for the rest.                         *)
Chunks_DropsRest(l, words_per_job) ==
    LET max    == Len(wordbatchv[l])
        starts == {i \in 0..max : i % words_per_job = 0 /\ i < max - words_per_job}
    IN  {JobGenRes(i, i + words_per_job, l) : i \in starts}

(* The loop of scheduleGenRes, and the job for the rest.                   *)
Chunks(l, words_per_job) ==
    LET max    == Len(wordbatchv[l])
        starts == {i \in 0..max : i % words_per_job = 0 /\ i < max - words_per_job}
        rest   == words_per_job * Cardinality(starts)
    IN  {JobGenRes(i, i + words_per_job, l) : i \in starts}
        \union (IF rest # max THEN {JobGenRes(rest, max, l)} ELSE {})

(* With a new bitarea.  The words per job depend on how many tokens are    *)
(* new: 1, or more when words are many; any number will do here.           *)
ScheduleGenRes ==
    /\ pc = "schedule"
    /\ \E words_per_job \in 1..Max({Len(wordbatchv[l]) : l \in Lengths} \union {1}) :
          jobs' = UNION {Chunks(l, words_per_job) : l \in Lengths}
    /\ results' = bitarea
    /\ pc' = "generate"
    /\ UNCHANGED <<queries, cells, docs, at, doc_end, tokens_, docinfo, wordbatchv, rel,
                   answer, batchno>>

(* SetStauros and Set: for each bit of a relation, what its list has.      *)
SetStauros(dids, word, bits) ==
    {[did |-> did, qmid |-> qp[1], pos |-> qp[2]] :
        did \in ToSet(dids), qp \in UNION {QmidsOf(word, b) : b \in bits}}

(* Relations::GetTids of a thread: what is related to a word.              *)
GetTids(th, wid) == {r \in rel[th] : r.wid = wid}

(* One word of a job, with the tables of all threads.                      *)
GenerateRes(j) ==
    /\ pc = "generate"
    /\ LET wid == wordbatchv[j.length][j.start + 1]
       IN  results' = [results EXCEPT !.token = @ \union
               UNION {SetStauros(docinfo[Key(FromKey(wid))].dids, TokenString(r.tid), r.bits) :
                   r \in UNION {GetTids(th, wid) : th \in THREADS}}]
    /\ jobs' = (jobs \ {j}) \union
               (IF j.start + 1 < j.end THEN {[j EXCEPT !.start = @ + 1]} ELSE {})
    /\ UNCHANGED <<queries, cells, docs, at, doc_end, tokens_, docinfo, wordbatchv, rel,
                   answer, batchno, pc>>

(* CheckQmid: as many tokens are set as the query has.                     *)
CheckQmid(did, qmid) ==
    Cardinality({m \in results.token : m.did = did /\ m.qmid = qmid}) = results.count[qmid]

Results ==
    /\ pc = "generate" /\ jobs = {}
    /\ answer' = [d \in DOMAIN docs |-> {q \in DOMAIN queries : CheckQmid(d, q)}]
    /\ pc' = "answered"
    /\ UNCHANGED <<queries, cells, docs, at, doc_end, tokens_, docinfo, wordbatchv, rel, jobs,
                   results, batchno>>

(* What the process has in use; of the numbers the system may give, one on *)
(* each side of the limit.                                                 *)
RamLimit == 75 * 1024 * 1024
GetRamInKB == {RamLimit, RamLimit + 1}

(* Mutant of RunEnd: the words keep their documents.                       *)
RunEnd_KeepsIds ==
    /\ pc = "answered"
    /\ wordbatchv' = [l \in Lengths |-> <<>>]
    /\ batchno' = batchno + 1
    /\ results' = NoBitarea /\ answer' = <<>> /\ docs' = <<>>
    /\ pc' = "idle"
    /\ UNCHANGED <<queries, cells, at, doc_end, tokens_, docinfo, rel, jobs>>

(* The tables stay, or go when memory is short.                            *)
RunEnd ==
    /\ pc = "answered"
    /\ docinfo' = [k \in DOMAIN docinfo |->
                      IF k \in {Key(FromKey(wid)) : wid \in BatchWords}
                      THEN [docinfo[k] EXCEPT !.dids = <<>>] ELSE docinfo[k]]
    /\ \E ram \in GetRamInKB :
          rel' = IF ram > RamLimit THEN [th \in THREADS |-> Relations] ELSE rel
    /\ wordbatchv' = [l \in Lengths |-> <<>>]
    /\ batchno' = batchno + 1
    /\ results' = NoBitarea /\ answer' = <<>> /\ docs' = <<>>
    /\ pc' = "idle"
    /\ UNCHANGED <<queries, cells, at, doc_end, tokens_, jobs>>

Next ==
    \/ SplitQuery \/ AddQuery
    \/ MatchDocument \/ ReadWord \/ EndDocument
    \/ Search \/ ScheduleGenRes \/ (\E j \in jobs : GenerateRes(j)) \/ Results
    \/ RunEnd

(* The reader goes on as long as there is something to do.                 *)
Spec == Init /\ [][Next]_vars /\ WF_vars(ReadWord \/ EndDocument)

-------------------------------------------------------------------------------
(* Properties.                                                             *)

TypeOK ==
    /\ docs \in Batches \union {<<>>} /\ at.n \in 1..Max({1, Len(docs), Len(queries)})
    /\ \A l \in Lengths : \A w \in ToSet(tokens_[l]) : Len(w) = l
    /\ \A key \in (DOMAIN docinfo) \union BatchWords :
          FromKey(key).length \in Lengths /\ FromKey(key).id < Len(tokens_[FromKey(key).length])
    /\ DOMAIN rel = THREADS /\ doc_end \in BOOLEAN /\ batchno \in 0..MaxBatches
    /\ pc \in {"query", "idle", "read", "search", "schedule", "generate", "answered"}

EndsInSpace(str) == str # <<>> /\ Last(str) = 0

(* When a batch is searched, the words of the list are those of its        *)
(* documents, each once and with just the documents that have it, whatever *)
(* the spaces in them, the words they share and what earlier batches left. *)
WordsExact ==
    pc \in {"search", "answered"} =>
        /\ \A wid \in BatchWords :
              {d \in DOMAIN docs : TokenString(FromKey(wid)) \in Words(docs[d])}
                  = ToSet(docinfo[wid].dids)
        /\ {TokenString(FromKey(wid)) : wid \in BatchWords} = UNION {Words(d) : d \in Range(docs)}
        /\ \A l \in Lengths : IsInjective(wordbatchv[l])

(* The answer for a document is the queries of which each word matches one *)
(* of its words (core.h:147-151), whichever tables the matches are in and  *)
(* whichever jobs go through them.  A query that ends in a space has an    *)
(* empty word too, which nothing matches.                                  *)
AnswersExact ==
    pc = "answered" =>
        \A d \in DOMAIN docs, q \in DOMAIN queries :
            q \in answer[d] <=>
                /\ ~EndsInSpace(queries[q].str)
                /\ \A w \in Words(queries[q].str) :
                      \E v \in Words(docs[d]) : queries[q].type \in Matches[v, w]

(* The reader comes to the end of every document that does not end in a    *)
(* space, and never to the end of one that does: JobDedup.cpp:59-61        *)
(* continues without setting doc_end.                                      *)
Reading(n) == pc = "read" /\ at.n = n

ReaderEnds ==
    \A n \in 1..Max({Len(ds) : ds \in Batches}) :
        /\ (Reading(n) /\ ~EndsInSpace(docs[n])) ~> ~Reading(n)
        /\ (Reading(n) /\ EndsInSpace(docs[n])) ~> [](Reading(n))
===============================================================================

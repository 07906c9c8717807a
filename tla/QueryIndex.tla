------------------------------ MODULE QueryIndex ------------------------------
(***************************************************************************)
(* The query index: which cell of vault_ stands for which queries, which   *)
(* lists of which tokens lead to it, and what the bit area of a document   *)
(* answers from them.  Queries with the same words, type and distance      *)
(* share a cell (a Qmid, from 1); a cell without queries is emptied and    *)
(* recycled, while its entries in qmidindex stay behind (README:19).       *)
(*                                                                         *)
(* A word is a number, in alphabetical order.  A document is what matters  *)
(* of it here: the pairs of a token and a bucket such that one of its      *)
(* words matches the token in the sense of the bucket: 0 is exact, d is    *)
(* hamming and 3 + d is edit distance up to d.  TokenManager and           *)
(* WordDistance are about where these pairs come from.                     *)
(***************************************************************************)
EXTENDS Integers, Sequences, FiniteSets, SequencesExt

CONSTANTS
    Tokens,         \* the words of queries
    Weight,         \* what hashvalue() adds for a word in first place
    Qids,           \* the ids of queries
    Queries,        \* what the client may ask for
    Docs            \* the documents

Exact == 0   Hamming == 1   Edit == 2      \* MatchType
Bucket == 0..6

ASSUME TokensAssumption == Tokens \subseteq Nat /\ Weight \in [Tokens -> Nat]
ASSUME QidsAssumption == Qids \subseteq Nat
ASSUME QueriesAssumption ==
    \A q \in Queries : /\ q.words \in Seq(Tokens) /\ Len(q.words) \in 1..5
                       /\ q.type \in Exact..Edit /\ q.dist \in 0..3
                       /\ q.type = Exact => q.dist = 0
ASSUME DocsAssumption == Docs \subseteq SUBSET (Tokens \X Bucket)

VARIABLES
    vault_,         \* the cells: type, dist, tids_ and the qids of the query
    emptycells_,    \* the stack of the cells to recycle
    qmidindex,      \* pairs of a hash value and a cell, for ever
    qidindex,       \* the cell of each query id, 0 if it had none
    querypointer_,  \* the lists of each token: cells and positions in them
    alive,          \* FALSE: the process has died
    active,         \* history: what the client asked for, of ids not ended
    used            \* history: the ids started so far

vars == <<vault_, emptycells_, qmidindex, qidindex, querypointer_, alive, active, used>>

Init ==
    /\ vault_ = <<>> /\ emptycells_ = <<>>
    /\ qmidindex = {} /\ qidindex = [id \in Qids |-> 0]
    /\ querypointer_ = [t \in Tokens |-> [b \in Bucket |-> <<>>]]
    /\ alive = TRUE
    /\ active = <<>> /\ used = {}

-------------------------------------------------------------------------------
(* A query as StartQuery builds it.                                        *)

(* Query::AddToken: in order, and once; i is where its loop stops.         *)
AddToken(tokens, token) ==
    LET i == CHOOSE i \in 1..(Len(tokens) + 1) :
                /\ \A j \in 1..(i - 1) : tokens[j] < token
                /\ i <= Len(tokens) => tokens[i] >= token
    IN  IF i <= Len(tokens) /\ tokens[i] = token
        THEN tokens ELSE InsertAt(tokens, i, token)

(* The loop of StartQuery over the words.                                  *)
TokensOf(q) ==
    LET tokens[n \in 0..Len(q.words)] ==
            IF n = 0 THEN <<>> ELSE AddToken(tokens[n - 1], q.words[n])
    IN  tokens[Len(q.words)]

(* Query::hashvalue: the first, third and fifth token only.                *)
hashvalue(q) ==
    LET tokens == TokensOf(q)
        term(x) == IF x <= Len(tokens) THEN x * Weight[tokens[x]] ELSE 0
    IN  term(1) + term(3) + term(5) + 100000 * (q.dist + 3 * q.type)

(* The list of a token that TokenInfo::InsertQmid adds a query to, if any. *)
InsertBucket(type, dist) ==
    IF type = Exact THEN {0}
    ELSE {b \in {IF type = Hamming THEN dist ELSE 3 + dist} : dist > 0}

(* The list that TokenInfo::RemoveQmid looks for it.                       *)
RemoveBucket(type, dist) ==
    CASE type = Exact -> 0 [] type = Hamming -> dist [] type = Edit -> 3 + dist

(* Mutant of AddQid: at the end.                                           *)
AddQid_AtEnd(qids, id) == Append(qids, id)

(* QidsVault::Add: before the first id that is not smaller than all behind.*)
AddQid(qids, id) ==
    LET smaller == {i \in DOMAIN qids : qids[i] < id}
        last    == IF smaller = {} THEN 0
                   ELSE CHOOSE i \in smaller : \A j \in smaller : j <= i
    IN  InsertAt(qids, last + 1, id)

(* QidsVault::Remove.                                                      *)
RemoveQid(qids, id) == RemoveFirst(qids, id)

(* A new cell, and what a cell without queries becomes.                    *)
QueryInfo == [type |-> Exact, dist |-> 0, tids_ |-> <<>>, qids |-> <<>>]
clean(cell) == [cell EXCEPT !.tids_ = <<>>]

(* AddTokenId for each token of a query, behind those that are there.      *)
AddTokenIds(cell, q) == [cell EXCEPT !.tids_ = @ \o TokensOf(q)]

(* What AddQuery makes of a cell that it takes for a query.                *)
StandFor(cell, id, q) ==
    AddTokenIds([cell EXCEPT !.type = q.type, !.dist = q.dist, !.qids = AddQid(@, id)], q)

-------------------------------------------------------------------------------
(* AddQuery.                                                               *)

(* Mutant of HashLookup: the hash value alone decides.                     *)
HashLookup_TrustsHash(q) ==
    {m \in DOMAIN vault_ : <<hashvalue(q), m>> \in qmidindex}

(* QueryIndex::HashLookup.  The last conjuncts compare the tokens; a cell  *)
(* may be filed under the hash values of queries it stood for before.      *)
HashLookup(q) ==
    {m \in DOMAIN vault_ :
        /\ <<hashvalue(q), m>> \in qmidindex
        /\ vault_[m].type = q.type /\ vault_[m].dist = q.dist
        /\ 3 * vault_[m].type + vault_[m].dist = hashvalue(q) \div 100000
        /\ vault_[m].tids_ = TokensOf(q)}

(* AddQueryToken for each token: its list leads to the cell.               *)
Position(q, t) == CHOOSE i \in DOMAIN TokensOf(q) : TokensOf(q)[i] = t
InsertQmids(q, m) ==
    [t \in Tokens |-> [b \in Bucket |->
        IF b \in InsertBucket(q.type, q.dist) /\ Contains(TokensOf(q), t)
        THEN Append(querypointer_[t][b], [qmid |-> m, position |-> Position(q, t)])
        ELSE querypointer_[t][b]]]

(* The query exists: lines 79-84.                                          *)
ShareCell(id, q) ==
    \E m \in HashLookup(q) :
        /\ vault_' = [vault_ EXCEPT ![m].qids = AddQid(@, id)]
        /\ qidindex' = [qidindex EXCEPT ![id] = m]
        /\ UNCHANGED <<emptycells_, qmidindex, querypointer_>>

(* Mutant of RecycleCell: the hash value is not filed.                     *)
RecycleCell_NotFiled(id, q) ==
    /\ HashLookup(q) = {} /\ emptycells_ # <<>>
    /\ LET m == Last(emptycells_)
       IN  /\ emptycells_' = Front(emptycells_)
           /\ vault_' = [vault_ EXCEPT ![m] = StandFor(@, id, q)]
           /\ qidindex' = [qidindex EXCEPT ![id] = m]
           /\ querypointer_' = InsertQmids(q, m)
    /\ UNCHANGED qmidindex

(* It does not, and there is a cell to recycle: lines 40-60.               *)
RecycleCell(id, q) ==
    /\ HashLookup(q) = {} /\ emptycells_ # <<>>
    /\ LET m == Last(emptycells_)
       IN  /\ emptycells_' = Front(emptycells_)
           /\ qmidindex' = qmidindex \union {<<hashvalue(q), m>>}
           /\ vault_' = [vault_ EXCEPT ![m] = StandFor(@, id, q)]
           /\ qidindex' = [qidindex EXCEPT ![id] = m]
           /\ querypointer_' = InsertQmids(q, m)

(* It does not, and there is none: lines 61-78.                            *)
NewCell(id, q) ==
    /\ HashLookup(q) = {} /\ emptycells_ = <<>>
    /\ LET m == Len(vault_) + 1
       IN  /\ qmidindex' = qmidindex \union {<<hashvalue(q), m>>}
           /\ vault_' = Append(vault_, StandFor(QueryInfo, id, q))
           /\ qidindex' = [qidindex EXCEPT ![id] = m]
           /\ querypointer_' = InsertQmids(q, m)
    /\ UNCHANGED emptycells_

(* StartQuery, with an id that was never used: core.h:125-126.             *)
AddQuery(id, q) ==
    /\ alive /\ id \notin used
    /\ ShareCell(id, q) \/ RecycleCell(id, q) \/ NewCell(id, q)
    /\ used' = used \union {id}
    /\ active' = [i \in DOMAIN active \union {id} |-> IF i = id THEN q ELSE active[i]]
    /\ UNCHANGED alive

-------------------------------------------------------------------------------
(* RemoveQuery.                                                            *)

(* TokenInfo::RemoveQmid for each token of a cell: its first entry goes.   *)
RemoveQmids(m) ==
    LET cell == vault_[m]
        bucket == RemoveBucket(cell.type, cell.dist)
        erased(list) == LET i == SelectInSeq(list, LAMBDA e : e.qmid = m)
                        IN  IF i = 0 THEN list ELSE RemoveAt(list, i)
    IN  [t \in Tokens |-> [b \in Bucket |->
            IF b = bucket /\ Contains(cell.tids_, t)
            THEN erased(querypointer_[t][b]) ELSE querypointer_[t][b]]]

(* A list with no entry is deleted; RemoveQmid reads it all the same.      *)
ListsExist(m) ==
    \A t \in ToSet(vault_[m].tids_) :
        querypointer_[t][RemoveBucket(vault_[m].type, vault_[m].dist)] # <<>>

(* Mutant of EmptyCell: the tokens of the query stay.                      *)
EmptyCell_NotClean(m, qids) ==
    /\ vault_' = [vault_ EXCEPT ![m].qids = qids]
    /\ querypointer_' = RemoveQmids(m)
    /\ emptycells_' = Append(emptycells_, m)
    /\ alive' = ListsExist(m)

(* The last query of a cell has gone: lines 140-146.                       *)
EmptyCell(m, qids) ==
    /\ vault_' = [vault_ EXCEPT ![m] = clean([@ EXCEPT !.qids = qids])]
    /\ querypointer_' = RemoveQmids(m)
    /\ emptycells_' = Append(emptycells_, m)
    /\ alive' = ListsExist(m)

(* Mutant of RemoveQuery: the cell is emptied while it has queries.        *)
RemoveQuery_TooSoon(id) ==
    /\ alive /\ id \in DOMAIN active
    /\ EmptyCell(qidindex[id], RemoveQid(vault_[qidindex[id]].qids, id))
    /\ active' = [i \in DOMAIN active \ {id} |-> active[i]]
    /\ UNCHANGED <<qmidindex, qidindex, used>>

(* EndQuery, once for each active id: core.h:166-167.                      *)
RemoveQuery(id) ==
    /\ alive /\ id \in DOMAIN active
    /\ LET m    == qidindex[id]
           qids == RemoveQid(vault_[m].qids, id)
       IN  IF qids = <<>> THEN EmptyCell(m, qids)
           ELSE /\ vault_' = [vault_ EXCEPT ![m].qids = qids]
                /\ UNCHANGED <<emptycells_, querypointer_, alive>>
    /\ active' = [i \in DOMAIN active \ {id} |-> active[i]]
    /\ UNCHANGED <<qmidindex, qidindex, used>>

Next == \E id \in Qids : RemoveQuery(id) \/ \E q \in Queries : AddQuery(id, q)

Spec == Init /\ [][Next]_vars

-------------------------------------------------------------------------------
(* The answer for a document.                                              *)

(* bitarea::Set: the positions of a cell that the pairs of a document set. *)
Bits(doc, m) ==
    {e.position : e \in {e \in UNION {ToSet(querypointer_[p[1]][p[2]]) : p \in doc} :
                            e.qmid = m}}

(* CheckQmid: as many bits as the cell has tokens.                         *)
CheckQmid(doc, m) == Cardinality(Bits(doc, m)) = Len(vault_[m].tids_)

(* The ids bitarea::results gathers, cell by cell; a cell that gives none  *)
(* is no group for the merge.                                              *)
Groups(doc) ==
    [m \in 1..Len(vault_) |-> IF CheckQmid(doc, m) THEN vault_[m].qids ELSE <<>>]

-------------------------------------------------------------------------------
(* Properties.                                                             *)

TypeOK ==
    /\ \A m \in DOMAIN vault_ :
          /\ vault_[m].type \in Exact..Edit /\ vault_[m].dist \in 0..3
          /\ vault_[m].tids_ \in Seq(Tokens) /\ Len(vault_[m].tids_) <= 5
          /\ vault_[m].qids \in Seq(Qids)
    /\ emptycells_ \in Seq(DOMAIN vault_)
    /\ qmidindex \subseteq Nat \X DOMAIN vault_
    /\ qidindex \in [Qids -> 0..Len(vault_)]
    /\ \A t \in Tokens, b \in Bucket :
          querypointer_[t][b] \in Seq([qmid : DOMAIN vault_, position : 1..5])
    /\ alive \in BOOLEAN
    /\ DOMAIN active \subseteq used /\ used \subseteq Qids

(* A query matches a document iff each of its words matches: core.h:147.   *)
Matches(doc, q) ==
    LET means == IF q.type = Exact \/ q.dist = 0 THEN {0} ELSE InsertBucket(q.type, q.dist)
    IN  \A w \in ToSet(q.words) : \E b \in means : <<w, b>> \in doc

(* The bit area answers a document with the active queries that match it   *)
(* and with no other, each once, whatever cells were shared, emptied and   *)
(* recycled before.                                                        *)
ResultsExact ==
    alive => \A doc \in Docs :
        LET ids == FlattenSeq(Groups(doc))
        IN  /\ IsInjective(ids)
            /\ ToSet(ids) = {id \in DOMAIN active : Matches(doc, active[id])}

(* What the merge of bitarea::results relies on: each group is in order.   *)
GroupsSorted ==
    \A m \in DOMAIN vault_ : \A i, j \in DOMAIN vault_[m].qids :
        i < j => vault_[m].qids[i] < vault_[m].qids[j]

(* A cell waits to be recycled, once, exactly when it has no query, and    *)
(* then no list of a token leads to it.  RemoveQmid reads the size of a    *)
(* list without asking whether the list is there                           *)
(* (TokenStructs_Vector.cc:99-101): each list that a removal reads was     *)
(* made when the query was added and still is when it goes.                *)
CellsKept ==
    /\ alive
    /\ IsInjective(emptycells_)
    /\ \A m \in DOMAIN vault_ :
          Contains(emptycells_, m) <=> vault_[m].qids = <<>>
    /\ \A m \in ToSet(emptycells_), t \in Tokens, b \in Bucket :
          \A e \in ToSet(querypointer_[t][b]) : e.qmid # m

(* Two active queries with the same words, type and distance share a cell: *)
(* queries are de-duplicated as a whole (README:19).                       *)
OneCellPerQuery ==
    alive => \A i, j \in DOMAIN active :
        /\ ToSet(active[i].words) = ToSet(active[j].words)
        /\ active[i].type = active[j].type /\ active[i].dist = active[j].dist
        => qidindex[i] = qidindex[j]
===============================================================================

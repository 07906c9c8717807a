---------------------------- MODULE DeletionSearch ----------------------------
(***************************************************************************)
(* How a new query token and a new document word find each other.  The     *)
(* hash tables of a length hold what its words (dhash_) and its tokens     *)
(* (qhash_) become when 0, 1, 2 or 3 letters are deleted.  A search        *)
(* deletes letters of the one and looks the rest up in a table of the      *)
(* other; which table, and how many letters, depends on the level of the   *)
(* search and on the two lengths, and which section of JobGenHashes        *)
(* schedules it does as well.                                              *)
(*                                                                         *)
(* One token and one word are followed through a batch in which both are   *)
(* new.  That all tables are filled before a search begins is              *)
(* PhaseOrder of BatchPipeline.  mur() is the identity: strings that       *)
(* collide are compared in vain, and no more.                              *)
(***************************************************************************)
EXTENDS WordDistance

CONSTANTS
    Tokens, Words,      \* the query tokens, the document words
    Sizes,              \* how many tokens, words are new along with them
    PerJob,             \* of a list of tokens for level 0 or 1: 30
    MIN_WORD_LENGTH, MAX_WORD_LENGTH

Level == 0..3
Section == 1..3

ASSUME LengthAssumption ==
    /\ MIN_WORD_LENGTH \in Nat /\ MAX_WORD_LENGTH \in Nat /\ MIN_WORD_LENGTH > 3
    /\ \A x \in Tokens \union Words : Len(x) \in MIN_WORD_LENGTH..MAX_WORD_LENGTH
ASSUME SizesAssumption == Sizes \subseteq Nat \ {0} /\ PerJob \in Nat \ {0}

VARIABLES
    token, word,
    level,              \* the token is in qbrandnew0 .. qbrandnew3
    size,               \* of that list, and of dbrandnew; both are last there
    dhash_, qhash_,     \* by the number of letters deleted: the strings there are
    jobs,               \* the JobMatchPrune jobs for the two lengths
    ran,                \* those with the token or the word that have run
    result,             \* what stavroshtein says of the pair; {-1} before
    rel                 \* the kinds of search that have related the pair

vars == <<token, word, level, size, dhash_, qhash_, jobs, ran, result, rel>>

Init ==
    /\ token \in Tokens /\ word \in Words
    /\ level \in Level /\ size \in Sizes
    /\ dhash_ = [n \in 0..3 |-> {}] /\ qhash_ = [n \in 0..3 |-> {}]
    /\ jobs = {} /\ ran = {} /\ result = {-1} /\ rel = {}

-------------------------------------------------------------------------------
(* JobGenHashes and JobGenHashesToken.                                     *)

(* A string without n of its letters, whichever.                           *)
Deletions(x, n) ==
    FoldLeft(LAMBDA strings, i : UNION {{RemoveAt(y, p) : p \in DOMAIN y} : y \in strings},
             {x}, [i \in 1..n |-> i])

(* Mutant of Offsets: the first section leaves out the longer tokens.      *)
Offsets_NoLonger(sec, k) ==
    CASE sec = 3 -> (IF k = 3 THEN 0..3 ELSE {})
      [] sec = 2 -> (IF k = 3 THEN {-1} ELSE IF k = 2 THEN 0..2 ELSE {})
      [] sec = 1 -> <<{0}, -1..0, -2..-1, -3..-2>>[k + 1]

(* How much longer than the words of a section the tokens are that it      *)
(* schedules the searches of level k for.                                  *)
Offsets(sec, k) ==
    CASE sec = 3 -> (IF k = 3 THEN 0..3 ELSE {})
      [] sec = 2 -> (IF k = 3 THEN {-1} ELSE IF k = 2 THEN 0..2 ELSE {})
      [] sec = 1 -> <<{0}, -1..1, -2..-1, -3..-2>>[k + 1]

(* The loops that deal n entries of a list to jobs of wpj entries: for     *)
(* (k = 0; k < n - wpj; k += wpj), and then one job for the rest.          *)
Chunks(n, wpj) ==
    LET starts == {k \in 0..n : k % wpj = 0 /\ k < n - wpj}
        rest   == wpj * Cardinality(starts)
    IN  {[start |-> k, end |-> k + wpj] : k \in starts}
        \union (IF rest # n THEN {[start |-> rest, end |-> n]} ELSE {})

(* Entries per job.                                                        *)
wpj(k) == IF k >= 2 THEN 1 ELSE PerJob

(* The jobs: of a section with part of a list of tokens, and with part of  *)
(* dbrandnew.                                                              *)
JobMatchPruneQD(sec, c) == [kind |-> "QD", sec |-> sec, chunk |-> c]
JobMatchPrune1(c) == [kind |-> "DQ", sec |-> 0, chunk |-> c]

(* The searches of the token's list that the sections of the word's length *)
(* schedule ...                                                            *)
QDJobs ==
    UNION {{JobMatchPruneQD(sec, c) : c \in Chunks(size, wpj(level))} :
        sec \in {sec \in Section :
            \E j \in Offsets(sec, level) :
                /\ Len(word) + j \in MIN_WORD_LENGTH..MAX_WORD_LENGTH
                /\ Len(token) = Len(word) + j}}

(* ... and those of dbrandnew that JobGenHashesToken of the token's length *)
(* does: from the second batch on.                                         *)
DQJobs ==
    {JobMatchPrune1(c) :
        c \in {c \in Chunks(size, 1) :
            \E j \in -3..3 : /\ Len(token) + j \in MIN_WORD_LENGTH..MAX_WORD_LENGTH
                             /\ Len(word) = Len(token) + j}}

(* All the jobs of the first phase, in one step.                           *)
GenHashes ==
    /\ dhash_[0] = {}
    /\ dhash_' = [n \in 0..3 |-> Deletions(word, n)]
    /\ qhash_' = [n \in 0..3 |-> Deletions(token, n)]
    /\ jobs' = QDJobs \union DQJobs
    /\ UNCHANGED <<token, word, level, size, ran, result, rel>>

-------------------------------------------------------------------------------
(* JobMatchPrune.                                                          *)

diafora == IF Len(word) >= Len(token) THEN Len(word) - Len(token) ELSE Len(token) - Len(word)

(* OnTheFly: ana letters of the token are deleted.                         *)
OnTheFly(ana, table) == Deletions(token, ana) \intersect dhash_[table] # {}

(* Mutant of QD: the table and the number of letters are swapped.          *)
QD_Swapped(k) ==
    /\ diafora <= k
    /\ IF Len(word) >= Len(token) THEN OnTheFly(k, k - diafora) ELSE OnTheFly(k - diafora, k)

(* The longer of the two loses k letters.                                  *)
QD(k) ==
    /\ diafora <= k
    /\ IF Len(word) >= Len(token) THEN OnTheFly(k - diafora, k) ELSE OnTheFly(k, k - diafora)

(* The four routines that search from a token.                             *)
QD3 == QD(3)
QD2 == QD(2)
QD1 == QD(1)
QD0 == QD(0)

(* DQ: the same from the word, always for a distance of three, if the word *)
(* is shorter than the token or as long ...                                *)
DQShorter == diafora <= 3 /\ Deletions(word, 3 - diafora) \intersect qhash_[3] # {}

(* ... and if it is longer.                                                *)
DQLonger == diafora <= 3 /\ Deletions(word, 3) \intersect qhash_[3 - diafora] # {}

DQ == IF Len(token) >= Len(word) THEN DQShorter ELSE DQLonger

(* Whether the search of a job comes upon the pair.                        *)
Finds(kind) ==
    CASE kind = "DQ" -> DQ
      [] kind = "QD" /\ level = 3 -> QD3
      [] kind = "QD" /\ level = 2 -> QD2
      [] kind = "QD" /\ level = 1 -> QD1
      [] kind = "QD" /\ level = 0 -> QD0

(* The jobs that have an entry of the list.                                *)
Having(i) == {j \in jobs : j.chunk.start <= i /\ i < j.chunk.end}

(* A job with the token, or the word; what else it searches is left out.   *)
(* SetDimis, SetDimisAnapodi: what is found is compared, and related if    *)
(* they match in any way.                                                  *)
Prune(j) ==
    /\ j \notin ran
    /\ ran' = ran \union {j}
    /\ IF Finds(j.kind)
       THEN /\ result' = stavroshtein(token, word)
            /\ rel' = IF result' # {} THEN rel \union {j.kind} ELSE rel
       ELSE UNCHANGED <<result, rel>>
    /\ UNCHANGED <<token, word, level, size, dhash_, qhash_, jobs>>

Next == GenHashes \/ \E j \in Having(size - 1) : Prune(j)

Spec == Init /\ [][Next]_vars

-------------------------------------------------------------------------------
(* Properties.                                                             *)

(* Every token of a list is searched by exactly one job for words whose    *)
(* length is near enough, whatever section and chunk it falls into, and by *)
(* none for other words; every word is by exactly one of the other kind.   *)
OneJobPerEntry ==
    dhash_[0] # {} =>
        \A i \in 0..size - 1 :
            LET having(kind) == Cardinality({j \in Having(i) : j.kind = kind})
            IN  /\ having("QD") = (IF diafora <= level THEN 1 ELSE 0)
                /\ having("DQ") = (IF diafora <= 3 THEN 1 ELSE 0)

(* A pair within the distance that the token is searched for is related by *)
(* that search, and a pair within three also by the one from the word:     *)
(* deleting letters of both misses no pair (README:22-23).                 *)
NearPairsFound ==
    dhash_[0] # {} /\ ran = Having(size - 1) =>
        LET distance == EditDistance(token, word)
        IN  /\ distance <= level => "QD" \in rel
            /\ distance <= 3 => "DQ" \in rel

(* The bits of a pair that was compared say exactly which of exact,        *)
(* hamming 1..3 and edit 1..3 relate the words, as core.h:147-151 has      *)
(* queries match: the few diagonals that are followed lose no distance.    *)
MaskExact == result # {-1} => result = Bits(token, word)
===============================================================================

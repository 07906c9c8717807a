------------------------------ MODULE ResultMerge -----------------------------
(***************************************************************************)
(* How bitarea::results sorts the ids of the queries that match a          *)
(* document.  It gathers them group by group, each group in order          *)
(* (GroupsSorted of QueryIndex), and then merges pairs of neighbours, runs *)
(* of 1, 2, 4, ... groups, from one buffer into the other and back.  Here  *)
(* one step is one id taken, or one decision of a loop.  Offsets are       *)
(* those of the code, from 0.                                              *)
(***************************************************************************)
EXTENDS Integers, Sequences, FiniteSets, SequencesExt

CONSTANTS
    N,          \* bound: the number of ids
    MaxGroups   \* bound: the number of groups

ASSUME SizeAssumption == N \in Nat \ {0} /\ MaxGroups \in 1..N

VARIABLES
    pos,            \* where each group begins
    source, dest,   \* the two buffers
    k,              \* twice the groups of a run
    vag,            \* -1, 1: whether to leave the last group out of the pass
    j,              \* the first group of the pair of runs
    ind1, eind1, ind2, eind2,   \* what is left of the two runs
    last,           \* where the next id goes in dest
    pc              \* "pass", "pair", "take" or "done"

runs == <<ind1, eind1, ind2, eind2>>
vars == <<pos, source, dest, k, vag, j, runs, last, pc>>

Size == Cardinality(DOMAIN pos)

(* No run of h groups begins behind i, up to l.                            *)
OneRun(h, i, l) == \A g \in DOMAIN pos : g % h = 0 => pos[g] \notin i + 1..l

(* Every run of h groups is in order; the last one may have fewer.         *)
RunsSorted(h) ==
    \A i, l \in DOMAIN source : i < l /\ OneRun(h, i, l) => source[i] < source[l]

(* Lines 45-57: the ids come in groups, of which none is empty, and those  *)
(* of a group are in order.                                                *)
Init ==
    /\ \E g \in 1..MaxGroups :
          /\ pos \in [0..g - 1 -> 0..N - 1] /\ pos[0] = 0
          /\ \A i, l \in 0..g - 1 : i < l => pos[i] < pos[l]
          /\ vag = IF g % 2 = 1 THEN -1 ELSE 1
    /\ source \in Bijection(0..N - 1, 1..N) /\ RunsSorted(1)
    /\ dest = [i \in 0..N - 1 |-> 0]
    /\ k = 2 /\ j = 0 /\ last = 0
    /\ ind1 = 0 /\ eind1 = 0 /\ ind2 = 0 /\ eind2 = 0
    /\ pc = "pass"

(* Lines 74-79: the passes go on while k is smaller than this.             *)
xx == 2 * (IF Size % 2 = 1 /\ Size # 1 THEN Size + 1 ELSE Size)

(* Lines 80-86.                                                            *)
BeginPass ==
    /\ pc = "pass" /\ xx > k
    /\ last' = 0 /\ j' = 0
    /\ vag' = -vag
    /\ pc' = "pair"
    /\ UNCHANGED <<pos, source, dest, k, runs>>

(* The groups of a pass; vag has been turned round already.                *)
john == IF vag = 1 THEN Size - 1 ELSE Size

(* Lines 87-90: are there two runs left?                                   *)
PairLeft == j < john /\ j + k \div 2 <= Size - 1

(* Mutant of BeginPair: the second run always goes on to the end.          *)
BeginPair_ToTheEnd ==
    /\ pc = "pair" /\ PairLeft
    /\ ind1' = pos[j] /\ eind1' = pos[j + k \div 2] - 1
    /\ ind2' = pos[j + k \div 2] /\ eind2' = N - 1
    /\ pc' = "take"
    /\ UNCHANGED <<pos, source, dest, k, vag, j, last>>

(* Lines 92-103.                                                           *)
BeginPair ==
    /\ pc = "pair" /\ PairLeft
    /\ ind1' = pos[j] /\ eind1' = pos[j + k \div 2] - 1
    /\ ind2' = pos[j + k \div 2]
    /\ eind2' = IF j + k > Size - 1 THEN N - 1 ELSE pos[j + k] - 1
    /\ pc' = "take"
    /\ UNCHANGED <<pos, source, dest, k, vag, j, last>>

(* dest with source[from..to] copied to last.                              *)
Copied(buffer, at, from, to) ==
    [i \in DOMAIN buffer |->
        IF i \in at..at + to - from THEN source[from + i - at] ELSE buffer[i]]

(* Mutant of Take: the rest of the second run is not copied.               *)
Take_DropsRest ==
    /\ pc = "take"
    /\ LET first == source[ind1] < source[ind2]
           i1    == IF first THEN ind1 + 1 ELSE ind1
           i2    == IF first THEN ind2 ELSE ind2 + 1
           taken == [dest EXCEPT ![last] = IF first THEN source[ind1] ELSE source[ind2]]
       IN  /\ ind1' = i1 /\ ind2' = i2
           /\ dest' = IF i2 > eind2 THEN Copied(taken, last + 1, i1, eind1) ELSE taken
           /\ IF i1 > eind1 \/ i2 > eind2
              THEN /\ last' = last + 1 + (eind1 - i1 + 1) + (eind2 - i2 + 1)
                   /\ j' = j + k /\ pc' = "pair"
              ELSE /\ last' = last + 1
                   /\ UNCHANGED <<j, pc>>
    /\ UNCHANGED <<pos, source, k, vag, eind1, eind2>>

(* Lines 109-124: the smaller id, and when a run is used up all the rest   *)
(* of the other.  The bound lim of the loop is never met before that.      *)
Take ==
    /\ pc = "take"
    /\ LET first == source[ind1] < source[ind2]
           i1    == IF first THEN ind1 + 1 ELSE ind1
           i2    == IF first THEN ind2 ELSE ind2 + 1
           taken == [dest EXCEPT ![last] = IF first THEN source[ind1] ELSE source[ind2]]
       IN  /\ ind1' = i1 /\ ind2' = i2
           /\ dest' = IF i1 > eind1 THEN Copied(taken, last + 1, i2, eind2)
                      ELSE IF i2 > eind2 THEN Copied(taken, last + 1, i1, eind1)
                      ELSE taken
           /\ IF i1 > eind1 \/ i2 > eind2
              THEN /\ last' = last + 1 + (eind1 - i1 + 1) + (eind2 - i2 + 1)
                   /\ j' = j + k /\ pc' = "pair"
              ELSE /\ last' = last + 1
                   /\ UNCHANGED <<j, pc>>
    /\ UNCHANGED <<pos, source, k, vag, eind1, eind2>>

(* Lines 127-134: what is out of the pass is copied, the buffers swap.     *)
EndPass ==
    /\ pc = "pair" /\ ~PairLeft
    /\ source' = Copied(dest, last, last, N - 1)
    /\ dest' = source
    /\ k' = 2 * k
    /\ pc' = "pass"
    /\ UNCHANGED <<pos, vag, j, runs, last>>

(* Lines 136-140: source is the answer.                                    *)
Return ==
    /\ pc = "pass" /\ xx <= k
    /\ pc' = "done"
    /\ UNCHANGED <<pos, source, dest, k, vag, j, runs, last>>

Next == BeginPass \/ BeginPair \/ Take \/ EndPass \/ Return

Spec == Init /\ [][Next]_vars

-------------------------------------------------------------------------------
(* Properties.                                                             *)

(* The shape of the state.  Ids are written where they are read from: what *)
(* a pass has not reached begins in dest where it begins in source, so     *)
(* that it can be copied.                                                  *)
TypeOK ==
    /\ source \in [0..N - 1 -> 0..N] /\ dest \in [0..N - 1 -> 0..N]
    /\ vag \in {-1, 1} /\ pc \in {"pass", "pair", "take", "done"}
    /\ last \in 0..N
    /\ pc = "pair" => last = IF j < Size THEN pos[j] ELSE N
    /\ pc = "take" =>
          /\ 0 <= ind1 /\ ind1 <= eind1 /\ eind1 < ind2 /\ ind2 <= eind2 /\ eind2 < N
          /\ last - pos[j] = (ind1 - pos[j]) + (ind2 - pos[j + k \div 2])

(* Between two passes every id is there and the runs are in order, however *)
(* many groups there are and whichever pass leaves the last of them out;   *)
(* so that in the end the answer has every id once, sorted: core.h:200 and *)
(* 211-212.                                                                *)
AnswerSorted ==
    /\ pc \in {"pass", "done"} => {source[i] : i \in DOMAIN source} = 1..N
    /\ pc = "pass" => RunsSorted(k \div 2)
    /\ pc = "done" => \A i \in 1..N - 1 : source[i - 1] < source[i]
===============================================================================

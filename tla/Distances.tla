------------------------------- MODULE Distances -------------------------------
(***************************************************************************)
(* The distances that core.h asks for, as the textbook has them: the       *)
(* reference for WordDistance and DeletionSearch.                          *)
(***************************************************************************)
EXTENDS Integers, Sequences, FiniteSets, SequencesExt

MinOf(S) == CHOOSE x \in S : \A y \in S : x <= y

(* Row i of the table has the distances of the first i letters of x to the *)
(* beginnings of y.                                                        *)
EditDistance(x, y) ==
    LET nextRow(row, i) ==
            FoldLeft(LAMBDA new, j : Append(new, MinOf({new[j] + 1, row[j + 1] + 1,
                                                        row[j] + IF x[i] = y[j] THEN 0 ELSE 1})),
                     <<i>>, [j \in 1..Len(y) |-> j])
        last == FoldLeft(nextRow, [j \in 1..Len(y) + 1 |-> j - 1], [i \in 1..Len(x) |-> i])
    IN  last[Len(y) + 1]

(* Of two words of one length.                                             *)
HammingDistance(x, y) == Cardinality({i \in DOMAIN x : x[i] # y[i]})

(* The ways in which two words match, as the bits of a relation: 0 if they *)
(* are equal, d within hamming distance d, 3 + d within edit distance d.   *)
Bits(x, y) ==
    LET hamming == HammingDistance(x, y)
        edit    == EditDistance(x, y)
    IN  (IF x = y THEN {0} ELSE {})
        \union {d \in 1..3 : Len(x) = Len(y) /\ hamming <= d}
        \union {3 + d : d \in {d \in 1..3 : edit <= d}}
===============================================================================

--------------------------- MODULE MCDenseHashtable ---------------------------
(* Hash functions that send all keys to one bucket, keys to the last bucket *)
(* of a small table, and half of the keys to each end of one.               *)
EXTENDS DenseHashtable, TLC

MCKeys == 1..4
MCHashers == {[k \in AllKeys |-> 8 * 3], [k \in AllKeys |-> 8 * 4 * k + 7],
              [k \in AllKeys |-> 8 * (IF k % 2 = 0 THEN 15 ELSE 1)]}
MCRanges == {[i \in 1..n |-> [key |-> i, val |-> v]] : n \in {2, 4}, v \in Values}

(* What was returned is not looked at by the next call.                     *)
Table == <<hasher, ht>>
Symmetry == Permutations(Values)
===============================================================================

--------------------------- MODULE MCDeletionSearch ---------------------------
(* All words of two letters, and those of three up to MaxLength3.  A token  *)
(* begins with the first letter and comes to the second before the third:   *)
(* the letters may be renamed.                                              *)
EXTENDS DeletionSearch

CONSTANT MaxLength3

MCWords == UNION {[1..n -> 1..2] : n \in MIN_WORD_LENGTH..MAX_WORD_LENGTH}
           \union UNION {[1..n -> 1..3] : n \in MIN_WORD_LENGTH..MaxLength3}
MCTokens == {x \in MCWords : \A i \in DOMAIN x : \A c \in 1..x[i] - 1 : \E j \in 1..i - 1 : x[j] = c}
===============================================================================

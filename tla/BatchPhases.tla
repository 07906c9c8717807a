------------------------------ MODULE BatchPhases ------------------------------
(***************************************************************************)
(* What processing a batch promises (README:21-24): the hash tables are    *)
(* complete before relations are computed from them, the relations are     *)
(* complete before they are read, and every word has been read before a    *)
(* result is made.  Each variable is the set of the jobs of that step      *)
(* which have not taken effect yet.                                        *)
(***************************************************************************)
EXTENDS FiniteSets

VARIABLES
    hashing,        \* JobGenHashes, JobGenHashesToken: fill the tables
    pruning,        \* JobMatchPrune*: read the tables, write the relations
    collecting,     \* JobGenRes: read the relations, write the bit area
    emitting,       \* JobGenerateRes: read the bit area, hand out a result
    open            \* JobGenRes jobs may still join

vars == <<hashing, pruning, collecting, emitting, open>>

Init == hashing = {} /\ pruning = {} /\ collecting = {} /\ emitting = {} /\ open = FALSE

(* A batch starts when the one before has no job left.                     *)
Begin ==
    /\ hashing = {} /\ pruning = {} /\ collecting = {} /\ emitting = {} /\ ~open
    /\ hashing' # {} /\ emitting' # {} /\ open'
    /\ UNCHANGED <<pruning, collecting>>

(* A table is filled: the jobs that search it may join.                    *)
Hash ==
    /\ \E g \in hashing : hashing' = hashing \ {g}
    /\ pruning \subseteq pruning'
    /\ UNCHANGED <<collecting, emitting, open>>

Prune ==
    /\ hashing = {}
    /\ \E p \in pruning : pruning' = pruning \ {p}
    /\ UNCHANGED <<hashing, collecting, emitting, open>>

Join ==
    /\ open
    /\ collecting \subseteq collecting'
    /\ open' \in BOOLEAN
    /\ UNCHANGED <<hashing, pruning, emitting>>

Collect ==
    /\ hashing = {} /\ pruning = {}
    /\ \E r \in collecting : collecting' = collecting \ {r}
    /\ UNCHANGED <<hashing, pruning, emitting, open>>

Emit ==
    /\ hashing = {} /\ pruning = {} /\ collecting = {} /\ ~open
    /\ \E d \in emitting : emitting' = emitting \ {d}
    /\ UNCHANGED <<hashing, pruning, collecting, open>>

Next == Begin \/ Hash \/ Prune \/ Join \/ Collect \/ Emit

Spec == Init /\ [][Next]_vars
===============================================================================

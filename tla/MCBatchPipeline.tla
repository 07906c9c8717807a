--------------------------- MODULE MCBatchPipeline ---------------------------
(* Small instances of BatchPipeline.  The weights keep the proportions of   *)
(* the code: the tables and a row of barriers together are lighter than     *)
(* 2*Quantum (1529 against 2*3072), a search may be heavier than that.      *)
EXTENDS BatchPipeline

MCKindWeight == [k \in Kinds |-> IF k = "MatchPrune" THEN 8 ELSE 1]
===============================================================================

---------------------------- MODULE MCJobScheduler ----------------------------
(* Small pools of JobScheduler: the jobs are model values, "light" jobs     *)
(* weigh 1 and "heavy" ones 3, against a quantum of 2.                      *)
EXTENDS JobScheduler

CONSTANTS Light, Heavy

MCJob    == Light \union Heavy
MCWeight == [j \in MCJob |-> IF j \in Heavy THEN 3 ELSE 1]
===============================================================================

----------------------------- MODULE CoreContract -----------------------------
(***************************************************************************)
(* What Includes/core.h:120-228 promises the client: every document gets   *)
(* one result, in any order, and it depends on the document and on the     *)
(* queries that were active when the document was pushed.                  *)
(***************************************************************************)
EXTENDS Sequences

VARIABLES
    active,         \* the active queries
    asked,          \* for each document pushed, the queries active then
    returned        \* the results handed out

vars == <<active, asked, returned>>

Init == active = {} /\ asked = <<>> /\ returned = <<>>

StartQuery ==
    /\ active \subseteq active' /\ active' # active
    /\ \A q, r \in active' \ active : q = r
    /\ UNCHANGED <<asked, returned>>

EndQuery ==
    /\ \E q \in active : active' = active \ {q}
    /\ UNCHANGED <<asked, returned>>

MatchDocument ==
    /\ asked' = Append(asked, active)
    /\ UNCHANGED <<active, returned>>

GetNextAvailRes ==
    /\ \E d \in DOMAIN asked :
          /\ \A i \in DOMAIN returned : returned[i].doc # d
          /\ returned' = Append(returned, [doc |-> d, words |-> {d}, queries |-> asked[d]])
    /\ UNCHANGED <<active, asked>>

Next == StartQuery \/ EndQuery \/ MatchDocument \/ GetNextAvailRes

Spec == Init /\ [][Next]_vars
===============================================================================

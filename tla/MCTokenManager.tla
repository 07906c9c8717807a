----------------------------- MODULE MCTokenManager -----------------------------
(* A small world for TokenManager: three strings in a row, a at distance 1    *)
(* from b and b at distance 2 from c; a and c share two deletions although    *)
(* they are at distance 3, as transposed letters do.                          *)
EXTENDS TokenManager

CONSTANTS a, b, c

MCTokens == {a, b, c}

MCDist == [p \in MCTokens \X MCTokens |->
              IF p[1] = p[2] THEN 0
              ELSE IF {p[1], p[2]} = {a, b} THEN 1
              ELSE IF {p[1], p[2]} = {b, c} THEN 2 ELSE 3]

MCShare == [k \in 0..3 |->
               {p \in MCTokens \X MCTokens : \/ MCDist[p] <= k
                                             \/ k = 2 /\ {p[1], p[2]} = {a, c}}]

Request(t, type, dist) == [token |-> t, type |-> type, dist |-> dist, id |-> 1]

MCRequests == {Request(b, "edit", 1), Request(b, "ham", 2), Request(c, "exact", 0)}
===============================================================================

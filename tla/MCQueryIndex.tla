---------------------------- MODULE MCQueryIndex ------------------------------
(* Small query sets for TLC.  As hashvalue() skips the second token, <<1>>, *)
(* <<1, 2>> and <<1, 3>> of one type and distance share a hash value.      *)
EXTENDS QueryIndex

Query(words, type, dist) == [words |-> words, type |-> type, dist |-> dist]

LightWeight == [t \in Tokens |-> 1000 + 10 * t]
ShortQueries ==
    {Query(<<2, 1, 2>>, Hamming, 1), Query(<<1, 2>>, Hamming, 1), Query(<<1, 3>>, Hamming, 1),
     Query(<<1, 2>>, Hamming, 2), Query(<<1>>, Edit, 1), Query(<<3, 2, 1>>, Exact, 0)}

ZeroQueries == {Query(<<1, 2>>, Hamming, 0), Query(<<1>>, Exact, 0)}

SmallDocs == {doc \in SUBSET (Tokens \X {0, 1, 2, 4}) : Cardinality(doc) <= 3}
===============================================================================

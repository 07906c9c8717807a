---------------------------- MODULE MCDocumentPath ----------------------------
(* Strings of two letters and spaces: with a space in every place it can be *)
(* in, with words that are repeated, and with three words of one length.    *)
EXTENDS DocumentPath

(* Single documents, and two that share words.                              *)
MCBatches ==
    {<<s>> : s \in {<<1>>, <<0, 1>>, <<1, 0>>, <<1, 2>>, <<1, 0, 2>>, <<1, 0, 1>>, <<0, 0, 1>>,
                    <<2, 0, 0>>, <<1, 2, 0, 2, 1, 0, 1, 1>>}}
    \union {<<<<1, 0, 1, 2>>, <<2, 0, 1>>>>}

Query(str, type) == [str |-> str, type |-> type]

(* Two words out of order, one word in queries of two types, a space at the *)
(* end.                                                                     *)
MCQueries ==
    {<<>>,
     <<Query(<<0, 2, 0, 0, 1>>, 0)>>,
     <<Query(<<1, 0, 1>>, 1), Query(<<1, 2, 0, 1>>, 4)>>,
     <<Query(<<2, 1, 0>>, 0), Query(<<1, 2>>, 0)>>}
===============================================================================

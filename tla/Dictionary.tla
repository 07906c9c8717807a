------------------------------- MODULE Dictionary ------------------------------
(***************************************************************************)
(* What a dense_hash_map promises its callers: a finite map, and what each *)
(* call returns.  DuplicateIndex, Relations, SpaceBySize and GetMyid rely  *)
(* on no more than this.  A call is a relation between the map before it,  *)
(* m, the map after it, n, and the result r.                               *)
(***************************************************************************)
EXTENDS Naturals, Sequences

CONSTANTS
    Keys, Values,
    Ranges,         \* of pairs, to insert at once
    Asked,          \* the keys a caller may look up, of which some are never put in
    T0,             \* T(), the value a key starts with
    None            \* end(): the key is not there

VARIABLES
    map,            \* the pairs
    answer          \* what the last call returned

vars == <<map, answer>>

NoPairs == [k \in {} |-> T0]

Init == map = NoPairs /\ answer = None

(* The map with v for each of the keys that are not there.                 *)
Plus(m, ks, v) == [x \in DOMAIN m \union ks |-> IF x \in DOMAIN m THEN m[x] ELSE v]

Find(m, n, r, k) == n = m /\ r = IF k \in DOMAIN m THEN m[k] ELSE None

Exists(m, n, r, k) == n = m /\ r = (k \in DOMAIN m)

(* ==, and the calls that only rearrange the table.                        *)
Same(m, n, r) == n = m /\ r = TRUE

(* operator[], used as a place to write to.                                *)
Assign(m, n, r, k, v) == n = [Plus(m, {k}, v) EXCEPT ![k] = v] /\ r = v

(* insert, and DuplicateIndex::AddPair, do not overwrite, and say whether  *)
(* they inserted.                                                          *)
Insert(m, n, r, k, v) == n = Plus(m, {k}, v) /\ r = (k \notin DOMAIN m)

(* Of the pairs of a range with one key, the first is inserted.            *)
First(range, k) ==
    CHOOSE i \in DOMAIN range : range[i].key = k /\ \A j \in 1..i - 1 : range[j].key # k

Joined(m, range) ==
    [x \in DOMAIN m \union {range[i].key : i \in DOMAIN range} |->
        IF x \in DOMAIN m THEN m[x] ELSE range[First(range, x)].val]

InsertRange(m, n, r, range) == n = Joined(m, range) /\ r = TRUE

(* A new map of the pairs takes the place of the map.                      *)
Construct(n, r, range) == InsertRange(NoPairs, n, r, range)

Erase(m, n, r, k) == n = [x \in DOMAIN m \ {k} |-> m[x]] /\ r = (k \in DOMAIN m)

Clear(n, r) == n = NoPairs /\ r = TRUE

Call(m, n, r) ==
    \/ \E k \in Asked : Find(m, n, r, k) \/ Exists(m, n, r, k)
    \/ Same(m, n, r)
    \/ \E k \in Keys : \/ Erase(m, n, r, k)
                       \/ \E v \in Values : Assign(m, n, r, k, v) \/ Insert(m, n, r, k, v)
    \/ \E range \in Ranges : InsertRange(m, n, r, range) \/ Construct(n, r, range)
    \/ Clear(n, r)

Next == \E m \in {map}, n \in {map'}, r \in {answer'} : Call(m, n, r)

Spec == Init /\ [][Next]_vars
===============================================================================

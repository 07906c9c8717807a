----------------------------- MODULE DenseHashtable ----------------------------
(***************************************************************************)
(* dense_hashtable of sparsehash, the table behind every dense_hash_map of *)
(* the program: one array of buckets, triangular probing, a key that marks *)
(* empty buckets and one that marks erased ones.  The program looks up,    *)
(* assigns, iterates and clears; the other calls of the library are here   *)
(* too.  h is the table with its counters, and an operator on it is what a *)
(* member function makes of it.                                            *)
(*                                                                         *)
(* Every call finds the table as the last one left it: threads share some  *)
(* tables, but none while one of them is written (PhaseOrder).             *)
(***************************************************************************)
EXTENDS Integers, Sequences, FiniteSets, FiniteSetsExt

CONSTANTS
    Keys, Values,
    Ranges,             \* of pairs, to insert at once
    EmptyKey, DeletedKey,
    T0, None,
    Hashers,            \* the hash functions to try, of all keys
    KeySize,            \* sizeof(void *) if the keys are pointers, 1 if not
    HT_MIN_BUCKETS,
    HT_DEFAULT_STARTING_BUCKETS,    \* 2048 in this tree
    HT_OCCUPANCY_PCT, HT_EMPTY_PCT, \* 70, 28
    MaxDoublings        \* bound: no table is larger than the smallest, doubled so often

AllKeys == Keys \union {EmptyKey, DeletedKey}
Pairs == [key : Keys, val : Values]

(* The smallest table, doubled.                                            *)
Doubled[i \in 0..MaxDoublings] == IF i = 0 THEN HT_MIN_BUCKETS ELSE 2 * Doubled[i - 1]

Sizes == {Doubled[i] : i \in 0..MaxDoublings}

(* The elements that crowd a table of n buckets, and those that are few in *)
(* one.                                                                    *)
enlarge_size(n) == (n * HT_OCCUPANCY_PCT) \div 100
shrink_size(n) == (n * HT_EMPTY_PCT) \div 100

(* The bound on tables has room for n elements.                            *)
Fits(n) == {sz \in Sizes : n < enlarge_size(sz)} # {}

ASSUME KeysAssumption ==
    /\ EmptyKey \notin Keys /\ DeletedKey \notin Keys /\ EmptyKey # DeletedKey
    /\ IsFiniteSet(Keys)
ASSUME RangesAssumption == Ranges \subseteq Seq(Pairs)
ASSUME HashersAssumption == Hashers \subseteq [AllKeys -> Nat]
ASSUME SizesAssumption ==
    /\ HT_MIN_BUCKETS \in {4, 8, 16} /\ MaxDoublings \in Nat
    /\ HT_DEFAULT_STARTING_BUCKETS \in Sizes /\ Fits(Cardinality(Keys))
    /\ KeySize \in Nat \ {0}
    /\ HT_EMPTY_PCT \in Nat /\ HT_OCCUPANCY_PCT \in Nat
    /\ 2 * HT_EMPTY_PCT <= HT_OCCUPANCY_PCT /\ HT_OCCUPANCY_PCT < 100

VARIABLES
    hasher,     \* the hash function
    ht,         \* the table
    answer      \* what the last call returned

vars == <<hasher, ht, answer>>

-------------------------------------------------------------------------------
(* Buckets.                                                                *)

num_buckets(h) == Len(h.table)
Buckets(h) == 0..num_buckets(h) - 1
key(h, b) == h.table[b + 1].key

Marker(k) == [key |-> k, val |-> T0]

test_empty(h, b) == key(h, b) = EmptyKey
test_deleted(h, b) == h.num_deleted > 0 /\ key(h, b) = DeletedKey

(* The buckets that an iterator does not advance past.                     *)
Full(h) == {b \in Buckets(h) : ~test_empty(h, b) /\ ~test_deleted(h, b)}

set_value(h, b, obj) == [h EXCEPT !.table[b + 1] = obj]

size(h) == h.num_elements - h.num_deleted

(* mur(), or the hash function that the map has.                           *)
mur(k) == hasher[k]

(* If the keys are pointers, the low bits are dropped.                     *)
MungedHash(n) == n \div KeySize

hash(k) == MungedHash(mur(k))

(* The bucket of a probe: the first is where the hash says, and each is as *)
(* far from the last as its number.                                        *)
Probe(h, k, i) == (hash(k) + (i * (i + 1)) \div 2) % num_buckets(h)

(* Where the probes for a key end: at the key or at an empty bucket.       *)
Ends(h, k) ==
    {i \in Buckets(h) : LET b == Probe(h, k, i)
                         IN  test_empty(h, b) \/ (~test_deleted(h, b) /\ key(h, b) = k)}

(* Mutant of find_position: an erased bucket is taken at once.             *)
find_position_FirstFree(h, k) ==
    LET last == Min({i \in Buckets(h) : LET b == Probe(h, k, i)
                          IN test_empty(h, b) \/ test_deleted(h, b) \/ key(h, b) = k})
        b    == Probe(h, k, last)
    IN  IF key(h, b) = k THEN [first |-> {b}, second |-> {}]
        ELSE [first |-> {}, second |-> {b}]

(* Where the key is, or else where it goes: the first erased bucket on the *)
(* way, or the empty one.                                                  *)
find_position(h, k) ==
    LET last == Min(Ends(h, k))
        b    == Probe(h, k, last)
        free == {i \in 0..last : test_deleted(h, Probe(h, k, i))}
    IN  IF ~test_empty(h, b)
        THEN [first |-> {b}, second |-> {}]
        ELSE [first |-> {},
              second |-> {IF free = {} THEN b ELSE Probe(h, k, Min(free))}]

-------------------------------------------------------------------------------
(* Sizes.                                                                  *)

(* The smallest table that is wanted and not too crowded.                  *)
min_buckets(num_elts, wanted) ==
    Min({sz \in Sizes : sz >= wanted /\ num_elts < enlarge_size(sz)})

(* The thresholds are enlarge_size and shrink_size of the buckets.         *)
reset_thresholds(h) == [h EXCEPT !.consider_shrink = FALSE]

clear_to_size(h, n) ==
    [reset_thresholds(h) EXCEPT !.table = [i \in 1..n |-> Marker(EmptyKey)],
                                !.num_elements = 0, !.num_deleted = 0]

(* copy_from puts each element in the first empty bucket of its probes.    *)
PutCopy(h, obj) ==
    LET i == Min({i \in Buckets(h) : test_empty(h, Probe(h, obj.key, i))})
    IN  [set_value(h, Probe(h, obj.key, i), obj) EXCEPT !.num_elements = @ + 1]

(* The loop of copy_from, from begin() to end(): after b buckets.          *)
Copied(h, n) ==
    LET copied[b \in 0..num_buckets(h)] ==
            IF b = 0 THEN clear_to_size(h, n)
            ELSE IF b - 1 \in Full(h) THEN PutCopy(copied[b - 1], h.table[b]) ELSE copied[b - 1]
    IN  copied

(* Mutant of copy_from: the counter of the erased buckets stays.           *)
copy_from_KeepsDeleted(h, min_buckets_wanted) ==
    [Copied(h, min_buckets(size(h), min_buckets_wanted))[num_buckets(h)]
        EXCEPT !.num_deleted = h.num_deleted]

(* A copy, with no erased bucket.                                          *)
copy_from(h, min_buckets_wanted) ==
    Copied(h, min_buckets(size(h), min_buckets_wanted))[num_buckets(h)]

squash_deleted(h) ==
    IF h.num_deleted = 0 THEN h ELSE copy_from(h, HT_DEFAULT_STARTING_BUCKETS)

(* Whether a table that has seen erasures is too large now ...             *)
shrinks(h) ==
    /\ size(h) < shrink_size(num_buckets(h))
    /\ num_buckets(h) > HT_DEFAULT_STARTING_BUCKETS

(* ... and the size it then shrinks to.                                    *)
shrunk(h) ==
    Max({sz \in Sizes : /\ sz <= num_buckets(h) \div 2
                          /\ \/ sz <= HT_DEFAULT_STARTING_BUCKETS
                             \/ size(h) * 100 >= sz * HT_EMPTY_PCT})

maybe_shrink(h) ==
    IF shrinks(h) THEN copy_from(h, shrunk(h)) ELSE [h EXCEPT !.consider_shrink = FALSE]

(* The size for delta more elements, once it is too small: counting the    *)
(* erased buckets it must be larger; without them it may do as it is, and  *)
(* is doubled only if that is not too large.                               *)
resize_to(h, delta) ==
    LET needed_size == min_buckets(h.num_elements + delta, 0)
        to          == min_buckets(size(h) + delta, num_buckets(h))
    IN  IF to < needed_size /\ size(h) + delta >= shrink_size(to * 2) THEN to * 2 ELSE to

crowded(h, delta) ==
    /\ num_buckets(h) < HT_MIN_BUCKETS \/ h.num_elements + delta > enlarge_size(num_buckets(h))
    /\ min_buckets(h.num_elements + delta, 0) > num_buckets(h)

considered(h) == IF h.consider_shrink THEN maybe_shrink(h) ELSE h

(* Mutant of resize_delta: erased buckets do not count.                    *)
resize_delta_Live(h, delta) ==
    LET g == considered(h)
    IN  IF crowded([g EXCEPT !.num_elements = size(g)], delta)
        THEN copy_from(g, resize_to(g, delta)) ELSE g

resize_delta(h, delta) ==
    LET g == considered(h)
    IN  IF crowded(g, delta) THEN copy_from(g, resize_to(g, delta)) ELSE g

(* Whether it did resize.                                                  *)
did_resize(h, delta) == (h.consider_shrink /\ shrinks(h)) \/ crowded(considered(h), delta)

-------------------------------------------------------------------------------
(* Insertion and deletion.                                                 *)

insert_at(h, obj, b) ==
    set_value(IF test_deleted(h, b) THEN [h EXCEPT !.num_deleted = @ - 1]
              ELSE [h EXCEPT !.num_elements = @ + 1], b, obj)

insert_noresize(h, obj) ==
    LET pos == find_position(h, obj.key)
    IN  IF pos.first # {} THEN h
        ELSE insert_at(h, obj, CHOOSE b \in pos.second : TRUE)

(* The place is found before there is room for it.                         *)
find_or_insert(h, k) ==
    LET pos == find_position(h, k)
    IN  IF pos.first # {} THEN h
        ELSE IF did_resize(h, 1) THEN insert_noresize(resize_delta(h, 1), Marker(k))
        ELSE insert_at(resize_delta(h, 1), Marker(k), CHOOSE b \in pos.second : TRUE)

(* insert of a range makes room for all of it first, ...                   *)
insert_range(h, range) ==
    LET inserted[i \in 0..Len(range)] ==
            IF i = 0 THEN resize_delta(h, Len(range)) ELSE insert_noresize(inserted[i - 1], range[i])
    IN  inserted[Len(range)]

(* ... and for pair by pair if it can be gone through only once.           *)
insert_each(h, range) ==
    LET inserted[i \in 0..Len(range)] ==
            IF i = 0 THEN h ELSE insert_noresize(resize_delta(inserted[i - 1], 1), range[i])
    IN  inserted[Len(range)]

(* find: end() at once if there is no element.                             *)
found(h, k) == IF size(h) = 0 THEN {} ELSE find_position(h, k).first

value(h, k) == IF found(h, k) = {} THEN None
               ELSE h.table[(CHOOSE b \in found(h, k) : TRUE) + 1].val

(* operator[] = v                                                          *)
assigned(h, k, v) ==
    LET g == find_or_insert(h, k)
    IN  set_value(g, CHOOSE b \in find_position(g, k).first : TRUE, [key |-> k, val |-> v])

(* set_deleted, of buckets that have an element.                           *)
set_deleted(h, bs) ==
    [h EXCEPT !.table = [i \in DOMAIN h.table |->
                            IF i - 1 \in bs THEN Marker(DeletedKey) ELSE h.table[i]],
              !.num_deleted = @ + Cardinality(bs), !.consider_shrink = TRUE]

(* operator==                                                              *)
Equal(h, g) ==
    /\ size(h) = size(g)
    /\ \A b \in Full(h) : value(g, key(h, b)) = h.table[b + 1].val

-------------------------------------------------------------------------------
(* The calls.                                                              *)

(* The constructor: a table for so many elements, or of the default size.  *)
NewTable(expected) ==
    [table |-> [i \in 1..(IF expected = 0 THEN HT_DEFAULT_STARTING_BUCKETS
                          ELSE min_buckets(expected, 0)) |-> Marker(EmptyKey)],
     num_elements |-> 0, num_deleted |-> 0, consider_shrink |-> FALSE, use_deleted |-> FALSE]

(* Expected elements, a bound: none, or all.                               *)
Expected == {0, Cardinality(Keys)}

(* After set_empty_key.                                                    *)
Init ==
    /\ hasher \in Hashers
    /\ \E expected \in Expected : ht = NewTable(expected)
    /\ answer = None

Returns(x) == answer' = x /\ UNCHANGED hasher

(* There is room for n elements more.  A bound: where min_buckets throws,  *)
(* the call is not made.                                                   *)
HasRoom(n) == Fits(ht.num_elements + n)

(* Keys that are looked up may be the markers.                             *)
Find(k) == UNCHANGED ht /\ Returns(value(ht, k))

(* Without a look at size().                                               *)
Count(k) == UNCHANGED ht /\ Returns(find_position(ht, k).first # {})

(* The elements from find() to the next.                                   *)
EqualRange(k) == UNCHANGED ht /\ Returns(found(ht, k) # {})

Assign(k, v) == HasRoom(1) /\ ht' = assigned(ht, k, v) /\ Returns(v)

(* insert of a pair, and of a range of pairs.                              *)
Insert(k, v) ==
    /\ HasRoom(1)
    /\ ht' = insert_noresize(resize_delta(ht, 1), [key |-> k, val |-> v])
    /\ Returns(find_position(resize_delta(ht, 1), k).first = {})

InsertRange(range) ==
    /\ HasRoom(Len(range))
    /\ ht' = insert_range(ht, range)
    /\ Returns(TRUE)

InsertEach(range) ==
    /\ HasRoom(Len(range))
    /\ ht' = insert_each(ht, range)
    /\ Returns(TRUE)

(* A new map of a range takes the place of the map.                        *)
Construct(range) ==
    /\ Fits(Len(range))
    /\ \E expected \in Expected : ht' = insert_range(NewTable(expected), range)
    /\ Returns(TRUE)

(* swap with a new map.                                                    *)
Swap ==
    /\ \E expected \in Expected : ht' = reset_thresholds(NewTable(expected))
    /\ Returns(TRUE)

(* erase of a key, or of the iterator that find() gave for it.             *)
Erase(k) ==
    /\ ht.use_deleted
    /\ ht' = IF found(ht, k) = {} THEN ht ELSE set_deleted(ht, found(ht, k))
    /\ Returns(found(ht, k) # {})

(* erase from begin() to end().                                            *)
EraseRange ==
    /\ ht.use_deleted
    /\ ht' = set_deleted(ht, Full(ht))
    /\ Returns(TRUE)

SetDeletedKey == ht' = [squash_deleted(ht) EXCEPT !.use_deleted = TRUE] /\ Returns(TRUE)

ClearDeletedKey == ht' = [squash_deleted(ht) EXCEPT !.use_deleted = FALSE] /\ Returns(TRUE)

Clear ==
    /\ ht' = IF ht.num_elements = 0 /\ min_buckets(0, 0) = num_buckets(ht) THEN ht
             ELSE clear_to_size(ht, min_buckets(0, 0))
    /\ Returns(TRUE)

ClearNoResize == ht' = clear_to_size(ht, num_buckets(ht)) /\ Returns(TRUE)

Resize(n) ==
    LET g == IF ht.consider_shrink \/ n = 0 THEN maybe_shrink(ht) ELSE ht
    IN  /\ ht' = IF n > g.num_elements THEN resize_delta(g, n - g.num_elements) ELSE g
        /\ Returns(TRUE)

(* The copy constructor and operator=: the copy takes the table's place.   *)
Copy ==
    /\ \E wanted \in {HT_MIN_BUCKETS, HT_DEFAULT_STARTING_BUCKETS} :
          ht' = copy_from(ht, wanted)
    /\ Returns(Equal(ht, ht') /\ Equal(ht', ht))

(* serialize compacts the table and writes which buckets are not empty and *)
(* what they hold, unserialize puts that back; here one after the other.   *)
Reload ==
    LET h    == squash_deleted(ht)
        bits == {b \in Buckets(h) : ~test_empty(h, b)}
    IN  /\ ht' = [clear_to_size(h, num_buckets(h)) EXCEPT
                     !.num_elements = h.num_elements,
                     !.table = [i \in DOMAIN h.table |->
                                   IF i - 1 \in bits THEN h.table[i] ELSE @[i]]]
        /\ Returns(TRUE)

-------------------------------------------------------------------------------
(* DuplicateIndex: the ids of strings, which are pointers with mur() as    *)
(* their hash function and strcmp() as their equality.                     *)

AddPair(str, tid) ==
    /\ HasRoom(1)
    /\ ht' = IF found(ht, str) # {} THEN ht ELSE assigned(ht, str, tid)
    /\ Returns(found(ht, str) = {})

Exists(str) == UNCHANGED ht /\ Returns(found(ht, str) # {})

LookUpTokenExactManager(str) == UNCHANGED ht /\ Returns(value(ht, str))

-------------------------------------------------------------------------------
Library ==
    \/ \E k \in AllKeys : Find(k) \/ Count(k) \/ EqualRange(k)
    \/ \E k \in Keys, v \in Values : Assign(k, v) \/ Insert(k, v)
    \/ \E range \in Ranges : InsertRange(range) \/ InsertEach(range) \/ Construct(range)
    \/ \E k \in Keys : Erase(k)
    \/ \E n \in 0..Cardinality(Keys) : Resize(n)
    \/ EraseRange \/ SetDeletedKey \/ ClearDeletedKey
    \/ Clear \/ ClearNoResize \/ Swap \/ Copy \/ Reload

DuplicateIndex ==
    \E k \in Keys : \/ Exists(k) \/ LookUpTokenExactManager(k)
                    \/ \E v \in Values : AddPair(k, v)

Next == Library \/ DuplicateIndex

Spec == Init /\ [][Next]_vars

-------------------------------------------------------------------------------
(* Properties.                                                             *)

(* The table has its shape, and its two counters count its buckets: the    *)
(* sizes it grows and shrinks to, and whether an erased bucket is seen at  *)
(* all, depend on them.                                                    *)
TypeOK ==
    /\ num_buckets(ht) \in Sizes
    /\ ht.table \in Seq([key : AllKeys, val : Values \union {T0}])
    /\ ht.num_deleted = Cardinality({b \in Buckets(ht) : key(ht, b) = DeletedKey})
    /\ ht.num_elements = Cardinality({b \in Buckets(ht) : ~test_empty(ht, b)})
    /\ ht.num_deleted > 0 => ht.use_deleted

(* A search for any key ends within as many probes as there are buckets,   *)
(* at the key or at an empty bucket (densehashtable.h:844-846), although   *)
(* erased buckets fill the table and no call but an insertion looks at its *)
(* size.                                                                   *)
ProbesEnd ==
    /\ \A k \in AllKeys : Ends(ht, k) # {}
    /\ ht.num_elements < num_buckets(ht)

(* The table is a finite map, whatever the hash function, the collisions,  *)
(* the erased buckets, the copies and the sizes it went through: no call   *)
(* loses, repeats or resurrects a pair, and each returns what it should.   *)
contents(h) ==
    [k \in {key(h, b) : b \in Full(h)} |->
        h.table[(CHOOSE b \in Full(h) : key(h, b) = k) + 1].val]

dictionary == INSTANCE Dictionary WITH map <- contents(ht), Asked <- AllKeys

ImplementsDictionary == dictionary!Spec
===============================================================================

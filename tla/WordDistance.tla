----------------------------- MODULE WordDistance -----------------------------
(***************************************************************************)
(* stavroshtein() of top_impl.h, which decides how two words match: bit 0  *)
(* of its result means exactly, bit d within hamming distance d, bit 3 + d *)
(* within edit distance d, for d in 1..3.  There is a routine of its own   *)
(* for each difference of the lengths, which follows one or two diagonals  *)
(* where the textbook fills a table.                                       *)
(*                                                                         *)
(* A word is a sequence of letters, positions count from 0 as in the code  *)
(* and a result is the set of its bits.  A loop is a fold over the         *)
(* positions it goes through; an early return that only saves time is left *)
(* out.  DeletionSearch compares the pairs that its searches find.         *)
(***************************************************************************)
EXTENDS Distances

(* The letter at a position; 0 ends the word.                              *)
At(w, i) == IF i < Len(w) THEN w[i + 1] ELSE 0

(* Whether two letters differ, are equal, as a number.                     *)
Ne(s, i, t, j) == IF At(s, i) # At(t, j) THEN 1 ELSE 0
Eq(s, i, t, j) == 1 - Ne(s, i, t, j)

(* The positions from..to - 1, in order.                                   *)
Upto(from, to) == [x \in 1..to - from |-> from + x - 1]

(* bits << by, in the seven bits of a result.                              *)
Shift(bits, by) == {b + by : b \in bits} \intersect 0..6

-------------------------------------------------------------------------------
(* The second word is longer by three, two, one.                           *)

(* All three letters are in gaps: the word matches along the diagonals,    *)
(* from each mismatch on one further out.                                  *)
EditHammingdiff3(s, t) ==
    LET n == Len(s)
        slide(i, d) == MinOf({x \in i..n : x = n \/ At(s, x) # At(t, x + d)})
        p == slide(0, 0)
    IN  IF \/ p = n
           \/ \E d \in 1..3 :
                /\ At(s, p) = At(t, p + d)
                /\ LET p1 == slide(p + 1, d)
                   IN  \/ p1 = n
                       \/ \E d2 \in d + 1..3 :
                            /\ At(s, p1) = At(t, p1 + d2)
                            /\ LET p2 == slide(p1 + 1, d2)
                               IN  p2 = n \/ (d2 = 2 /\ slide(p2, 3) = n)
        THEN {6} ELSE {}

(* h1, h2 count the mismatches of a path now on the diagonal 1, 2.         *)
EditHammingdiff2(s, t) ==
    LET n     == Len(s)
        diffs == SelectSeq(Upto(0, n), LAMBDA i : At(s, i) # At(t, i))
        p     == diffs[1]
        p1    == IF Len(diffs) = 1 THEN n - 1 ELSE diffs[2]
        h2(h, i) == IF At(s, i) # At(t, i + 2) THEN h[2] + 1 ELSE MinOf({h[1], h[2]})
        first(h, i) ==
            IF h[1] > 0 /\ h[2] > 0 THEN h
            ELSE <<IF At(s, i) # At(t, i + 1) THEN 1 ELSE h[1], h2(h, i)>>
        second(h, i) == <<h[1] + Ne(s, i, t, i + 1), h2(h, i)>>
        found == FoldLeft(first, <<0, 0>>, Upto(p, p1))
        h     == <<MinOf({1, found[1]}), MinOf({1, found[2]})>>
        rest  == FoldLeft(second, h, Upto(p1, n))
        lastMisses == \A j \in n - 1..n + 1 : At(s, n - 1) # At(t, j)
    IN  IF diffs = <<>> THEN {5, 6}
        ELSE IF Len(diffs) = 1 /\ p = n - 1
        THEN Shift({5, 6}, Ne(s, n - 1, t, n + 1) * Ne(s, n - 1, t, n))
        ELSE IF h = <<1, 1>> /\ p1 = n - 1
        THEN Shift({5, 6}, 1 + IF lastMisses THEN 1 ELSE 0)
        ELSE Shift({5, 6}, MinOf({rest[1], rest[2]}))

(* Four diagonals: h the main one, hr and hr2 right of it, hl left of it.  *)
EditHammingdiff1(s, t) ==
    LET n == Len(s)
        before(i, j) == IF i < 0 \/ j < 0 THEN 1 ELSE Eq(s, i, t, j)
        step(c, i) ==
            LET h   == MinOf({c.h, c.hr + before(i - 1, i), c.hl + before(i, i - 1)}) + Ne(s, i, t, i)
                hr  == MinOf({h + Eq(s, i, t, i), c.hr, c.hr2 + before(i - 1, i + 1),
                              c.hl + 1 + before(i, i - 1)}) + Ne(s, i, t, i + 1)
                hr2 == MinOf({h + 1 + Eq(s, i, t, i), hr + Eq(s, i, t, i + 1), c.hr2})
                           + Ne(s, i, t, i + 2)
                hl  == MinOf({h + (IF i = 0 THEN 1 ELSE Eq(s, i, t, i)), c.hl}) + Ne(s, i + 1, t, i)
                temp == MinOf({h + 1, hr, hr2, hl + 1})
            IN  [h |-> h, hr |-> hr, hr2 |-> hr2, hl |-> hl, temp |-> temp,
                 out |-> c.out \/ (i > 0 /\ temp > 3)]
        end == FoldLeft(step, [h |-> 0, hr |-> 1, hr2 |-> 2, hl |-> 1, temp |-> 0, out |-> FALSE],
                        Upto(0, n))
    IN  IF end.out THEN {} ELSE Shift({3, 4, 5}, end.temp)

-------------------------------------------------------------------------------
(* The words are of one length.                                            *)

(* Lines 346-392, from the mismatch p, 0 or 1, with a letter skipped in    *)
(* the second word (q = 0) or the first (q = 1): how far the words match   *)
(* off the diagonal, and how they do when they come back to it.  temp is   *)
(* the C variable, which may be left over from what was done before.       *)
Detour(s, t, diffs, r, p, q) ==
    LET n   == Len(s)
        d   == diffs[p + 1]
        len == n - 1 - d
        cur_thr == MinOf({r.ed - 1, 3})
        off(x) == Ne(s, d + x + q, t, d + x + 1 - q)
        step(w, x) ==
            IF w.val >= cur_thr THEN w
            ELSE [val |-> w.val + off(x), temp |-> off(x), c |-> w.c + off(x),
                  startpos |-> [w.startpos EXCEPT ![w.c] = d + x], steps |-> w.steps + 1]
        w == FoldLeft(step, [val |-> p + 1, temp |-> r.temp, c |-> 2,
                             startpos |-> [i \in {2, 3} |-> n - 1], steps |-> 0], Upto(0, len))
        ed == IF w.steps = len
              THEN MinOf({r.ed, w.val + 1 - Eq(s, n - 1, t, n - 1) * w.temp}) ELSE r.ed
        back1 == w.startpos[2]
        back2 == IF p = 1 THEN n - 1 ELSE w.startpos[3]
        misses(from, to) == Cardinality({i \in from..to : At(s, i) # At(t, i)})
        val == MinOf({p + 2 + misses(back1 + 1, back2), p + 3}) + misses(back2 + 1, n - 1)
    IN  [ed |-> MinOf({ed, val}), temp |-> ed]

(* Mutant of EditHamming: only the first mismatch is tried.                *)
EditHamming_FirstOnly(s, t) ==
    LET n     == Len(s)
        diffs == SelectSeq(Upto(0, n), LAMBDA i : At(s, i) # At(t, i))
        c     == MinOf({Len(diffs), 4})
        ed    == IF c < 4 THEN c ELSE 4 + n - (diffs[4] + 1)
        tried == Detour(s, t, diffs, [ed |-> ed, temp |-> Ne(s, n - 1, t, n - 1)], 0, 0)
    IN  c..3 \union Shift({3, 4, 5, 6}, c) \union
            IF c < 2 THEN Shift({3, 4, 5}, ed) ELSE Shift({3, 4, 5}, tried.ed)

(* The first mismatches, at most four, and then the four detours.          *)
EditHamming(s, t) ==
    LET n     == Len(s)
        diffs == SelectSeq(Upto(0, n), LAMBDA i : At(s, i) # At(t, i))
        c     == MinOf({Len(diffs), 4})
        ed    == IF c < 4 THEN c ELSE 4 + n - (diffs[4] + 1)
        temp  == IF c < 4 THEN Ne(s, n - 1, t, n - 1) ELSE 1
        tried == FoldLeft(LAMBDA r, pq : Detour(s, t, diffs, r, pq[1], pq[2]),
                          [ed |-> ed, temp |-> temp], <<<<0, 0>>, <<0, 1>>, <<1, 0>>, <<1, 1>>>>)
    IN  c..3 \union Shift({3, 4, 5, 6}, c) \union Shift({3, 4, 5}, ed) \union
            IF c < 2 THEN {} ELSE Shift({3, 4, 5}, tried.ed)

(* stavroshtein: the shorter word first.                                   *)
stavroshtein(s, t) ==
    LET a == IF Len(s) > Len(t) THEN t ELSE s
        b == IF Len(s) > Len(t) THEN s ELSE t
    IN  CASE Len(b) - Len(a) = 0 -> EditHamming(a, b)
          [] Len(b) - Len(a) = 1 -> EditHammingdiff1(a, b)
          [] Len(b) - Len(a) = 2 -> EditHammingdiff2(a, b)
          [] Len(b) - Len(a) = 3 -> EditHammingdiff3(a, b)
          [] OTHER -> {}
===============================================================================

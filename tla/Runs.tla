-------------------------------- MODULE Runs --------------------------------
(***************************************************************************)
(* Arrays of pairs, and what merging two sorted runs of one should give    *)
(* (startle/map.c).                                                        *)
(***************************************************************************)
EXTENDS Naturals, Sequences, FiniteSets

Pair(k, v) == [first |-> k, second |-> v]

\* cmp() on two pairs.
Less(p, r) == p.first < r.first

Shorter(x, y) == IF x <= y THEN x ELSE y

\* The places from lo on, and before hi, are in order.
is_ordered(e, lo, hi) == \A i \in lo .. hi - 2 : ~Less(e[i + 1], e[i])

KeysSorted(ks) == \A i \in 1 .. Len(ks) - 1 : ks[i] <= ks[i + 1]

Exchange(e, x, y) == [e EXCEPT ![x] = e[y], ![y] = e[x]]

\* The blocks of n pairs at x and at y change places.
swap_block(e, x, y, n) ==
  [i \in DOMAIN e |->
     CASE i \in x .. x + n - 1 -> e[i - x + y]
       [] i \in y .. y + n - 1 -> e[i - y + x]
       [] OTHER                -> e[i]]

\* The pairs from mid on come before those from lo on, up to hi.
rotate(e, lo, mid, hi) ==
  [i \in DOMAIN e |->
     CASE i \in lo .. lo + (hi - mid) - 1 -> e[i + (mid - lo)]
       [] i \in lo + (hi - mid) .. hi - 1 -> e[i - (hi - mid)]
       [] OTHER                          -> e[i]]

\* mutant: pairs with the same key as p count, too.
ScanEqual(e, lo, hi, p) ==
  CHOOSE n \in 0 .. hi - lo :
    /\ \A i \in lo .. lo + n - 1 : ~Less(p, e[i])
    /\ n = hi - lo \/ Less(p, e[lo + n])

\* How many pairs from lo on, and before hi, come before p.
scan(e, lo, hi, p) ==
  CHOOSE n \in 0 .. hi - lo :
    /\ \A i \in lo .. lo + n - 1 : Less(e[i], p)
    /\ n = hi - lo \/ ~Less(e[lo + n], p)

\* Four steps of Newton's method.
isqrt(x) ==
  LET Better(a) == (a + x \div a) \div 2
  IN  IF x < 2 THEN x ELSE Better(Better(Better(Better(x \div 2))))

\* The runs from lo and from mid become one, up to hi, in which pairs of the
\* first come before pairs of the second with the same key.
Merged(e, lo, mid, hi) ==
  LET rest[i \in lo .. mid, j \in mid .. hi] ==
        CASE i = mid -> SubSeq(e, j, hi - 1)
          [] i < mid /\ (j = hi \/ ~Less(e[j], e[i])) -> <<e[i]>> \o rest[i + 1, j]
          [] OTHER -> <<e[j]>> \o rest[i, j + 1]
  IN  SubSeq(e, 1, lo - 1) \o rest[lo, mid] \o SubSeq(e, hi, Len(e))
=============================================================================

---------------------------- MODULE MergeProofs -----------------------------
(***************************************************************************)
(* Proofs about merging two runs, in place and with a buffer, for all      *)
(* sorted runs.                                                            *)
(*                                                                         *)
(* In place, the invariant is about the call that runs (Innermost) and the *)
(* calls that wait for it (Pending): what is left of the two runs and the  *)
(* queue, read from its head on, are in order, what was given out comes    *)
(* before them, and only the part that an inner call is given changes      *)
(* until it returns.  With a buffer, the array with the waiting pairs in   *)
(* its free places (Whole) is one that merge() could have, so the same     *)
(* invariant serves (Filling).                                             *)
(***************************************************************************)
EXTENDS MergeRuns, Integers, TLAPS, WellFoundedInduction

Pairs == [first : Nat, second : Nat]

\* The order of the result: of pairs with the same key, where the function is
\* stable, the one that was first at first.
Ordered(s, p, r) == Less(p, r) \/ (p.first = r.first /\ (s => p.second < r.second))

Sorted(s, e, lo, hi) == \A i, j \in lo .. hi - 1 : i < j => Ordered(s, e[i], e[j])

Before(s, e, lo, hi, from, to) ==
  \A i \in lo .. hi - 1 : \A j \in from .. to - 1 : Ordered(s, e[i], e[j])

\* Pairs of the first run and pairs of the second: those of the first come first
\* unless a key is less.
Sides(s, e, lo, hi, from, to) ==
  \A i \in lo .. hi - 1 : \A j \in from .. to - 1 :
    ~Less(e[j], e[i]) => Ordered(s, e[i], e[j])

SamePairs(e, d) == {e[i] : i \in DOMAIN e} = {d[i] : i \in DOMAIN d}

-----------------------------------------------------------------------------
\* The calls of merge().
Frames == [kind : {"merge"}, a : Nat, b : Nat, q : Nat, h : Nat, end : Nat]

\* Where the parts of the array are that is merged, from lo on and before end:
\* what was given out, a, the queue with its head h, and b.
Pointers(lo, a, q, h, b, end) ==
  /\ 1 <= lo /\ lo <= a /\ a <= q /\ q <= h /\ h <= b /\ b <= end
  /\ q < b => h < b

Output(s, e, lo, a, q, end) ==
  Sorted(s, e, lo, a) /\ Before(s, e, lo, a, a, end) /\ Sorted(s, e, a, q)

\* The ring, from its head on.
Ring(s, e, a, q, h, b) ==
  /\ Sorted(s, e, h, b) /\ Sorted(s, e, q, h) /\ Before(s, e, h, b, q, h)
  /\ Before(s, e, q, b, a, q)

Second(s, e, a, b, end) == Sorted(s, e, b, end) /\ Sides(s, e, a, b, b, end)

Innermost(s, e, lo, a, q, h, b, end) ==
  /\ Pointers(lo, a, q, h, b, end) /\ Output(s, e, lo, a, q, end)
  /\ Ring(s, e, a, q, h, b) /\ Second(s, e, a, b, end)

Current(s, e, lo, f) ==
  /\ Innermost(s, e, lo, f.a, f.q, f.h, f.b, f.end)
  /\ f.a = f.q => f.q = f.b

\* A call that waits for another, that of its queue and its b.
Pending(s, e, lo, f) ==
  /\ 1 <= lo /\ lo <= f.a /\ f.a <= f.q /\ f.q = f.b /\ f.h = f.b /\ f.b <= f.end
  /\ Output(s, e, lo, f.a, f.q, f.end)

\* Where the array of the k-th call starts.
Base(c, k) == IF k = Len(c) THEN 1 ELSE c[k + 1].b

\* The calls c, of an array of n pairs.
Stacked(s, e, c, n) ==
  /\ \A k \in 1 .. Len(c) : c[k].end = n + 1
  /\ c # <<>> => Current(s, e, Base(c, 1), c[1])
  /\ \A k \in 2 .. Len(c) : Pending(s, e, Base(c, k), c[k])
  /\ \A j, k \in 2 .. Len(c) : j < k => c[k].b <= c[j].b
  /\ Len(c) > 1 => ~s
  /\ c = <<>> => Sorted(s, e, 1, n + 1)

InPlaceInv ==
  calls \in Seq(Frames) /\ Stacked(Stable, array, calls, Len(array)) /\ SamePairs(array, unmerged)

-----------------------------------------------------------------------------
\* The call of merge_with_buffer_fast().
Buffered ==
  [kind : {"buffer"}, a : Nat, b : Nat, aEnd : Nat, end : Nat, h : Nat, t : Nat,
   buf : Seq(Pairs)]

\* The place of the ring that is j places after t.
Along(t, j, size) == IF t + j <= size THEN t + j ELSE t + j - size

\* In the first run no place is free.
Filled(a, m) == IF a < m THEN m ELSE a

\* The array e with the pairs of the buffer in the places that are free, from q
\* on and before b; it is then as that of merge() would be with a queue whose
\* head comes first.
Whole(e, buf, t, size, q, b) ==
  [i \in DOMAIN e |-> IF i \in q .. b - 1 THEN buf[Along(t, i - q, size)] ELSE e[i]]

\* Of n pairs those from m on are the second run.
Places(a, b, h, t, q, n, m) ==
  /\ 1 <= a /\ q <= b /\ b <= n + 1
  /\ a < m => b < n + 1 /\ b - m < a
  /\ t \in 1 .. n + 1 - m /\ b - q < n + 1 - m
  /\ h = Along(t, b - q, n + 1 - m)

\* f is the call.
Filling(s, e, f, n, m) ==
  /\ f.aEnd = m /\ f.end = n + 1 /\ Len(f.buf) = n + 1 - m
  /\ Places(f.a, f.b, f.h, f.t, Filled(f.a, m), n, m)
  /\ Innermost(s, Whole(e, f.buf, f.t, n + 1 - m, Filled(f.a, m), f.b),
               1, f.a, Filled(f.a, m), Filled(f.a, m), f.b, n + 1)

BufferInv ==
  \/ /\ calls = <<>>
     /\ Sorted(Stable, array, 1, End) /\ SamePairs(array, unmerged)
  \/ /\ Len(calls) = 1 /\ calls \in Seq(Buffered)
     /\ Filling(Stable, array, calls[1], Len(array), cut)
     /\ LET f == calls[1]
        IN  SamePairs(Whole(array, f.buf, f.t, End - cut, Filled(f.a, cut), f.b), unmerged)

MergeInv ==
  /\ array \in Seq(Pairs) /\ unmerged \in Seq(Pairs) /\ Len(array) = Len(unmerged)
  /\ cut \in Nat /\ how \in {"merge", "buffer", "rebalanced"}
  /\ how = "buffer" => 1 < cut /\ cut < End /\ End - cut < cut
  /\ IF how = "buffer" THEN BufferInv ELSE InPlaceInv

-----------------------------------------------------------------------------
(* The order.                                                              *)

\* A pair with a lesser key comes first.
LEMMA LessIsOrdered ==
  ASSUME NEW s, NEW p \in Pairs, NEW r \in Pairs, Less(p, r)
  PROVE  Ordered(s, p, r)
  BY DEF Ordered

\* The order is transitive.
LEMMA OrderedTransitive ==
  ASSUME NEW s \in BOOLEAN, NEW p \in Pairs, NEW r \in Pairs, NEW t \in Pairs,
         Ordered(s, p, r), Ordered(s, r, t)
  PROVE  Ordered(s, p, t)
  BY DEF Ordered, Less, Pairs

\* A pair that comes after another has no lesser key.
LEMMA OrderedIsNotLess ==
  ASSUME NEW s \in BOOLEAN, NEW p \in Pairs, NEW r \in Pairs, Ordered(s, p, r)
  PROVE  ~Less(r, p)
  BY DEF Ordered, Less, Pairs

\* What is in order with regard to stability is in order without.
LEMMA OrderedWeakly ==
  ASSUME NEW s \in BOOLEAN, NEW w \in BOOLEAN, ~w, NEW p \in Pairs, NEW r \in Pairs, Ordered(s, p, r)
  PROVE  Ordered(w, p, r)
  BY DEF Ordered, Less, Pairs

\* Where stability does not matter, keys that are not less are in order.
LEMMA NotLessIsOrdered ==
  ASSUME NEW w \in BOOLEAN, ~w, NEW p \in Pairs, NEW r \in Pairs, ~Less(r, p)
  PROVE  Ordered(w, p, r)
  BY DEF Ordered, Less, Pairs

-----------------------------------------------------------------------------
(* Moving pairs in an array.                                               *)

\* In d the pairs of e from lo on, and before hi, have changed places.
Moved(e, d, n, lo, hi) ==
  /\ d \in [1 .. n -> Pairs]
  /\ \A i \in 1 .. n : i < lo \/ i >= hi => d[i] = e[i]
  /\ \A i \in lo .. hi - 1 : \E j \in lo .. hi - 1 : d[i] = e[j]
  /\ \A j \in lo .. hi - 1 : \E i \in lo .. hi - 1 : e[j] = d[i]

\* A part of d is the part of e that starts at at.
Shifted(d, from, to, e, at) == \A i \in from .. to - 1 : d[i] = e[i - from + at]

Same(d, from, to, e) == \A i \in from .. to - 1 : d[i] = e[i]

\* Two changes of places, the second within the first.
LEMMA MovedTwice ==
  ASSUME NEW n \in Nat, NEW e, NEW d, NEW g, NEW lo \in Nat, NEW hi \in Nat,
         NEW from \in Nat, NEW to \in Nat,
         1 <= lo, lo <= from, to <= hi, hi <= n + 1,
         Moved(e, d, n, lo, hi), Moved(d, g, n, from, to)
  PROVE  Moved(e, g, n, lo, hi)
<1>1. g \in [1 .. n -> Pairs] /\ \A i \in 1 .. n : i < lo \/ i >= hi => g[i] = e[i]
  BY DEF Moved
<1>2. ASSUME NEW i \in lo .. hi - 1
      PROVE  (\E j \in lo .. hi - 1 : g[i] = d[j]) /\ (\E j \in lo .. hi - 1 : d[i] = g[j])
  <2>1. CASE i \in from .. to - 1
    <3>1. \A j \in from .. to - 1 : j \in lo .. hi - 1
      OBVIOUS
    <3> QED BY <2>1, <3>1 DEF Moved
  <2>2. CASE ~(i \in from .. to - 1)
    <3>1. g[i] = d[i]
      BY <2>2 DEF Moved
    <3> QED BY <3>1
  <2> QED BY <2>1, <2>2
<1>3. ASSUME NEW i \in lo .. hi - 1
      PROVE  (\E j \in lo .. hi - 1 : g[i] = e[j]) /\ (\E j \in lo .. hi - 1 : e[i] = g[j])
  <2>1. PICK j \in lo .. hi - 1 : g[i] = d[j]
    BY <1>2
  <2>2. PICK k \in lo .. hi - 1 : e[i] = d[k]
    BY DEF Moved
  <2>3. \E m \in lo .. hi - 1 : d[j] = e[m]
    BY DEF Moved
  <2>4. \E m \in lo .. hi - 1 : d[k] = g[m]
    BY <1>2
  <2> QED BY <2>1, <2>2, <2>3, <2>4
<1> QED BY <1>1, <1>3 DEF Moved

\* No change is one, too.
LEMMA NothingMoved ==
  ASSUME NEW n \in Nat, NEW e \in [1 .. n -> Pairs], NEW lo \in Nat, NEW hi \in Nat
  PROVE  Moved(e, e, n, lo, hi)
  BY DEF Moved

\* A change of places keeps the pairs.
LEMMA MovedKeepsPairs ==
  ASSUME NEW n \in Nat, NEW e \in [1 .. n -> Pairs], NEW d, NEW u, NEW lo \in Nat, NEW hi \in Nat,
         1 <= lo, hi <= n + 1, Moved(e, d, n, lo, hi), SamePairs(e, u)
  PROVE  SamePairs(d, u)
<1>1. \A i \in 1 .. n : (\E j \in 1 .. n : d[i] = e[j]) /\ (\E j \in 1 .. n : e[i] = d[j])
  <2> TAKE i \in 1 .. n
  <2>1. CASE i \in lo .. hi - 1
    <3>1. \A j \in lo .. hi - 1 : j \in 1 .. n
      OBVIOUS
    <3> QED BY <2>1, <3>1 DEF Moved
  <2>2. CASE ~(i \in lo .. hi - 1)
    BY <2>2 DEF Moved
  <2> QED BY <2>1, <2>2
<1>2. DOMAIN d = 1 .. n /\ DOMAIN e = 1 .. n
  BY DEF Moved
<1>3. {d[i] : i \in 1 .. n} = {e[i] : i \in 1 .. n}
  <2>1. \A x \in {d[i] : i \in 1 .. n} : x \in {e[i] : i \in 1 .. n}
    BY <1>1
  <2>2. ASSUME NEW x \in {e[i] : i \in 1 .. n}
        PROVE  x \in {d[i] : i \in 1 .. n}
    <3>1. PICK i \in 1 .. n : x = e[i]
      OBVIOUS
    <3>2. PICK j \in 1 .. n : e[i] = d[j]
      BY <1>1
    <3> QED BY <3>1, <3>2
  <2> QED BY <2>1, <2>2
<1> QED BY <1>2, <1>3 DEF SamePairs

\* What Exchange() does to each place.
LEMMA ExchangeMoves ==
  ASSUME NEW n \in Nat, NEW e \in [1 .. n -> Pairs], NEW x \in 1 .. n, NEW y \in 1 .. n, x <= y
  PROVE  LET d == Exchange(e, x, y)
         IN  /\ Moved(e, d, n, x, y + 1)
             /\ d[x] = e[y] /\ d[y] = e[x] /\ \A i \in 1 .. n : i # x /\ i # y => d[i] = e[i]
<1> DEFINE d == Exchange(e, x, y)
<1>1. /\ d \in [1 .. n -> Pairs]
      /\ d[x] = e[y] /\ d[y] = e[x] /\ \A i \in 1 .. n : i # x /\ i # y => d[i] = e[i]
  BY DEF Exchange
<1> HIDE DEF d
<1>2. x \in x .. y + 1 - 1 /\ y \in x .. y + 1 - 1 /\ x .. y + 1 - 1 \subseteq 1 .. n
  OBVIOUS
<1>3. \A i \in 1 .. n : i < x \/ i >= y + 1 => i # x /\ i # y
  OBVIOUS
<1>4. ASSUME NEW i \in x .. y + 1 - 1
      PROVE  (\E j \in x .. y + 1 - 1 : d[i] = e[j]) /\ (\E j \in x .. y + 1 - 1 : e[i] = d[j])
  <2>1. CASE i # x /\ i # y
    BY <1>1, <1>2, <2>1
  <2>2. CASE i = x
    BY <1>1, <1>2, <2>2
  <2>3. CASE i = y
    BY <1>1, <1>2, <2>3
  <2> QED BY <2>1, <2>2, <2>3
<1>5. Moved(e, d, n, x, y + 1)
  BY <1>1, <1>3, <1>4 DEF Moved
<1> QED BY <1>1, <1>5 DEF d

\* What swap_block() does to each place.
LEMMA SwapMoves ==
  ASSUME NEW n \in Nat, NEW e \in [1 .. n -> Pairs], NEW x \in Nat, NEW y \in Nat, NEW m \in Nat,
         1 <= x, x + m <= y, y + m <= n + 1, NEW d, d = swap_block(e, x, y, m)
  PROVE  /\ Moved(e, d, n, x, y + m)
         /\ Shifted(d, x, x + m, e, y) /\ Shifted(d, y, y + m, e, x)
         /\ Same(d, x + m, y, e) /\ Same(d, y + m, n + 1, e)
<1>0. \A i \in 1 .. n :
        d[i] = CASE i \in x .. x + m - 1 -> e[i - x + y]
                 [] i \in y .. y + m - 1 -> e[i - y + x]
                 [] OTHER                -> e[i]
  BY DEF swap_block
<1>1. DOMAIN d = 1 .. n /\ d = [i \in 1 .. n |-> d[i]]
  BY DEF swap_block
<1>2. \A i \in x .. x + m - 1 : d[i] = e[i - x + y]
  BY <1>0
<1>3. \A i \in y .. y + m - 1 : d[i] = e[i - y + x]
  <2>1. \A i \in y .. y + m - 1 : i \in 1 .. n /\ ~(i \in x .. x + m - 1)
    OBVIOUS
  <2> QED BY <1>0, <2>1
<1>4. \A i \in 1 .. n : i < x \/ (i >= x + m /\ i < y) \/ i >= y + m => d[i] = e[i]
  BY <1>0
<1>5. \A i \in 1 .. n : i \in x .. x + m - 1 \/ i \in y .. y + m - 1
                         \/ i < x \/ (i >= x + m /\ i < y) \/ i >= y + m
  OBVIOUS
<1>6. /\ \A i \in x .. x + m - 1 : i - x + y \in 1 .. n /\ i - x + y \in x .. y + m - 1
                                   /\ i - x + y \in y .. y + m - 1 /\ (i - x + y) - y + x = i
      /\ \A i \in y .. y + m - 1 : i - y + x \in 1 .. n /\ i - y + x \in x .. y + m - 1
                                   /\ i - y + x \in x .. x + m - 1 /\ (i - y + x) - x + y = i
  OBVIOUS
<1>7. \A i \in 1 .. n : d[i] \in Pairs
  BY <1>2, <1>3, <1>4, <1>5, <1>6
<1>8. d \in [1 .. n -> Pairs]
  BY <1>1, <1>7
<1>9. ASSUME NEW i \in x .. y + m - 1
      PROVE  (\E j \in x .. y + m - 1 : d[i] = e[j]) /\ (\E j \in x .. y + m - 1 : e[i] = d[j])
  <2>1. CASE i \in x .. x + m - 1
    BY <1>2, <1>3, <1>6, <2>1
  <2>2. CASE i \in y .. y + m - 1
    BY <1>2, <1>3, <1>6, <2>2
  <2>3. CASE i >= x + m /\ i < y
    <3>1. i \in 1 .. n
      OBVIOUS
    <3> QED BY <1>4, <2>3, <3>1
  <2> QED BY <2>1, <2>2, <2>3
<1>10. Moved(e, d, n, x, y + m)
  <2>1. \A i \in 1 .. n : i < x \/ i >= y + m => d[i] = e[i]
    BY <1>4
  <2> QED BY <1>8, <1>9, <2>1 DEF Moved
<1>11. Same(d, x + m, y, e) /\ Same(d, y + m, n + 1, e)
  BY <1>4 DEF Same
<1> QED BY <1>2, <1>3, <1>10, <1>11 DEF Shifted

\* What rotate() does to each place.
LEMMA RotateMoves ==
  ASSUME NEW n \in Nat, NEW e \in [1 .. n -> Pairs],
         NEW lo \in Nat, NEW mid \in Nat, NEW hi \in Nat,
         1 <= lo, lo <= mid, mid <= hi, hi <= n + 1, NEW d, d = rotate(e, lo, mid, hi)
  PROVE  /\ Moved(e, d, n, lo, hi)
         /\ Shifted(d, lo, lo + (hi - mid), e, mid) /\ Shifted(d, lo + (hi - mid), hi, e, lo)
<1>0. \A i \in 1 .. n :
        d[i] = CASE i \in lo .. lo + (hi - mid) - 1 -> e[i + (mid - lo)]
                 [] i \in lo + (hi - mid) .. hi - 1 -> e[i - (hi - mid)]
                 [] OTHER                           -> e[i]
  BY DEF rotate
<1>1. DOMAIN d = 1 .. n /\ d = [i \in 1 .. n |-> d[i]]
  BY DEF rotate
<1>2. \A i \in lo .. lo + (hi - mid) - 1 : d[i] = e[i + (mid - lo)]
  <2>1. \A i \in lo .. lo + (hi - mid) - 1 : i \in 1 .. n
    OBVIOUS
  <2> QED BY <1>0, <2>1
<1>3. \A i \in lo + (hi - mid) .. hi - 1 : d[i] = e[i - (hi - mid)]
  <2>1. \A i \in lo + (hi - mid) .. hi - 1 : i \in 1 .. n /\ ~(i \in lo .. lo + (hi - mid) - 1)
    OBVIOUS
  <2> QED BY <1>0, <2>1
<1>4. \A i \in 1 .. n : i < lo \/ i >= hi => d[i] = e[i]
  BY <1>0
<1>5. \A i \in lo .. hi - 1 : i \in lo .. lo + (hi - mid) - 1 \/ i \in lo + (hi - mid) .. hi - 1
  OBVIOUS
<1>6. /\ \A i \in lo .. lo + (hi - mid) - 1 : i + (mid - lo) \in lo .. hi - 1
      /\ \A i \in lo + (hi - mid) .. hi - 1 : i - (hi - mid) \in lo .. hi - 1
  OBVIOUS
<1>7. lo .. hi - 1 \subseteq 1 .. n
  OBVIOUS
<1>8. \A i \in lo .. hi - 1 : \E j \in lo .. hi - 1 : d[i] = e[j]
  BY <1>2, <1>3, <1>5, <1>6
<1>9. \A i \in 1 .. n : i \in lo .. hi - 1 \/ i < lo \/ i >= hi
  OBVIOUS
<1>10. \A i \in 1 .. n : d[i] \in Pairs
  BY <1>4, <1>7, <1>8, <1>9
<1>11. ASSUME NEW j \in lo .. hi - 1
       PROVE  \E i \in lo .. hi - 1 : e[j] = d[i]
  <2>1. CASE j < mid
    <3>1. j + (hi - mid) \in lo + (hi - mid) .. hi - 1 /\ j + (hi - mid) \in lo .. hi - 1
          /\ (j + (hi - mid)) - (hi - mid) = j
      BY <2>1
    <3> QED BY <1>3, <3>1
  <2>2. CASE j >= mid
    <3>1. j - (mid - lo) \in lo .. lo + (hi - mid) - 1 /\ j - (mid - lo) \in lo .. hi - 1
          /\ (j - (mid - lo)) + (mid - lo) = j
      BY <2>2
    <3> QED BY <1>2, <3>1
  <2> QED BY <2>1, <2>2
<1>12. Moved(e, d, n, lo, hi)
  BY <1>1, <1>4, <1>8, <1>10, <1>11 DEF Moved
<1>13. Shifted(d, lo, lo + (hi - mid), e, mid)
  BY <1>2 DEF Shifted
<1>14. Shifted(d, lo + (hi - mid), hi, e, lo)
  BY <1>3 DEF Shifted
<1> QED BY <1>12, <1>13, <1>14

-----------------------------------------------------------------------------
(* Parts of an array that are in order, in another array that has them at  *)
(* other places.                                                           *)

\* Two places of a part that is in order.
LEMMA SortedAt ==
  ASSUME NEW s, NEW e, NEW lo \in Nat, NEW hi \in Nat, Sorted(s, e, lo, hi),
         NEW i \in Nat, NEW j \in Nat, lo <= i, i < j, j < hi
  PROVE  Ordered(s, e[i], e[j])
<1>1. i \in lo .. hi - 1 /\ j \in lo .. hi - 1
  OBVIOUS
<1> QED BY <1>1 DEF Sorted

\* A part that has moved stays in order.
LEMMA SortedShifted ==
  ASSUME NEW s, NEW e, NEW d, NEW lo \in Nat, NEW hi \in Nat, Sorted(s, e, lo, hi),
         NEW from \in Nat, NEW to \in Nat, NEW at \in Nat, Shifted(d, from, to, e, at),
         lo <= at, at + (to - from) <= hi
  PROVE  Sorted(s, d, from, to)
<1> SUFFICES ASSUME NEW i \in from .. to - 1, NEW j \in from .. to - 1, i < j
             PROVE  Ordered(s, d[i], d[j])
  BY DEF Sorted
<1>1. i - from + at \in lo .. hi - 1 /\ j - from + at \in lo .. hi - 1
      /\ i - from + at < j - from + at
  OBVIOUS
<1>2. Ordered(s, e[i - from + at], e[j - from + at])
  BY <1>1 DEF Sorted
<1> QED BY <1>2 DEF Shifted

\* A part that has stayed stays in order.
LEMMA SortedSame ==
  ASSUME NEW s, NEW e, NEW d, NEW lo \in Nat, NEW hi \in Nat, Sorted(s, e, lo, hi),
         NEW from \in Nat, NEW to \in Nat, lo <= from, to <= hi,
         \A i \in from .. to - 1 : d[i] = e[i]
  PROVE  Sorted(s, d, from, to)
<1> SUFFICES ASSUME NEW i \in from .. to - 1, NEW j \in from .. to - 1, i < j
             PROVE  Ordered(s, d[i], d[j])
  BY DEF Sorted
<1>1. i \in lo .. hi - 1 /\ j \in lo .. hi - 1
  OBVIOUS
<1> QED BY <1>1 DEF Sorted

\* Two parts that have moved keep their order.
LEMMA BeforeShifted ==
  ASSUME NEW s, NEW e, NEW d, NEW lo \in Nat, NEW hi \in Nat, NEW lo2 \in Nat, NEW hi2 \in Nat,
         Before(s, e, lo, hi, lo2, hi2),
         NEW from \in Nat, NEW to \in Nat, NEW at \in Nat, Shifted(d, from, to, e, at),
         lo <= at, at + (to - from) <= hi,
         NEW from2 \in Nat, NEW to2 \in Nat, NEW at2 \in Nat, Shifted(d, from2, to2, e, at2),
         lo2 <= at2, at2 + (to2 - from2) <= hi2
  PROVE  Before(s, d, from, to, from2, to2)
<1> SUFFICES ASSUME NEW i \in from .. to - 1, NEW j \in from2 .. to2 - 1
             PROVE  Ordered(s, d[i], d[j])
  BY DEF Before
<1>1. i - from + at \in lo .. hi - 1 /\ j - from2 + at2 \in lo2 .. hi2 - 1
  OBVIOUS
<1>2. Ordered(s, e[i - from + at], e[j - from2 + at2])
  BY <1>1 DEF Before
<1> QED BY <1>2 DEF Shifted

\* Of a part in order, the beginning comes before the rest.
LEMMA SortedIsBefore ==
  ASSUME NEW s, NEW e, NEW lo \in Nat, NEW mid \in Nat, NEW hi \in Nat, Sorted(s, e, lo, hi),
         lo <= mid, mid <= hi
  PROVE  Before(s, e, lo, mid, mid, hi)
<1> SUFFICES ASSUME NEW i \in lo .. mid - 1, NEW j \in mid .. hi - 1
             PROVE  Ordered(s, e[i], e[j])
  BY DEF Before
<1>1. i \in lo .. hi - 1 /\ j \in lo .. hi - 1 /\ i < j
  OBVIOUS
<1> QED BY <1>1 DEF Sorted

\* Two parts in order, one before the other, are one.
LEMMA SortedTogether ==
  ASSUME NEW s, NEW e, NEW lo \in Nat, NEW mid \in Nat, NEW hi \in Nat,
         Sorted(s, e, lo, mid), Sorted(s, e, mid, hi), Before(s, e, lo, mid, mid, hi),
         lo <= mid, mid <= hi
  PROVE  Sorted(s, e, lo, hi)
<1> SUFFICES ASSUME NEW i \in lo .. hi - 1, NEW j \in lo .. hi - 1, i < j
             PROVE  Ordered(s, e[i], e[j])
  BY DEF Sorted
<1>1. CASE j < mid
  <2>1. i \in lo .. mid - 1 /\ j \in lo .. mid - 1
    BY <1>1
  <2> QED BY <2>1 DEF Sorted
<1>2. CASE i >= mid
  <2>1. i \in mid .. hi - 1 /\ j \in mid .. hi - 1
    BY <1>2
  <2> QED BY <2>1 DEF Sorted
<1>3. CASE i < mid /\ j >= mid
  <2>1. i \in lo .. mid - 1 /\ j \in mid .. hi - 1
    BY <1>3
  <2> QED BY <2>1 DEF Before
<1> QED BY <1>1, <1>2, <1>3

\* Two parts come before a third.
LEMMA BeforeTogether ==
  ASSUME NEW s, NEW e, NEW lo \in Nat, NEW mid \in Nat, NEW hi \in Nat,
         NEW from \in Nat, NEW to \in Nat,
         Before(s, e, lo, mid, from, to), Before(s, e, mid, hi, from, to)
  PROVE  Before(s, e, lo, hi, from, to)
<1> SUFFICES ASSUME NEW i \in lo .. hi - 1, NEW j \in from .. to - 1
             PROVE  Ordered(s, e[i], e[j])
  BY DEF Before
<1>1. CASE i < mid
  BY <1>1 DEF Before
<1>2. CASE i >= mid
  BY <1>2 DEF Before
<1> QED BY <1>1, <1>2

\* A part comes before two others.
LEMMA BeforeBoth ==
  ASSUME NEW s, NEW e, NEW from \in Nat, NEW to \in Nat,
         NEW lo \in Nat, NEW mid \in Nat, NEW hi \in Nat,
         Before(s, e, from, to, lo, mid), Before(s, e, from, to, mid, hi)
  PROVE  Before(s, e, from, to, lo, hi)
<1> SUFFICES ASSUME NEW i \in from .. to - 1, NEW j \in lo .. hi - 1
             PROVE  Ordered(s, e[i], e[j])
  BY DEF Before
<1>1. CASE j < mid
  BY <1>1 DEF Before
<1>2. CASE j >= mid
  BY <1>2 DEF Before
<1> QED BY <1>1, <1>2

\* The pairs of a part of d are all in a part of e.
Among(d, from, to, e, lo, hi) ==
  \A i \in from .. to - 1 : \E j \in lo .. hi - 1 : d[i] = e[j]

\* What holds for two runs holds for what is among them.
LEMMA SidesPart ==
  ASSUME NEW s, NEW e, NEW d, NEW lo \in Nat, NEW hi \in Nat, NEW lo2 \in Nat, NEW hi2 \in Nat,
         Sides(s, e, lo, hi, lo2, hi2),
         NEW from \in Nat, NEW to \in Nat, NEW from2 \in Nat, NEW to2 \in Nat,
         Among(d, from, to, e, lo, hi), Among(d, from2, to2, e, lo2, hi2)
  PROVE  Sides(s, d, from, to, from2, to2)
<1> SUFFICES ASSUME NEW i \in from .. to - 1, NEW j \in from2 .. to2 - 1, ~Less(d[j], d[i])
             PROVE  Ordered(s, d[i], d[j])
  BY DEF Sides
<1>1. PICK x \in lo .. hi - 1 : d[i] = e[x]
  BY DEF Among
<1>2. PICK y \in lo2 .. hi2 - 1 : d[j] = e[y]
  BY DEF Among
<1> QED BY <1>1, <1>2 DEF Sides

-----------------------------------------------------------------------------
(* The steps of merge(), for the innermost call: e is the array, which has *)
(* n pairs, of which the call merges those from lo on.                     *)

\* What was given out comes before what is left: so does a pair that is not
\* after any of what is left.
LEMMA OutputGrows ==
  ASSUME NEW n \in Nat, NEW s \in BOOLEAN, NEW e \in [1 .. n -> Pairs], NEW d,
         NEW lo \in Nat, NEW from \in Nat, NEW to \in Nat,
         1 <= lo, lo <= from, from <= to, to <= n + 1,
         Moved(e, d, n, from, n + 1), Sorted(s, e, lo, from), Before(s, e, lo, from, from, n + 1),
         Sorted(s, d, from, to), Before(s, d, from, to, to, n + 1)
  PROVE  Sorted(s, d, lo, to) /\ Before(s, d, lo, to, to, n + 1)
<1>0. (n + 1) - 1 = n
  OBVIOUS
<1>1. ASSUME NEW i \in lo .. from - 1, NEW j \in from .. n
      PROVE  Ordered(s, d[i], d[j])
  <2>1. \A x \in from .. (n + 1) - 1 : \E y \in from .. (n + 1) - 1 : d[x] = e[y]
    BY DEF Moved
  <2>2. PICK k \in from .. (n + 1) - 1 : d[j] = e[k]
    BY <1>0, <2>1
  <2>3. d[i] = e[i]
    BY DEF Moved
  <2> QED BY <2>2, <2>3 DEF Before
<1>2. ASSUME NEW i \in lo .. from - 1, NEW j \in lo .. from - 1, i < j
      PROVE  Ordered(s, d[i], d[j])
  <2>1. d[i] = e[i] /\ d[j] = e[j]
    BY DEF Moved
  <2> QED BY <1>2, <2>1 DEF Sorted
<1>3. ASSUME NEW i \in lo .. to - 1, NEW j \in lo .. to - 1, i < j
      PROVE  Ordered(s, d[i], d[j])
  <2>1. CASE i < from /\ j < from
    BY <1>2, <1>3, <2>1
  <2>2. CASE i < from /\ j >= from
    BY <1>1, <2>2
  <2>3. CASE i >= from
    <3>1. i \in from .. to - 1 /\ j \in from .. to - 1
      BY <1>3, <2>3
    <3> QED BY <1>3, <3>1 DEF Sorted
  <2> QED BY <2>1, <2>2, <2>3
<1>4. ASSUME NEW i \in lo .. to - 1, NEW j \in to .. (n + 1) - 1
      PROVE  Ordered(s, d[i], d[j])
  <2>1. CASE i < from
    BY <1>1, <2>1
  <2>2. CASE i >= from
    <3>1. i \in from .. to - 1
      BY <2>2
    <3> QED BY <3>1 DEF Before
  <2> QED BY <2>1, <2>2
<1>5. Sorted(s, d, lo, to)
  BY <1>3 DEF Sorted
<1> QED BY <1>4, <1>5 DEF Before

\* A change within a part is one within a larger part.
LEMMA MovedWithin ==
  ASSUME NEW n \in Nat, NEW e \in [1 .. n -> Pairs], NEW d, NEW lo \in Nat, NEW hi \in Nat,
         NEW from \in Nat, NEW to \in Nat,
         1 <= lo, lo <= from, to <= hi, hi <= n + 1, Moved(e, d, n, from, to)
  PROVE  Moved(e, d, n, lo, hi)
  BY NothingMoved, MovedTwice

\* A pair of b is next, and the queue is empty: its first is the pair of a.
LEMMA PlainSwaps ==
  ASSUME NEW n \in Nat, NEW s \in BOOLEAN, NEW e \in [1 .. n -> Pairs], NEW lo \in Nat, 1 <= lo,
         NEW a \in Nat, NEW q \in Nat, NEW h \in Nat, NEW b \in Nat,
         Innermost(s, e, lo, a, q, h, b, n + 1),
         a < q, q = b, b < n + 1, Less(e[b], e[a]),
         NEW d, d = Exchange(e, a, b)
  PROVE  Innermost(s, d, lo, a + 1, q, h, b + 1, n + 1) /\ Moved(e, d, n, a, n + 1)
<1>1. /\ lo <= a /\ q = b /\ h = b /\ b <= n /\ a < b
      /\ a \in 1 .. n /\ b \in 1 .. n
  BY DEF Innermost, Pointers
<1>3. /\ Moved(e, d, n, a, b + 1)
      /\ d[a] = e[b] /\ d[b] = e[a]
      /\ \A i \in 1 .. n : i # a /\ i # b => d[i] = e[i]
  BY <1>1, ExchangeMoves
<1>4. Moved(e, d, n, a, n + 1)
  BY <1>1, <1>3, MovedWithin
<1>5. /\ Sorted(s, e, lo, a) /\ Before(s, e, lo, a, a, n + 1) /\ Sorted(s, e, a, b)
      /\ Sorted(s, e, b, n + 1) /\ Sides(s, e, a, b, b, n + 1)
  BY <1>1 DEF Innermost, Output, Second
<1>6. ASSUME NEW j \in a + 1 .. (n + 1) - 1
      PROVE  Ordered(s, d[a], d[j])
  <2>1. \A i \in 1 .. n : e[i] \in Pairs
    OBVIOUS
  <2>2. Ordered(s, e[b], e[a])
    BY <1>1, <2>1, LessIsOrdered
  <2>3. j \in 1 .. n
    BY <1>1
  <2>4. CASE j = b
    BY <1>3, <2>2, <2>4
  <2>5. CASE j > b
    <3>1. Ordered(s, e[b], e[j])
      BY <1>1, <1>5, <2>3, <2>5, SortedAt
    <3> QED BY <1>1, <1>3, <2>3, <2>5, <3>1
  <2>6. CASE j < b
    <3>1. Ordered(s, e[a], e[j])
      BY <1>1, <1>5, <2>3, <2>6, SortedAt
    <3>2. Ordered(s, e[b], e[j])
      BY <1>1, <2>1, <2>2, <2>3, <3>1, OrderedTransitive
    <3> QED BY <1>1, <1>3, <2>3, <2>6, <3>2
  <2> QED BY <1>1, <2>3, <2>4, <2>5, <2>6
<1>7. Sorted(s, d, a, a + 1) /\ Before(s, d, a, a + 1, a + 1, n + 1)
  <2>1. \A i \in a .. (a + 1) - 1 : i = a
    BY <1>1
  <2> QED BY <1>1, <1>6, <2>1 DEF Sorted, Before
<1>8. Sorted(s, d, lo, a + 1) /\ Before(s, d, lo, a + 1, a + 1, n + 1)
  <2>1. a + 1 \in Nat /\ a <= a + 1 /\ a + 1 <= n + 1
    BY <1>1
  <2> QED BY <1>1, <1>4, <1>5, <1>7, <2>1, OutputGrows
<1>9. Sorted(s, d, a + 1, b)
  <2>1. \A i \in a + 1 .. b - 1 : d[i] = e[i]
    BY <1>1, <1>3
  <2> QED BY <1>1, <1>5, <2>1, SortedSame
<1>10. /\ Sorted(s, d, b, b + 1) /\ Sorted(s, d, b, b) /\ Before(s, d, b, b + 1, b, b)
  BY <1>1 DEF Sorted, Before
<1>11. Before(s, d, b, b + 1, a + 1, b)
  <2>1. ASSUME NEW j \in a + 1 .. b - 1
        PROVE  Ordered(s, e[a], e[j]) /\ d[j] = e[j]
    <3>1. j \in Nat /\ j \in 1 .. n /\ a < j /\ j < b
      BY <1>1
    <3> QED BY <1>1, <1>3, <1>5, <3>1, SortedAt
  <2>2. \A i \in b .. (b + 1) - 1 : i = b
    BY <1>1
  <2> QED BY <1>3, <2>1, <2>2 DEF Before
<1>12. Sorted(s, d, b + 1, n + 1)
  <2>1. \A i \in b + 1 .. (n + 1) - 1 : d[i] = e[i]
    BY <1>1, <1>3
  <2> QED BY <1>1, <1>5, <2>1, SortedSame
<1>13. Sides(s, d, a + 1, b + 1, b + 1, n + 1)
  <2> SUFFICES ASSUME NEW i \in a + 1 .. (b + 1) - 1, NEW j \in b + 1 .. (n + 1) - 1,
                      ~Less(d[j], d[i])
               PROVE  Ordered(s, d[i], d[j])
    BY DEF Sides
  <2>1. d[j] = e[j] /\ j \in b .. (n + 1) - 1
    BY <1>1, <1>3
  <2>2. CASE i = b
    <3>1. a \in a .. b - 1
      BY <1>1
    <3> QED BY <1>3, <1>5, <2>1, <2>2, <3>1 DEF Sides
  <2>3. CASE i < b
    <3>1. i \in a .. b - 1 /\ d[i] = e[i]
      BY <1>1, <1>3, <2>3
    <3> QED BY <1>5, <2>1, <3>1 DEF Sides
  <2> QED BY <1>1, <2>2, <2>3
<1>14. Pointers(lo, a + 1, q, h, b + 1, n + 1)
  BY <1>1 DEF Pointers
<1>15. Output(s, d, lo, a + 1, q, n + 1)
  BY <1>1, <1>8, <1>9 DEF Output
<1>16. Ring(s, d, a + 1, q, h, b + 1) /\ Second(s, d, a + 1, b + 1, n + 1)
  BY <1>1, <1>10, <1>11, <1>12, <1>13 DEF Ring, Second
<1> QED BY <1>4, <1>14, <1>15, <1>16 DEF Innermost

\* A pair of a is next, and the queue is empty.
LEMMA PlainStays ==
  ASSUME NEW n \in Nat, NEW s \in BOOLEAN, NEW e \in [1 .. n -> Pairs], NEW lo \in Nat, 1 <= lo,
         NEW a \in Nat, NEW q \in Nat, NEW h \in Nat, NEW b \in Nat,
         Innermost(s, e, lo, a, q, h, b, n + 1),
         a < q, q = b, ~(b < n + 1 /\ Less(e[b], e[a]))
  PROVE  Innermost(s, e, lo, a + 1, q, h, b, n + 1)
<1>1. /\ lo <= a /\ q = b /\ h = b /\ b <= n + 1 /\ a < b
      /\ a \in 1 .. n
  BY DEF Innermost, Pointers
<1>3. Moved(e, e, n, a, n + 1)
  BY <1>1, NothingMoved
<1>4. /\ Sorted(s, e, lo, a) /\ Before(s, e, lo, a, a, n + 1) /\ Sorted(s, e, a, b)
      /\ Sorted(s, e, b, n + 1) /\ Sides(s, e, a, b, b, n + 1)
  BY <1>1 DEF Innermost, Output, Second
<1>5. ASSUME NEW j \in a + 1 .. (n + 1) - 1
      PROVE  Ordered(s, e[a], e[j])
  <2>1. CASE j < b
    BY <1>1, <1>4, <2>1, SortedAt
  <2>2. CASE j >= b
    <3>1. b \in 1 .. n /\ j \in 1 .. n /\ b < n + 1
      BY <1>1, <2>2
    <3>2. a \in a .. b - 1 /\ b \in b .. (n + 1) - 1
      BY <1>1, <3>1
    <3>3. Ordered(s, e[a], e[b])
      BY <1>4, <3>1, <3>2 DEF Sides
    <3>4. CASE j # b
      <4>1. Ordered(s, e[b], e[j])
        BY <1>1, <1>4, <2>2, <3>1, <3>4, SortedAt
      <4>2. e[a] \in Pairs /\ e[b] \in Pairs /\ e[j] \in Pairs
        BY <1>1, <3>1
      <4> QED BY <3>3, <4>1, <4>2, OrderedTransitive
    <3> QED BY <3>3, <3>4
  <2> QED BY <1>1, <2>1, <2>2
<1>6. Sorted(s, e, a, a + 1) /\ Before(s, e, a, a + 1, a + 1, n + 1)
  <2>1. \A i \in a .. (a + 1) - 1 : i = a
    BY <1>1
  <2> QED BY <1>1, <1>5, <2>1 DEF Sorted, Before
<1>7. Sorted(s, e, lo, a + 1) /\ Before(s, e, lo, a + 1, a + 1, n + 1)
  <2>1. a + 1 \in Nat /\ a <= a + 1 /\ a + 1 <= n + 1
    BY <1>1
  <2> QED BY <1>1, <1>3, <1>4, <1>6, <2>1, OutputGrows
<1>8. Sorted(s, e, a + 1, b) /\ Sides(s, e, a + 1, b, b, n + 1)
  <2>1. \A i \in a + 1 .. b - 1 : i \in a .. b - 1 /\ e[i] = e[i]
    BY <1>1
  <2>2. Sorted(s, e, a + 1, b)
    BY <1>1, <1>4, <2>1, SortedSame
  <2> QED BY <1>4, <2>1, <2>2 DEF Sides
<1>9. Sorted(s, e, b, b) /\ Before(s, e, b, b, b, b) /\ Before(s, e, b, b, a + 1, b)
  BY <1>1 DEF Sorted, Before
<1>10. Pointers(lo, a + 1, q, h, b, n + 1)
  BY <1>1 DEF Pointers
<1> QED BY <1>1, <1>4, <1>7, <1>8, <1>9, <1>10 DEF Innermost, Output, Ring, Second

\* One pair is in order, and none.
LEMMA SortedAlone ==
  ASSUME NEW s, NEW e, NEW i \in Nat
  PROVE  Sorted(s, e, i, i) /\ Sorted(s, e, i, i + 1)
  BY DEF Sorted

\* An empty part comes before anything and after it.
LEMMA NothingBefore ==
  ASSUME NEW s, NEW e, NEW i \in Nat, NEW from, NEW to
  PROVE  Before(s, e, i, i, from, to) /\ Before(s, e, from, to, i, i)
  BY DEF Before

\* The head of the queue comes before everything that is left but itself.
LEMMA HeadIsLeast ==
  ASSUME NEW n \in Nat, NEW s \in BOOLEAN, NEW e \in [1 .. n -> Pairs], NEW lo \in Nat, 1 <= lo,
         NEW a \in Nat, NEW q \in Nat, NEW h \in Nat, NEW b \in Nat,
         Innermost(s, e, lo, a, q, h, b, n + 1), q < b,
         NEW j \in a .. b - 1, j # h
  PROVE  Ordered(s, e[h], e[j])
<1>1. /\ a <= q /\ q <= h /\ h < b
  BY DEF Innermost, Pointers
<1>2. /\ Sorted(s, e, h, b) /\ Before(s, e, h, b, q, h)
      /\ Before(s, e, q, b, a, q)
  BY DEF Innermost, Ring
<1>3. CASE j < q
  <2>1. h \in q .. b - 1 /\ j \in a .. q - 1
    BY <1>1, <1>3
  <2> QED BY <1>2, <2>1 DEF Before
<1>4. CASE j >= q /\ j < h
  <2>1. h \in h .. b - 1 /\ j \in q .. h - 1
    BY <1>1, <1>4
  <2> QED BY <1>2, <2>1 DEF Before
<1>5. CASE j > h
  <2>1. j \in Nat /\ j < b /\ h < j /\ h <= h
    BY <1>1, <1>5
  <2> QED BY <1>2, <2>1, SortedAt
<1> QED BY <1>1, <1>3, <1>4, <1>5

\* The pairs from lo on, and before hi, come before p; the next one does.
AllLess(e, lo, hi, p) == \A i \in lo .. hi - 1 : Less(e[i], p)
NextLess(e, lo, hi, p) == lo < hi /\ Less(e[lo], p)

\* The place after h of the ring from q to b.
NextPlace(q, h, b) == IF h + 1 >= b THEN q ELSE h + 1

\* A pair of the queue is next.
LEMMA QueueGives ==
  ASSUME NEW n \in Nat, NEW s \in BOOLEAN, NEW e \in [1 .. n -> Pairs], NEW lo \in Nat, 1 <= lo,
         NEW a \in Nat, NEW q \in Nat, NEW h \in Nat, NEW b \in Nat,
         Innermost(s, e, lo, a, q, h, b, n + 1),
         a < q, q < b, ~NextLess(e, b, n + 1, e[h]),
         NEW x \in Nat, x = NextPlace(q, h, b),
         NEW d, d = Exchange(e, a, h)
  PROVE  Innermost(s, d, lo, a + 1, q, x, b, n + 1) /\ Moved(e, d, n, a, n + 1)
<1>0. ~(b < n + 1 /\ Less(e[b], e[h])) /\ x = IF h + 1 >= b THEN q ELSE h + 1
  BY DEF NextLess, NextPlace
<1> USE <1>0
<1>1. /\ lo <= a /\ q <= h /\ h < b /\ b <= n + 1
      /\ a \in 1 .. n /\ h \in 1 .. n /\ a < h /\ a <= h
      /\ 1 <= a /\ h + 1 \in Nat /\ h + 1 <= n + 1 /\ a < b
  BY DEF Innermost, Pointers
<1>3. /\ Moved(e, d, n, a, h + 1)
      /\ d[a] = e[h] /\ d[h] = e[a]
      /\ \A i \in 1 .. n : i # a /\ i # h => d[i] = e[i]
  <2>1. a \in 1 .. n /\ h \in 1 .. n /\ a <= h
    BY <1>1
  <2> QED BY <2>1, ExchangeMoves
<1>4. Moved(e, d, n, a, n + 1)
  BY <1>1, <1>3, MovedWithin
<1>5. /\ Sorted(s, e, lo, a) /\ Before(s, e, lo, a, a, n + 1) /\ Sorted(s, e, a, q)
      /\ Sorted(s, e, b, n + 1) /\ Sides(s, e, a, b, b, n + 1)
      /\ Sorted(s, e, h, b) /\ Sorted(s, e, q, h) /\ Before(s, e, h, b, q, h)
      /\ Before(s, e, q, b, a, q)
  BY <1>1 DEF Innermost, Output, Second, Ring
<1>6. ASSUME NEW j \in a .. n, j # h
      PROVE  Ordered(s, e[h], e[j])
  <2>1. CASE j < b
    <3>1. j \in a .. b - 1
      BY <1>1, <2>1
    <3> QED BY <1>1, <1>6, <3>1, HeadIsLeast
  <2>2. CASE j >= b
    <3>1. b \in 1 .. n /\ j \in 1 .. n /\ b < n + 1
      BY <1>1, <2>2
    <3>2. h \in a .. b - 1 /\ b \in b .. (n + 1) - 1
      BY <1>1, <3>1
    <3>3. Ordered(s, e[h], e[b])
      BY <1>5, <3>1, <3>2 DEF Sides
    <3>4. CASE j # b
      <4>1. Ordered(s, e[b], e[j])
        BY <1>1, <1>5, <2>2, <3>1, <3>4, SortedAt
      <4>2. e[h] \in Pairs /\ e[b] \in Pairs /\ e[j] \in Pairs
        BY <1>1, <3>1
      <4> QED BY <3>3, <4>1, <4>2, OrderedTransitive
    <3> QED BY <3>3, <3>4
  <2> QED BY <1>1, <2>1, <2>2
<1>7. ASSUME NEW j \in a + 1 .. (n + 1) - 1
      PROVE  Ordered(s, d[a], d[j])
  <2>1. j \in 1 .. n /\ j \in a .. n /\ a \in a .. n /\ a # h /\ j # a
    BY <1>1
  <2>2. CASE j = h
    BY <1>3, <1>6, <2>1, <2>2
  <2>3. CASE j # h
    BY <1>3, <1>6, <2>1, <2>3
  <2> QED BY <2>2, <2>3
<1>8. Sorted(s, d, lo, a + 1) /\ Before(s, d, lo, a + 1, a + 1, n + 1)
  <2>1. \A i \in a .. (a + 1) - 1 : i = a
    BY <1>1
  <2>2. Sorted(s, d, a, a + 1)
    BY <1>1, SortedAlone
  <2>3. Before(s, d, a, a + 1, a + 1, n + 1)
    BY <1>1, <1>7, <2>1 DEF Before
  <2>4. a + 1 \in Nat /\ a <= a + 1 /\ a + 1 <= n + 1
    BY <1>1
  <2> QED BY <1>1, <1>4, <1>5, <2>2, <2>3, <2>4, OutputGrows
<1>9. Sorted(s, d, a + 1, q)
  <2>1. \A i \in a + 1 .. q - 1 : d[i] = e[i]
    BY <1>1, <1>3
  <2> QED BY <1>1, <1>5, <2>1, SortedSame
<1>10. Sorted(s, d, b, n + 1)
  <2>1. \A i \in b .. (n + 1) - 1 : d[i] = e[i]
    BY <1>1, <1>3
  <2> QED BY <1>1, <1>5, <2>1, SortedSame
<1>11. Sides(s, d, a + 1, b, b, n + 1)
  <2>1. ASSUME NEW i \in a + 1 .. b - 1
        PROVE  \E j \in a .. b - 1 : d[i] = e[j]
    <3>1. i \in 1 .. n /\ i \in a .. b - 1 /\ a \in a .. b - 1 /\ i # a
      BY <1>1
    <3> QED BY <1>3, <3>1
  <2>2. \A i \in b .. (n + 1) - 1 : i \in 1 .. n /\ i # a /\ i # h
    BY <1>1
  <2>3. Among(d, b, n + 1, e, b, n + 1)
    BY <1>3, <2>2 DEF Among
  <2>4. Sides(s, e, a, b, b, n + 1) /\ a + 1 \in Nat /\ n + 1 \in Nat
    BY <1>1, <1>5
  <2>5. Among(d, a + 1, b, e, a, b)
    BY <2>1 DEF Among
  <2> QED BY <2>3, <2>4, <2>5, SidesPart
\* The pair of a is the last of the ring.
<1>12. Sorted(s, d, q, h + 1)
  <2>1. \A i \in q .. h - 1 : d[i] = e[i]
    BY <1>1, <1>3
  <2>2. Sorted(s, d, q, h)
    BY <1>1, <1>5, <2>1, SortedSame
  <2>3. ASSUME NEW i \in q .. h - 1, NEW j \in h .. (h + 1) - 1
        PROVE  Ordered(s, d[i], d[j])
    <3>1. j = h /\ i \in q .. b - 1 /\ a \in a .. q - 1
      BY <1>1
    <3> QED BY <1>3, <1>5, <2>1, <3>1 DEF Before
  <2>4. Before(s, d, q, h, h, h + 1)
    BY <2>3 DEF Before
  <2>5. Sorted(s, d, h, h + 1)
    BY <1>1, SortedAlone
  <2> QED BY <1>1, <2>2, <2>4, <2>5, SortedTogether
<1>13. Before(s, d, q, b, a + 1, q)
  <2> SUFFICES ASSUME NEW i \in q .. b - 1, NEW j \in a + 1 .. q - 1
               PROVE  Ordered(s, d[i], d[j])
    BY DEF Before
  <2>1. /\ j \in a .. q - 1 /\ j \in 1 .. n /\ i \in 1 .. n /\ i # a /\ d[j] = e[j]
        /\ j \in Nat /\ a < j /\ j < q
    BY <1>1, <1>3
  <2>2. CASE i = h
    <3>1. Ordered(s, e[a], e[j])
      BY <1>1, <1>5, <2>1, SortedAt
    <3> QED BY <1>3, <2>1, <2>2, <3>1
  <2>3. CASE i # h
    BY <1>3, <1>5, <2>1, <2>3 DEF Before
  <2> QED BY <2>2, <2>3
<1>14. CASE h + 1 < b
  <2>1. x = h + 1
    BY <1>1, <1>14
  <2>2. \A i \in h + 1 .. b - 1 : d[i] = e[i]
    BY <1>1, <1>3
  <2>3. Sorted(s, d, h + 1, b)
    BY <1>1, <1>5, <2>2, SortedSame
  <2>4. ASSUME NEW i \in h + 1 .. b - 1, NEW j \in q .. (h + 1) - 1
        PROVE  Ordered(s, d[i], d[j])
    <3>1. i \in h .. b - 1 /\ i \in q .. b - 1 /\ a \in a .. q - 1 /\ j \in 1 .. n
          /\ j # a
      BY <1>1
    <3>2. CASE j = h
      BY <1>3, <1>5, <2>2, <3>1, <3>2 DEF Before
    <3>3. CASE j # h
      <4>1. j \in q .. h - 1
        BY <1>1, <3>3
      <4> QED BY <1>3, <1>5, <2>2, <3>1, <3>3, <4>1 DEF Before
    <3> QED BY <3>2, <3>3
  <2>5. Before(s, d, h + 1, b, q, h + 1)
    BY <2>4 DEF Before
  <2>6. Ring(s, d, a + 1, q, x, b)
    BY <1>12, <1>13, <2>1, <2>3, <2>5 DEF Ring
  <2>7. Pointers(lo, a + 1, q, x, b, n + 1)
    BY <1>1, <1>14, <2>1 DEF Pointers
  <2> QED BY <1>4, <1>8, <1>9, <1>10, <1>11, <2>6, <2>7 DEF Innermost, Output, Second
<1>15. CASE h + 1 >= b
  <2>1. x = q /\ b = h + 1
    BY <1>1, <1>15
  <2>2. Ring(s, d, a + 1, q, x, b)
    BY <1>1, <1>12, <1>13, <2>1, SortedAlone, NothingBefore DEF Ring
  <2>3. Pointers(lo, a + 1, q, x, b, n + 1)
    BY <1>1, <1>15, <2>1 DEF Pointers
  <2> QED BY <1>4, <1>8, <1>9, <1>10, <1>11, <2>2, <2>3 DEF Innermost, Output, Second
<1> QED BY <1>1, <1>14, <1>15

\* Pairs change places in the queue only: the rest is as it was.
LEMMA QueueMoves ==
  ASSUME NEW n \in Nat, NEW s \in BOOLEAN, NEW e \in [1 .. n -> Pairs], NEW d,
         NEW lo \in Nat, NEW a \in Nat, NEW q \in Nat, NEW b \in Nat,
         1 <= lo, lo <= a, a <= q, q <= b, b <= n + 1,
         Output(s, e, lo, a, q, n + 1), Second(s, e, a, b, n + 1), Before(s, e, q, b, a, q),
         Moved(e, d, n, q, b)
  PROVE  /\ Output(s, d, lo, a, q, n + 1) /\ Second(s, d, a, b, n + 1) /\ Before(s, d, q, b, a, q)
         /\ Moved(e, d, n, a, n + 1)
<1>1. /\ Sorted(s, e, lo, a) /\ Before(s, e, lo, a, a, n + 1) /\ Sorted(s, e, a, q)
      /\ Sorted(s, e, b, n + 1) /\ Sides(s, e, a, b, b, n + 1)
  BY DEF Output, Second
<1>2. \A i \in 1 .. n : i < q \/ i >= b => d[i] = e[i]
  BY DEF Moved
<1>3. Moved(e, d, n, a, n + 1)
  <2>1. 1 <= a /\ n + 1 \in Nat /\ n + 1 <= n + 1
    OBVIOUS
  <2> QED BY <2>1, MovedWithin
<1>4. Sorted(s, d, lo, a) /\ Before(s, d, lo, a, a, n + 1)
  <2>1. Sorted(s, d, a, a) /\ Before(s, d, a, a, a, n + 1)
    BY SortedAlone, NothingBefore
  <2> QED BY <1>1, <1>3, <2>1, OutputGrows
<1>5. Sorted(s, d, a, q)
  <2>1. \A i \in a .. q - 1 : d[i] = e[i]
    BY <1>2
  <2> QED BY <1>1, <2>1, SortedSame
<1>6. Sorted(s, d, b, n + 1)
  <2>1. \A i \in b .. (n + 1) - 1 : d[i] = e[i]
    BY <1>2
  <2> QED BY <1>1, <2>1, SortedSame
<1>7. \A i \in q .. b - 1 : \E j \in q .. b - 1 : d[i] = e[j]
  BY DEF Moved
<1>8. Before(s, d, q, b, a, q)
  <2> SUFFICES ASSUME NEW i \in q .. b - 1, NEW j \in a .. q - 1
               PROVE  Ordered(s, d[i], d[j])
    BY DEF Before
  <2>1. PICK k \in q .. b - 1 : d[i] = e[k]
    BY <1>7
  <2>2. d[j] = e[j]
    BY <1>2
  <2> QED BY <2>1, <2>2 DEF Before
<1>9. Sides(s, d, a, b, b, n + 1)
  <2>1. ASSUME NEW i \in a .. b - 1
        PROVE  \E j \in a .. b - 1 : d[i] = e[j]
    <3>1. CASE i < q
      BY <1>2, <3>1
    <3>2. CASE i >= q
      <4>1. PICK j \in q .. b - 1 : d[i] = e[j]
        BY <1>7, <3>2
      <4> QED BY <4>1
    <3> QED BY <3>1, <3>2
  <2>2. Among(d, a, b, e, a, b)
    BY <2>1 DEF Among
  <2>3. Among(d, b, n + 1, e, b, n + 1)
    BY <1>2 DEF Among
  <2> QED BY <1>1, <2>2, <2>3, SidesPart
<1> QED BY <1>3, <1>4, <1>5, <1>6, <1>8, <1>9 DEF Output, Second

\* What the m pairs of b that come before the head of the queue, and the pairs
\* of a for which they are swapped, are then in order with.
RunTaken(s, e, c, n, lo, a, q, h, b, m) ==
  /\ Moved(e, c, n, a, n + 1)
  /\ Output(s, c, lo, a + m, q, n + 1) /\ Second(s, c, a + m, b + m, n + 1)
  /\ Before(s, c, q, b + m, a + m, q)
  /\ Sorted(s, c, h, b) /\ Sorted(s, c, q, h) /\ Before(s, c, h, b, q, h)
  /\ Sorted(s, c, b, b + m) /\ Before(s, c, q, b, b, b + m)

\* The swap does that.
LEMMA RunSwapped ==
  ASSUME NEW n \in Nat, NEW s \in BOOLEAN, NEW e \in [1 .. n -> Pairs], NEW lo \in Nat, 1 <= lo,
         NEW a \in Nat, NEW q \in Nat, NEW h \in Nat, NEW b \in Nat,
         Innermost(s, e, lo, a, q, h, b, n + 1), q < b,
         NEW m \in Nat, m > 0, a + m <= q, b + m <= n + 1,
         AllLess(e, b, b + m, e[h]),
         NEW c, c = swap_block(e, a, b, m)
  PROVE  RunTaken(s, e, c, n, lo, a, q, h, b, m)
<1>0. \A i \in b .. b + m - 1 : Less(e[i], e[h])
  BY DEF AllLess
<1> USE <1>0
<1>1. /\ lo <= a /\ a < q /\ q <= h /\ h < b /\ b <= n
  BY DEF Innermost, Pointers
<1>2. /\ Sorted(s, e, lo, a) /\ Before(s, e, lo, a, a, n + 1) /\ Sorted(s, e, a, q)
      /\ Sorted(s, e, b, n + 1) /\ Sides(s, e, a, b, b, n + 1)
      /\ Sorted(s, e, h, b) /\ Sorted(s, e, q, h) /\ Before(s, e, h, b, q, h)
      /\ Before(s, e, q, b, a, q)
  BY DEF Innermost, Output, Second, Ring
<1>3. /\ Moved(e, c, n, a, b + m)
      /\ Shifted(c, a, a + m, e, b) /\ Shifted(c, b, b + m, e, a)
      /\ Same(c, a + m, b, e) /\ Same(c, b + m, n + 1, e)
  <2>1. 1 <= a /\ a + m <= b /\ b + m <= n + 1 /\ a \in Nat /\ b \in Nat /\ m \in Nat
    BY <1>1
  <2> QED BY <2>1, SwapMoves
<1>4. Moved(e, c, n, a, n + 1)
  <2>1. 1 <= a /\ n + 1 \in Nat /\ b + m \in Nat /\ n + 1 <= n + 1 /\ a <= a
    BY <1>1
  <2> QED BY <1>3, <2>1, MovedWithin
<1>5. \A i \in a + m .. b - 1 : c[i] = e[i]
  BY <1>3 DEF Same
<1>6. \A i \in b + m .. (n + 1) - 1 : c[i] = e[i]
  BY <1>3 DEF Same
\* The run comes before all that is left.
<1>7. ASSUME NEW i \in b .. b + m - 1, NEW j \in a .. n, j >= b + m \/ j < b
      PROVE  Ordered(s, e[i], e[j])
  <2>1. i \in 1 .. n /\ j \in 1 .. n /\ h \in 1 .. n /\ i \in Nat /\ j \in Nat
    BY <1>1
  <2>2. CASE j >= b + m
    BY <1>2, <2>1, <2>2, SortedAt
  <2>3. CASE j < b
    <3>1. e[i] \in Pairs /\ e[h] \in Pairs /\ e[j] \in Pairs
      BY <2>1
    <3>2. Ordered(s, e[i], e[h])
      BY <3>1, LessIsOrdered
    <3>3. j # h => Ordered(s, e[h], e[j])
      <4>1. j \in a .. b - 1
        BY <2>3
      <4> QED BY <4>1, HeadIsLeast
    <3> QED BY <3>1, <3>2, <3>3, OrderedTransitive
  <2> QED BY <1>7, <2>2, <2>3
<1>8. Sorted(s, c, a, a + m)
  <2>2. a + m \in Nat /\ n + 1 \in Nat /\ b + ((a + m) - a) <= n + 1
    OBVIOUS
  <2> QED BY <1>2, <1>3, <2>2, SortedShifted
<1>9. Before(s, c, a, a + m, a + m, n + 1)
  <2> SUFFICES ASSUME NEW i \in a .. (a + m) - 1, NEW j \in a + m .. (n + 1) - 1
               PROVE  Ordered(s, c[i], c[j])
    BY DEF Before
  <2>1. c[i] = e[i - a + b] /\ i - a + b \in b .. b + m - 1
    BY <1>3 DEF Shifted
  <2>2. CASE j < b
    BY <1>5, <1>7, <2>1, <2>2
  <2>3. CASE j >= b + m
    BY <1>6, <1>7, <2>1, <2>3
  <2>4. CASE j >= b /\ j < b + m
    <3>1. c[j] = e[j - b + a] /\ j - b + a \in a .. n /\ j - b + a < b
      BY <1>1, <1>3, <2>4 DEF Shifted
    <3> QED BY <1>7, <2>1, <3>1
  <2> QED BY <2>2, <2>3, <2>4
<1>10. Sorted(s, c, lo, a + m) /\ Before(s, c, lo, a + m, a + m, n + 1)
  <2>1. a + m \in Nat /\ a <= a + m /\ a + m <= n + 1
    BY <1>1
  <2> QED BY <1>1, <1>2, <1>4, <1>8, <1>9, <2>1, OutputGrows
<1>11. Sorted(s, c, a + m, q)
  <2>1. \A i \in a + m .. q - 1 : c[i] = e[i]
    BY <1>1, <1>5
  <2> QED BY <1>2, <2>1, SortedSame
<1>12. Sorted(s, c, b + m, n + 1)
  BY <1>2, <1>6, SortedSame
<1>13. Sorted(s, c, h, b)
  <2>1. \A i \in h .. b - 1 : c[i] = e[i]
    BY <1>1, <1>5
  <2> QED BY <1>2, <2>1, SortedSame
<1>14. Sorted(s, c, q, h)
  <2>1. \A i \in q .. h - 1 : c[i] = e[i]
    BY <1>1, <1>5
  <2> QED BY <1>2, <2>1, SortedSame
<1>15. Before(s, c, h, b, q, h)
  <2>1. \A i \in q .. b - 1 : c[i] = e[i]
    BY <1>1, <1>5
  <2> QED BY <1>1, <1>2, <2>1 DEF Before
\* The pairs of a that were displaced.
<1>16. \A i \in b .. b + m - 1 : c[i] = e[i - b + a] /\ i - b + a \in a .. q - 1
  BY <1>1, <1>3 DEF Shifted
<1>17. Sorted(s, c, b, b + m)
  <2>2. b + m \in Nat /\ a + ((b + m) - b) <= q
    OBVIOUS
  <2> QED BY <1>2, <1>3, <2>2, SortedShifted
<1>18. Before(s, c, q, b, b, b + m)
  <2>1. \A i \in q .. b - 1 : c[i] = e[i]
    BY <1>1, <1>5
  <2> QED BY <1>2, <1>16, <2>1 DEF Before
<1>19. Before(s, c, q, b + m, a + m, q)
  <2>1. \A i \in q .. b - 1 : c[i] = e[i]
    BY <1>1, <1>5
  <2>2. \A j \in a + m .. q - 1 : c[j] = e[j] /\ j \in a .. q - 1
    BY <1>1, <1>5
  <2>3. Before(s, c, q, b, a + m, q)
    BY <1>2, <2>1, <2>2 DEF Before
  <2>4. ASSUME NEW i \in b .. (b + m) - 1, NEW j \in a + m .. q - 1
        PROVE  Ordered(s, c[i], c[j])
    <3>1. c[i] = e[i - b + a] /\ i - b + a \in Nat /\ a <= i - b + a /\ i - b + a < j
          /\ j \in Nat /\ j < q
      BY <1>16
    <3>2. Ordered(s, e[i - b + a], e[j])
      BY <1>2, <3>1, SortedAt
    <3> QED BY <2>2, <3>1, <3>2
  <2>5. Before(s, c, b, b + m, a + m, q)
    BY <2>4 DEF Before
  <2> QED BY <2>3, <2>5, BeforeTogether
<1>20. Sides(s, c, a + m, b + m, b + m, n + 1)
  <2>1. ASSUME NEW i \in a + m .. (b + m) - 1
        PROVE  \E j \in a .. b - 1 : c[i] = e[j]
    <3>1. CASE i < b
      BY <1>5, <3>1
    <3>2. CASE i >= b
      <4>1. c[i] = e[i - b + a] /\ i - b + a \in a .. b - 1
        BY <1>1, <1>16, <3>2
      <4> QED BY <4>1
    <3> QED BY <3>1, <3>2
  <2>2. Among(c, a + m, b + m, e, a, b)
    BY <2>1 DEF Among
  <2>3. \A i \in b + m .. (n + 1) - 1 : i \in b .. (n + 1) - 1
    OBVIOUS
  <2>4. Among(c, b + m, n + 1, e, b, n + 1)
    BY <1>6, <2>3 DEF Among
  <2> QED BY <1>2, <2>2, <2>4, SidesPart
<1>21. Output(s, c, lo, a + m, q, n + 1)
  BY <1>10, <1>11 DEF Output
<1>22. Second(s, c, a + m, b + m, n + 1)
  BY <1>12, <1>20 DEF Second
<1> QED BY <1>4, <1>13, <1>14, <1>15, <1>17, <1>18, <1>19, <1>21, <1>22 DEF RunTaken

\* What comes before a part comes before what is among it.
LEMMA BeforeAmong ==
  ASSUME NEW s, NEW e, NEW d, NEW lo \in Nat, NEW hi \in Nat, NEW lo2 \in Nat, NEW hi2 \in Nat,
         Before(s, e, lo, hi, lo2, hi2),
         NEW from \in Nat, NEW to \in Nat, NEW from2 \in Nat, NEW to2 \in Nat,
         Among(d, from, to, e, lo, hi), Among(d, from2, to2, e, lo2, hi2)
  PROVE  Before(s, d, from, to, from2, to2)
<1> SUFFICES ASSUME NEW i \in from .. to - 1, NEW j \in from2 .. to2 - 1
             PROVE  Ordered(s, d[i], d[j])
  BY DEF Before
<1>1. PICK x \in lo .. hi - 1 : d[i] = e[x]
  BY DEF Among
<1>2. PICK y \in lo2 .. hi2 - 1 : d[j] = e[y]
  BY DEF Among
<1> QED BY <1>1, <1>2 DEF Before

\* A part that has moved is among what it was.
LEMMA ShiftedAmong ==
  ASSUME NEW e, NEW d, NEW lo \in Nat, NEW hi \in Nat, NEW from \in Nat, NEW to \in Nat, NEW at \in Nat,
         Shifted(d, from, to, e, at), lo <= at, at + (to - from) <= hi
  PROVE  Among(d, from, to, e, lo, hi)
<1>1. \A i \in from .. to - 1 : i - from + at \in lo .. hi - 1
  OBVIOUS
<1> QED BY <1>1 DEF Among, Shifted

\* A part that has stayed is among itself.
LEMMA SameAmong ==
  ASSUME NEW e, NEW d, NEW lo \in Nat, NEW hi \in Nat, NEW from \in Nat, NEW to \in Nat,
         Same(d, from, to, e), lo <= from, to <= hi
  PROVE  Among(d, from, to, e, lo, hi)
<1>1. \A i \in from .. to - 1 : i \in lo .. hi - 1
  OBVIOUS
<1> QED BY <1>1 DEF Among, Same

\* What has changed places is among itself.
LEMMA MovedAmong ==
  ASSUME NEW n \in Nat, NEW e, NEW d, NEW lo \in Nat, NEW hi \in Nat, Moved(e, d, n, lo, hi)
  PROVE  Among(d, lo, hi, e, lo, hi)
  BY DEF Moved, Among

\* Outside the change everything has stayed.
LEMMA MovedSame ==
  ASSUME NEW n \in Nat, NEW e, NEW d, NEW lo \in Nat, NEW hi \in Nat, Moved(e, d, n, lo, hi),
         NEW from \in Nat, NEW to \in Nat, 1 <= from, to <= n + 1, to <= lo \/ hi <= from
  PROVE  Same(d, from, to, e)
<1>1. \A i \in from .. to - 1 : i \in 1 .. n /\ (i < lo \/ i >= hi)
  OBVIOUS
<1> QED BY <1>1 DEF Moved, Same

\* A part that has stayed is in order.
LEMMA SameSorted ==
  ASSUME NEW s, NEW e, NEW d, NEW lo \in Nat, NEW hi \in Nat, Sorted(s, e, lo, hi),
         NEW from \in Nat, NEW to \in Nat, lo <= from, to <= hi, Same(d, from, to, e)
  PROVE  Sorted(s, d, from, to)
  BY SortedSame DEF Same

\* The ring from q to b, whose head is h.
Circular(s, e, q, h, b) ==
  Sorted(s, e, h, b) /\ Sorted(s, e, q, h) /\ Before(s, e, h, b, q, h)

\* The queue is brought in order.
LEMMA QueueUnrolls ==
  ASSUME NEW n \in Nat, NEW s \in BOOLEAN, NEW c \in [1 .. n -> Pairs],
         NEW q \in Nat, NEW h \in Nat, NEW b \in Nat,
         1 <= q, q <= h, h <= b, b <= n + 1, Circular(s, c, q, h, b),
         NEW d, d = rotate(c, q, h, b)
  PROVE  Moved(c, d, n, q, b) /\ Sorted(s, d, q, b)
<1> DEFINE w == q + (b - h)
<1>1. w \in Nat /\ w - q = b - h /\ b - w = h - q /\ q <= w /\ w <= b
  OBVIOUS
<1>2. Moved(c, d, n, q, b) /\ Shifted(d, q, w, c, h) /\ Shifted(d, w, b, c, q)
  BY RotateMoves
<1> HIDE DEF w
<1>3. h + (w - q) <= b /\ q + (b - w) <= h
  BY <1>1
<1>4. Sorted(s, d, q, w)
  BY <1>1, <1>2, <1>3, SortedShifted DEF Circular
<1>5. Sorted(s, d, w, b)
  BY <1>1, <1>2, <1>3, SortedShifted DEF Circular
<1>6. Before(s, d, q, w, w, b)
  BY <1>1, <1>2, <1>3, BeforeShifted DEF Circular
<1> QED BY <1>1, <1>2, <1>4, <1>5, <1>6, SortedTogether

\* The pairs behind the queue, from b to t, come to its end: the queue is
\* brought in order,
LEMMA QueueTakesAll ==
  ASSUME NEW n \in Nat, NEW s \in BOOLEAN, NEW c \in [1 .. n -> Pairs],
         NEW q \in Nat, NEW h \in Nat, NEW b \in Nat, NEW t \in Nat,
         1 <= q, q <= h, h <= b, b <= t, t <= n + 1, Circular(s, c, q, h, b),
         Sorted(s, c, b, t), Before(s, c, q, b, b, t),
         NEW d, d = rotate(c, q, h, b)
  PROVE  Moved(c, d, n, q, t) /\ Circular(s, d, q, q, t)
<1>1. Moved(c, d, n, q, b) /\ Sorted(s, d, q, b)
  BY QueueUnrolls
<1>2. Moved(c, d, n, q, t)
  BY <1>1, MovedWithin
<1>3. Same(d, b, t, c)
  BY <1>1, MovedSame
<1>4. Among(d, b, t, c, b, t)
  BY <1>3, SameAmong
<1>5. Among(d, q, b, c, q, b)
  BY <1>1, MovedAmong
<1>6. Before(s, d, q, b, b, t)
  BY <1>4, <1>5, BeforeAmong
<1>7. Sorted(s, d, b, t)
  BY <1>3, SameSorted
<1>8. Sorted(s, d, q, t)
  BY <1>1, <1>6, <1>7, SortedTogether
<1> QED BY <1>2, <1>8, SortedAlone, NothingBefore DEF Circular

\* or its head and what follows change places with them,
LEMMA QueueTurnsRight ==
  ASSUME NEW n \in Nat, NEW s \in BOOLEAN, NEW c \in [1 .. n -> Pairs],
         NEW q \in Nat, NEW h \in Nat, NEW b \in Nat, NEW t \in Nat,
         1 <= q, q <= h, h <= b, b <= t, t <= n + 1, Circular(s, c, q, h, b),
         Sorted(s, c, b, t), Before(s, c, q, b, b, t),
         NEW d, d = rotate(c, h, b, t), NEW x \in Nat, x = h + (t - b)
  PROVE  Moved(c, d, n, q, t) /\ Circular(s, d, q, x, t)
<1>1. x - h = t - b /\ t - x = b - h /\ h <= x /\ x <= t /\ b + (x - h) <= t /\ h + (t - x) <= b
      /\ 1 <= h
  OBVIOUS
<1>2. Moved(c, d, n, h, t) /\ Shifted(d, h, x, c, b) /\ Shifted(d, x, t, c, h)
  BY <1>1, RotateMoves
<1>3. Moved(c, d, n, q, t)
  BY <1>2, MovedWithin
<1>4. Same(d, q, h, c)
  BY <1>1, <1>2, MovedSame
<1>5. Sorted(s, d, x, t)
  BY <1>1, <1>2, SortedShifted DEF Circular
<1>6. Sorted(s, d, q, h)
  BY <1>4, SameSorted DEF Circular
<1>7. Sorted(s, d, h, x)
  BY <1>1, <1>2, SortedShifted
<1>8. Among(d, q, h, c, q, h) /\ Among(d, q, h, c, q, b)
  BY <1>4, SameAmong
<1>9. Among(d, h, x, c, b, t)
  BY <1>1, <1>2, ShiftedAmong
<1>10. Among(d, x, t, c, h, b) /\ Among(d, x, t, c, q, b)
  BY <1>1, <1>2, ShiftedAmong
<1>11. Before(s, d, q, h, h, x)
  BY <1>8, <1>9, BeforeAmong
<1>12. Sorted(s, d, q, x)
  BY <1>1, <1>6, <1>7, <1>11, SortedTogether
<1>13. Before(s, d, x, t, q, h)
  BY <1>8, <1>10, BeforeAmong DEF Circular
<1>14. Before(s, d, x, t, h, x)
  BY <1>9, <1>10, BeforeAmong
<1>15. Before(s, d, x, t, q, x)
  BY <1>13, <1>14, BeforeBoth
<1> QED BY <1>3, <1>5, <1>12, <1>15 DEF Circular

\* or they are swapped with the first pairs that lie in the queue, which is
\* put right up to its head.
LEMMA QueueTurnsLeft ==
  ASSUME NEW n \in Nat, NEW s \in BOOLEAN, NEW c \in [1 .. n -> Pairs],
         NEW q \in Nat, NEW h \in Nat, NEW b \in Nat, NEW m \in Nat, NEW t \in Nat, t = b + m,
         1 <= q, q + m <= h, h <= b, b <= t, t <= n + 1, Circular(s, c, q, h, b),
         Sorted(s, c, b, t), Before(s, c, q, b, b, t),
         NEW u, u = swap_block(c, q, b, m),
         NEW d, d = rotate(u, q, q + m, h)
  PROVE  Moved(c, d, n, q, t) /\ Circular(s, d, q, h, t)
<1>1. Moved(c, u, n, q, t) /\ Shifted(u, q, q + m, c, b) /\ Shifted(u, b, t, c, q)
      /\ Same(u, q + m, b, c)
  <2>1. q + m <= b
    OBVIOUS
  <2> QED BY <2>1, SwapMoves
<1> DEFINE w == q + (h - (q + m))
<1>2. /\ w \in Nat /\ q <= w /\ w <= h /\ h - w = m /\ q <= q + m /\ q + m \in Nat
      /\ h <= n + 1 /\ w - q = h - (q + m)
  OBVIOUS
<1>3. u \in [1 .. n -> Pairs]
  BY <1>1 DEF Moved
<1>4. Moved(u, d, n, q, h) /\ Shifted(d, q, w, u, q + m) /\ Shifted(d, w, h, u, q)
  BY <1>2, <1>3, RotateMoves
<1> HIDE DEF w
<1>5. Moved(c, d, n, q, t)
  <2>1. h <= t /\ q <= q
    OBVIOUS
  <2> QED BY <1>1, <1>4, <2>1, MovedTwice
<1>6. Same(d, h, b, c)
  <2>1. 1 <= h /\ b <= n + 1 /\ h <= h
    BY <1>2
  <2>2. Same(d, h, b, u)
    BY <1>4, <2>1, MovedSame
  <2> QED BY <1>1, <2>2 DEF Same
<1>7. Shifted(d, b, t, c, q)
  <2>1. 1 <= b /\ t <= n + 1 /\ h <= b
    BY <1>2
  <2>2. Same(d, b, t, u)
    BY <1>4, <2>1, MovedSame
  <2> QED BY <1>1, <2>2 DEF Same, Shifted
<1>8. Shifted(d, q, w, c, q + m)
  <2>1. \A i \in q .. w - 1 : i - q + (q + m) \in q + m .. b - 1
    BY <1>2
  <2> QED BY <1>1, <1>4, <2>1 DEF Same, Shifted
<1>9. Shifted(d, w, h, c, b)
  <2>1. ASSUME NEW i \in w .. h - 1
        PROVE  d[i] = c[i - w + b]
    <3>1. i - w + q \in q .. (q + m) - 1 /\ (i - w + q) - q + b = i - w + b
      BY <1>2
    <3>2. d[i] = u[i - w + q]
      BY <1>4 DEF Shifted
    <3>3. u[i - w + q] = c[(i - w + q) - q + b]
      BY <1>1, <3>1 DEF Shifted
    <3> QED BY <3>1, <3>2, <3>3
  <2> QED BY <2>1 DEF Shifted
\* The head and what follows, then the first pairs that lay in the queue.
<1>10. Sorted(s, c, h, b) /\ Sorted(s, c, q, h) /\ Before(s, c, h, b, q, h)
  BY DEF Circular
<1>11. Among(d, h, b, c, h, b) /\ Among(d, h, b, c, q, b)
  BY <1>2, <1>6, SameAmong
<1>12. Among(d, b, t, c, q, q + m) /\ Among(d, b, t, c, q, h) /\ Among(d, b, t, c, q, b)
  BY <1>2, <1>7, ShiftedAmong
<1>13. q + m + (w - q) <= h /\ b + (h - w) <= t /\ q + (t - b) <= h /\ q + (t - b) <= q + m
       /\ q + m + (w - q) <= b
  BY <1>2
<1>14. Among(d, q, w, c, q + m, h) /\ Among(d, q, w, c, q, h) /\ Among(d, q, w, c, q, b)
  BY <1>2, <1>8, <1>13, ShiftedAmong
<1>15. Among(d, w, h, c, b, t)
  BY <1>2, <1>9, <1>13, ShiftedAmong
<1>16. Sorted(s, d, h, t)
  <2>1. Sorted(s, d, h, b)
    BY <1>6, <1>10, SameSorted
  <2>2. Sorted(s, d, b, t)
    BY <1>2, <1>7, <1>10, <1>13, SortedShifted
  <2>3. Before(s, d, h, b, b, t)
    BY <1>10, <1>11, <1>12, BeforeAmong
  <2> QED BY <2>1, <2>2, <2>3, SortedTogether
<1>17. Sorted(s, d, q, h)
  <2>1. Sorted(s, d, q, w)
    BY <1>2, <1>8, <1>10, <1>13, SortedShifted
  <2>2. Sorted(s, d, w, h)
    BY <1>2, <1>9, <1>13, SortedShifted
  <2>3. Before(s, d, q, w, w, h)
    BY <1>2, <1>14, <1>15, BeforeAmong
  <2> QED BY <1>2, <2>1, <2>2, <2>3, SortedTogether
<1>18. Before(s, d, h, t, q, h)
  <2>1. Before(s, d, h, b, q, w)
    BY <1>2, <1>10, <1>11, <1>14, BeforeAmong
  <2>2. Before(s, d, h, b, w, h)
    BY <1>2, <1>11, <1>15, BeforeAmong
  <2>3. Before(s, d, h, b, q, h)
    BY <1>2, <2>1, <2>2, BeforeBoth
  <2>4. Before(s, c, q, q + m, q + m, h)
    BY <1>2, <1>10, SortedIsBefore
  <2>5. Before(s, d, b, t, q, w)
    BY <1>2, <1>12, <1>14, <2>4, BeforeAmong
  <2>6. Before(s, d, b, t, w, h)
    BY <1>2, <1>12, <1>15, BeforeAmong
  <2>7. Before(s, d, b, t, q, h)
    BY <1>2, <2>5, <2>6, BeforeBoth
  <2> QED BY <2>3, <2>7, BeforeTogether
<1> QED BY <1>5, <1>16, <1>17, <1>18 DEF Circular

-----------------------------------------------------------------------------
(* How many pairs come before the head of the queue.                       *)

\* A set of naturals has a least member.
LEMMA LeastMember ==
  ASSUME NEW T \in SUBSET Nat, T # {}
  PROVE  \E m \in T : \A y \in T : m <= y
<1> DEFINE R == OpToRel(<, Nat)
<1>1. IsWellFoundedOn(R, Nat)
  BY NatLessThanWellFounded
<1>2. \A x, y \in Nat : x < y => <<x, y>> \in R
  BY DEF OpToRel
<1> HIDE DEF R
<1>3. PICK m \in T : \A y \in T : ~(<<y, m>> \in R)
  BY <1>1, WFMin
<1>4. ASSUME NEW y \in T
      PROVE  m <= y
  <2>1. m \in Nat /\ y \in Nat
    OBVIOUS
  <2>2. ~(y < m)
    BY <1>2, <1>3, <2>1, Zenon
  <2> QED BY <2>1, <2>2, SMT
<1> QED BY <1>4

\* What scan() counts.
LEMMA ScanCounts ==
  ASSUME NEW e, NEW p, NEW lo \in Nat, NEW hi \in Nat, lo <= hi
  PROVE  /\ scan(e, lo, hi, p) \in 0 .. hi - lo
         /\ \A i \in lo .. lo + scan(e, lo, hi, p) - 1 : Less(e[i], p)
         /\ scan(e, lo, hi, p) = hi - lo \/ ~Less(e[lo + scan(e, lo, hi, p)], p)
<1> DEFINE Ends(m) == m = hi - lo \/ ~Less(e[lo + m], p)
           T == {m \in 0 .. hi - lo : Ends(m)}
           Counts(m) == /\ \A i \in lo .. lo + m - 1 : Less(e[i], p)
                        /\ m = hi - lo \/ ~Less(e[lo + m], p)
<1>1. hi - lo \in T /\ T \in SUBSET Nat
  OBVIOUS
<1>2. PICK m \in T : \A y \in T : m <= y
  <2> HIDE DEF T
  <2> QED BY <1>1, LeastMember
<1>3. ASSUME NEW i \in lo .. lo + m - 1
      PROVE  Less(e[i], p)
  <2>1. i - lo \in 0 .. hi - lo /\ i - lo < m /\ lo + (i - lo) = i
    BY <1>2
  <2>2. ~(i - lo \in T)
    BY <1>2, <2>1
  <2>3. ~Ends(i - lo)
    BY <2>1, <2>2
  <2> QED BY <2>1, <2>3
<1>4. m \in 0 .. hi - lo /\ Counts(m)
  BY <1>2, <1>3
<1> DEFINE c == CHOOSE x \in 0 .. hi - lo : Counts(x)
<1>5. c \in 0 .. hi - lo /\ Counts(c)
  <2> HIDE DEF Counts
  <2> QED BY <1>4
<1>6. scan(e, lo, hi, p) = c
  BY DEF scan
<1> HIDE DEF c
<1> QED BY <1>5, <1>6

-----------------------------------------------------------------------------
(* The calls.                                                              *)

\* The innermost call of c has become g.
TopIs(c, g) == <<>> \o <<g>> \o Tail(c)

\* It has become g, and has called f.
TopsAre(c, f, g) == <<f>> \o <<g>> \o Tail(c)

\* What x then has of them.
OneReplaced(x, c, g) == Len(x) = Len(c) /\ x[1] = g /\ \A k \in 2 .. Len(c) : x[k] = c[k]

OnePushed(x, c, f, g) ==
  Len(x) = Len(c) + 1 /\ x[1] = f /\ x[2] = g /\ \A k \in 2 .. Len(c) : x[k + 1] = c[k]

\* The calls when the innermost one has become g.
LEMMA TopReplaced ==
  ASSUME NEW c, c \in Seq(Frames), c # <<>>, NEW g \in Frames, NEW x, x = TopIs(c, g)
  PROVE  x \in Seq(Frames) /\ OneReplaced(x, c, g)
<1>1. LET y == <<>> \o <<g>> \o Tail(c)
      IN  /\ y \in Seq(Frames) /\ Len(y) = Len(c) /\ y[1] = g
          /\ \A k \in 2 .. Len(c) : y[k] = c[k]
  OBVIOUS
<1> QED BY <1>1 DEF TopIs, OneReplaced

\* The calls without the innermost one.
LEMMA TopRemoved ==
  ASSUME NEW S, NEW c \in Seq(S), c # <<>>
  PROVE  /\ Tail(c) \in Seq(S) /\ Len(Tail(c)) = Len(c) - 1
         /\ \A k \in 1 .. Len(c) - 1 : Tail(c)[k] = c[k + 1]
  OBVIOUS

\* Two items in the place of the first of a list.
LEMMA TwoPushed ==
  ASSUME NEW S, NEW c \in Seq(S), c # <<>>, NEW g \in S, NEW f \in S
  PROVE  LET x == <<f>> \o <<g>> \o Tail(c)
         IN  /\ x \in Seq(S) /\ Len(x) = Len(c) + 1 /\ x[1] = f /\ x[2] = g
             /\ \A k \in 2 .. Len(c) : x[k + 1] = c[k]
<1> DEFINE y == <<f>> \o <<g>>
<1>1. y \in Seq(S) /\ Len(y) = 2 /\ y[1] = f /\ y[2] = g
  OBVIOUS
<1>2. ASSUME NEW z \in Seq(S)
      PROVE  /\ y \o z \in Seq(S) /\ Len(y \o z) = Len(y) + Len(z) /\ Len(z) \in Nat
             /\ \A k \in 1 .. Len(y) : (y \o z)[k] = y[k]
             /\ \A k \in 1 .. Len(z) : (y \o z)[Len(y) + k] = z[k]
  <2> HIDE DEF y
  <2>1. y \in Seq(S)
    BY <1>1
  <2>2. y \o z \in Seq(S) /\ Len(y \o z) = Len(y) + Len(z) /\ Len(z) \in Nat
    BY <2>1
  <2>3. \A k \in 1 .. Len(y) : (y \o z)[k] = y[k]
    BY <2>1
  <2>4. \A k \in 1 .. Len(z) : (y \o z)[Len(y) + k] = z[k]
    BY <2>1
  <2> QED BY <2>2, <2>3, <2>4, Zenon
<1> DEFINE z == Tail(c)
           x == y \o z
<1>3. z \in Seq(S) /\ Len(z) = Len(c) - 1 /\ \A k \in 2 .. Len(c) : z[k - 1] = c[k]
  OBVIOUS
<1>4. Len(c) \in Nat
  OBVIOUS
<1> HIDE DEF y, z
<1>5. /\ x \in Seq(S) /\ Len(x) = Len(y) + Len(z) /\ Len(z) \in Nat
      /\ \A k \in 1 .. Len(y) : x[k] = y[k]
      /\ \A k \in 1 .. Len(z) : x[Len(y) + k] = z[k]
  BY <1>2, <1>3, Zenon
<1> HIDE DEF x
<1>6. Len(x) = Len(c) + 1 /\ x[1] = f /\ x[2] = g
  BY <1>1, <1>3, <1>4, <1>5
<1>7. ASSUME NEW k \in 2 .. Len(c)
      PROVE  x[k + 1] = c[k]
  <2>1. k - 1 \in 1 .. Len(z) /\ Len(y) + (k - 1) = k + 1
    BY <1>1, <1>3, <1>4
  <2>2. x[Len(y) + (k - 1)] = z[k - 1]
    BY <1>5, <2>1
  <2> QED BY <1>3, <2>1, <2>2
<1> QED BY <1>5, <1>6, <1>7 DEF x, y, z

\* The calls when the innermost one has become g and has called f.
LEMMA TwoOnTop ==
  ASSUME NEW c, c \in Seq(Frames), c # <<>>, NEW g \in Frames, NEW f \in Frames, NEW x, x = TopsAre(c, f, g)
  PROVE  x \in Seq(Frames) /\ OnePushed(x, c, f, g)
<1>1. LET y == <<f>> \o <<g>> \o Tail(c)
      IN  /\ y \in Seq(Frames) /\ Len(y) = Len(c) + 1 /\ y[1] = f /\ y[2] = g
          /\ \A k \in 2 .. Len(c) : y[k + 1] = c[k]
  BY TwoPushed, SMT
<1> QED BY <1>1 DEF TopsAre, OnePushed

\* What a call does to the array leaves those that wait for it as they were.
LEMMA PendingStays ==
  ASSUME NEW n \in Nat, NEW s \in BOOLEAN, NEW e \in [1 .. n -> Pairs], NEW d, NEW lo \in Nat, NEW f \in Frames,
         f.end = n + 1, Pending(s, e, lo, f), NEW from \in Nat, f.b <= from,
         Moved(e, d, n, from, n + 1)
  PROVE  Pending(s, d, lo, f)
<1> DEFINE a == f.a
           b == f.b
<1>1. /\ 1 <= lo /\ lo <= a /\ a <= b /\ f.q = b /\ f.h = b /\ b <= n + 1 /\ a \in Nat /\ b \in Nat
      /\ b <= from
  BY DEF Pending, Frames
<1>2. Sorted(s, e, lo, a) /\ Before(s, e, lo, a, a, n + 1) /\ Sorted(s, e, a, b)
  BY <1>1 DEF Pending, Output
<1> HIDE DEF a, b
<1>3. CASE from > n + 1
  <2>1. \A i \in 1 .. n : d[i] = e[i]
    BY <1>3 DEF Moved
  <2>2. Same(d, lo, a, e) /\ Same(d, a, b, e) /\ Same(d, a, n + 1, e)
    BY <1>1, <2>1 DEF Same
  <2>3. Before(s, d, lo, a, a, n + 1)
    BY <1>1, <1>2, <2>2 DEF Before, Same
  <2>4. Sorted(s, d, lo, a) /\ Sorted(s, d, a, b)
    BY <1>1, <1>2, <2>2, SameSorted
  <2>5. Output(s, d, lo, f.a, f.q, f.end)
    BY <1>1, <2>3, <2>4 DEF Output, a, b
  <2> QED BY <2>5 DEF Pending
<1>4. CASE from <= n + 1
  <2>1. Moved(e, d, n, a, n + 1)
    <3>1. 1 <= a /\ a <= from /\ n + 1 \in Nat /\ n + 1 <= n + 1
      BY <1>1
    <3> QED BY <1>1, <3>1, MovedWithin
  <2>2. Sorted(s, d, lo, a) /\ Before(s, d, lo, a, a, n + 1)
    <3>1. Sorted(s, d, a, a) /\ Before(s, d, a, a, a, n + 1)
      BY <1>1, SortedAlone, NothingBefore
    <3>2. a <= n + 1 /\ a <= a /\ lo \in Nat /\ a \in Nat /\ 1 <= lo /\ lo <= a
      BY <1>1
    <3> QED BY <1>2, <2>1, <3>1, <3>2, OutputGrows
  <2>3. Same(d, a, b, e)
    BY <1>1, MovedSame
  <2>4. Sorted(s, d, a, b)
    BY <1>1, <1>2, <2>3, SameSorted
  <2>5. Output(s, d, lo, f.a, f.q, f.end)
    BY <1>1, <2>2, <2>4 DEF Output, a, b
  <2> QED BY <2>5 DEF Pending
<1> QED BY <1>1, <1>3, <1>4

\* An array starts at a place.
LEMMA BaseIsNat ==
  ASSUME NEW c \in Seq(Frames), NEW k \in 1 .. Len(c)
  PROVE  Base(c, k) \in Nat
<1>1. k # Len(c) => c[k + 1] \in Frames
  OBVIOUS
<1> QED BY <1>1 DEF Base, Frames

\* The calls after the innermost one has become g.
LEMMA Replaced ==
  ASSUME NEW n \in Nat, NEW s \in BOOLEAN, NEW e \in [1 .. n -> Pairs], NEW d \in [1 .. n -> Pairs],
         NEW c, c \in Seq(Frames), c # <<>>, Stacked(s, e, c, n),
         NEW g \in Frames, g.end = n + 1, Current(s, d, Base(c, 1), g),
         Moved(e, d, n, c[1].a, n + 1),
         NEW x, x = TopIs(c, g)
  PROVE  x \in Seq(Frames) /\ Stacked(s, d, x, n)
<1>0. x \in Seq(Frames) /\ OneReplaced(x, c, g)
  BY TopReplaced
<1>1. /\ x \in Seq(Frames) /\ Len(x) = Len(c) /\ x[1] = g
      /\ \A k \in 2 .. Len(c) : x[k] = c[k]
  BY <1>0 DEF OneReplaced
<1>2. Len(c) \in Nat /\ Len(c) >= 1
  OBVIOUS
<1>3. ASSUME NEW k \in 1 .. Len(c)
      PROVE  Base(x, k) = Base(c, k)
  <2>1. k # Len(c) => k + 1 \in 2 .. Len(c)
    BY <1>2
  <2> QED BY <1>1, <2>1 DEF Base
<1>4. ASSUME NEW k \in 2 .. Len(x)
      PROVE  Pending(s, d, Base(x, k), x[k])
  <2>1. k \in 2 .. Len(c) /\ k \in 1 .. Len(c) /\ x[k] = c[k] /\ c[k] \in Frames /\ 2 \in 2 .. Len(c)
    BY <1>1, <1>2
  <2>2. Base(x, k) = Base(c, k) /\ Base(c, k) \in Nat
    BY <1>3, <2>1, BaseIsNat
  <2>3. Pending(s, e, Base(c, k), c[k]) /\ c[k].end = n + 1
    BY <2>1 DEF Stacked
  <2>4. c[k].b <= c[1].a /\ c[1].a \in Nat
    <3>1. Base(c, 1) = c[2].b
      BY <1>2, <2>1 DEF Base
    <3>2. Base(c, 1) <= c[1].a
      BY DEF Stacked, Current, Innermost, Pointers
    <3>3. c[k].b <= c[2].b
      <4>1. CASE k = 2
        <5>1. c[k].b \in Nat
          BY <2>1 DEF Frames
        <5> QED BY <4>1, <5>1
      <4>2. CASE k # 2
        BY <2>1, <4>2 DEF Stacked
      <4> QED BY <4>1, <4>2
    <3>4. c[1] \in Frames /\ c[2] \in Frames
      BY <1>2, <2>1
    <3>5. c[1].a \in Nat /\ c[2].b \in Nat /\ c[k].b \in Nat
      BY <2>1, <3>4 DEF Frames
    <3> QED BY <3>1, <3>2, <3>3, <3>5
  <2>5. Pending(s, d, Base(c, k), c[k])
    BY <2>1, <2>2, <2>3, <2>4, PendingStays
  <2> QED BY <2>1, <2>2, <2>5
<1>5. \A k \in 1 .. Len(x) : x[k].end = n + 1
  BY <1>1, <1>2 DEF Stacked
<1>6. Current(s, d, Base(x, 1), x[1])
  BY <1>1, <1>2, <1>3
<1>7. \A j, k \in 2 .. Len(x) : j < k => x[k].b <= x[j].b
  BY <1>1 DEF Stacked
<1>8. x # <<>> /\ (Len(x) > 1 => ~s)
  BY <1>1, <1>2 DEF Stacked
<1> QED BY <1>1, <1>4, <1>5, <1>6, <1>7, <1>8 DEF Stacked

\* Calls below the first two keep their place when one more is made.
LEMMA Pushed ==
  ASSUME NEW n \in Nat, NEW s \in BOOLEAN, NEW r \in BOOLEAN, ~r,
         NEW e \in [1 .. n -> Pairs], NEW d \in [1 .. n -> Pairs],
         NEW c, c \in Seq(Frames), c # <<>>, Stacked(s, e, c, n),
         NEW g \in Frames, g.end = n + 1, Pending(r, d, Base(c, 1), g),
         NEW f \in Frames, f.end = n + 1, Current(r, d, g.b, f),
         Moved(e, d, n, c[1].a, n + 1),
         NEW x, x = TopsAre(c, f, g)
  PROVE  x \in Seq(Frames) /\ Stacked(r, d, x, n)
<1>0. x \in Seq(Frames) /\ OnePushed(x, c, f, g)
  BY TwoOnTop
<1>1. /\ x \in Seq(Frames) /\ Len(x) = Len(c) + 1 /\ x[1] = f /\ x[2] = g
      /\ \A k \in 2 .. Len(c) : x[k + 1] = c[k]
  BY <1>0 DEF OnePushed
<1>2. Len(c) \in Nat /\ Len(c) >= 1
  OBVIOUS
<1>3. ASSUME NEW k \in 1 .. Len(c)
      PROVE  Base(x, k + 1) = Base(c, k)
  <2>1. k # Len(c) => k + 1 \in 2 .. Len(c)
    BY <1>2
  <2>2. k # Len(c) => x[(k + 1) + 1] = c[k + 1]
    BY <1>1, <2>1
  <2>3. k + 1 = Len(x) <=> k = Len(c)
    BY <1>1, <1>2
  <2> QED BY <2>2, <2>3 DEF Base
<1>4. ASSUME NEW k \in 2 .. Len(c)
      PROVE  /\ Pending(r, d, Base(c, k), c[k]) /\ c[k].b <= c[2].b /\ c[2].b <= c[1].a
             /\ c[k].b \in Nat /\ c[2].b \in Nat
  <2>1. k \in 1 .. Len(c) /\ c[k] \in Frames /\ 2 \in 2 .. Len(c) /\ Len(c) > 1
    BY <1>2
  <2>2. Base(c, k) \in Nat
    BY <2>1, BaseIsNat
  <2>3. Pending(s, e, Base(c, k), c[k]) /\ c[k].end = n + 1 /\ s = r
    BY <2>1 DEF Stacked
  <2>4. c[1] \in Frames /\ c[2] \in Frames
    BY <1>2, <2>1
  <2>5. c[1].a \in Nat /\ c[2].b \in Nat /\ c[k].b \in Nat
    BY <2>1, <2>4 DEF Frames
  <2>6. Base(c, 1) = c[2].b
    BY <1>2, <2>1 DEF Base
  <2>7. Base(c, 1) <= c[1].a
    BY DEF Stacked, Current, Innermost, Pointers
  <2>8. c[k].b <= c[2].b
    <3>1. CASE k = 2
      BY <2>5, <3>1
    <3>2. CASE k # 2
      <4>1. 2 < k
        BY <3>2
      <4>2. \A j, m \in 2 .. Len(c) : j < m => c[m].b <= c[j].b
        BY DEF Stacked
      <4> QED BY <2>1, <4>1, <4>2
    <3> QED BY <3>1, <3>2
  <2>9. c[k].b <= c[1].a
    BY <2>5, <2>6, <2>7, <2>8
  <2>10. Pending(r, e, Base(c, k), c[k])
    BY <2>3
  <2>11. Pending(r, d, Base(c, k), c[k])
    BY <2>1, <2>2, <2>3, <2>5, <2>9, <2>10, PendingStays
  <2> QED BY <2>5, <2>6, <2>7, <2>8, <2>11
<1>5. ASSUME NEW k \in 2 .. Len(x)
      PROVE  Pending(r, d, Base(x, k), x[k])
  <2>1. CASE k = 2
    <3>1. 1 \in 1 .. Len(c)
      BY <1>2
    <3> QED BY <1>1, <1>3, <2>1, <3>1
  <2>2. CASE k # 2
    <3>1. k - 1 \in 2 .. Len(c) /\ k - 1 \in 1 .. Len(c) /\ (k - 1) + 1 = k
      BY <1>1, <1>2, <2>2
    <3>2. x[k] = c[k - 1] /\ Base(x, k) = Base(c, k - 1)
      BY <1>1, <1>3, <3>1
    <3> QED BY <1>4, <3>1, <3>2
  <2> QED BY <2>1, <2>2
<1>6. \A k \in 1 .. Len(x) : x[k].end = n + 1
  <2> TAKE k \in 1 .. Len(x)
  <2>1. CASE k = 1 \/ k = 2
    BY <1>1, <2>1
  <2>2. CASE ~(k = 1 \/ k = 2)
    <3>1. k - 1 \in 2 .. Len(c) /\ k - 1 \in 1 .. Len(c) /\ (k - 1) + 1 = k
      BY <1>1, <1>2, <2>2
    <3>2. x[k] = c[k - 1]
      BY <1>1, <3>1
    <3> QED BY <3>1, <3>2 DEF Stacked
  <2> QED BY <2>1, <2>2
<1>7. Current(r, d, Base(x, 1), x[1])
  <2>1. Base(x, 1) = g.b
    BY <1>1, <1>2 DEF Base
  <2> QED BY <1>1, <2>1
<1>8. ASSUME NEW j \in 2 .. Len(x), NEW k \in 2 .. Len(x), j < k
      PROVE  x[k].b <= x[j].b
  <2>1. k - 1 \in 2 .. Len(c) /\ (k - 1) + 1 = k
    BY <1>1, <1>2, <1>8
  <2>2. x[k] = c[k - 1]
    BY <1>1, <2>1
  <2>3. CASE j = 2
    <3>1. Base(c, 1) = c[2].b
      BY <1>2, <2>1 DEF Base
    <3>2. g.b \in Nat /\ g.a \in Nat /\ g.q \in Nat /\ Base(c, 1) <= g.a /\ g.a <= g.q /\ g.q = g.b
      BY DEF Pending, Frames
    <3>3. c[k - 1].b <= c[2].b /\ c[k - 1].b \in Nat /\ c[2].b \in Nat
      BY <1>4, <2>1
    <3>4. c[k - 1].b <= g.b
      <4>1. c[2].b <= g.b
        BY <3>1, <3>2, <3>3
      <4> QED BY <3>2, <3>3, <4>1
    <3> QED BY <1>1, <2>2, <2>3, <3>4
  <2>4. CASE j # 2
    <3>1. j - 1 \in 2 .. Len(c) /\ (j - 1) + 1 = j /\ j - 1 < k - 1
      BY <1>1, <1>2, <1>8, <2>4
    <3>2. x[j] = c[j - 1]
      BY <1>1, <3>1
    <3>3. c[k - 1].b <= c[j - 1].b
      BY <2>1, <3>1 DEF Stacked
    <3> QED BY <2>2, <3>2, <3>3
  <2> QED BY <2>3, <2>4
<1>9. x # <<>>
  BY <1>1, <1>2
<1>10. \A j, k \in 2 .. Len(x) : j < k => x[k].b <= x[j].b
  BY <1>8
<1> HIDE <1>8
<1>11. Stacked(r, d, x, n)
  BY <1>5, <1>6, <1>7, <1>9, <1>10 DEF Stacked
<1> QED BY <1>1, <1>11

\* The innermost call has returned.
LEMMA Popped ==
  ASSUME NEW n \in Nat, NEW s \in BOOLEAN, NEW e \in [1 .. n -> Pairs],
         NEW c, c \in Seq(Frames), c # <<>>, Stacked(s, e, c, n), c[1].a >= c[1].b
  PROVE  Tail(c) \in Seq(Frames) /\ Stacked(s, e, Tail(c), n)
<1>1. PICK x : x = Tail(c)
  OBVIOUS
<1>2. LET y == Tail(c)
      IN  /\ y \in Seq(Frames) /\ Len(y) = Len(c) - 1
          /\ \A k \in 1 .. Len(c) - 1 : y[k] = c[k + 1]
  BY TopRemoved, SMT
<1>3. x \in Seq(Frames) /\ Len(x) = Len(c) - 1 /\ \A k \in 1 .. Len(c) - 1 : x[k] = c[k + 1]
  BY <1>1, <1>2
<1>4. Len(c) \in Nat /\ Len(c) >= 1
  OBVIOUS
<1> DEFINE lo == Base(c, 1)
           a == c[1].a
           b == c[1].b
<1>5. /\ lo \in Nat /\ a \in Nat /\ b = a /\ 1 <= lo /\ lo <= a /\ a <= n + 1
      /\ Sorted(s, e, lo, a) /\ Before(s, e, lo, a, a, n + 1) /\ Sorted(s, e, a, n + 1)
  <2>1. 1 \in 1 .. Len(c) /\ c[1] \in Frames
    BY <1>4
  <2>2. lo \in Nat
    BY <2>1, BaseIsNat
  <2>3. a \in Nat /\ b \in Nat /\ c[1].q \in Nat /\ c[1].h \in Nat /\ c[1].end = n + 1
    BY <2>1 DEF Frames, Stacked
  <2>4. Innermost(s, e, lo, a, c[1].q, c[1].h, b, n + 1)
    BY <2>3 DEF Stacked, Current
  <2>5. 1 <= lo /\ lo <= a /\ a <= c[1].q /\ c[1].q <= c[1].h /\ c[1].h <= b /\ b <= n + 1
    BY <2>4 DEF Innermost, Pointers
  <2>6. b = a
    BY <2>3, <2>5
  <2>7. Sorted(s, e, lo, a) /\ Before(s, e, lo, a, a, n + 1) /\ Sorted(s, e, b, n + 1)
    BY <2>4 DEF Innermost, Output, Second
  <2> QED BY <2>2, <2>3, <2>5, <2>6, <2>7
<1> HIDE DEF lo, a, b
<1>6. Sorted(s, e, lo, n + 1)
  BY <1>5, SortedTogether
<1>7. ASSUME NEW k \in 1 .. Len(x)
      PROVE  /\ k + 1 \in 2 .. Len(c) /\ k + 1 \in 1 .. Len(c) /\ x[k] = c[k + 1]
             /\ Base(x, k) = Base(c, k + 1)
  <2>1. k + 1 \in 2 .. Len(c) /\ k + 1 \in 1 .. Len(c) /\ k \in 1 .. Len(c) - 1
    BY <1>3, <1>4
  <2>2. k # Len(x) => k + 1 \in 1 .. Len(c) - 1
    BY <1>3, <1>4
  <2>3. k # Len(x) => x[k + 1] = c[(k + 1) + 1]
    BY <1>3, <2>2
  <2>4. k = Len(x) <=> k + 1 = Len(c)
    BY <1>3, <1>4
  <2>5. Base(x, k) = Base(c, k + 1)
    BY <2>3, <2>4 DEF Base
  <2> QED BY <1>3, <2>1, <2>5
<1>8. \A k \in 1 .. Len(x) : x[k].end = n + 1
  BY <1>7 DEF Stacked
<1>9. \A k \in 2 .. Len(x) : Pending(s, e, Base(x, k), x[k])
  <2> TAKE k \in 2 .. Len(x)
  <2>1. k \in 1 .. Len(x)
    OBVIOUS
  <2> QED BY <1>7, <2>1 DEF Stacked
<1>10. ASSUME NEW j \in 2 .. Len(x), NEW k \in 2 .. Len(x), j < k
       PROVE  x[k].b <= x[j].b
  <2>1. j \in 1 .. Len(x) /\ k \in 1 .. Len(x) /\ j + 1 < k + 1
    BY <1>10
  <2> QED BY <1>7, <2>1 DEF Stacked
<1>11. x # <<>> => Current(s, e, Base(x, 1), x[1])
  <2> SUFFICES ASSUME x # <<>>
               PROVE  Current(s, e, Base(x, 1), x[1])
    OBVIOUS
  <2>1. 1 \in 1 .. Len(x) /\ Len(c) > 1
    BY <1>3, <1>4
  <2>2. 2 \in 2 .. Len(c) /\ 2 \in 1 .. Len(c) /\ x[1] = c[2] /\ Base(x, 1) = Base(c, 2) /\ c[2] \in Frames
    BY <1>7, <2>1
  <2>3. Pending(s, e, Base(c, 2), c[2]) /\ c[2].end = n + 1 /\ ~s
    BY <2>1, <2>2 DEF Stacked
  <2>4. lo = c[2].b
    BY <2>1 DEF Base, lo
  <2> DEFINE from == Base(c, 2)
             at == c[2].a
             to == c[2].b
  <2>5. /\ from \in Nat /\ at \in Nat /\ to \in Nat /\ 1 <= from /\ from <= at /\ at <= to /\ to <= n + 1
        /\ c[2].q = to /\ c[2].h = to /\ c[2].end = n + 1
    <3>1. from \in Nat
      BY <2>2, BaseIsNat
    <3> QED BY <2>2, <2>3, <3>1 DEF Pending, Frames
  <2>6. Output(s, e, from, at, to, n + 1)
    BY <2>3, <2>5 DEF Pending
  <2>7. Sorted(s, e, to, n + 1)
    BY <1>6, <2>4
  <2> HIDE DEF from, at, to
  <2>8. Ring(s, e, at, to, to, to)
    BY <2>5 DEF Ring, Sorted, Before
  <2>9. Sides(s, e, at, to, to, n + 1)
    <3>1. ASSUME NEW i \in at .. to - 1, NEW j \in to .. (n + 1) - 1, ~Less(e[j], e[i])
          PROVE  Ordered(s, e[i], e[j])
      <4>1. i \in 1 .. n /\ j \in 1 .. n
        BY <2>5
      <4>2. e[i] \in Pairs /\ e[j] \in Pairs
        BY <4>1
      <4> QED BY <2>3, <3>1, <4>2, NotLessIsOrdered
    <3> QED BY <3>1 DEF Sides
  <2>10. Innermost(s, e, from, at, to, to, to, n + 1)
    <3>1. Pointers(from, at, to, to, to, n + 1)
      BY <2>5 DEF Pointers
    <3> QED BY <2>6, <2>7, <2>8, <2>9, <3>1 DEF Innermost, Second
  <2> QED BY <2>2, <2>5, <2>10 DEF Current, from, at, to
<1>12. Len(x) > 1 => ~s
  BY <1>3, <1>4 DEF Stacked
<1>13. x = <<>> => Sorted(s, e, 1, n + 1)
  <2>1. x = <<>> => Len(c) = 1
    BY <1>3, <1>4
  <2> QED BY <1>6, <2>1 DEF Base, lo
<1>14. Stacked(s, e, x, n)
  BY <1>8, <1>9, <1>10, <1>11, <1>12, <1>13 DEF Stacked
<1> QED BY <1>1, <1>3, <1>14

-----------------------------------------------------------------------------
(* An iteration of merge().                                                *)

\* When a has run into the queue, what a takes over is in order.
LEMMA SettledIsCurrent ==
  ASSUME NEW n \in Nat, NEW s \in BOOLEAN, NEW e \in [1 .. n -> Pairs], NEW lo \in Nat,
         NEW f \in Frames, f.end = n + 1,
         Innermost(s, e, lo, f.a, f.q, f.h, f.b, n + 1),
         NEW r, r = Settled(e, f)
  PROVE  /\ r.f \in Frames /\ r.f.end = n + 1 /\ Current(s, r.e, lo, r.f)
         /\ Moved(e, r.e, n, f.a, n + 1)
<1> DEFINE a == f.a
           q == f.q
           h == f.h
           b == f.b
           d == rotate(e, q, h, b)
           g == [f EXCEPT !.a = q, !.q = b, !.h = b]
<1>1. a \in Nat /\ q \in Nat /\ h \in Nat /\ b \in Nat
  BY DEF Frames
<1>2. CASE a >= q
  <2>1. r.f = g /\ r.e = d
    BY <1>2 DEF Settled
  <2>2. g \in Frames /\ g.a = q /\ g.q = b /\ g.h = b /\ g.b = b /\ g.end = n + 1
    BY <1>1 DEF Frames
  <2>3. PICK dd : dd = d
    OBVIOUS
  <2> HIDE DEF g, d
  <2>4. Innermost(s, e, lo, a, q, h, b, n + 1)
    OBVIOUS
  <2> HIDE DEF a, q, h, b
  <2>5. /\ 1 <= lo /\ lo <= a /\ a = q /\ q <= h /\ h <= b /\ b <= n + 1 /\ 1 <= q /\ a <= q /\ q <= b
        /\ Output(s, e, lo, a, q, n + 1) /\ Second(s, e, a, b, n + 1) /\ Before(s, e, q, b, a, q)
        /\ Circular(s, e, q, h, b)
    BY <1>1, <1>2, <2>4 DEF Innermost, Pointers, Ring, Circular
  <2>6. dd = rotate(e, q, h, b)
    BY <2>3 DEF d
  <2>7. Moved(e, dd, n, q, b) /\ Sorted(s, dd, q, b)
    BY <1>1, <2>5, <2>6, QueueUnrolls
  <2>8. /\ Output(s, dd, lo, a, q, n + 1) /\ Second(s, dd, a, b, n + 1)
        /\ Moved(e, dd, n, a, n + 1)
    BY <1>1, <2>5, <2>7, QueueMoves
  <2>9. Output(s, dd, lo, q, b, n + 1)
    BY <2>5, <2>7, <2>8 DEF Output
  <2>10. Pointers(lo, q, b, b, b, n + 1)
    BY <1>1, <2>5 DEF Pointers
  <2>11. Ring(s, dd, q, b, b, b)
    BY <1>1 DEF Ring, Sorted, Before
  <2>12. Second(s, dd, q, b, n + 1)
    BY <2>5, <2>8
  <2>13. Innermost(s, dd, lo, q, b, b, b, n + 1)
    BY <2>9, <2>10, <2>11, <2>12 DEF Innermost
  <2>14. Current(s, dd, lo, g)
    BY <2>2, <2>13 DEF Current
  <2> QED BY <2>1, <2>2, <2>3, <2>8, <2>14 DEF a
<1>3. CASE ~(a >= q)
  <2>1. r.f = f /\ r.e = e
    BY <1>3 DEF Settled
  <2>2. a # q
    BY <1>1, <1>3
  <2>3. Current(s, e, lo, f)
    BY <2>2 DEF Current
  <2>4. Moved(e, e, n, a, n + 1)
    BY <1>1, NothingMoved
  <2> QED BY <2>1, <2>3, <2>4
<1> QED BY <1>2, <1>3

\* An iteration has made d of the array e, and f of the innermost of the calls c.
Iterated(n, s, e, d, c, f) ==
  /\ n \in Nat /\ s \in BOOLEAN /\ e \in [1 .. n -> Pairs] /\ d \in [1 .. n -> Pairs]
  /\ c \in Seq(Frames) /\ c # <<>> /\ Stacked(s, e, c, n)
  /\ Moved(e, d, n, c[1].a, n + 1)
  /\ f \in Frames /\ f.end = n + 1 /\ c[1].a <= f.a
  /\ Innermost(s, d, Base(c, 1), f.a, f.q, f.h, f.b, n + 1)

\* The end of an iteration that has not called merge().
LEMMA IterationEnds ==
  ASSUME NEW n, NEW s, NEW e, NEW d, NEW c, NEW f, Iterated(n, s, e, d, c, f),
         NEW g, g = Settled(d, f).f, NEW u, u = Settled(d, f).e,
         NEW x, x = TopIs(c, g)
  PROVE  x \in Seq(Frames) /\ Len(x) = Len(c) /\ Stacked(s, u, x, n) /\ Moved(e, u, n, 1, n + 1)
<1>0. /\ n \in Nat /\ s \in BOOLEAN /\ e \in [1 .. n -> Pairs] /\ d \in [1 .. n -> Pairs]
      /\ c \in Seq(Frames) /\ c # <<>> /\ Stacked(s, e, c, n)
      /\ Moved(e, d, n, c[1].a, n + 1)
      /\ f \in Frames /\ f.end = n + 1 /\ c[1].a <= f.a
      /\ Innermost(s, d, Base(c, 1), f.a, f.q, f.h, f.b, n + 1)
  BY DEF Iterated
<1> USE <1>0
<1> DEFINE lo == Base(c, 1)
           from == c[1].a
           a == f.a
<1>1. 1 \in 1 .. Len(c) /\ c[1] \in Frames
  <2>1. Len(c) \in Nat /\ Len(c) >= 1
    OBVIOUS
  <2> QED BY <2>1
<1>2. lo \in Nat
  BY <1>1, BaseIsNat
<1>3. from \in Nat /\ a \in Nat
  BY <1>1 DEF Frames
<1>4. /\ g \in Frames /\ g.end = n + 1 /\ Current(s, u, lo, g)
      /\ Moved(d, u, n, a, n + 1)
  BY <1>2, SettledIsCurrent
<1>5. 1 <= from
  <2>1. Innermost(s, e, lo, c[1].a, c[1].q, c[1].h, c[1].b, c[1].end)
    BY DEF Stacked, Current
  <2> QED BY <1>2, <1>3, <2>1 DEF Innermost, Pointers
<1>6. u \in [1 .. n -> Pairs]
  BY <1>4 DEF Moved
<1>9. Moved(e, u, n, from, n + 1)
  <2>1. Moved(e, d, n, from, n + 1) /\ Moved(d, u, n, a, n + 1) /\ from <= a
    BY <1>4
  <2> HIDE DEF from, a
  <2>2. n + 1 \in Nat /\ n + 1 <= n + 1
    OBVIOUS
  <2> QED BY <1>3, <1>5, <2>1, <2>2, MovedTwice
<1>10. Moved(e, u, n, 1, n + 1)
  <2> HIDE DEF from
  <2>1. n + 1 \in Nat /\ n + 1 <= n + 1 /\ 1 \in Nat /\ 1 <= 1
    OBVIOUS
  <2> QED BY <1>3, <1>5, <1>9, <2>1, MovedWithin
<1>11. g \in Frames /\ g.end = n + 1 /\ Current(s, u, Base(c, 1), g)
  BY <1>4
<1> HIDE DEF lo, a
<1> HIDE <1>4
<1>12. x \in Seq(Frames) /\ Stacked(s, u, x, n)
  BY <1>6, <1>9, <1>11, Replaced
<1>13. Len(x) = Len(c)
  BY <1>11, TopReplaced DEF OneReplaced
<1> QED BY <1>10, <1>12, <1>13

\* What an action finds when it is enabled: the innermost call, and where it is.
LEMMA AtTop ==
  ASSUME array \in Seq(Pairs), InPlaceInv, InPlace,
         NEW n, n = Len(array), NEW s, s = Stable, NEW f, f = Top, NEW lo, lo = Base(calls, 1)
  PROVE  /\ n \in Nat /\ s \in BOOLEAN /\ array \in [1 .. n -> Pairs]
         /\ calls \in Seq(Frames) /\ calls # <<>> /\ Len(calls) \in Nat /\ f = calls[1] /\ f \in Frames
         /\ lo \in Nat /\ 1 <= lo /\ f.end = n + 1
         /\ f.a \in Nat /\ f.q \in Nat /\ f.h \in Nat /\ f.b \in Nat
         /\ Stacked(s, array, calls, n)
         /\ Innermost(s, array, lo, f.a, f.q, f.h, f.b, n + 1)
         /\ f.a < f.q /\ f.q <= f.h /\ f.h <= f.b /\ f.b <= n + 1 /\ lo <= f.a
<1>1. n \in Nat /\ array \in [1 .. n -> Pairs]
  OBVIOUS
<1>2. s \in BOOLEAN
  BY DEF Stable
<1>3. calls \in Seq(Frames) /\ calls # <<>> /\ f.a < f.b
  BY DEF InPlaceInv, InPlace
<1>4. f = calls[1] /\ Len(calls) \in Nat /\ 1 \in 1 .. Len(calls)
  BY <1>3 DEF Top
<1>5. f \in Frames
  BY <1>3, <1>4
<1>6. f.a \in Nat /\ f.q \in Nat /\ f.h \in Nat /\ f.b \in Nat
  BY <1>5 DEF Frames
<1>7. Stacked(s, array, calls, n)
  BY DEF InPlaceInv
<1>8. f.end = n + 1 /\ Current(s, array, lo, f)
  BY <1>3, <1>4, <1>7 DEF Stacked
<1>9. lo \in Nat
  BY <1>3, <1>4, BaseIsNat
<1>10. Innermost(s, array, lo, f.a, f.q, f.h, f.b, n + 1) /\ (f.a = f.q => f.q = f.b)
  BY <1>8 DEF Current
<1>11. 1 <= lo /\ lo <= f.a /\ f.a <= f.q /\ f.q <= f.h /\ f.h <= f.b /\ f.b <= n + 1
  BY <1>10 DEF Innermost, Pointers
<1>12. f.a < f.q
  BY <1>3, <1>6, <1>10, <1>11
<1> QED BY <1>1, <1>2, <1>3, <1>4, <1>5, <1>6, <1>7, <1>8, <1>9, <1>10, <1>11, <1>12

\* What an action does to the calls and the array, when the calls are in order
\* then for a function that is stable or not, as r tells.
InPlaceKept(r) ==
  /\ calls' \in Seq(Frames) /\ Stacked(r, array', calls', Len(array))
  /\ Moved(array, array', Len(array), 1, Len(array) + 1)

\* An iteration that has not called merge().
LEMMA IterationKeeps ==
  ASSUME array \in Seq(Pairs), InPlaceInv, InPlace,
         NEW n \in Nat, n = Len(array), NEW lo, lo = Base(calls, 1),
         NEW d, Moved(array, d, n, Top.a, n + 1),
         NEW g \in Frames, g.end = n + 1, Top.a <= g.a,
         Innermost(Stable, d, lo, g.a, g.q, g.h, g.b, n + 1),
         EndIteration(d, g, <<>>)
  PROVE  InPlaceKept(Stable) /\ Len(calls') = Len(calls)
<1>1. PICK s : s = Stable
  OBVIOUS
<1>2. PICK f : f = Top
  OBVIOUS
<1>3. /\ s \in BOOLEAN /\ array \in [1 .. n -> Pairs]
      /\ calls \in Seq(Frames) /\ calls # <<>> /\ f = calls[1] /\ f \in Frames
      /\ Stacked(s, array, calls, n)
  BY <1>1, <1>2, AtTop
<1>4. PICK r, u : r = Settled(d, g).f /\ u = Settled(d, g).e
  OBVIOUS
<1>5. array' = u /\ calls' = TopIs(calls, r)
  BY <1>4 DEF EndIteration, TopIs
<1>6. d \in [1 .. n -> Pairs]
  BY DEF Moved
<1>7. PICK x : x = TopIs(calls, r)
  OBVIOUS
<1>8. Iterated(n, s, array, d, calls, g)
  BY <1>1, <1>2, <1>3, <1>6 DEF Iterated
<1>9. x \in Seq(Frames) /\ Len(x) = Len(calls) /\ Stacked(s, u, x, n) /\ Moved(array, u, n, 1, n + 1)
  BY <1>4, <1>7, <1>8, IterationEnds
<1> QED BY <1>1, <1>5, <1>7, <1>9 DEF InPlaceKept

\* Each action of merge() keeps the calls in order: with an empty queue,
LEMMA MergePlainKeeps ==
  ASSUME array \in Seq(Pairs), InPlaceInv, merge_plain
  PROVE  InPlaceKept(Stable) /\ Len(calls') = Len(calls)
<1>0. InPlace
  BY DEF merge_plain
<1>1. PICK n, s, f, lo, e : n = Len(array) /\ s = Stable /\ f = Top /\ lo = Base(calls, 1) /\ e = array
  OBVIOUS
<1>2. /\ n \in Nat /\ s \in BOOLEAN /\ e \in [1 .. n -> Pairs] /\ f \in Frames
      /\ lo \in Nat /\ 1 <= lo /\ f.end = n + 1
      /\ f.a \in Nat /\ f.q \in Nat /\ f.h \in Nat /\ f.b \in Nat
      /\ Innermost(s, e, lo, f.a, f.q, f.h, f.b, n + 1)
      /\ f.a < f.q /\ f.b <= n + 1
  BY <1>0, <1>1, AtTop
<1> DEFINE a == f.a
           q == f.q
           h == f.h
           b == f.b
<1>3. q = b
  BY <1>1 DEF merge_plain
<1>4. CASE b < n + 1 /\ Less(e[b], e[a])
  <2> DEFINE g == [f EXCEPT !.a = a + 1, !.b = b + 1]
  <2>1. PICK d : d = Exchange(e, a, b)
    OBVIOUS
  <2>2. EndIteration(d, g, <<>>)
    BY <1>1, <1>2, <1>4, <2>1 DEF merge_plain
  <2>3. g \in Frames /\ g.a = a + 1 /\ g.q = q /\ g.h = h /\ g.b = b + 1 /\ g.end = n + 1
    <3>1. a + 1 \in Nat /\ b + 1 \in Nat /\ f \in Frames /\ f.end = n + 1
      BY <1>2
    <3> QED BY <3>1 DEF Frames
  <2>4. a \in Nat /\ q \in Nat /\ h \in Nat /\ b \in Nat /\ a < q /\ Innermost(s, e, lo, a, q, h, b, n + 1)
    BY <1>2
  <2>5. a <= a + 1
    BY <1>2
  <2> HIDE DEF a, q, h, b, g
  <2>6. Innermost(s, d, lo, a + 1, q, h, b + 1, n + 1) /\ Moved(e, d, n, a, n + 1)
    BY <1>2, <1>3, <1>4, <2>1, <2>4, PlainSwaps
  <2>7. Top.a = a
    BY <1>1 DEF a
  <2> QED BY <1>0, <1>1, <1>2, <2>2, <2>3, <2>5, <2>6, <2>7, IterationKeeps
<1>5. CASE ~(b < n + 1 /\ Less(e[b], e[a]))
  <2> DEFINE g == [f EXCEPT !.a = a + 1]
  <2>2. EndIteration(e, g, <<>>)
    BY <1>1, <1>2, <1>5 DEF merge_plain
  <2>3. g \in Frames /\ g.a = a + 1 /\ g.q = q /\ g.h = h /\ g.b = b /\ g.end = n + 1
    <3>1. a + 1 \in Nat /\ f \in Frames /\ f.end = n + 1
      BY <1>2
    <3> QED BY <3>1 DEF Frames
  <2>4. a \in Nat /\ q \in Nat /\ h \in Nat /\ b \in Nat /\ a < q /\ Innermost(s, e, lo, a, q, h, b, n + 1)
    BY <1>2
  <2>5. a <= a + 1
    BY <1>2
  <2> HIDE DEF a, q, h, b, g
  <2>6. Innermost(s, e, lo, a + 1, q, h, b, n + 1)
    BY <1>2, <1>3, <1>5, <2>4, PlainStays
  <2>7. Top.a = a
    BY <1>1 DEF a
  <2>8. Moved(e, e, n, a, n + 1)
    BY <1>2, <2>4, NothingMoved
  <2> QED BY <1>0, <1>1, <1>2, <2>2, <2>3, <2>5, <2>6, <2>7, <2>8, IterationKeeps
<1> QED BY <1>4, <1>5

\* The run of b that comes before the head of the queue fits where a is.
LEMMA RunFits ==
  ASSUME NEW n \in Nat, NEW e, NEW f, f.end = n + 1,
         NEW a \in Nat, NEW q \in Nat, NEW h \in Nat, NEW b \in Nat,
         f.a = a, f.q = q, f.h = h, f.b = b, a < q, b <= n + 1,
         NEW m, m = RunOf(e, f)
  PROVE  /\ m \in Nat /\ a + m <= q /\ b + m <= n + 1 /\ AllLess(e, b, b + m, e[h])
         /\ m = 0 => ~NextLess(e, b, n + 1, e[h])
<1> DEFINE p == e[h]
           hi == Shorter(b + (q - a), n + 1)
<1>1. hi \in Nat /\ b <= hi /\ hi <= n + 1 /\ hi <= b + (q - a) /\ (b < n + 1 => b < hi)
  BY DEF Shorter
<1>2. m = scan(e, b, hi, p)
  BY DEF RunOf
<1> HIDE DEF hi, p
<1>3. /\ m \in 0 .. hi - b
      /\ \A i \in b .. b + m - 1 : Less(e[i], p)
      /\ m = hi - b \/ ~Less(e[b + m], p)
  BY <1>1, <1>2, ScanCounts
<1>4. m \in Nat /\ a + m <= q /\ b + m <= n + 1
  BY <1>1, <1>3
<1>5. m = 0 => ~(b < n + 1 /\ Less(e[b], p))
  BY <1>1, <1>3
<1> QED BY <1>3, <1>4, <1>5 DEF p, AllLess, NextLess

\* when the head of the queue is next,
LEMMA MergeQueueKeeps ==
  ASSUME array \in Seq(Pairs), InPlaceInv, merge_queue
  PROVE  InPlaceKept(Stable) /\ Len(calls') = Len(calls)
<1>0. InPlace
  BY DEF merge_queue
<1>1. PICK n, s, f, lo, e : n = Len(array) /\ s = Stable /\ f = Top /\ lo = Base(calls, 1) /\ e = array
  OBVIOUS
<1>2. /\ n \in Nat /\ s \in BOOLEAN /\ e \in [1 .. n -> Pairs] /\ f \in Frames
      /\ lo \in Nat /\ 1 <= lo /\ f.end = n + 1
      /\ f.a \in Nat /\ f.q \in Nat /\ f.h \in Nat /\ f.b \in Nat
      /\ Innermost(s, e, lo, f.a, f.q, f.h, f.b, n + 1)
      /\ f.a < f.q /\ f.b <= n + 1
  BY <1>0, <1>1, AtTop
<1> DEFINE a == f.a
           q == f.q
           h == f.h
           b == f.b
           g == [f EXCEPT !.a = a + 1, !.h = NextHead(f)]
<1>3. q < b /\ RunOf(e, f) = 0
  BY <1>1 DEF merge_queue
<1>4. PICK x : x = NextPlace(q, h, b)
  OBVIOUS
<1>5. x \in Nat
  BY <1>2, <1>4 DEF NextPlace
<1>6. PICK d : d = Exchange(e, a, h)
  OBVIOUS
<1>7. EndIteration(d, g, <<>>)
  BY <1>1, <1>6 DEF merge_queue
<1>8. g \in Frames /\ g.a = a + 1 /\ g.q = q /\ g.h = x /\ g.b = b /\ g.end = n + 1
  <2>1. NextHead(f) = x
    BY <1>4 DEF NextHead, NextPlace
  <2>2. a + 1 \in Nat /\ f \in Frames /\ f.end = n + 1
    BY <1>2
  <2> QED BY <1>5, <2>1, <2>2 DEF Frames
<1>9. ~NextLess(e, b, n + 1, e[h])
  <2>1. PICK m : m = RunOf(e, f)
    OBVIOUS
  <2>2. m = 0
    BY <1>3, <2>1
  <2>3. f.a = a /\ f.q = q /\ f.h = h /\ f.b = b /\ a < q /\ b <= n + 1 /\ f.end = n + 1
        /\ a \in Nat /\ q \in Nat /\ h \in Nat /\ b \in Nat
    BY <1>2
  <2> HIDE DEF a, q, h, b
  <2>4. n \in Nat
    BY <1>2
  <2> QED BY <2>1, <2>2, <2>3, <2>4, RunFits
<1>10. a \in Nat /\ q \in Nat /\ h \in Nat /\ b \in Nat /\ a < q /\ Innermost(s, e, lo, a, q, h, b, n + 1)
       /\ a <= a + 1 /\ Top.a = a
  BY <1>1, <1>2
<1> HIDE DEF a, q, h, b, g
<1>11. Innermost(s, d, lo, a + 1, q, x, b, n + 1) /\ Moved(e, d, n, a, n + 1)
  <2>1. n \in Nat /\ s \in BOOLEAN /\ e \in [1 .. n -> Pairs] /\ lo \in Nat /\ 1 <= lo /\ q < b
    BY <1>2, <1>3
  <2> QED BY <1>4, <1>5, <1>6, <1>9, <1>10, <2>1, QueueGives
<1> QED BY <1>0, <1>1, <1>2, <1>7, <1>8, <1>10, <1>11, IterationKeeps

\* A run of b has been swapped into the output, and the ring is whole again.
LEMMA RunGives ==
  ASSUME NEW n \in Nat, NEW s \in BOOLEAN, NEW e \in [1 .. n -> Pairs], NEW lo \in Nat, 1 <= lo,
         NEW a \in Nat, NEW q \in Nat, NEW h \in Nat, NEW b \in Nat,
         Innermost(s, e, lo, a, q, h, b, n + 1), q < b,
         NEW m \in Nat, m > 0, a + m <= q, b + m <= n + 1,
         AllLess(e, b, b + m, e[h]),
         NEW c, c = swap_block(e, a, b, m),
         NEW d, NEW x \in Nat, q <= x, x < b + m,
         Moved(c, d, n, q, b + m), Circular(s, d, q, x, b + m)
  PROVE  Innermost(s, d, lo, a + m, q, x, b + m, n + 1) /\ Moved(e, d, n, a, n + 1)
<1>1. 1 <= lo /\ lo <= a /\ a <= q /\ q <= h /\ h <= b /\ b <= n + 1
  BY DEF Innermost, Pointers
<1>2. /\ Moved(e, c, n, a, n + 1)
      /\ Output(s, c, lo, a + m, q, n + 1) /\ Second(s, c, a + m, b + m, n + 1)
      /\ Before(s, c, q, b + m, a + m, q)
  <2>1. RunTaken(s, e, c, n, lo, a, q, h, b, m)
    BY RunSwapped
  <2> QED BY <2>1 DEF RunTaken
<1>3. c \in [1 .. n -> Pairs]
  BY <1>2 DEF Moved
<1>4. PICK k \in Nat : k = a + m
  OBVIOUS
<1>5. PICK t \in Nat : t = b + m
  OBVIOUS
<1>6. lo <= k /\ k <= q /\ q <= t /\ t <= n + 1 /\ 1 <= k /\ a <= k /\ 1 <= a /\ q <= x /\ x < t
  BY <1>1, <1>4, <1>5
<1>7. /\ Output(s, c, lo, k, q, n + 1) /\ Second(s, c, k, t, n + 1) /\ Before(s, c, q, t, k, q)
      /\ Moved(c, d, n, q, t) /\ Circular(s, d, q, x, t)
  BY <1>2, <1>4, <1>5
<1>8. /\ Output(s, d, lo, k, q, n + 1) /\ Second(s, d, k, t, n + 1) /\ Before(s, d, q, t, k, q)
      /\ Moved(c, d, n, k, n + 1)
  BY <1>3, <1>6, <1>7, QueueMoves
<1>9. Moved(e, d, n, a, n + 1)
  <2>1. n + 1 \in Nat /\ n + 1 <= n + 1
    OBVIOUS
  <2> QED BY <1>2, <1>6, <1>8, <2>1, MovedTwice
<1>10. Pointers(lo, k, q, x, t, n + 1)
  BY <1>6 DEF Pointers
<1>11. Ring(s, d, k, q, x, t)
  BY <1>7, <1>8 DEF Ring, Circular
<1>12. Innermost(s, d, lo, k, q, x, t, n + 1)
  BY <1>8, <1>10, <1>11 DEF Innermost
<1> QED BY <1>4, <1>5, <1>9, <1>12

\* The ring after a run of m pairs, in each of the three ways that it is made whole.
MadeWhole(c, d, x, q, h, b, m) ==
  \/ d = rotate(c, q, h, b) /\ x = q
  \/ d = rotate(c, h, b, b + m) /\ x = h + m
  \/ q + m <= h /\ d = rotate(swap_block(c, q, b, m), q, q + m, h) /\ x = h

\* In each of the three ways, the ring is in order from its new head on.
LEMMA RingIsWhole ==
  ASSUME NEW n \in Nat, NEW s \in BOOLEAN, NEW c \in [1 .. n -> Pairs],
         NEW q \in Nat, NEW h \in Nat, NEW b \in Nat, NEW m \in Nat, m > 0,
         1 <= q, q <= h, h < b, b + m <= n + 1, Circular(s, c, q, h, b),
         Sorted(s, c, b, b + m), Before(s, c, q, b, b, b + m),
         NEW d, NEW x,
         MadeWhole(c, d, x, q, h, b, m)
  PROVE  x \in Nat /\ q <= x /\ x < b + m /\ Moved(c, d, n, q, b + m) /\ Circular(s, d, q, x, b + m)
<1>1. PICK t \in Nat : t = b + m
  OBVIOUS
<1>2. b <= t /\ t <= n + 1 /\ h <= b /\ Sorted(s, c, b, t) /\ Before(s, c, q, b, b, t)
  BY <1>1
<1>3. CASE d = rotate(c, q, h, b) /\ x = q
  <2>1. Moved(c, d, n, q, t) /\ Circular(s, d, q, q, t)
    BY <1>2, <1>3, QueueTakesAll
  <2> QED BY <1>1, <1>3, <2>1
<1>4. CASE d = rotate(c, h, b, b + m) /\ x = h + m
  <2>1. x \in Nat /\ x = h + (t - b) /\ d = rotate(c, h, b, t)
    BY <1>1, <1>4
  <2>2. Moved(c, d, n, q, t) /\ Circular(s, d, q, x, t)
    BY <1>2, <2>1, QueueTurnsRight
  <2> QED BY <1>1, <1>4, <2>2
<1>5. CASE q + m <= h /\ d = rotate(swap_block(c, q, b, m), q, q + m, h) /\ x = h
  <2>1. PICK u : u = swap_block(c, q, b, m)
    OBVIOUS
  <2>2. d = rotate(u, q, q + m, h) /\ q + m <= h
    BY <1>5, <2>1
  <2>3. Moved(c, d, n, q, t) /\ Circular(s, d, q, h, t)
    BY <1>1, <1>2, <2>1, <2>2, QueueTurnsLeft
  <2> QED BY <1>1, <1>5, <2>3
<1> QED BY <1>3, <1>4, <1>5 DEF MadeWhole

\* Queued() is one of the three.
LEMMA QueuedMakesWhole ==
  ASSUME NEW f, NEW a \in Nat, NEW q \in Nat, NEW h \in Nat, NEW b \in Nat, q <= h, h < b,
         f.a = a, f.q = q, f.h = h, f.b = b, NEW m \in Nat,
         NEW c, c = swap_block(array, a, b, m),
         NEW d, d = Queued(f, m).e, NEW x, x = Queued(f, m).h
  PROVE  MadeWhole(c, d, x, q, h, b, m)
<1> DEFINE left == h - q
           right == b - h
<1>1. CASE m >= Shorter(left, right)
  BY <1>1 DEF Queued, MadeWhole
<1>2. CASE ~(m >= Shorter(left, right)) /\ right < left
  BY <1>2 DEF Queued, MadeWhole
<1>3. CASE ~(m >= Shorter(left, right)) /\ ~(right < left)
  <2>1. d = rotate(swap_block(c, q, b, m), q, q + m, h) /\ x = h
    BY <1>3 DEF Queued
  <2>2. q + m <= h
    BY <1>3 DEF Shorter
  <2> QED BY <2>1, <2>2 DEF MadeWhole
<1> QED BY <1>1, <1>2, <1>3

\* A run of b is swapped into the output, and the ring is made whole.
LEMMA RunIsQueued ==
  ASSUME NEW n \in Nat, NEW s \in BOOLEAN, NEW e \in [1 .. n -> Pairs], NEW lo \in Nat, 1 <= lo,
         NEW a \in Nat, NEW q \in Nat, NEW h \in Nat, NEW b \in Nat,
         Innermost(s, e, lo, a, q, h, b, n + 1), q < b,
         NEW m \in Nat, m > 0, a + m <= q, b + m <= n + 1, AllLess(e, b, b + m, e[h]),
         NEW c, c = swap_block(e, a, b, m), NEW d, NEW x, MadeWhole(c, d, x, q, h, b, m)
  PROVE  /\ x \in Nat /\ Moved(e, d, n, a, n + 1)
         /\ Innermost(s, d, lo, a + m, q, x, b + m, n + 1)
<1>0. RunTaken(s, e, c, n, lo, a, q, h, b, m)
  BY RunSwapped
<1>1. 1 <= q /\ q <= h /\ h < b
  BY DEF Innermost, Pointers
<1>2. /\ Moved(e, c, n, a, n + 1)
      /\ Sorted(s, c, h, b) /\ Sorted(s, c, q, h) /\ Before(s, c, h, b, q, h)
      /\ Sorted(s, c, b, b + m) /\ Before(s, c, q, b, b, b + m)
  BY <1>0 DEF RunTaken
<1>3. c \in [1 .. n -> Pairs] /\ Circular(s, c, q, h, b)
  BY <1>2 DEF Moved, Circular
<1>4. x \in Nat /\ q <= x /\ x < b + m /\ Moved(c, d, n, q, b + m) /\ Circular(s, d, q, x, b + m)
  BY <1>1, <1>2, <1>3, RingIsWhole
<1>5. Innermost(s, d, lo, a + m, q, x, b + m, n + 1) /\ Moved(e, d, n, a, n + 1)
  BY <1>4, RunGives
<1> QED BY <1>4, <1>5

\* Where the order does not matter for pairs with the same key, it is enough that
\* the function would be stable.
LEMMA SortedWeakly ==
  ASSUME NEW n \in Nat, NEW s \in BOOLEAN, NEW w \in BOOLEAN, ~w, NEW e \in [1 .. n -> Pairs],
         NEW lo \in Nat, NEW hi \in Nat, 1 <= lo, hi <= n + 1, Sorted(s, e, lo, hi)
  PROVE  Sorted(w, e, lo, hi)
<1>1. ASSUME NEW i \in lo .. hi - 1, NEW j \in lo .. hi - 1, i < j
      PROVE  Ordered(w, e[i], e[j])
  <2>1. Ordered(s, e[i], e[j])
    BY <1>1 DEF Sorted
  <2>2. i \in 1 .. n /\ j \in 1 .. n
    OBVIOUS
  <2> QED BY <2>1, <2>2, OrderedWeakly
<1> QED BY <1>1 DEF Sorted

\* The same for parts that come one before the other.
LEMMA BeforeWeakly ==
  ASSUME NEW n \in Nat, NEW s \in BOOLEAN, NEW w \in BOOLEAN, ~w, NEW e \in [1 .. n -> Pairs],
         NEW lo \in Nat, NEW hi \in Nat, NEW from \in Nat, NEW to \in Nat,
         1 <= lo, hi <= n + 1, 1 <= from, to <= n + 1, Before(s, e, lo, hi, from, to)
  PROVE  Before(w, e, lo, hi, from, to)
<1>1. ASSUME NEW i \in lo .. hi - 1, NEW j \in from .. to - 1
      PROVE  Ordered(w, e[i], e[j])
  <2>1. Ordered(s, e[i], e[j])
    BY <1>1 DEF Before
  <2>2. i \in 1 .. n /\ j \in 1 .. n
    OBVIOUS
  <2> QED BY <2>1, <2>2, OrderedWeakly
<1> QED BY <1>1 DEF Before

\* To turn nothing changes nothing.
LEMMA NothingTurned ==
  ASSUME NEW n \in Nat, NEW e \in [1 .. n -> Pairs], NEW q \in Nat
  PROVE  rotate(e, q, q, q) = e
<1>1. rotate(e, q, q, q) = [i \in 1 .. n |-> e[i]]
  BY DEF rotate
<1> QED BY <1>1

\* The queue is brought in order and is to be merged with b.
LEMMA QueueIsRun ==
  ASSUME NEW n \in Nat, NEW s \in BOOLEAN, NEW w \in BOOLEAN, ~w, NEW d \in [1 .. n -> Pairs],
         NEW lo \in Nat, 1 <= lo,
         NEW k \in Nat, NEW q \in Nat, NEW x \in Nat, NEW t \in Nat,
         Innermost(s, d, lo, k, q, x, t, n + 1), NEW u, u = rotate(d, q, x, t)
  PROVE  /\ Moved(d, u, n, k, n + 1) /\ Output(w, u, lo, k, q, n + 1)
         /\ Innermost(w, u, q, q, t, t, t, n + 1)
<1>1. lo <= k /\ k <= q /\ q <= x /\ x <= t /\ t <= n + 1 /\ 1 <= q /\ q <= t /\ 1 <= k /\ k <= n + 1
      /\ q <= n + 1 /\ n + 1 <= n + 1 /\ 1 <= t /\ n + 1 \in Nat
  BY DEF Innermost, Pointers
<1>2. /\ Output(s, d, lo, k, q, n + 1) /\ Second(s, d, k, t, n + 1)
      /\ Before(s, d, q, t, k, q) /\ Circular(s, d, q, x, t)
  BY DEF Innermost, Ring, Circular
<1>3. Moved(d, u, n, q, t) /\ Sorted(s, u, q, t)
  BY <1>1, <1>2, QueueUnrolls
<1>4. /\ Output(s, u, lo, k, q, n + 1) /\ Second(s, u, k, t, n + 1) /\ Moved(d, u, n, k, n + 1)
  BY <1>1, <1>2, <1>3, QueueMoves
<1>5. u \in [1 .. n -> Pairs]
  BY <1>3 DEF Moved
<1>6. /\ Sorted(s, u, lo, k) /\ Before(s, u, lo, k, k, n + 1) /\ Sorted(s, u, k, q)
      /\ Sorted(s, u, t, n + 1)
  BY <1>4 DEF Output, Second
<1>7. Output(w, u, lo, k, q, n + 1)
  <2>1. Sorted(w, u, lo, k)
    BY <1>1, <1>5, <1>6, SortedWeakly
  <2>2. Sorted(w, u, k, q)
    BY <1>1, <1>5, <1>6, SortedWeakly
  <2>3. Before(w, u, lo, k, k, n + 1)
    BY <1>1, <1>5, <1>6, BeforeWeakly
  <2> QED BY <2>1, <2>2, <2>3 DEF Output
<1>8. Innermost(w, u, q, q, t, t, t, n + 1)
  <2>1. Pointers(q, q, t, t, t, n + 1)
    BY <1>1 DEF Pointers
  <2>2. Sorted(w, u, q, t)
    BY <1>1, <1>3, <1>5, SortedWeakly
  <2>3. Sorted(w, u, t, n + 1)
    BY <1>1, <1>5, <1>6, SortedWeakly
  <2>4. Output(w, u, q, q, t, n + 1)
    BY <2>2, SortedAlone, NothingBefore DEF Output
  <2>5. Ring(w, u, q, t, t, t)
    BY SortedAlone, NothingBefore DEF Ring
  <2>6. Sides(w, u, q, t, t, n + 1)
    <3>1. ASSUME NEW i \in q .. t - 1, NEW j \in t .. (n + 1) - 1, ~Less(u[j], u[i])
          PROVE  Ordered(w, u[i], u[j])
      <4>1. i \in 1 .. n /\ j \in 1 .. n
        BY <1>1
      <4>2. u[i] \in Pairs /\ u[j] \in Pairs
        BY <1>5, <4>1
      <4> QED BY <3>1, <4>2, NotLessIsOrdered
    <3> QED BY <3>1 DEF Sides
  <2> QED BY <2>1, <2>3, <2>4, <2>5, <2>6 DEF Innermost, Second
<1> QED BY <1>4, <1>7, <1>8

\* There is no queue then that a could run into.
LEMMA SettledAlready ==
  ASSUME NEW n \in Nat, NEW u \in [1 .. n -> Pairs], NEW f \in Frames,
         f.q = f.b, f.h = f.b, f.a <= f.b, NEW r, r = Settled(u, f)
  PROVE  r.e = u /\ r.f \in Frames /\ r.f.a = f.a /\ r.f.q = f.b /\ r.f.h = f.b /\ r.f.b = f.b
         /\ r.f.end = f.end
<1>1. f.a \in Nat /\ f.b \in Nat /\ f.q \in Nat
  BY DEF Frames
<1>2. CASE f.a >= f.q
  <2>1. r.e = rotate(u, f.b, f.b, f.b) /\ r.f = [f EXCEPT !.a = f.q, !.q = f.b, !.h = f.b]
    BY <1>2 DEF Settled
  <2>2. f.a = f.q
    BY <1>1, <1>2
  <2>3. r.e = u
    BY <1>1, <2>1, NothingTurned
  <2> QED BY <1>1, <2>1, <2>2, <2>3 DEF Frames
<1>3. CASE ~(f.a >= f.q)
  BY <1>3 DEF Settled
<1> QED BY <1>2, <1>3

\* The call that merges the queue is made.
LEMMA CallKeeps ==
  ASSUME array \in Seq(Pairs), InPlaceInv, InPlace,
         NEW w \in BOOLEAN, ~w, NEW n \in Nat, n = Len(array), NEW lo, lo = Base(calls, 1),
         NEW u, Moved(array, u, n, Top.a, n + 1),
         NEW g \in Frames, g.end = n + 1, Pending(w, u, lo, g),
         NEW f \in Frames, f.end = n + 1, Current(w, u, g.b, f),
         array' = u, calls' = TopsAre(calls, f, g)
  PROVE  InPlaceKept(w) /\ Len(calls') > Len(calls)
<1>1. PICK s : s = Stable
  OBVIOUS
<1>2. PICK p : p = Top
  OBVIOUS
<1>3. /\ s \in BOOLEAN /\ array \in [1 .. n -> Pairs]
      /\ calls \in Seq(Frames) /\ calls # <<>> /\ p = calls[1] /\ p \in Frames
      /\ Stacked(s, array, calls, n) /\ Len(calls) \in Nat /\ 1 <= lo /\ lo <= p.a
      /\ p.a \in Nat /\ lo \in Nat
  BY <1>1, <1>2, AtTop
<1>4. PICK x : x = TopsAre(calls, f, g)
  OBVIOUS
<1>5. Moved(array, u, n, calls[1].a, n + 1) /\ u \in [1 .. n -> Pairs]
  BY <1>2, <1>3 DEF Moved
<1>6. x \in Seq(Frames) /\ Stacked(w, u, x, n)
  BY <1>3, <1>4, <1>5, Pushed
<1>7. Len(x) = Len(calls) + 1
  BY <1>3, <1>4, TwoOnTop DEF OnePushed
<1>8. Moved(array, u, n, 1, n + 1)
  <2>1. Moved(array, u, n, p.a, n + 1) /\ 1 <= p.a /\ 1 <= 1 /\ n + 1 <= n + 1 /\ n + 1 \in Nat
    BY <1>2, <1>3
  <2> QED BY <1>3, <2>1, MovedWithin
<1> QED BY <1>3, <1>4, <1>6, <1>7, <1>8 DEF InPlaceKept

\* when a run of b is next,
LEMMA MergeRunKeeps ==
  ASSUME array \in Seq(Pairs), InPlaceInv, merge_run
  PROVE  \/ InPlaceKept(Stable) /\ Len(calls') = Len(calls)
         \/ Len(calls') > Len(calls) /\ \A w \in BOOLEAN : ~w => InPlaceKept(w)
<1>0. InPlace
  BY DEF merge_run
<1>1. PICK n, s, f, lo, e : n = Len(array) /\ s = Stable /\ f = Top /\ lo = Base(calls, 1) /\ e = array
  OBVIOUS
<1>2. /\ n \in Nat /\ s \in BOOLEAN /\ e \in [1 .. n -> Pairs] /\ f \in Frames
      /\ lo \in Nat /\ 1 <= lo /\ f.end = n + 1
      /\ f.a \in Nat /\ f.q \in Nat /\ f.h \in Nat /\ f.b \in Nat
      /\ Innermost(s, e, lo, f.a, f.q, f.h, f.b, n + 1)
      /\ f.a < f.q /\ f.b <= n + 1 /\ f.q <= f.h /\ f.h <= f.b /\ lo <= f.a
  BY <1>0, <1>1, AtTop
<1>3. PICK m, r : m = RunOf(array, f) /\ r = Queued(f, m)
  OBVIOUS
<1> DEFINE a == f.a
           q == f.q
           h == f.h
           b == f.b
           g == [f EXCEPT !.a = f.a + m, !.b = f.b + m, !.h = r.h]
<1>4. /\ q < b /\ m > 0
      /\ IF TooManySwaps(r.swaps, g.b - g.q)
         THEN EndIteration(rotate(r.e, g.q, g.h, g.b), [g EXCEPT !.b = g.q, !.h = g.q],
                           <<MergeCall(g.q, g.b, g.end)>>)
         ELSE EndIteration(r.e, g, <<>>)
  BY <1>1, <1>3 DEF merge_run
<1>5. /\ a \in Nat /\ q \in Nat /\ h \in Nat /\ b \in Nat /\ f.a = a /\ f.q = q /\ f.h = h /\ f.b = b
      /\ a < q /\ b <= n + 1 /\ n \in Nat /\ f.end = n + 1 /\ m = RunOf(e, f)
      /\ Innermost(s, e, lo, a, q, h, b, n + 1) /\ q <= h /\ Top.a = a /\ lo <= a
  BY <1>1, <1>2, <1>3
<1>6. h < b
  BY <1>4, <1>5 DEF Innermost, Pointers
<1> HIDE DEF a, q, h, b
<1>7. m \in Nat /\ a + m <= q /\ b + m <= n + 1 /\ AllLess(e, b, b + m, e[h])
  <2> HIDE <1>4
  <2> QED BY <1>5, RunFits
<1>8. PICK c : c = swap_block(e, a, b, m)
  OBVIOUS
<1>9. PICK d, x : d = r.e /\ x = r.h
  OBVIOUS
<1>10. MadeWhole(c, d, x, q, h, b, m)
  <2>1. d = Queued(f, m).e /\ x = Queued(f, m).h /\ c = swap_block(array, a, b, m)
    BY <1>1, <1>3, <1>8, <1>9
  <2> HIDE <1>1, <1>2, <1>3, <1>4
  <2> QED BY <1>5, <1>6, <1>7, <2>1, QueuedMakesWhole
<1>11. x \in Nat /\ Moved(e, d, n, a, n + 1) /\ Innermost(s, d, lo, a + m, q, x, b + m, n + 1)
  <2>1. s \in BOOLEAN /\ e \in [1 .. n -> Pairs] /\ lo \in Nat /\ 1 <= lo /\ q < b /\ m > 0
    BY <1>2, <1>4
  <2>2. /\ a \in Nat /\ q \in Nat /\ h \in Nat /\ b \in Nat /\ n \in Nat
        /\ Innermost(s, e, lo, a, q, h, b, n + 1)
    BY <1>5
  <2> QED BY <1>7, <1>8, <1>10, <2>1, <2>2, RunIsQueued
<1>12. PICK k, t : k = a + m /\ t = b + m
  OBVIOUS
<1>13. /\ k \in Nat /\ t \in Nat /\ a <= k /\ k <= q /\ q <= t /\ t <= n + 1 /\ 1 <= a /\ 1 <= q
       /\ Innermost(s, d, lo, k, q, x, t, n + 1)
  BY <1>2, <1>4, <1>5, <1>6, <1>7, <1>11, <1>12
<1>14. /\ g \in Frames /\ g.a = k /\ g.q = q /\ g.h = x /\ g.b = t /\ g.end = n + 1
  <2>1. f \in Frames /\ f.a + m = k /\ f.b + m = t /\ r.h = x /\ f.q = q /\ f.end = n + 1
    BY <1>2, <1>5, <1>9, <1>12
  <2>2. g = [f EXCEPT !.a = k, !.b = t, !.h = x]
    BY <2>1
  <2> HIDE DEF g
  <2> QED BY <1>11, <1>13, <2>1, <2>2 DEF Frames
<1> HIDE DEF g
<1>15. CASE ~TooManySwaps(r.swaps, g.b - g.q)
  <2>1. EndIteration(d, g, <<>>)
    BY <1>4, <1>9, <1>15
  <2>2. /\ n = Len(array) /\ lo = Base(calls, 1) /\ Moved(array, d, n, Top.a, n + 1)
        /\ Top.a <= g.a /\ Innermost(Stable, d, lo, g.a, g.q, g.h, g.b, n + 1)
    BY <1>1, <1>5, <1>11, <1>13, <1>14
  <2> QED BY <1>0, <1>5, <1>14, <2>1, <2>2, IterationKeeps
<1>16. CASE TooManySwaps(r.swaps, g.b - g.q)
  <2>1. PICK u : u = rotate(d, q, x, t)
    OBVIOUS
  <2> DEFINE i == MergeCall(g.q, g.b, g.end)
             g2 == [g EXCEPT !.b = g.q, !.h = g.q]
  <2>2. EndIteration(u, g2, <<i>>)
    BY <1>4, <1>9, <1>14, <1>16, <2>1
  <2>3. i \in Frames /\ i.a = q /\ i.q = t /\ i.h = t /\ i.b = t /\ i.end = n + 1
    BY <1>5, <1>13, <1>14 DEF Frames, MergeCall
  <2>4. g2 \in Frames /\ g2.a = k /\ g2.q = q /\ g2.h = q /\ g2.b = q /\ g2.end = n + 1
    BY <1>5, <1>14 DEF Frames
  <2> HIDE DEF i, g2
  <2>5. PICK z, y : z = Settled(u, g2).e /\ y = Settled(u, g2).f
    OBVIOUS
  <2>6. d \in [1 .. n -> Pairs]
    BY <1>11 DEF Moved
  <2>7. ASSUME NEW w \in BOOLEAN, ~w
        PROVE  /\ Moved(d, u, n, k, n + 1) /\ Output(w, u, lo, k, q, n + 1)
               /\ Innermost(w, u, q, q, t, t, t, n + 1)
    <3>1. /\ s \in BOOLEAN /\ lo \in Nat /\ 1 <= lo /\ n \in Nat
          /\ k \in Nat /\ q \in Nat /\ x \in Nat /\ t \in Nat
          /\ Innermost(s, d, lo, k, q, x, t, n + 1)
      BY <1>2, <1>5, <1>11, <1>13
    <3>2. Moved(d, u, n, k, n + 1) /\ Output(w, u, lo, k, q, n + 1)
      BY <2>1, <2>6, <2>7, <3>1, QueueIsRun
    <3>3. Innermost(w, u, q, q, t, t, t, n + 1)
      BY <2>1, <2>6, <2>7, <3>1, QueueIsRun
    <3> QED BY <3>2, <3>3
  <2>8. Moved(d, u, n, k, n + 1)
    <3>1. PICK w \in BOOLEAN : ~w
      OBVIOUS
    <3> QED BY <2>7, <3>1
  <2>9. u \in [1 .. n -> Pairs]
    BY <2>8 DEF Moved
  <2>10. z = u /\ y \in Frames /\ y.a = k /\ y.q = q /\ y.h = q /\ y.b = q /\ y.end = n + 1
    <3>1. g2.q = g2.b /\ g2.h = g2.b /\ g2.a <= g2.b
      BY <1>13, <2>4
    <3>2. /\ z = u /\ y \in Frames /\ y.a = g2.a /\ y.q = g2.b /\ y.h = g2.b /\ y.b = g2.b
          /\ y.end = g2.end
      BY <1>5, <2>4, <2>5, <2>9, <3>1, SettledAlready
    <3> QED BY <2>4, <3>2
  <2>11. array' = u /\ calls' = TopsAre(calls, i, y)
    BY <2>2, <2>5, <2>10 DEF EndIteration, TopsAre
  <2>12. Moved(array, u, n, Top.a, n + 1)
    <3>1. Moved(e, u, n, a, n + 1)
      <4>1. n + 1 \in Nat /\ n + 1 <= n + 1 /\ 1 <= a
        BY <1>5, <1>13
      <4> QED BY <1>5, <1>11, <1>13, <2>8, <4>1, MovedTwice
    <3> QED BY <1>1, <1>5, <3>1
  <2>13. ASSUME NEW w \in BOOLEAN, ~w
         PROVE  InPlaceKept(w) /\ Len(calls') > Len(calls)
    <3>1. Pending(w, u, lo, y)
      BY <1>2, <1>5, <1>13, <2>7, <2>10, <2>13 DEF Pending
    <3>2. Current(w, u, y.b, i)
      BY <2>3, <2>7, <2>10, <2>13 DEF Current
    <3>3. n \in Nat /\ n = Len(array) /\ lo = Base(calls, 1)
      BY <1>1, <1>5
    <3> QED BY <1>0, <2>3, <2>10, <2>11, <2>12, <2>13, <3>1, <3>2, <3>3, CallKeeps
  <2>14. Len(calls') > Len(calls)
    <3>1. PICK w \in BOOLEAN : ~w
      OBVIOUS
    <3> QED BY <2>13, <3>1
  <2> QED BY <2>13, <2>14
<1> QED BY <1>15, <1>16

\* and when a call returns.
LEMMA MergeReturnKeeps ==
  ASSUME array \in Seq(Pairs), InPlaceInv, merge_return
  PROVE  InPlaceKept(Stable) /\ Len(calls') <= Len(calls)
<1>1. PICK n, s : n = Len(array) /\ s = Stable
  OBVIOUS
<1>2. n \in Nat /\ array \in [1 .. n -> Pairs] /\ s \in BOOLEAN
  BY <1>1 DEF Stable
<1>3. calls \in Seq(Frames) /\ calls # <<>> /\ Stacked(s, array, calls, n) /\ calls[1].a >= calls[1].b
  BY <1>1 DEF InPlaceInv, merge_return, Top
<1>4. calls' = Tail(calls) /\ array' = array
  BY DEF merge_return
<1>5. PICK c : c = calls
  OBVIOUS
<1>6. Tail(c) \in Seq(Frames) /\ Stacked(s, array, Tail(c), n)
  <2>1. c \in Seq(Frames) /\ c # <<>> /\ Stacked(s, array, c, n) /\ c[1].a >= c[1].b
    BY <1>3, <1>5
  <2> QED BY <1>2, <2>1, Popped
<1>7. Len(Tail(c)) <= Len(c)
  BY <1>3, <1>5
<1>8. Moved(array, array, n, 1, n + 1)
  BY <1>2, NothingMoved
<1> QED BY <1>1, <1>4, <1>5, <1>6, <1>7, <1>8 DEF InPlaceKept

\* What an action has kept, the state after it has.
LEMMA KeptIsInvariant ==
  ASSUME MergeInv, how # "buffer", how' \in {"merge", "rebalanced"}, UNCHANGED <<unmerged, cut>>,
         NEW w \in BOOLEAN, w = (how' = "merge"), InPlaceKept(w)
  PROVE  MergeInv'
<1>1. PICK n : n = Len(array)
  OBVIOUS
<1>2. array \in Seq(Pairs) /\ unmerged \in Seq(Pairs) /\ n = Len(unmerged) /\ cut \in Nat /\ InPlaceInv
  BY <1>1 DEF MergeInv
<1>3. n \in Nat /\ array \in [1 .. n -> Pairs]
  <2>1. array \in Seq(Pairs)
    BY <1>2
  <2> QED BY <1>1, <2>1
<1>4. Moved(array, array', n, 1, n + 1) /\ calls' \in Seq(Frames) /\ Stacked(w, array', calls', n)
  BY <1>1 DEF InPlaceKept
<1>5. array' \in [1 .. n -> Pairs]
  BY <1>4 DEF Moved
<1>6. array' \in Seq(Pairs) /\ Len(array') = n
  BY <1>3, <1>5
<1>7. SamePairs(array', unmerged)
  <2>1. SamePairs(array, unmerged)
    BY <1>2 DEF InPlaceInv
  <2>2. 1 <= 1 /\ n + 1 <= n + 1 /\ n + 1 \in Nat /\ 1 \in Nat
    BY <1>3
  <2> QED BY <1>3, <1>4, <2>1, <2>2, MovedKeepsPairs
<1>8. Stable' = w
  BY DEF Stable
<1>9. InPlaceInv'
  BY <1>4, <1>6, <1>7, <1>8 DEF InPlaceInv
<1> QED BY <1>2, <1>6, <1>9 DEF MergeInv

\* A step of merge() keeps the invariant.
LEMMA InPlaceStays ==
  ASSUME MergeInv, how # "buffer", MergeNext
  PROVE  MergeInv'
<1>1. /\ array \in Seq(Pairs) /\ InPlaceInv /\ UNCHANGED <<unmerged, cut>>
      /\ how' = IF Len(calls') > Len(calls) THEN "rebalanced" ELSE how
      /\ how \in {"merge", "rebalanced"}
  BY DEF MergeInv, MergeNext, Calling
<1>2. calls \in Seq(Frames)
  BY <1>1 DEF InPlaceInv
<1>3. ~(calls # <<>> /\ Top.kind = "buffer")
  <2> SUFFICES ASSUME calls # <<>>
               PROVE  Top.kind # "buffer"
    OBVIOUS
  <2>1. Top \in Frames
    BY <1>2 DEF Top
  <2> QED BY <2>1 DEF Frames
<1>4. CASE Len(calls') <= Len(calls) /\ InPlaceKept(Stable) /\ Len(calls') \in Nat
  <2>1. PICK w : w = Stable
    OBVIOUS
  <2>2. w \in BOOLEAN /\ w = (how = "merge")
    BY <2>1 DEF Stable
  <2>3. how' = how
    BY <1>1, <1>2, <1>4
  <2> QED BY <1>1, <1>4, <2>1, <2>2, <2>3, KeptIsInvariant
<1>5. CASE Len(calls') > Len(calls) /\ \A w \in BOOLEAN : ~w => InPlaceKept(w)
  <2>1. PICK w \in BOOLEAN : ~w
    OBVIOUS
  <2>2. how' = "rebalanced"
    BY <1>1, <1>5
  <2>3. w = (how' = "merge")
    BY <2>1, <2>2
  <2> QED BY <1>1, <1>5, <2>1, <2>2, <2>3, KeptIsInvariant
<1>6. ASSUME InPlaceKept(Stable)
      PROVE  Len(calls') \in Nat
  BY <1>6 DEF InPlaceKept
<1>7. CASE merge_run
  BY <1>1, <1>4, <1>5, <1>6, <1>7, MergeRunKeeps
<1>8. CASE merge_queue
  BY <1>1, <1>4, <1>6, <1>8, MergeQueueKeeps
<1>9. CASE merge_plain
  BY <1>1, <1>4, <1>6, <1>9, MergePlainKeeps
<1>10. CASE merge_return
  BY <1>1, <1>4, <1>6, <1>10, MergeReturnKeeps
<1>11. CASE Returned
  <2>1. calls' = calls /\ array' = array
    BY <1>11 DEF Returned
  <2>2. InPlaceKept(Stable)
    <3>1. PICK n : n = Len(array)
      OBVIOUS
    <3>2. n \in Nat /\ array \in [1 .. n -> Pairs]
      BY <1>1, <3>1
    <3>3. Moved(array, array, n, 1, n + 1)
      BY <3>2, NothingMoved
    <3> QED BY <1>1, <2>1, <3>1, <3>3 DEF InPlaceKept, InPlaceInv
  <2>3. Len(calls') <= Len(calls)
    BY <1>2, <2>1
  <2> QED BY <1>4, <1>6, <2>2, <2>3
<1> QED BY <1>3, <1>7, <1>8, <1>9, <1>10, <1>11
        DEF MergeNext, Step, buffer_both, buffer_second, buffer_flush, buffer_return, WithBuffer

-----------------------------------------------------------------------------
(* The buffer.                                                             *)

\* A place of the ring is a place of the buffer.
LEMMA AlongIsPlace ==
  ASSUME NEW z \in Nat, NEW t \in 1 .. z, NEW j \in 0 .. z
  PROVE  Along(t, j, z) \in 1 .. z /\ Along(t, 0, z) = t
  BY DEF Along

\* Places of the ring that are different are different ones of the buffer.
LEMMA AlongDiffers ==
  ASSUME NEW z \in Nat, NEW t \in 1 .. z, NEW j \in 0 .. z - 1, NEW k \in 0 .. z - 1, j # k
  PROVE  Along(t, j, z) # Along(t, k, z)
  BY DEF Along

\* The place after k.
Following(k, z) == IF k < z THEN k + 1 ELSE 1

\* The next place of the ring is the next one of the buffer.
LEMMA AlongFollows ==
  ASSUME NEW z \in Nat, NEW t \in 1 .. z, NEW j \in 0 .. z - 1
  PROVE  /\ Along(Following(t, z), j, z) = Along(t, j + 1, z)
         /\ Following(Along(t, j, z), z) = Along(t, j + 1, z)
         /\ Following(t, z) \in 1 .. z
  BY DEF Along, Following

\* An array, a buffer, and what they are together.
Together(v, e, n, buf, z, t, h, q, b) ==
  /\ n \in Nat /\ e \in [1 .. n -> Pairs] /\ z \in Nat /\ buf \in [1 .. z -> Pairs]
  /\ t \in 1 .. z /\ q \in Nat /\ b \in Nat /\ 1 <= q /\ q <= b /\ b <= n + 1 /\ b - q < z
  /\ h = Along(t, b - q, z) /\ v = Whole(e, buf, t, z, q, b)

\* What an array is at its places.
Has(v, e, n, buf, z, t, q, b) ==
  /\ v \in [1 .. n -> Pairs]
  /\ \A i \in 1 .. n : i < q \/ i >= b => v[i] = e[i]
  /\ \A i \in q .. b - 1 : v[i] = buf[Along(t, i - q, z)]

\* What the array and the buffer are together at each place,
LEMMA WholeIsArray ==
  ASSUME NEW v, NEW e, NEW n, NEW buf, NEW z, NEW t, NEW h, NEW q, NEW b,
         Together(v, e, n, buf, z, t, h, q, b)
  PROVE  Has(v, e, n, buf, z, t, q, b)
<1> USE DEF Together
<1>1. ASSUME NEW i \in q .. b - 1
      PROVE  i \in 1 .. n /\ v[i] = buf[Along(t, i - q, z)] /\ v[i] \in Pairs
  <2>1. i \in 1 .. n /\ i - q \in 0 .. z
    OBVIOUS
  <2>2. v[i] = buf[Along(t, i - q, z)]
    BY <2>1 DEF Whole
  <2>3. Along(t, i - q, z) \in 1 .. z
    BY <2>1, AlongIsPlace
  <2> QED BY <2>1, <2>2, <2>3
<1>2. ASSUME NEW i \in 1 .. n, i < q \/ i >= b
      PROVE  v[i] = e[i]
  BY <1>2 DEF Whole
<1>3. v = [i \in 1 .. n |-> v[i]]
  BY DEF Whole
<1>4. ASSUME NEW i \in 1 .. n
      PROVE  v[i] \in Pairs
  <2>1. CASE i \in q .. b - 1
    BY <1>1, <2>1
  <2>2. CASE ~(i \in q .. b - 1)
    <3>1. v[i] = e[i]
      BY <1>2, <2>2
    <3> QED BY <3>1
  <2> QED BY <2>1, <2>2
<1>5. v \in [1 .. n -> Pairs]
  BY <1>3, <1>4
<1> QED BY <1>1, <1>2, <1>5 DEF Has

\* and an array with that at its places is what they are together.
LEMMA ArrayIsWhole ==
  ASSUME NEW v, NEW e, NEW n \in Nat, NEW buf, NEW z, NEW t, NEW q, NEW b,
         e \in [1 .. n -> Pairs], Has(v, e, n, buf, z, t, q, b), q \in Nat, b \in Nat, 1 <= q, b <= n + 1
  PROVE  v = Whole(e, buf, t, z, q, b)
<1>1. v = [i \in 1 .. n |-> v[i]]
  BY DEF Has
<1>2. ASSUME NEW i \in 1 .. n
      PROVE  v[i] = IF i \in q .. b - 1 THEN buf[Along(t, i - q, z)] ELSE e[i]
  <2>1. CASE i \in q .. b - 1
    BY <2>1 DEF Has
  <2>2. CASE ~(i \in q .. b - 1)
    <3>1. i < q \/ i >= b
      BY <2>2
    <3> QED BY <2>2, <3>1 DEF Has
  <2> QED BY <2>1, <2>2
<1>3. DOMAIN e = 1 .. n
  OBVIOUS
<1> QED BY <1>1, <1>2, <1>3 DEF Whole

\* Two places exchanged.
Swapped(w, v, n, a, b) ==
  /\ w \in [1 .. n -> Pairs] /\ w[a] = v[b] /\ w[b] = v[a]
  /\ \A i \in 1 .. n : i # a /\ i # b => w[i] = v[i]

\* What Exchange() makes of the two places, and of the rest.
LEMMA ExchangeIsSwap ==
  ASSUME NEW n \in Nat, NEW v \in [1 .. n -> Pairs], NEW a \in 1 .. n, NEW b \in 1 .. n,
         NEW w, w = Exchange(v, a, b)
  PROVE  Swapped(w, v, n, a, b)
  BY DEF Exchange, Swapped

\* The buffer is empty when its ends meet.
LEMMA EmptyIsMeeting ==
  ASSUME NEW z \in Nat, NEW t \in 1 .. z, NEW c \in 0 .. z - 1
  PROVE  Along(t, c, z) = t <=> c = 0
  BY DEF Along


\* The function d is e with p at a.
With(d, e, a, p) == d = [e EXCEPT ![a] = p]

\* A pair of a goes into the buffer and one of b in its place.
LEMMA WholePushed ==
  ASSUME NEW v, NEW e, NEW n, NEW buf, NEW z, NEW t, NEW h, NEW q, NEW b,
         Together(v, e, n, buf, z, t, h, q, b),
         NEW a \in Nat, 1 <= a, a < q, b < n + 1, b + 1 - q < z,
         NEW d, With(d, e, a, e[b]), NEW buf2, With(buf2, buf, h, e[a]),
         NEW h2, h2 = Following(h, z), NEW v2, v2 = Exchange(v, a, b)
  PROVE  Together(v2, d, n, buf2, z, t, h2, q, b + 1)
<1>1. Has(v, e, n, buf, z, t, q, b)
  BY WholeIsArray
<1> USE DEF Together
<1>2. a \in 1 .. n /\ b \in 1 .. n /\ b - q \in 0 .. z - 1 /\ b - q \in 0 .. z /\ b - q + 1 = b + 1 - q
  OBVIOUS
<1>3. h \in 1 .. z
  BY <1>2, AlongIsPlace
<1>4. h2 = Along(t, b + 1 - q, z)
  BY <1>2, AlongFollows
<1>5. d \in [1 .. n -> Pairs] /\ buf2 \in [1 .. z -> Pairs]
  BY <1>2, <1>3 DEF With
<1>6. v \in [1 .. n -> Pairs] /\ v[a] = e[a] /\ v[b] = e[b]
  BY <1>1, <1>2 DEF Has
<1>7. Swapped(v2, v, n, a, b)
  BY <1>2, <1>6, ExchangeIsSwap
<1>8. ASSUME NEW i \in 1 .. n, i < q \/ i >= b + 1
      PROVE  v2[i] = d[i]
  <2>1. v[i] = e[i] /\ i # b
    BY <1>1, <1>8 DEF Has
  <2> QED BY <1>2, <1>6, <1>7, <2>1 DEF Swapped, With
<1>9. ASSUME NEW i \in q .. b
      PROVE  v2[i] = buf2[Along(t, i - q, z)]
  <2>1. CASE i = b
    <3>1. v2[i] = e[a]
      BY <1>6, <1>7, <2>1 DEF Swapped
    <3>2. Along(t, i - q, z) = h
      BY <2>1
    <3> QED BY <1>3, <3>1, <3>2 DEF With
  <2>2. CASE i # b
    <3>1. i \in q .. b - 1 /\ i \in 1 .. n /\ i # a
      BY <2>2
    <3>2. v2[i] = v[i] /\ v[i] = buf[Along(t, i - q, z)]
      BY <1>1, <1>7, <2>2, <3>1 DEF Swapped, Has
    <3>3. PICK j : j = i - q
      OBVIOUS
    <3>4. j \in 0 .. z - 1 /\ j # b - q /\ j \in 0 .. z
      BY <3>1, <3>3
    <3>5. Along(t, j, z) # h
      BY <1>2, <3>4, AlongDiffers
    <3>6. Along(t, j, z) \in 1 .. z
      BY <3>4, AlongIsPlace
    <3> QED BY <1>3, <3>2, <3>3, <3>5, <3>6 DEF With
  <2> QED BY <2>1, <2>2
<1>10. (b + 1) - 1 = b /\ v2 \in [1 .. n -> Pairs]
  BY <1>7 DEF Swapped
<1>11. Has(v2, d, n, buf2, z, t, q, b + 1)
  BY <1>8, <1>9, <1>10 DEF Has
<1>12. q \in Nat /\ b + 1 \in Nat /\ 1 <= q /\ b + 1 <= n + 1 /\ n \in Nat
  OBVIOUS
<1>13. PICK c : c = b + 1
  OBVIOUS
<1>14. Has(v2, d, n, buf2, z, t, q, c) /\ c \in Nat /\ c <= n + 1 /\ q \in Nat /\ 1 <= q /\ n \in Nat
  BY <1>11, <1>12, <1>13
<1>15. v2 = Whole(d, buf2, t, z, q, c)
  <2> HIDE DEF Together
  <2> QED BY <1>5, <1>14, ArrayIsWhole
<1> QED BY <1>2, <1>4, <1>5, <1>12, <1>13, <1>15

\* A pair of a and the last of b change places.
LEMMA WholeExchanged ==
  ASSUME NEW v, NEW e, NEW n, NEW buf, NEW z, NEW t, NEW h, NEW q, NEW b,
         Together(v, e, n, buf, z, t, h, q, b),
         NEW a \in Nat, 1 <= a, a < q, b < n + 1,
         NEW d, d = Exchange(e, a, b), NEW v2, v2 = Exchange(v, a, b)
  PROVE  Together(v2, d, n, buf, z, t, h, q, b)
<1>1. Has(v, e, n, buf, z, t, q, b)
  BY WholeIsArray
<1> USE DEF Together
<1>2. a \in 1 .. n /\ b \in 1 .. n /\ q \in Nat /\ b \in Nat /\ 1 <= q /\ b <= n + 1 /\ n \in Nat
  OBVIOUS
<1>3. v \in [1 .. n -> Pairs] /\ v[a] = e[a] /\ v[b] = e[b]
  BY <1>1, <1>2 DEF Has
<1>4. Swapped(v2, v, n, a, b)
  BY <1>2, <1>3, ExchangeIsSwap
<1>5. Swapped(d, e, n, a, b)
  BY <1>2, ExchangeIsSwap
<1>6. ASSUME NEW i \in 1 .. n, i < q \/ i >= b
      PROVE  v2[i] = d[i]
  <2>1. v[i] = e[i]
    BY <1>1, <1>6 DEF Has
  <2> QED BY <1>2, <1>3, <1>4, <1>5, <2>1 DEF Swapped
<1>7. ASSUME NEW i \in q .. b - 1
      PROVE  v2[i] = buf[Along(t, i - q, z)]
  <2>1. i \in 1 .. n /\ i # a /\ i # b
    OBVIOUS
  <2> QED BY <1>1, <1>4, <2>1 DEF Swapped, Has
<1>8. Has(v2, d, n, buf, z, t, q, b)
  BY <1>4, <1>6, <1>7 DEF Has, Swapped
<1>9. d \in [1 .. n -> Pairs]
  BY <1>5 DEF Swapped
<1>10. v2 = Whole(d, buf, t, z, q, b)
  BY <1>2, <1>8, <1>9, ArrayIsWhole
<1> QED BY <1>2, <1>9, <1>10

\* The queue turned by one pair.
Turned(w, u, n, q, b) ==
  /\ w \in [1 .. n -> Pairs] /\ w[b - 1] = u[q]
  /\ \A i \in 1 .. n : i < q \/ i >= b => w[i] = u[i]
  /\ \A i \in q .. b - 2 : w[i] = u[i + 1]

\* What rotate() makes of a queue that starts at its second place.
LEMMA TurnIs ==
  ASSUME NEW n \in Nat, NEW u \in [1 .. n -> Pairs], NEW q \in Nat, NEW b \in Nat,
         1 <= q, q < b, b <= n + 1, NEW w, w = rotate(u, q, NextPlace(q, q, b), b)
  PROVE  Turned(w, u, n, q, b)
<1>1. CASE q + 1 >= b
  <2>1. w = rotate(u, q, q, b) /\ b = q + 1
    BY <1>1 DEF NextPlace
  <2>2. w = [i \in 1 .. n |-> w[i]]
    BY <2>1 DEF rotate
  <2>3. ASSUME NEW i \in 1 .. n
        PROVE  w[i] = u[i]
    <3>1. /\ w[i] = CASE i \in q .. q + (b - q) - 1 -> u[i + (q - q)]
                      [] i \in q + (b - q) .. b - 1 -> u[i - (b - q)]
                      [] OTHER -> u[i]
      BY <2>1 DEF rotate
    <3>2. ~(i \in q + (b - q) .. b - 1) /\ i + (q - q) = i
      OBVIOUS
    <3> QED BY <3>1, <3>2
  <2>4. w = u
    BY <2>2, <2>3
  <2> QED BY <2>1, <2>4 DEF Turned
<1>2. CASE ~(q + 1 >= b)
  <2>1. w = rotate(u, q, q + 1, b)
    BY <1>2 DEF NextPlace
  <2>2. w = [i \in 1 .. n |-> w[i]]
    BY <2>1 DEF rotate
  <2>3. ASSUME NEW i \in 1 .. n
        PROVE  w[i] = IF i \in q .. b - 2 THEN u[i + 1] ELSE IF i = b - 1 THEN u[q] ELSE u[i]
    <3>1. /\ w[i] = CASE i \in q .. q + (b - (q + 1)) - 1 -> u[i + ((q + 1) - q)]
                      [] i \in q + (b - (q + 1)) .. b - 1 -> u[i - (b - (q + 1))]
                      [] OTHER -> u[i]
      BY <2>1 DEF rotate
    <3>2. CASE i \in q .. b - 2
      <4>1. i \in q .. q + (b - (q + 1)) - 1 /\ i + ((q + 1) - q) = i + 1
            /\ ~(i \in q + (b - (q + 1)) .. b - 1)
        BY <3>2
      <4> QED BY <3>1, <3>2, <4>1
    <3>3. CASE i = b - 1
      <4>1. i \in q + (b - (q + 1)) .. b - 1 /\ i - (b - (q + 1)) = q
            /\ ~(i \in q .. q + (b - (q + 1)) - 1) /\ ~(i \in q .. b - 2)
        BY <1>2, <3>3
      <4> QED BY <3>1, <3>3, <4>1
    <3>4. CASE ~(i \in q .. b - 2) /\ i # b - 1
      <4>1. ~(i \in q + (b - (q + 1)) .. b - 1) /\ ~(i \in q .. q + (b - (q + 1)) - 1)
        BY <1>2, <3>4
      <4> QED BY <3>1, <3>4, <4>1
    <3> QED BY <3>2, <3>3, <3>4
  <2>4. ASSUME NEW i \in 1 .. n
        PROVE  w[i] \in Pairs
    BY <2>3, <1>2
  <2>5. w \in [1 .. n -> Pairs]
    BY <2>2, <2>4
  <2>6. w[b - 1] = u[q]
    <3>1. b - 1 \in 1 .. n /\ ~(b - 1 \in q .. b - 2)
      BY <1>2
    <3> QED BY <2>3, <3>1
  <2>7. ASSUME NEW i \in 1 .. n, i < q \/ i >= b
        PROVE  w[i] = u[i]
    <3>1. ~(i \in q .. b - 2) /\ i # b - 1
      BY <1>2, <2>7
    <3> QED BY <2>3, <3>1
  <2>8. ASSUME NEW i \in q .. b - 2
        PROVE  w[i] = u[i + 1]
    <3>1. i \in 1 .. n
      OBVIOUS
    <3> QED BY <2>3, <3>1
  <2> QED BY <2>5, <2>6, <2>7, <2>8 DEF Turned
<1> QED BY <1>1, <1>2

\* A pair of a goes into the buffer and the first of those there in its place.
LEMMA WholeTurned ==
  ASSUME NEW v, NEW e, NEW n, NEW buf, NEW z, NEW t, NEW h, NEW q, NEW b,
         Together(v, e, n, buf, z, t, h, q, b), q < b,
         NEW a \in Nat, 1 <= a, a < q,
         NEW d, With(d, e, a, buf[t]), NEW buf2, With(buf2, buf, h, e[a]),
         NEW t2, t2 = Following(t, z), NEW h2, h2 = Following(h, z),
         NEW u, u = Exchange(v, a, q), NEW v2, v2 = rotate(u, q, NextPlace(q, q, b), b)
  PROVE  Together(v2, d, n, buf2, z, t2, h2, q, b)
<1>1. Has(v, e, n, buf, z, t, q, b)
  BY WholeIsArray
<1> USE DEF Together
<1>2. /\ a \in 1 .. n /\ q \in 1 .. n /\ b - q \in 0 .. z - 1 /\ b - q \in 0 .. z /\ q \in q .. b - 1 /\ q - q = 0
      /\ q \in Nat /\ b \in Nat /\ 1 <= q /\ b <= n + 1 /\ n \in Nat
  OBVIOUS
<1>3. h \in 1 .. z /\ Along(t, 0, z) = t
  BY <1>2, AlongIsPlace
<1>4. t2 \in 1 .. z /\ h2 = Along(t2, b - q, z)
  <2>1. h2 = Along(t, b - q + 1, z)
    BY <1>2, AlongFollows
  <2>2. Along(t2, b - q, z) = Along(t, b - q + 1, z) /\ t2 \in 1 .. z
    BY <1>2, AlongFollows
  <2> QED BY <2>1, <2>2
<1>5. d \in [1 .. n -> Pairs] /\ buf2 \in [1 .. z -> Pairs]
  BY <1>2, <1>3 DEF With
<1>6. v \in [1 .. n -> Pairs] /\ v[a] = e[a] /\ v[q] = buf[t]
  BY <1>1, <1>2, <1>3 DEF Has
<1>7. Swapped(u, v, n, a, q)
  BY <1>2, <1>6, ExchangeIsSwap
<1>8. Turned(v2, u, n, q, b)
  <2>1. u \in [1 .. n -> Pairs]
    BY <1>7 DEF Swapped
  <2> QED BY <1>2, <2>1, TurnIs
<1>9. ASSUME NEW i \in 1 .. n, i < q \/ i >= b
      PROVE  v2[i] = d[i]
  <2>1. v2[i] = u[i] /\ v[i] = e[i] /\ i # q
    BY <1>1, <1>8, <1>9 DEF Turned, Has
  <2>2. i # a => u[i] = v[i]
    BY <1>7, <2>1 DEF Swapped
  <2>3. u[a] = buf[t]
    BY <1>6, <1>7 DEF Swapped
  <2>4. d[i] = IF i = a THEN buf[t] ELSE e[i]
    BY <1>2 DEF With
  <2> QED BY <2>1, <2>2, <2>3, <2>4
<1>10. ASSUME NEW i \in q .. b - 1
       PROVE  v2[i] = buf2[Along(t2, i - q, z)]
  <2>1. PICK j : j = i - q
    OBVIOUS
  <2>2. j \in 0 .. z - 1 /\ i \in Int
    BY <2>1
  <2>3. Along(t2, j, z) = Along(t, j + 1, z)
    BY <2>2, AlongFollows
  <2>4. CASE i = b - 1
    <3>1. j + 1 = b - q
      BY <2>1, <2>4
    <3>2. Along(t2, j, z) = h
      BY <2>3, <3>1
    <3>3. v2[i] = v[a]
      BY <1>7, <1>8, <2>4 DEF Turned, Swapped
    <3>4. buf2[h] = e[a]
      BY <1>3 DEF With
    <3> QED BY <1>6, <2>1, <3>2, <3>3, <3>4
  <2>5. CASE i # b - 1
    <3>1. PICK k, g : k = i + 1 /\ g = j + 1
      OBVIOUS
    <3>2. /\ k \in q .. b - 1 /\ i \in q .. b - 2 /\ k - q = g /\ k \in 1 .. n
          /\ g \in 0 .. z - 1 /\ g # b - q /\ g \in 0 .. z /\ k # q /\ k # a
      BY <2>1, <2>2, <2>5, <3>1
    <3>3. v2[i] = u[k] /\ u[k] = v[k]
      BY <1>7, <1>8, <3>1, <3>2 DEF Turned, Swapped
    <3>4. v[k] = buf[Along(t, g, z)]
      BY <1>1, <3>2 DEF Has
    <3>5. Along(t, g, z) # h
      BY <1>2, <3>2, AlongDiffers
    <3>6. Along(t, g, z) \in 1 .. z
      BY <3>2, AlongIsPlace
    <3>7. buf2[Along(t, g, z)] = buf[Along(t, g, z)]
      BY <1>3, <3>5, <3>6 DEF With
    <3> QED BY <2>1, <2>3, <3>1, <3>3, <3>4, <3>7
  <2> QED BY <2>4, <2>5
<1>11. v2 \in [1 .. n -> Pairs]
  BY <1>8 DEF Turned
<1>12. Has(v2, d, n, buf2, z, t2, q, b)
  BY <1>9, <1>10, <1>11 DEF Has
<1>13. v2 = Whole(d, buf2, t2, z, q, b)
  <2> HIDE DEF Together
  <2> QED BY <1>2, <1>5, <1>12, ArrayIsWhole
<1> QED BY <1>2, <1>4, <1>5, <1>13

\* The first pair of the buffer is written to the place that is free.
LEMMA WholePopped ==
  ASSUME NEW v, NEW e, NEW n, NEW buf, NEW z, NEW t, NEW h, NEW q, NEW b,
         Together(v, e, n, buf, z, t, h, q, b), q < b,
         NEW d, With(d, e, q, buf[t]), NEW t2, t2 = Following(t, z)
  PROVE  Together(v, d, n, buf, z, t2, h, q + 1, b)
<1>1. Has(v, e, n, buf, z, t, q, b)
  BY WholeIsArray
<1> USE DEF Together
<1>2. PICK p : p = q + 1
  OBVIOUS
<1>3. /\ q \in 1 .. n /\ b - q \in 0 .. z - 1 /\ b - p \in 0 .. z - 1 /\ b - p + 1 = b - q /\ q \in q .. b - 1 /\ q - q = 0
      /\ p \in Nat /\ b \in Nat /\ 1 <= p /\ b <= n + 1 /\ n \in Nat /\ p <= b /\ b - p < z
  BY <1>2
<1>4. Along(t, 0, z) = t
  <2>1. 0 \in 0 .. z
    OBVIOUS
  <2> QED BY <2>1, AlongIsPlace
<1>5. t2 \in 1 .. z /\ h = Along(t2, b - p, z)
  <2>1. Along(t2, b - p, z) = Along(t, b - p + 1, z) /\ t2 \in 1 .. z
    BY <1>3, AlongFollows
  <2> QED BY <1>3, <2>1
<1>6. d \in [1 .. n -> Pairs]
  <2>1. buf[t] \in Pairs
    OBVIOUS
  <2> QED BY <1>3, <2>1 DEF With
<1>7. v \in [1 .. n -> Pairs] /\ v[q] = buf[t]
  BY <1>1, <1>3, <1>4 DEF Has
<1>8. ASSUME NEW i \in 1 .. n, i < p \/ i >= b
      PROVE  v[i] = d[i]
  <2>1. d[i] = IF i = q THEN buf[t] ELSE e[i]
    BY <1>3 DEF With
  <2>2. i # q => i < q \/ i >= b
    BY <1>2, <1>8
  <2>3. i # q => v[i] = e[i]
    BY <1>1, <2>2 DEF Has
  <2> QED BY <1>7, <2>1, <2>3
<1>9. ASSUME NEW i \in p .. b - 1
      PROVE  v[i] = buf[Along(t2, i - p, z)]
  <2>1. PICK j : j = i - p
    OBVIOUS
  <2>2. j \in 0 .. z - 1 /\ j + 1 = i - q /\ i \in q .. b - 1
    BY <1>2, <1>3, <2>1
  <2>3. Along(t2, j, z) = Along(t, j + 1, z)
    BY <2>2, AlongFollows
  <2>4. v[i] = buf[Along(t, j + 1, z)]
    BY <1>1, <2>2 DEF Has
  <2> QED BY <2>1, <2>3, <2>4
<1>10. Has(v, d, n, buf, z, t2, p, b)
  BY <1>7, <1>8, <1>9 DEF Has
<1>11. v = Whole(d, buf, t2, z, p, b)
  <2> HIDE DEF Together
  <2> QED BY <1>3, <1>6, <1>10, ArrayIsWhole
<1> QED BY <1>2, <1>3, <1>5, <1>6, <1>11

\* The first pair of b is written to the place that is free.
LEMMA WholeTaken ==
  ASSUME NEW v, NEW e, NEW n, NEW buf, NEW z, NEW t, NEW h, NEW q, NEW b,
         Together(v, e, n, buf, z, t, h, q, b), b < n + 1,
         NEW d, With(d, e, q, e[b]),
         NEW v2, v2 = rotate(v, q, b, b + 1)
  PROVE  Together(v2, d, n, buf, z, t, h, q + 1, b + 1)
<1>1. Has(v, e, n, buf, z, t, q, b)
  BY WholeIsArray
<1> USE DEF Together
<1>2. PICK p, c : p = q + 1 /\ c = b + 1
  OBVIOUS
<1>3. /\ q \in 1 .. n /\ b \in 1 .. n /\ c - p = b - q /\ b \in Nat
      /\ p \in Nat /\ c \in Nat /\ 1 <= p /\ c <= n + 1 /\ n \in Nat /\ p <= c /\ c - p < z
  BY <1>2
<1>4. d \in [1 .. n -> Pairs]
  BY <1>3 DEF With
<1>5. v \in [1 .. n -> Pairs] /\ v[b] = e[b]
  BY <1>1, <1>3 DEF Has
<1>6. v2 = [i \in 1 .. n |-> v2[i]]
  BY <1>5 DEF rotate
<1>7. ASSUME NEW i \in 1 .. n
      PROVE  v2[i] = IF i = q THEN v[b] ELSE IF i \in p .. b THEN v[i - 1] ELSE v[i]
  <2>1. /\ v2[i] = CASE i \in q .. q + ((b + 1) - b) - 1 -> v[i + (b - q)]
                     [] i \in q + ((b + 1) - b) .. (b + 1) - 1 -> v[i - ((b + 1) - b)]
                     [] OTHER -> v[i]
    BY <1>5 DEF rotate
  <2>2. (b + 1) - b = 1 /\ q + 1 - 1 = q /\ (b + 1) - 1 = b
    OBVIOUS
  <2>3. CASE i = q
    <3>1. i \in q .. q + ((b + 1) - b) - 1 /\ i + (b - q) = b /\ ~(i \in q + ((b + 1) - b) .. (b + 1) - 1)
      BY <2>3
    <3> QED BY <2>1, <2>3, <3>1
  <2>4. CASE i \in p .. b
    <3>1. ~(i \in q .. q + ((b + 1) - b) - 1) /\ i \in q + ((b + 1) - b) .. (b + 1) - 1 /\ i - ((b + 1) - b) = i - 1
          /\ i # q
      BY <1>2, <2>4
    <3> QED BY <2>1, <2>4, <3>1
  <2>5. CASE i # q /\ ~(i \in p .. b)
    <3>1. ~(i \in q .. q + ((b + 1) - b) - 1) /\ ~(i \in q + ((b + 1) - b) .. (b + 1) - 1)
      BY <1>2, <2>5
    <3> QED BY <2>1, <2>5, <3>1
  <2> QED BY <2>3, <2>4, <2>5
<1>8. ASSUME NEW i \in 1 .. n
      PROVE  v2[i] \in Pairs
  BY <1>2, <1>3, <1>5, <1>7
<1>9. v2 \in [1 .. n -> Pairs]
  BY <1>6, <1>8
<1>10. ASSUME NEW i \in 1 .. n, i < p \/ i >= c
       PROVE  v2[i] = d[i]
  <2>1. d[i] = IF i = q THEN e[b] ELSE e[i]
    BY <1>3 DEF With
  <2>2. CASE i = q
    BY <1>5, <1>7, <2>1, <2>2
  <2>3. CASE i # q
    <3>1. ~(i \in p .. b) /\ (i < q \/ i >= b)
      BY <1>2, <1>10, <2>3
    <3>2. v[i] = e[i]
      BY <1>1, <3>1 DEF Has
    <3> QED BY <1>7, <2>1, <2>3, <3>1, <3>2
  <2> QED BY <2>2, <2>3
<1>11. ASSUME NEW i \in p .. c - 1
       PROVE  v2[i] = buf[Along(t, i - p, z)]
  <2>1. PICK j : j = i - 1
    OBVIOUS
  <2>2. j \in q .. b - 1 /\ j - q = i - p /\ i \in p .. b /\ i # q /\ i \in 1 .. n
    BY <1>2, <1>3, <2>1
  <2>3. v[j] = buf[Along(t, j - q, z)]
    BY <1>1, <2>2 DEF Has
  <2>4. v2[i] = v[j]
    BY <1>7, <2>1, <2>2
  <2> QED BY <2>2, <2>3, <2>4
<1>12. Has(v2, d, n, buf, z, t, p, c)
  BY <1>9, <1>10, <1>11 DEF Has
<1>13. v2 = Whole(d, buf, t, z, p, c)
  <2> HIDE DEF Together
  <2> QED BY <1>3, <1>4, <1>12, ArrayIsWhole
<1>14. h = Along(t, c - p, z)
  BY <1>3
<1> QED BY <1>2, <1>3, <1>4, <1>13, <1>14

-----------------------------------------------------------------------------
(* What the buffer's steps do to the order, the queue being straight.      *)

\* The calls of merge() that a step of the buffer compares with.
Straight(s, v, n, a, q, b) == Innermost(s, v, 1, a, q, q, b, n + 1)

\* What a straight queue means,
LEMMA StraightIs ==
  ASSUME NEW n \in Nat, NEW s \in BOOLEAN, NEW v \in [1 .. n -> Pairs],
         NEW a \in Nat, NEW q \in Nat, NEW b \in Nat, Straight(s, v, n, a, q, b)
  PROVE  /\ 1 <= a /\ a <= q /\ q <= b /\ b <= n + 1
         /\ Sorted(s, v, 1, a) /\ Before(s, v, 1, a, a, n + 1) /\ Sorted(s, v, a, q)
         /\ Sorted(s, v, q, b) /\ Before(s, v, q, b, a, q)
         /\ Sorted(s, v, b, n + 1) /\ Sides(s, v, a, b, b, n + 1)
  BY DEF Straight, Innermost, Pointers, Output, Ring, Second

\* and what makes one.
LEMMA IsStraight ==
  ASSUME NEW n \in Nat, NEW s \in BOOLEAN, NEW v \in [1 .. n -> Pairs],
         NEW a \in Nat, NEW q \in Nat, NEW b \in Nat,
         1 <= a, a <= q, q <= b, b <= n + 1,
         Sorted(s, v, 1, a), Before(s, v, 1, a, a, n + 1), Sorted(s, v, a, q),
         Sorted(s, v, q, b), Before(s, v, q, b, a, q),
         Sorted(s, v, b, n + 1), Sides(s, v, a, b, b, n + 1)
  PROVE  Straight(s, v, n, a, q, b)
<1>1. Sorted(s, v, q, q) /\ Before(s, v, q, b, q, q)
  BY SortedAlone, NothingBefore
<1> QED BY <1>1 DEF Straight, Innermost, Pointers, Output, Ring, Second

\* A swap of one pair.
LEMMA OneSwapped ==
  ASSUME NEW n \in Nat, NEW v \in [1 .. n -> Pairs], NEW a \in 1 .. n, NEW b \in 1 .. n, a < b
  PROVE  swap_block(v, a, b, 1) = Exchange(v, a, b)
<1>1. PICK w, u : w = swap_block(v, a, b, 1) /\ u = Exchange(v, a, b)
  OBVIOUS
<1>2. w = [i \in 1 .. n |-> w[i]]
  BY <1>1 DEF swap_block
<1>3. u = [i \in 1 .. n |-> u[i]]
  BY <1>1 DEF Exchange
<1>4. ASSUME NEW i \in 1 .. n
      PROVE  w[i] = u[i]
  <2>1. w[i] = CASE i \in a .. a + 1 - 1 -> v[i - a + b]
                 [] i \in b .. b + 1 - 1 -> v[i - b + a]
                 [] OTHER -> v[i]
    BY <1>1 DEF swap_block
  <2>2. u[i] = IF i = b THEN v[a] ELSE IF i = a THEN v[b] ELSE v[i]
    BY <1>1 DEF Exchange
  <2>3. CASE i = a
    <3>1. i \in a .. a + 1 - 1 /\ ~(i \in b .. b + 1 - 1) /\ i - a + b = b /\ i # b
      BY <2>3
    <3> QED BY <2>1, <2>2, <2>3, <3>1
  <2>4. CASE i = b
    <3>1. ~(i \in a .. a + 1 - 1) /\ i \in b .. b + 1 - 1 /\ i - b + a = a
      BY <2>4
    <3> QED BY <2>1, <2>2, <2>4, <3>1
  <2>5. CASE i # a /\ i # b
    <3>1. ~(i \in a .. a + 1 - 1) /\ ~(i \in b .. b + 1 - 1)
      BY <2>5
    <3> QED BY <2>1, <2>2, <2>5, <3>1
  <2> QED BY <2>3, <2>4, <2>5
<1> QED BY <1>1, <1>2, <1>3, <1>4

\* A ring that starts at its first place is not turned.
LEMMA NothingTurnedAt ==
  ASSUME NEW n \in Nat, NEW u \in [1 .. n -> Pairs], NEW q \in Nat, NEW b \in Nat,
         q <= b, NEW w, w = rotate(u, q, q, b)
  PROVE  w = u
<1>1. w = [i \in 1 .. n |-> w[i]]
  BY DEF rotate
<1>2. ASSUME NEW i \in 1 .. n
      PROVE  w[i] = u[i]
  <2>1. /\ w[i] = CASE i \in q .. q + (b - q) - 1 -> u[i + (q - q)]
                    [] i \in q + (b - q) .. b - 1 -> u[i - (b - q)]
                    [] OTHER -> u[i]
    BY DEF rotate
  <2>2. ~(i \in q + (b - q) .. b - 1) /\ i + (q - q) = i
    OBVIOUS
  <2> QED BY <2>1, <2>2
<1> QED BY <1>1, <1>2

\* A pair of b is next, and a pair of a comes to the end of the queue.
LEMMA StraightPushed ==
  ASSUME NEW n \in Nat, NEW s \in BOOLEAN, NEW v \in [1 .. n -> Pairs],
         NEW a \in Nat, NEW q \in Nat, NEW b \in Nat, Straight(s, v, n, a, q, b),
         a < q, b < n + 1, Less(v[b], v[a]), q = b \/ Less(v[b], v[q]),
         NEW v2, v2 = Exchange(v, a, b)
  PROVE  Straight(s, v2, n, a + 1, q, b + 1) /\ Moved(v, v2, n, a, n + 1)
<1>1. Innermost(s, v, 1, a, q, q, b, n + 1) /\ 1 <= a /\ q <= b
  BY DEF Straight, Innermost, Pointers
<1>2. CASE q = b
  <2>1. /\ Innermost(s, v2, 1, a + 1, q, q, b + 1, n + 1) /\ Moved(v, v2, n, a, n + 1)
    BY <1>1, <1>2, PlainSwaps
  <2> QED BY <2>1 DEF Straight
<1>3. CASE q # b
  <2>1. q < b /\ a \in 1 .. n /\ b \in 1 .. n /\ a < b
    BY <1>1, <1>3
  <2>2. AllLess(v, b, b + 1, v[q])
    <3>1. Less(v[b], v[q]) /\ \A i \in b .. (b + 1) - 1 : i = b
      BY <1>3
    <3> QED BY <3>1 DEF AllLess
  <2>3. v2 = swap_block(v, a, b, 1)
    BY <2>1, OneSwapped
  <2>4. v2 \in [1 .. n -> Pairs]
    BY <2>1 DEF Exchange
  <2>5. rotate(v2, q, q, b) = v2
    BY <1>1, <2>4, NothingTurnedAt
  <2>6. MadeWhole(v2, v2, q, q, q, b, 1)
    BY <2>5 DEF MadeWhole
  <2>7. PICK m \in Nat : m = 1
    OBVIOUS
  <2>10. PICK lo \in Nat : lo = 1
    OBVIOUS
  <2>11. PICK d, x : d = v2 /\ x = q
    OBVIOUS
  <2>8. /\ Innermost(s, v, lo, a, q, q, b, n + 1) /\ 1 <= lo
        /\ MadeWhole(v2, d, x, q, q, b, m)
        /\ m > 0 /\ a + m <= q /\ b + m <= n + 1 /\ AllLess(v, b, b + m, v[q])
        /\ v2 = swap_block(v, a, b, m)
    BY <1>1, <2>1, <2>2, <2>3, <2>6, <2>7, <2>10, <2>11
  <2>9. /\ Moved(v, d, n, a, n + 1)
        /\ Innermost(s, d, lo, a + m, q, x, b + m, n + 1)
    BY <2>1, <2>8, RunIsQueued
  <2> QED BY <2>7, <2>9, <2>10, <2>11 DEF Straight
<1> QED BY <1>2, <1>3

\* The last pair of b is next: the pair of a stays in b.
LEMMA StraightExchanged ==
  ASSUME NEW n \in Nat, NEW s \in BOOLEAN, NEW v \in [1 .. n -> Pairs],
         NEW a \in Nat, NEW q \in Nat, NEW b \in Nat, Straight(s, v, n, a, q, b),
         a < q, b = n, Less(v[b], v[a]), q = b \/ Less(v[b], v[q]), s => a + 1 = q,
         NEW v2, v2 = Exchange(v, a, b)
  PROVE  Straight(s, v2, n, a + 1, q, b) /\ Moved(v, v2, n, a, n + 1)
<1>1. b < n + 1
  OBVIOUS
<1>2. Straight(s, v2, n, a + 1, q, b + 1) /\ Moved(v, v2, n, a, n + 1)
  BY <1>1, StraightPushed
<1>3. PICK c, p : c = a + 1 /\ p = b + 1
  OBVIOUS
<1>4. /\ v2 \in [1 .. n -> Pairs] /\ c \in Nat /\ p \in Nat /\ p = n + 1
      /\ Straight(s, v2, n, c, q, p)
  BY <1>2, <1>3 DEF Moved
<1>5. /\ 1 <= c /\ c <= q /\ q <= p /\ p <= n + 1
      /\ Sorted(s, v2, 1, c) /\ Before(s, v2, 1, c, c, n + 1) /\ Sorted(s, v2, c, q)
      /\ Sorted(s, v2, q, p) /\ Before(s, v2, q, p, c, q)
  BY <1>4, StraightIs
<1>6. q <= b /\ 1 <= a
  BY StraightIs
<1>7. Sorted(s, v2, q, b) /\ Sorted(s, v2, b, n + 1)
  <2>1. /\ \A i \in q .. b - 1 : v2[i] = v2[i]
        /\ \A i \in b .. (n + 1) - 1 : v2[i] = v2[i]
    OBVIOUS
  <2>2. b <= p /\ q <= b /\ n + 1 <= p /\ q <= q /\ n + 1 \in Nat
    BY <1>3, <1>6
  <2> QED BY <1>4, <1>5, <2>1, <2>2, SortedSame
<1>8. Before(s, v2, q, b, c, q)
  BY <1>3, <1>5 DEF Before
<1>9. Sides(s, v2, c, b, b, n + 1)
  <2> SUFFICES ASSUME NEW i \in c .. b - 1, NEW j \in b .. (n + 1) - 1, ~Less(v2[j], v2[i])
               PROVE  Ordered(s, v2[i], v2[j])
    BY DEF Sides
  <2>1. j = b /\ i \in 1 .. n /\ b \in 1 .. n /\ i < b /\ i \in Nat
    BY <1>3, <1>4
  <2>2. v2[i] \in Pairs /\ v2[b] \in Pairs
    BY <1>4, <2>1
  <2>3. CASE i >= q
    <3>1. q <= i /\ b < p
      BY <1>3, <2>3
    <3> QED BY <1>4, <1>5, <2>1, <3>1, SortedAt
  <2>4. CASE i < q
    <3>1. ~s
      BY <1>3, <2>1, <2>4
    <3> QED BY <2>1, <2>2, <3>1, NotLessIsOrdered
  <2> QED BY <2>1, <2>3, <2>4
<1>10. Straight(s, v2, n, c, q, b)
  BY <1>1, <1>4, <1>5, <1>6, <1>7, <1>8, <1>9, IsStraight
<1> QED BY <1>2, <1>3, <1>10

\* A pair of a is next, and nothing waits.
LEMMA StraightStays ==
  ASSUME NEW n \in Nat, NEW s \in BOOLEAN, NEW v \in [1 .. n -> Pairs],
         NEW a \in Nat, NEW q \in Nat, NEW b \in Nat, Straight(s, v, n, a, q, b),
         a < q, q = b, ~Less(v[b], v[a])
  PROVE  Straight(s, v, n, a + 1, q, b)
<1>1. Innermost(s, v, 1, a, q, q, b, n + 1) /\ ~(b < n + 1 /\ Less(v[b], v[a]))
  BY DEF Straight
<1>2. Innermost(s, v, 1, a + 1, q, q, b, n + 1)
  BY <1>1, PlainStays
<1> QED BY <1>2 DEF Straight

\* What waits comes before what is left of a: so does what comes before that.
LEMMA WaitsBefore ==
  ASSUME NEW n \in Nat, NEW s \in BOOLEAN, NEW v \in [1 .. n -> Pairs],
         NEW a \in Nat, NEW q \in Nat, NEW b \in Nat, Straight(s, v, n, a, q, b),
         a < q, q < b
  PROVE  ~Less(v[a], v[q]) /\ \A y \in Pairs : Less(y, v[q]) => Less(y, v[a])
<1>1. /\ 1 <= a /\ b <= n + 1 /\ Before(s, v, q, b, a, q)
  BY StraightIs
<1>2. a \in a .. q - 1 /\ q \in q .. b - 1 /\ a \in 1 .. n /\ q \in 1 .. n
  BY <1>1
<1>3. Ordered(s, v[q], v[a]) /\ v[q] \in Pairs /\ v[a] \in Pairs
  BY <1>1, <1>2 DEF Before
<1>4. ~Less(v[a], v[q])
  BY <1>3, OrderedIsNotLess
<1> QED BY <1>3, <1>4 DEF Less, Pairs

\* The queue is put straight.
LEMMA StraightAgain ==
  ASSUME NEW n \in Nat, NEW s \in BOOLEAN, NEW u \in [1 .. n -> Pairs], NEW w, NEW lo \in Nat, lo = 1,
         NEW a \in Nat, NEW q \in Nat, NEW x \in Nat, NEW b \in Nat,
         Innermost(s, u, lo, a, q, x, b, n + 1), Moved(u, w, n, q, b), Sorted(s, w, q, b)
  PROVE  Straight(s, w, n, a, q, b) /\ Moved(u, w, n, a, n + 1)
<1>1. /\ 1 <= lo /\ lo <= a /\ a <= q /\ q <= b /\ b <= n + 1
      /\ Output(s, u, lo, a, q, n + 1) /\ Second(s, u, a, b, n + 1) /\ Before(s, u, q, b, a, q)
  BY DEF Innermost, Pointers, Ring
<1>2. /\ Output(s, w, lo, a, q, n + 1) /\ Second(s, w, a, b, n + 1) /\ Before(s, w, q, b, a, q)
      /\ Moved(u, w, n, a, n + 1)
  BY <1>1, QueueMoves
<1>3. w \in [1 .. n -> Pairs]
  BY DEF Moved
<1>4. /\ Sorted(s, w, 1, a) /\ Before(s, w, 1, a, a, n + 1) /\ Sorted(s, w, a, q)
      /\ Sorted(s, w, b, n + 1) /\ Sides(s, w, a, b, b, n + 1)
  BY <1>2 DEF Output, Second
<1> QED BY <1>1, <1>2, <1>3, <1>4, IsStraight

\* What waits first is next, and a pair of a comes to the end of the queue.
LEMMA StraightTurned ==
  ASSUME NEW n \in Nat, NEW s \in BOOLEAN, NEW v \in [1 .. n -> Pairs],
         NEW a \in Nat, NEW q \in Nat, NEW b \in Nat, Straight(s, v, n, a, q, b),
         a < q, q < b, ~NextLess(v, b, n + 1, v[q]),
         NEW u, u = Exchange(v, a, q), NEW v2, v2 = rotate(u, q, NextPlace(q, q, b), b)
  PROVE  Straight(s, v2, n, a + 1, q, b) /\ Moved(v, v2, n, a, n + 1)
<1>1. Innermost(s, v, 1, a, q, q, b, n + 1) /\ 1 <= a /\ q <= b /\ b <= n + 1
  BY DEF Straight, Innermost, Pointers
<1>2. PICK x, c : x = NextPlace(q, q, b) /\ c = a + 1
  OBVIOUS
<1>3. x \in Nat /\ q <= x /\ x <= b /\ c \in Nat /\ 1 <= c /\ c <= q
  BY <1>2 DEF NextPlace
<1>4. Innermost(s, u, 1, c, q, x, b, n + 1) /\ Moved(v, u, n, a, n + 1)
  <2>1. Innermost(s, u, 1, a + 1, q, x, b, n + 1) /\ Moved(v, u, n, a, n + 1)
    BY <1>1, <1>2, <1>3, QueueGives
  <2> QED BY <1>2, <2>1
<1>5. u \in [1 .. n -> Pairs] /\ Circular(s, u, q, x, b)
  BY <1>4 DEF Moved, Innermost, Ring, Circular
<1>6. v2 = rotate(u, q, x, b)
  BY <1>2
<1>7. Moved(u, v2, n, q, b) /\ Sorted(s, v2, q, b)
  BY <1>1, <1>3, <1>5, <1>6, QueueUnrolls
<1>8. PICK lo \in Nat : lo = 1
  OBVIOUS
<1>9. Innermost(s, u, lo, c, q, x, b, n + 1)
  BY <1>4, <1>8
<1>10. Straight(s, v2, n, c, q, b) /\ Moved(u, v2, n, c, n + 1)
  BY <1>3, <1>5, <1>7, <1>8, <1>9, StraightAgain
<1>11. Moved(v, v2, n, a, n + 1)
  <2>1. a <= c /\ n + 1 <= n + 1 /\ 1 <= a /\ n + 1 \in Nat
    BY <1>1, <1>2
  <2> QED BY <1>3, <1>4, <1>10, <2>1, MovedTwice
<1> QED BY <1>2, <1>10, <1>11

\* A pair that comes before all that is left is given out.
LEMMA GivenOut ==
  ASSUME NEW n \in Nat, NEW s \in BOOLEAN, NEW e \in [1 .. n -> Pairs], NEW d,
         NEW a \in Nat, 1 <= a, a < n + 1, Moved(e, d, n, a, n + 1),
         Sorted(s, e, 1, a), Before(s, e, 1, a, a, n + 1),
         \A j \in a + 1 .. n : Ordered(s, d[a], d[j])
  PROVE  Sorted(s, d, 1, a + 1) /\ Before(s, d, 1, a + 1, a + 1, n + 1)
<1>1. \A i \in a .. (a + 1) - 1 : i = a
  OBVIOUS
<1>2. Sorted(s, d, a, a + 1)
  BY SortedAlone
<1>3. (n + 1) - 1 = n
  OBVIOUS
<1>4. Before(s, d, a, a + 1, a + 1, n + 1)
  BY <1>1, <1>3 DEF Before
<1>5. PICK lo \in Nat, c \in Nat : lo = 1 /\ c = a + 1
  OBVIOUS
<1>6. /\ 1 <= lo /\ lo <= a /\ a <= c /\ c <= n + 1
      /\ Sorted(s, e, lo, a) /\ Before(s, e, lo, a, a, n + 1)
      /\ Sorted(s, d, a, c) /\ Before(s, d, a, c, c, n + 1)
  BY <1>2, <1>4, <1>5
<1>7. Sorted(s, d, lo, c) /\ Before(s, d, lo, c, c, n + 1)
  BY <1>6, OutputGrows
<1> QED BY <1>5, <1>7

\* The first run is filled, and what waits first is next.
LEMMA StraightPopped ==
  ASSUME NEW n \in Nat, NEW s \in BOOLEAN, NEW v \in [1 .. n -> Pairs],
         NEW a \in Nat, NEW b \in Nat, Straight(s, v, n, a, a, b),
         a < b, ~NextLess(v, b, n + 1, v[a])
  PROVE  Straight(s, v, n, a + 1, a + 1, b)
<1>1. /\ 1 <= a /\ b <= n + 1 /\ a < n + 1 /\ a \in 1 .. n
      /\ Sorted(s, v, 1, a) /\ Before(s, v, 1, a, a, n + 1)
      /\ Sorted(s, v, a, b) /\ Sorted(s, v, b, n + 1) /\ Sides(s, v, a, b, b, n + 1)
  <2>1. /\ 1 <= a /\ b <= n + 1
        /\ Sorted(s, v, 1, a) /\ Before(s, v, 1, a, a, n + 1)
        /\ Sorted(s, v, a, b) /\ Sorted(s, v, b, n + 1) /\ Sides(s, v, a, b, b, n + 1)
    BY StraightIs
  <2> QED BY <2>1
<1>2. ASSUME NEW j \in a + 1 .. n
      PROVE  Ordered(s, v[a], v[j])
  <2>1. CASE j < b
    <3>1. a <= a /\ a < j /\ j \in Nat
      BY <1>1
    <3> QED BY <1>1, <2>1, <3>1, SortedAt
  <2>2. CASE j >= b
    <3>1. b \in 1 .. n /\ j \in 1 .. n /\ b < n + 1 /\ a \in a .. b - 1 /\ b \in b .. (n + 1) - 1
      BY <1>1, <2>2
    <3>2. ~Less(v[b], v[a])
      BY <3>1 DEF NextLess
    <3>3. Ordered(s, v[a], v[b])
      BY <1>1, <3>1, <3>2 DEF Sides
    <3>4. CASE j # b
      <4>1. b <= b /\ b < j /\ j < n + 1 /\ j \in Nat /\ n + 1 \in Nat
        BY <2>2, <3>1, <3>4
      <4>2. Ordered(s, v[b], v[j])
        BY <1>1, <4>1, SortedAt
      <4>3. v[a] \in Pairs /\ v[b] \in Pairs /\ v[j] \in Pairs
        BY <1>1, <3>1
      <4> QED BY <3>3, <4>2, <4>3, OrderedTransitive
    <3> QED BY <3>3, <3>4
  <2> QED BY <1>1, <2>1, <2>2
<1>3. Moved(v, v, n, a, n + 1)
  BY NothingMoved
<1>4. Sorted(s, v, 1, a + 1) /\ Before(s, v, 1, a + 1, a + 1, n + 1)
  BY <1>1, <1>2, <1>3, GivenOut
<1>5. PICK c \in Nat : c = a + 1
  OBVIOUS
<1>6. /\ 1 <= c /\ c <= c /\ c <= b /\ Sorted(s, v, 1, c) /\ Before(s, v, 1, c, c, n + 1)
  BY <1>4, <1>5
<1>7. Sorted(s, v, c, c) /\ Before(s, v, c, b, c, c)
  BY SortedAlone, NothingBefore
<1>8. Sorted(s, v, c, b) /\ Sides(s, v, c, b, b, n + 1)
  BY <1>1, <1>5 DEF Sorted, Sides
<1>9. Straight(s, v, n, c, c, b)
  BY <1>1, <1>6, <1>7, <1>8, IsStraight
<1> QED BY <1>5, <1>9

\* The pair of b comes before the m pairs from a on, that move on by a place.
MovedOn(w, v, n, a, b) ==
  /\ w \in [1 .. n -> Pairs] /\ w[a] = v[b]
  /\ \A i \in a + 1 .. b : w[i] = v[i - 1]
  /\ \A i \in 1 .. n : i < a \/ i > b => w[i] = v[i]

\* What rotate() makes of the queue and the pair behind it.
LEMMA TurnMovesOn ==
  ASSUME NEW n \in Nat, NEW v \in [1 .. n -> Pairs], NEW a \in 1 .. n, NEW b \in 1 .. n, a <= b,
         NEW w, w = rotate(v, a, b, b + 1)
  PROVE  MovedOn(w, v, n, a, b)
<1>1. w = [i \in 1 .. n |-> w[i]]
  BY DEF rotate
<1>2. ASSUME NEW i \in 1 .. n
      PROVE  w[i] = IF i = a THEN v[b] ELSE IF i \in a + 1 .. b THEN v[i - 1] ELSE v[i]
  <2>1. /\ w[i] = CASE i \in a .. a + ((b + 1) - b) - 1 -> v[i + (b - a)]
                     [] i \in a + ((b + 1) - b) .. (b + 1) - 1 -> v[i - ((b + 1) - b)]
                     [] OTHER -> v[i]
    BY DEF rotate
  <2>3. CASE i = a
    <3>1. i \in a .. a + ((b + 1) - b) - 1 /\ i + (b - a) = b /\ ~(i \in a + ((b + 1) - b) .. (b + 1) - 1)
      BY <2>3
    <3> QED BY <2>1, <2>3, <3>1
  <2>4. CASE i \in a + 1 .. b
    <3>1. ~(i \in a .. a + ((b + 1) - b) - 1) /\ i \in a + ((b + 1) - b) .. (b + 1) - 1 /\ i - ((b + 1) - b) = i - 1
          /\ i # a
      BY <2>4
    <3> QED BY <2>1, <2>4, <3>1
  <2>5. CASE i # a /\ ~(i \in a + 1 .. b)
    <3>1. ~(i \in a .. a + ((b + 1) - b) - 1) /\ ~(i \in a + ((b + 1) - b) .. (b + 1) - 1)
      BY <2>5
    <3> QED BY <2>1, <2>5, <3>1
  <2> QED BY <2>3, <2>4, <2>5
<1>3. ASSUME NEW i \in 1 .. n
      PROVE  w[i] \in Pairs
  <2>1. i \in a + 1 .. b => i - 1 \in 1 .. n
    OBVIOUS
  <2> QED BY <1>2, <2>1
<1>4. w \in [1 .. n -> Pairs]
  BY <1>1, <1>3
<1>5. w[a] = v[b]
  BY <1>2
<1>6. ASSUME NEW i \in a + 1 .. b
      PROVE  w[i] = v[i - 1]
  <2>1. i \in 1 .. n /\ i # a
    OBVIOUS
  <2> QED BY <1>2, <2>1
<1>7. ASSUME NEW i \in 1 .. n, i < a \/ i > b
      PROVE  w[i] = v[i]
  <2>1. i # a /\ ~(i \in a + 1 .. b)
    BY <1>7
  <2> QED BY <1>2, <2>1
<1> QED BY <1>4, <1>5, <1>6, <1>7 DEF MovedOn

\* The first run is filled, and the pair of b is next.
LEMMA StraightTaken ==
  ASSUME NEW n \in Nat, NEW s \in BOOLEAN, NEW v \in [1 .. n -> Pairs],
         NEW a \in Nat, NEW b \in Nat, Straight(s, v, n, a, a, b),
         b < n + 1, a = b \/ Less(v[b], v[a]), NEW w, w = rotate(v, a, b, b + 1)
  PROVE  Straight(s, w, n, a + 1, a + 1, b + 1) /\ Moved(v, w, n, a, n + 1)
<1>1. /\ 1 <= a /\ a <= b
      /\ Sorted(s, v, 1, a) /\ Before(s, v, 1, a, a, n + 1)
      /\ Sorted(s, v, a, b) /\ Sorted(s, v, b, n + 1) /\ Sides(s, v, a, b, b, n + 1)
  BY StraightIs
<1>2. /\ a \in 1 .. n /\ b \in 1 .. n /\ a < n + 1 /\ n + 1 \in Nat /\ (n + 1) - 1 = n
  BY <1>1
<1>3. MovedOn(w, v, n, a, b)
  BY <1>1, <1>2, TurnMovesOn
<1>4. Moved(v, w, n, a, n + 1)
  <2>1. PICK p \in Nat : p = b + 1
    OBVIOUS
  <2>2. w = rotate(v, a, b, p) /\ 1 <= a /\ a <= b /\ b <= p /\ p <= n + 1 /\ a <= a
    BY <1>1, <2>1
  <2>3. Moved(v, w, n, a, p)
    BY <2>2, RotateMoves
  <2> QED BY <1>2, <2>2, <2>3, MovedWithin
<1>5. ASSUME NEW j \in a .. n, j # b
      PROVE  Ordered(s, v[b], v[j])
  <2>1. j \in 1 .. n /\ j \in Nat /\ v[j] \in Pairs /\ v[b] \in Pairs /\ v[a] \in Pairs
    BY <1>1, <1>2
  <2>2. CASE j > b
    <3>1. b <= b /\ b < j /\ j < n + 1
      BY <1>2, <2>1, <2>2
    <3> QED BY <1>1, <1>2, <2>1, <3>1, SortedAt
  <2>3. CASE j < b
    <3>1. Less(v[b], v[a])
      BY <1>1, <2>3
    <3>2. Ordered(s, v[b], v[a])
      BY <2>1, <3>1, LessIsOrdered
    <3>3. CASE j = a
      BY <3>2, <3>3
    <3>4. CASE j # a
      <4>1. a <= a /\ a < j
        BY <3>4
      <4>2. Ordered(s, v[a], v[j])
        BY <1>1, <2>1, <2>3, <4>1, SortedAt
      <4> QED BY <2>1, <3>2, <4>2, OrderedTransitive
    <3> QED BY <3>3, <3>4
  <2> QED BY <1>2, <1>5, <2>1, <2>2, <2>3
<1>6. ASSUME NEW j \in a + 1 .. n
      PROVE  Ordered(s, w[a], w[j])
  <2>1. CASE j <= b
    <3>1. PICK k : k = j - 1
      OBVIOUS
    <3>2. k \in a .. n /\ k # b /\ j \in a + 1 .. b
      BY <1>2, <2>1, <3>1
    <3>3. w[j] = v[k] /\ w[a] = v[b]
      BY <1>3, <3>1, <3>2 DEF MovedOn
    <3> QED BY <1>5, <3>2, <3>3
  <2>2. CASE j > b
    <3>1. j \in a .. n /\ j # b /\ j \in 1 .. n
      BY <1>2, <2>2
    <3>2. w[j] = v[j] /\ w[a] = v[b]
      BY <1>3, <2>2, <3>1 DEF MovedOn
    <3> QED BY <1>5, <3>1, <3>2
  <2> QED BY <1>2, <2>1, <2>2
<1>7. Sorted(s, w, 1, a + 1) /\ Before(s, w, 1, a + 1, a + 1, n + 1)
  BY <1>1, <1>2, <1>4, <1>6, GivenOut
<1>8. PICK c \in Nat, p \in Nat : c = a + 1 /\ p = b + 1
  OBVIOUS
<1>9. /\ 1 <= c /\ c <= c /\ c <= p /\ p <= n + 1 /\ Sorted(s, w, 1, c) /\ Before(s, w, 1, c, c, n + 1)
  BY <1>1, <1>2, <1>7, <1>8
<1>10. Sorted(s, w, c, c) /\ Before(s, w, c, p, c, c)
  BY SortedAlone, NothingBefore
<1>11. Shifted(w, c, p, v, a)
  <2>1. ASSUME NEW i \in c .. p - 1
        PROVE  w[i] = v[i - c + a]
    <3>1. i \in a + 1 .. b /\ i - c + a = i - 1
      BY <1>8
    <3> QED BY <1>3, <3>1 DEF MovedOn
  <2> QED BY <2>1 DEF Shifted
<1>12. Same(w, p, n + 1, v)
  <2>1. ASSUME NEW i \in p .. (n + 1) - 1
        PROVE  w[i] = v[i]
    <3>1. i \in 1 .. n /\ i > b
      BY <1>8, <1>2
    <3> QED BY <1>3, <3>1 DEF MovedOn
  <2> QED BY <2>1 DEF Same
<1>13. Sorted(s, w, c, p)
  <2>1. a <= a /\ a + (p - c) <= b
    BY <1>8
  <2> QED BY <1>1, <1>11, <2>1, SortedShifted
<1>14. Sorted(s, w, p, n + 1)
  <2>1. b <= p /\ n + 1 <= n + 1
    BY <1>8
  <2> QED BY <1>1, <1>2, <1>12, <2>1, SameSorted
<1>15. Sides(s, w, c, p, p, n + 1)
  <2>1. Among(w, c, p, v, a, b)
    <3>1. a <= a /\ a + (p - c) <= b
      BY <1>8
    <3> QED BY <1>11, <3>1, ShiftedAmong
  <2>2. Among(w, p, n + 1, v, b, n + 1)
    <3>1. b <= p /\ n + 1 <= n + 1
      BY <1>8
    <3> QED BY <1>2, <1>12, <3>1, SameAmong
  <2> QED BY <1>1, <1>2, <2>1, <2>2, SidesPart
<1>16. w \in [1 .. n -> Pairs]
  BY <1>3 DEF MovedOn
<1>17. Straight(s, w, n, c, c, p)
  BY <1>9, <1>10, <1>13, <1>14, <1>15, <1>16, IsStraight
<1> QED BY <1>4, <1>8, <1>17

-----------------------------------------------------------------------------
(* The call of merge_with_buffer_fast().                                   *)

\* The array e and the call f are the array v of merge(), with the queue at q.
Held(n, s, m, z, e, f, q, v) ==
  /\ n \in Nat /\ s \in BOOLEAN /\ m \in Nat /\ 1 < m /\ m < n + 1 /\ z = n + 1 - m /\ (s => z = m - 1)
  /\ e \in [1 .. n -> Pairs] /\ f \in Buffered /\ f.aEnd = m /\ f.end = n + 1 /\ Len(f.buf) = z
  /\ q = Filled(f.a, m) /\ (f.a < m => f.b < n + 1 /\ f.b - m < f.a)
  /\ Together(v, e, n, f.buf, z, f.t, f.h, q, f.b) /\ Straight(s, v, n, f.a, q, f.b)

\* A step has made d and g of them, that are such an array as well.
Holds(n, s, m, z, d, g, v) ==
  \E v2 : Held(n, s, m, z, d, g, Filled(g.a, m), v2) /\ Moved(v, v2, n, 1, n + 1)

\* The invariant gives such an array,
LEMMA FillingIsHeld ==
  ASSUME NEW n \in Nat, NEW s \in BOOLEAN, NEW m \in Nat, 1 < m, m < n + 1, NEW z, z = n + 1 - m,
         s => z = m - 1, NEW e \in [1 .. n -> Pairs], NEW f, f \in Buffered, Filling(s, e, f, n, m),
         NEW q, q = Filled(f.a, m), NEW v, v = Whole(e, f.buf, f.t, z, q, f.b)
  PROVE  Held(n, s, m, z, e, f, q, v)
<1>1. /\ f.aEnd = m /\ f.end = n + 1 /\ Len(f.buf) = z
      /\ Places(f.a, f.b, f.h, f.t, q, n, m) /\ Innermost(s, v, 1, f.a, q, q, f.b, n + 1)
  BY DEF Filling
<1>2. f.buf \in Seq(Pairs) /\ f.a \in Nat /\ f.b \in Nat /\ f.h \in Nat /\ f.t \in Nat
  BY DEF Buffered
<1>3. z \in Nat /\ f.buf \in [1 .. z -> Pairs] /\ q \in Nat
  <2>1. PICK u : u = f.buf
    OBVIOUS
  <2>2. u \in Seq(Pairs) /\ Len(u) = z
    BY <1>1, <1>2, <2>1
  <2>3. u \in [1 .. z -> Pairs]
    BY <2>2
  <2>4. q \in Nat
    BY <1>2 DEF Filled
  <2> QED BY <2>1, <2>3, <2>4
<1>4. 1 <= q
  BY <1>1, <1>2 DEF Places, Filled
<1>5. Together(v, e, n, f.buf, z, f.t, f.h, q, f.b)
  BY <1>1, <1>2, <1>3, <1>4 DEF Together, Places
<1>6. Straight(s, v, n, f.a, q, f.b)
  BY <1>1 DEF Straight
<1>7. f.a < m => f.b < n + 1 /\ f.b - m < f.a
  BY <1>1 DEF Places
<1> QED BY <1>1, <1>5, <1>6, <1>7 DEF Held

\* and such an array the invariant.
LEMMA HeldIsFilling ==
  ASSUME NEW n, NEW s, NEW m, NEW z, NEW e, NEW f, NEW q, NEW v, Held(n, s, m, z, e, f, q, v)
  PROVE  Filling(s, e, f, n, m) /\ v = Whole(e, f.buf, f.t, z, q, f.b)
<1>1. /\ n \in Nat /\ m \in Nat /\ z = n + 1 - m
      /\ f \in Buffered /\ f.aEnd = m /\ f.end = n + 1 /\ Len(f.buf) = z
      /\ q = Filled(f.a, m) /\ (f.a < m => f.b < n + 1 /\ f.b - m < f.a)
      /\ Together(v, e, n, f.buf, z, f.t, f.h, q, f.b) /\ Straight(s, v, n, f.a, q, f.b)
  BY DEF Held
<1>2. v = Whole(e, f.buf, f.t, z, q, f.b) /\ q <= f.b /\ f.b <= n + 1 /\ f.b - q < z /\ f.t \in 1 .. z
      /\ f.h = Along(f.t, f.b - q, z)
  BY <1>1 DEF Together
<1>3. Innermost(s, v, 1, f.a, q, q, f.b, n + 1) /\ 1 <= f.a
  BY <1>1 DEF Straight, Innermost, Pointers
<1>4. Places(f.a, f.b, f.h, f.t, q, n, m)
  BY <1>1, <1>2, <1>3 DEF Places
<1> QED BY <1>1, <1>2, <1>3, <1>4 DEF Filling

\* What a step finds: the pairs it compares are those of v.
Found(n, s, m, z, e, f, q, v) ==
  /\ n \in Nat /\ s \in BOOLEAN /\ m \in Nat /\ z \in Nat /\ q \in Nat
  /\ f.a \in Nat /\ f.b \in Nat /\ f.t \in 1 .. z /\ f.h \in 1 .. z
  /\ f.buf \in [1 .. z -> Pairs] /\ e \in [1 .. n -> Pairs] /\ v \in [1 .. n -> Pairs]
  /\ 1 <= f.a /\ f.a <= q /\ q <= f.b /\ f.b <= n + 1 /\ f.b - q < z /\ m <= q
  /\ Together(v, e, n, f.buf, z, f.t, f.h, q, f.b) /\ Straight(s, v, n, f.a, q, f.b)
  /\ (f.h = f.t <=> q = f.b)
  /\ (q < f.b => v[q] = f.buf[f.t])
  /\ (f.b < n + 1 => v[f.b] = e[f.b])
  /\ (f.a < q => v[f.a] = e[f.a])

\* The pairs that are compared are those of the array that merge() would have.
LEMMA HeldHas ==
  ASSUME NEW n, NEW s, NEW m, NEW z, NEW e, NEW f, NEW q, NEW v, Held(n, s, m, z, e, f, q, v)
  PROVE  Found(n, s, m, z, e, f, q, v)
<1>1. /\ n \in Nat /\ s \in BOOLEAN /\ m \in Nat /\ e \in [1 .. n -> Pairs] /\ f \in Buffered
      /\ Together(v, e, n, f.buf, z, f.t, f.h, q, f.b) /\ Straight(s, v, n, f.a, q, f.b)
      /\ q = Filled(f.a, m)
  BY DEF Held
<1>2. f.a \in Nat /\ f.b \in Nat
  BY <1>1 DEF Buffered
<1>3. /\ z \in Nat /\ f.buf \in [1 .. z -> Pairs] /\ f.t \in 1 .. z /\ q \in Nat
      /\ 1 <= q /\ q <= f.b /\ f.b <= n + 1 /\ f.b - q < z /\ f.h = Along(f.t, f.b - q, z)
  BY <1>1 DEF Together
<1>4. Has(v, e, n, f.buf, z, f.t, q, f.b)
  BY <1>1, WholeIsArray
<1>5. v \in [1 .. n -> Pairs]
  BY <1>4 DEF Has
<1>6. 1 <= f.a /\ f.a <= q
  BY <1>1 DEF Straight, Innermost, Pointers
<1>7. f.h \in 1 .. z /\ Along(f.t, 0, z) = f.t
  <2>1. f.b - q \in 0 .. z /\ 0 \in 0 .. z
    BY <1>2, <1>3
  <2> QED BY <1>3, <2>1, AlongIsPlace
<1>8. f.h = f.t <=> q = f.b
  <2>1. f.b - q \in 0 .. z - 1
    BY <1>2, <1>3
  <2>2. f.h = f.t <=> f.b - q = 0
    BY <1>3, <2>1, EmptyIsMeeting
  <2> QED BY <1>2, <1>3, <2>2
<1>9. ASSUME q < f.b
      PROVE  v[q] = f.buf[f.t]
  <2>1. q \in q .. f.b - 1 /\ q - q = 0
    BY <1>2, <1>3, <1>9
  <2>2. v[q] = f.buf[Along(f.t, q - q, z)]
    BY <1>4, <2>1 DEF Has
  <2> QED BY <1>7, <2>1, <2>2
<1>10. ASSUME f.b < n + 1
       PROVE  v[f.b] = e[f.b]
  <2>1. f.b \in 1 .. n /\ f.b >= f.b
    BY <1>1, <1>2, <1>3, <1>10
  <2> QED BY <1>4, <2>1 DEF Has
<1>11. ASSUME f.a < q
       PROVE  v[f.a] = e[f.a]
  <2>1. f.a \in 1 .. n
    BY <1>1, <1>2, <1>3, <1>6, <1>11
  <2> QED BY <1>4, <1>11, <2>1 DEF Has
<1>12. m <= q
  BY <1>1, <1>2 DEF Filled
<1> QED BY <1>1, <1>2, <1>3, <1>5, <1>6, <1>7, <1>8, <1>9, <1>10, <1>11, <1>12 DEF Found

\* The parts of g are those of f, except for places and what the buffer has.
AsBefore(g, f, z) ==
  g \in Buffered /\ g.aEnd = f.aEnd /\ g.end = f.end /\ Len(g.buf) = z

\* What is to be shown of a step.
LEMMA StepHolds ==
  ASSUME NEW n, NEW s, NEW m, NEW z, NEW e, NEW f, NEW q, NEW v, Held(n, s, m, z, e, f, q, v),
         NEW d, NEW g, NEW v2, AsBefore(g, f, z), NEW p, p = Filled(g.a, m),
         g.a < m => g.b < n + 1 /\ g.b - m < g.a,
         Together(v2, d, n, g.buf, z, g.t, g.h, p, g.b), Straight(s, v2, n, g.a, p, g.b),
         Moved(v, v2, n, f.a, n + 1)
  PROVE  Holds(n, s, m, z, d, g, v)
<1>1. d \in [1 .. n -> Pairs]
  BY DEF Together
<1>2. Held(n, s, m, z, d, g, p, v2)
  BY <1>1 DEF Held, AsBefore
<1>3. Moved(v, v2, n, 1, n + 1)
  <2>1. /\ n \in Nat /\ v \in [1 .. n -> Pairs] /\ f.a \in Nat /\ 1 <= f.a
    BY HeldHas DEF Found
  <2>2. /\ 1 <= 1 /\ n + 1 <= n + 1 /\ n + 1 \in Nat /\ 1 \in Nat
    BY <2>1
  <2> QED BY <2>1, <2>2, MovedWithin
<1> QED BY <1>2, <1>3 DEF Holds

\* A pair p is written to the buffer.
LEMMA PushIs ==
  ASSUME NEW f, f \in Buffered, NEW z \in Nat, Len(f.buf) = z, f.h \in 1 .. z, NEW p \in Pairs,
         NEW g, g = PushCall(f, p)
  PROVE  /\ g \in Buffered /\ g.aEnd = f.aEnd /\ g.end = f.end /\ Len(g.buf) = z
         /\ g.a = f.a /\ g.b = f.b /\ g.t = f.t /\ g.h = Following(f.h, z) /\ With(g.buf, f.buf, f.h, p)
<1>1. PICK u : u = f.buf
  OBVIOUS
<1>2. PICK w : w = [u EXCEPT ![f.h] = p]
  OBVIOUS
<1>3. u \in Seq(Pairs) /\ Len(u) = z
  BY <1>1 DEF Buffered
<1>4. w \in Seq(Pairs) /\ Len(w) = z
  BY <1>2, <1>3
<1>5. g = [f EXCEPT !.buf = w, !.h = Following(f.h, z)]
  BY <1>1, <1>2 DEF PushCall, After, Following, Buffered
<1>6. Following(f.h, z) \in Nat
  BY DEF Following
<1>7. g.buf = w /\ g.h = Following(f.h, z) /\ g.a = f.a /\ g.b = f.b /\ g.t = f.t /\ g.aEnd = f.aEnd /\ g.end = f.end
  BY <1>5 DEF Buffered
<1>8. g \in Buffered
  BY <1>4, <1>5, <1>6 DEF Buffered
<1> QED BY <1>1, <1>2, <1>4, <1>7, <1>8 DEF With

\* The first pair of the buffer is read.
LEMMA PopIs ==
  ASSUME NEW f, f \in Buffered, NEW z \in Nat, Len(f.buf) = z, f.t \in 1 .. z,
         NEW g, g = Pop(f)
  PROVE  /\ g \in Buffered /\ g.aEnd = f.aEnd /\ g.end = f.end /\ Len(g.buf) = z
         /\ g.a = f.a /\ g.b = f.b /\ g.h = f.h /\ g.t = Following(f.t, z) /\ g.buf = f.buf
<1>1. g = [f EXCEPT !.t = Following(f.t, z)]
  BY DEF Pop, After, Following
<1>2. Following(f.t, z) \in Nat
  BY DEF Following
<1> QED BY <1>1, <1>2 DEF Buffered

\* The place a is filled.
Ended(f) == [f EXCEPT !.a = f.a + 1]

\* The parts of the call then.
LEMMA EndedIs ==
  ASSUME NEW f, f \in Buffered, NEW z \in Nat, Len(f.buf) = z, NEW g, g = Ended(f)
  PROVE  /\ AsBefore(g, f, z)
         /\ g.a = f.a + 1 /\ g.b = f.b /\ g.h = f.h /\ g.t = f.t /\ g.buf = f.buf
  BY DEF Ended, AsBefore, Buffered

\* The first pair of b is gone.
LEMMA NextIs ==
  ASSUME NEW f, f \in Buffered, NEW b \in Nat, NEW g, g = [f EXCEPT !.b = b]
  PROVE  /\ g \in Buffered /\ g.aEnd = f.aEnd /\ g.end = f.end /\ g.buf = f.buf
         /\ g.a = f.a /\ g.b = b /\ g.t = f.t /\ g.h = f.h
  BY DEF Buffered

\* The place a of the first run is filled with a pair of b, and its own one waits.
LEMMA PushHolds ==
  ASSUME NEW n, NEW s, NEW m, NEW z, NEW e, NEW f, NEW q, NEW v, Held(n, s, m, z, e, f, q, v),
         f.a < m, f.b < n, Less(e[f.b], e[f.a]), ~Waiting(f) \/ Less(e[f.b], f.buf[f.t]),
         NEW d, d = [e EXCEPT ![f.a] = e[f.b]],
         NEW g, g = Ended([PushCall(f, e[f.a]) EXCEPT !.b = f.b + 1])
  PROVE  Holds(n, s, m, z, d, g, v)
<1>1. Found(n, s, m, z, e, f, q, v)
  BY HeldHas
<1>2. f \in Buffered /\ Len(f.buf) = z /\ f.aEnd = m /\ f.end = n + 1 /\ q = Filled(f.a, m)
      /\ (f.a < m => f.b < n + 1 /\ f.b - m < f.a) /\ z = n + 1 - m
  BY DEF Held
<1>3. PICK a, b, p : a = f.a /\ b = f.b /\ p = e[f.a]
  OBVIOUS
<1>4. /\ n \in Nat /\ m \in Nat /\ z \in Nat /\ q \in Nat /\ a \in Nat /\ b \in Nat /\ q = m
      /\ a < q /\ b < n + 1 /\ q <= b /\ 1 <= a /\ b - q < z /\ b - m < a /\ b + 1 - q < z
  <2>1. q = m
    BY <1>2 DEF Filled
  <2> QED BY <1>1, <1>2, <1>3, <2>1 DEF Found
<1>5. p \in Pairs /\ f.h \in 1 .. z
  BY <1>1, <1>3, <1>4 DEF Found
<1>6. PICK u : u = PushCall(f, p)
  OBVIOUS
<1>7. /\ u \in Buffered /\ u.aEnd = f.aEnd /\ u.end = f.end /\ Len(u.buf) = z
      /\ u.a = f.a /\ u.b = f.b /\ u.t = f.t /\ u.h = Following(f.h, z) /\ With(u.buf, f.buf, f.h, p)
  BY <1>2, <1>4, <1>5, <1>6, PushIs
<1>8. PICK w, c : w = [u EXCEPT !.b = c] /\ c = b + 1
  OBVIOUS
<1>9. /\ w \in Buffered /\ w.aEnd = m /\ w.end = n + 1 /\ w.buf = u.buf
      /\ w.a = a /\ w.b = b + 1 /\ w.t = f.t /\ w.h = u.h
  <2>1. c \in Nat
    BY <1>4, <1>8
  <2>2. /\ w \in Buffered /\ w.aEnd = u.aEnd /\ w.end = u.end /\ w.buf = u.buf
        /\ w.a = u.a /\ w.b = c /\ w.t = u.t /\ w.h = u.h
    BY <1>7, <1>8, <2>1, NextIs
  <2> QED BY <1>2, <1>3, <1>7, <1>8, <2>2
<1>10. g = Ended(w) /\ Len(w.buf) = z
  BY <1>3, <1>6, <1>7, <1>8, <1>9
<1>11. AsBefore(g, w, z) /\ g.a = a + 1 /\ g.b = b + 1 /\ g.h = u.h /\ g.t = f.t /\ g.buf = u.buf
  BY <1>4, <1>9, <1>10, EndedIs
<1>12. AsBefore(g, f, z)
  BY <1>2, <1>9, <1>11 DEF AsBefore
<1>13. PICK v2 : v2 = Exchange(v, a, b)
  OBVIOUS
<1>14. Together(v2, d, n, u.buf, z, f.t, u.h, q, b + 1)
  <2>1. Together(v, e, n, f.buf, z, f.t, f.h, q, b)
    BY <1>1, <1>3 DEF Found
  <2>2. With(d, e, a, e[b]) /\ With(u.buf, f.buf, f.h, e[a])
    BY <1>3, <1>7 DEF With
  <2> QED BY <1>4, <1>7, <1>13, <2>1, <2>2, WholePushed
<1>15. Straight(s, v2, n, a + 1, q, b + 1) /\ Moved(v, v2, n, a, n + 1)
  <2>1. v[a] = e[a] /\ v[b] = e[b] /\ s \in BOOLEAN /\ v \in [1 .. n -> Pairs] /\ Straight(s, v, n, a, q, b)
    BY <1>1, <1>3, <1>4 DEF Found
  <2>2. q = b \/ Less(v[b], v[q])
    BY <1>1, <1>3, <1>4, <2>1 DEF Found, Waiting
  <2>3. Less(v[b], v[a])
    BY <1>3, <2>1
  <2> QED BY <1>4, <1>13, <2>1, <2>2, <2>3, StraightPushed
<1>16. q = Filled(g.a, m) /\ (g.a < m => g.b < n + 1 /\ g.b - m < g.a)
  BY <1>3, <1>4, <1>11 DEF Filled
<1>17. /\ Together(v2, d, n, g.buf, z, g.t, g.h, q, g.b) /\ Straight(s, v2, n, g.a, q, g.b)
       /\ Moved(v, v2, n, f.a, n + 1)
  BY <1>3, <1>11, <1>14, <1>15
<1> QED BY <1>12, <1>16, <1>17, StepHolds

\* What a step of the first phase knows.
First(n, s, m, z, e, f, q, v, a, b) ==
  /\ n \in Nat /\ m \in Nat /\ z \in Nat /\ q \in Nat /\ a \in Nat /\ b \in Nat /\ q = m /\ s \in BOOLEAN
  /\ a < q /\ b < n + 1 /\ q <= b /\ 1 <= a /\ b - q < z /\ b - m < a /\ z = n + 1 - m
  /\ (s => z = m - 1) /\ f.t \in 1 .. z /\ f.h \in 1 .. z /\ f.buf \in [1 .. z -> Pairs]
  /\ e \in [1 .. n -> Pairs] /\ v \in [1 .. n -> Pairs] /\ Straight(s, v, n, a, q, b)
  /\ Together(v, e, n, f.buf, z, f.t, f.h, q, b)
  /\ v[a] = e[a] /\ v[b] = e[b] /\ (q < b => v[q] = f.buf[f.t])
  /\ (Waiting(f) <=> q < b) /\ f \in Buffered /\ Len(f.buf) = z

\* The first phase is that before all places of the first run are filled.
LEMMA FirstPhase ==
  ASSUME NEW n, NEW s, NEW m, NEW z, NEW e, NEW f, NEW q, NEW v, Held(n, s, m, z, e, f, q, v), f.a < m,
         NEW a, a = f.a, NEW b, b = f.b
  PROVE  First(n, s, m, z, e, f, q, v, a, b)
<1>1. Found(n, s, m, z, e, f, q, v)
  BY HeldHas
<1>2. q = m
  BY DEF Held, Filled
<1>3. b < n + 1 /\ b - m < a /\ z = n + 1 - m /\ (s => z = m - 1) /\ f \in Buffered /\ Len(f.buf) = z
  BY DEF Held
<1>4. Waiting(f) <=> q < b
  BY <1>1 DEF Found, Waiting
<1>5. /\ n \in Nat /\ m \in Nat /\ z \in Nat /\ q \in Nat /\ a \in Nat /\ b \in Nat /\ s \in BOOLEAN
      /\ q <= b /\ 1 <= a /\ b - q < z /\ f.t \in 1 .. z /\ f.h \in 1 .. z /\ f.buf \in [1 .. z -> Pairs]
  BY <1>1 DEF Found
<1>6. /\ e \in [1 .. n -> Pairs] /\ v \in [1 .. n -> Pairs] /\ Straight(s, v, n, a, q, b)
      /\ Together(v, e, n, f.buf, z, f.t, f.h, q, b)
      /\ v[a] = e[a] /\ v[b] = e[b] /\ (q < b => v[q] = f.buf[f.t])
  BY <1>1, <1>2, <1>3 DEF Found
<1> QED BY <1>2, <1>3, <1>4, <1>5, <1>6 DEF First

\* The last pair of b changes places with that of a.
LEMMA ExchangeHolds ==
  ASSUME NEW n, NEW s, NEW m, NEW z, NEW e, NEW f, NEW q, NEW v, Held(n, s, m, z, e, f, q, v),
         f.a < m, ~(f.b < n), Less(e[f.b], e[f.a]), ~Waiting(f) \/ Less(e[f.b], f.buf[f.t]),
         NEW d, d = Exchange(e, f.a, f.b), NEW g, g = Ended(f)
  PROVE  Holds(n, s, m, z, d, g, v)
<1>1. PICK a, b : a = f.a /\ b = f.b
  OBVIOUS
<1>2. /\ n \in Nat /\ m \in Nat /\ z \in Nat /\ q \in Nat /\ a \in Nat /\ b \in Nat /\ q = m /\ s \in BOOLEAN
      /\ a < q /\ b < n + 1 /\ q <= b /\ 1 <= a /\ b - q < z /\ b - m < a /\ z = n + 1 - m
      /\ (s => z = m - 1)
      /\ e \in [1 .. n -> Pairs] /\ v \in [1 .. n -> Pairs] /\ Straight(s, v, n, a, q, b)
      /\ Together(v, e, n, f.buf, z, f.t, f.h, q, b)
      /\ v[a] = e[a] /\ v[b] = e[b] /\ (q < b => v[q] = f.buf[f.t])
      /\ (Waiting(f) <=> q < b) /\ f \in Buffered /\ Len(f.buf) = z
  <2>1. First(n, s, m, z, e, f, q, v, a, b)
    BY <1>1, FirstPhase
  <2> QED BY <2>1 DEF First
<1>3. b = n /\ (s => a + 1 = q)
  BY <1>1, <1>2
<1>4. PICK v2 : v2 = Exchange(v, a, b)
  OBVIOUS
<1>5. Less(v[b], v[a]) /\ (q = b \/ Less(v[b], v[q])) /\ d = Exchange(e, a, b)
  BY <1>1, <1>2
<1>6. Straight(s, v2, n, a + 1, q, b) /\ Moved(v, v2, n, a, n + 1)
  BY <1>2, <1>3, <1>4, <1>5, StraightExchanged
<1>7. Together(v2, d, n, f.buf, z, f.t, f.h, q, b)
  BY <1>2, <1>4, <1>5, WholeExchanged
<1>8. AsBefore(g, f, z) /\ g.a = a + 1 /\ g.b = b /\ g.h = f.h /\ g.t = f.t /\ g.buf = f.buf
  BY <1>1, <1>2, EndedIs
<1>9. q = Filled(g.a, m) /\ (g.a < m => g.b < n + 1 /\ g.b - m < g.a)
  BY <1>2, <1>8 DEF Filled
<1>10. /\ Together(v2, d, n, g.buf, z, g.t, g.h, q, g.b) /\ Straight(s, v2, n, g.a, q, g.b)
       /\ Moved(v, v2, n, f.a, n + 1)
  BY <1>1, <1>6, <1>7, <1>8
<1> QED BY <1>8, <1>9, <1>10, StepHolds

\* The place a keeps its pair.
LEMMA StayHolds ==
  ASSUME NEW n, NEW s, NEW m, NEW z, NEW e, NEW f, NEW q, NEW v, Held(n, s, m, z, e, f, q, v),
         f.a < m, ~Less(e[f.b], e[f.a]), ~Waiting(f) \/ Less(e[f.b], f.buf[f.t]),
         NEW g, g = Ended(f)
  PROVE  Holds(n, s, m, z, e, g, v)
<1>1. PICK a, b : a = f.a /\ b = f.b
  OBVIOUS
<1>2. /\ n \in Nat /\ m \in Nat /\ z \in Nat /\ q \in Nat /\ a \in Nat /\ b \in Nat /\ q = m /\ s \in BOOLEAN
      /\ a < q /\ b < n + 1 /\ q <= b /\ 1 <= a /\ b - q < z /\ b - m < a /\ z = n + 1 - m
      /\ e \in [1 .. n -> Pairs] /\ v \in [1 .. n -> Pairs] /\ Straight(s, v, n, a, q, b)
      /\ Together(v, e, n, f.buf, z, f.t, f.h, q, b)
      /\ v[a] = e[a] /\ v[b] = e[b] /\ (q < b => v[q] = f.buf[f.t])
      /\ (Waiting(f) <=> q < b) /\ f \in Buffered /\ Len(f.buf) = z
  <2>1. First(n, s, m, z, e, f, q, v, a, b)
    BY <1>1, FirstPhase
  <2> QED BY <2>1 DEF First
<1>3. ~Less(v[b], v[a]) /\ (q < b => Less(v[b], v[q])) /\ v[b] \in Pairs
  <2>1. b \in 1 .. n
    BY <1>2
  <2> QED BY <1>1, <1>2, <2>1
<1>4. q = b
  <2> SUFFICES ASSUME q < b
               PROVE  FALSE
    BY <1>2
  <2>1. \A y \in Pairs : Less(y, v[q]) => Less(y, v[a])
    BY <1>2, WaitsBefore
  <2> QED BY <1>3, <2>1
<1>5. Straight(s, v, n, a + 1, q, b)
  BY <1>2, <1>3, <1>4, StraightStays
<1>6. Moved(v, v, n, a, n + 1)
  <2>1. n + 1 \in Nat
    BY <1>2
  <2> QED BY <1>2, <2>1, NothingMoved
<1>8. AsBefore(g, f, z) /\ g.a = a + 1 /\ g.b = b /\ g.h = f.h /\ g.t = f.t /\ g.buf = f.buf
  BY <1>1, <1>2, EndedIs
<1>9. q = Filled(g.a, m) /\ (g.a < m => g.b < n + 1 /\ g.b - m < g.a)
  BY <1>2, <1>8 DEF Filled
<1>10. /\ Together(v, e, n, g.buf, z, g.t, g.h, q, g.b) /\ Straight(s, v, n, g.a, q, g.b)
       /\ Moved(v, v, n, f.a, n + 1)
  BY <1>1, <1>2, <1>5, <1>6, <1>8
<1> QED BY <1>8, <1>9, <1>10, StepHolds

\* The place a is filled with the first pair of the buffer, and its own one waits.
LEMMA TurnHolds ==
  ASSUME NEW n, NEW s, NEW m, NEW z, NEW e, NEW f, NEW q, NEW v, Held(n, s, m, z, e, f, q, v),
         f.a < m, Waiting(f), ~Less(e[f.b], f.buf[f.t]),
         NEW d, d = [e EXCEPT ![f.a] = f.buf[f.t]],
         NEW g, g = Ended(Pop(PushCall(f, e[f.a])))
  PROVE  Holds(n, s, m, z, d, g, v)
<1>1. PICK a, b, p : a = f.a /\ b = f.b /\ p = e[f.a]
  OBVIOUS
<1>2. /\ n \in Nat /\ m \in Nat /\ z \in Nat /\ q \in Nat /\ a \in Nat /\ b \in Nat /\ q = m /\ s \in BOOLEAN
      /\ a < q /\ b < n + 1 /\ q <= b /\ 1 <= a /\ b - q < z /\ b - m < a /\ z = n + 1 - m
      /\ f.t \in 1 .. z /\ f.h \in 1 .. z
      /\ e \in [1 .. n -> Pairs] /\ v \in [1 .. n -> Pairs] /\ Straight(s, v, n, a, q, b)
      /\ Together(v, e, n, f.buf, z, f.t, f.h, q, b)
      /\ v[a] = e[a] /\ v[b] = e[b] /\ (q < b => v[q] = f.buf[f.t])
      /\ (Waiting(f) <=> q < b) /\ f \in Buffered /\ Len(f.buf) = z
  <2>1. First(n, s, m, z, e, f, q, v, a, b)
    BY <1>1, FirstPhase
  <2> QED BY <2>1 DEF First
<1>3. p \in Pairs /\ q < b
  <2>1. a \in 1 .. n
    BY <1>2
  <2> QED BY <1>1, <1>2, <2>1
<1>4. PICK u : u = PushCall(f, p)
  OBVIOUS
<1>16. PICK w : w = Pop(u)
  OBVIOUS
<1>5. /\ u \in Buffered /\ u.aEnd = f.aEnd /\ u.end = f.end /\ Len(u.buf) = z
      /\ u.a = f.a /\ u.b = f.b /\ u.t = f.t /\ u.h = Following(f.h, z) /\ With(u.buf, f.buf, f.h, p)
  <2>1. f \in Buffered /\ z \in Nat /\ Len(f.buf) = z /\ f.h \in 1 .. z /\ p \in Pairs
    BY <1>2, <1>3
  <2> QED BY <1>4, <2>1, PushIs
<1>6. /\ w \in Buffered /\ w.aEnd = u.aEnd /\ w.end = u.end /\ Len(w.buf) = z
      /\ w.a = u.a /\ w.b = u.b /\ w.h = u.h /\ w.t = Following(u.t, z) /\ w.buf = u.buf
  <2>1. z \in Nat /\ u \in Buffered /\ Len(u.buf) = z /\ u.t \in 1 .. z
    BY <1>2, <1>5
  <2> QED BY <1>16, <2>1, PopIs
<1>7. g = Ended(w)
  BY <1>1, <1>4, <1>16
<1>8. AsBefore(g, w, z) /\ g.a = w.a + 1 /\ g.b = w.b /\ g.h = w.h /\ g.t = w.t /\ g.buf = w.buf
  BY <1>2, <1>6, <1>7, EndedIs
<1>9. AsBefore(g, f, z)
  BY <1>5, <1>6, <1>8 DEF AsBefore
<1>10. PICK o, v2 : o = Exchange(v, a, q) /\ v2 = rotate(o, q, NextPlace(q, q, b), b)
  OBVIOUS
<1>11. Together(v2, d, n, u.buf, z, w.t, u.h, q, b)
  <2>1. With(d, e, a, f.buf[f.t]) /\ With(u.buf, f.buf, f.h, e[a])
    BY <1>1, <1>5 DEF With
  <2>2. w.t = Following(f.t, z) /\ u.h = Following(f.h, z)
    BY <1>5, <1>6
  <2> QED BY <1>2, <1>3, <1>10, <2>1, <2>2, WholeTurned
<1>12. Straight(s, v2, n, a + 1, q, b) /\ Moved(v, v2, n, a, n + 1)
  <2>1. ~NextLess(v, b, n + 1, v[q])
    BY <1>1, <1>2, <1>3 DEF NextLess
  <2> QED BY <1>2, <1>3, <1>10, <2>1, StraightTurned
<1>13. g.a = a + 1 /\ g.b = b
  BY <1>1, <1>5, <1>6, <1>8
<1>14. q = Filled(g.a, m) /\ (g.a < m => g.b < n + 1 /\ g.b - m < g.a)
  BY <1>2, <1>13 DEF Filled
<1>15. /\ Together(v2, d, n, g.buf, z, g.t, g.h, q, g.b) /\ Straight(s, v2, n, g.a, q, g.b)
       /\ Moved(v, v2, n, f.a, n + 1)
  BY <1>1, <1>6, <1>8, <1>11, <1>12, <1>13
<1> QED BY <1>9, <1>14, <1>15, StepHolds

\* What waits comes before the pair of a.
LEMMA WaitsFirst ==
  ASSUME NEW n, NEW s, NEW m, NEW z, NEW e, NEW f, NEW q, NEW v, Held(n, s, m, z, e, f, q, v),
         f.a < m, Waiting(f)
  PROVE  ~Less(e[f.a], f.buf[f.t])
<1>1. PICK a, b : a = f.a /\ b = f.b
  OBVIOUS
<1>2. /\ n \in Nat /\ q \in Nat /\ a \in Nat /\ b \in Nat /\ s \in BOOLEAN
      /\ a < q /\ v \in [1 .. n -> Pairs] /\ Straight(s, v, n, a, q, b)
      /\ v[a] = e[a] /\ (q < b => v[q] = f.buf[f.t]) /\ (Waiting(f) <=> q < b)
  <2>1. First(n, s, m, z, e, f, q, v, a, b)
    BY <1>1, FirstPhase
  <2> QED BY <2>1 DEF First
<1>3. ~Less(v[a], v[q])
  BY <1>2, WaitsBefore
<1> QED BY <1>1, <1>2, <1>3

\* What a step of the second phase knows: the place a is the first that is free.
Last(n, s, m, z, e, f, v, a, b) ==
  /\ n \in Nat /\ m \in Nat /\ z \in Nat /\ a \in Nat /\ b \in Nat /\ s \in BOOLEAN
  /\ 1 <= a /\ m <= a /\ a <= b /\ b <= n + 1 /\ b - a < z
  /\ f.t \in 1 .. z /\ f.buf \in [1 .. z -> Pairs]
  /\ e \in [1 .. n -> Pairs] /\ v \in [1 .. n -> Pairs] /\ Straight(s, v, n, a, a, b)
  /\ Together(v, e, n, f.buf, z, f.t, f.h, a, b)
  /\ (b < n + 1 => v[b] = e[b]) /\ (a < b => v[a] = f.buf[f.t])
  /\ (Waiting(f) <=> a < b) /\ f \in Buffered /\ Len(f.buf) = z

\* The second phase is that after it.
LEMMA SecondPhase ==
  ASSUME NEW n, NEW s, NEW m, NEW z, NEW e, NEW f, NEW q, NEW v, Held(n, s, m, z, e, f, q, v), f.a >= m,
         NEW a, a = f.a, NEW b, b = f.b
  PROVE  Last(n, s, m, z, e, f, v, a, b)
<1>1. Found(n, s, m, z, e, f, q, v)
  BY HeldHas
<1>2. q = a
  <2>1. q = Filled(a, m) /\ m \in Nat
    BY DEF Held
  <2>2. a \in Nat
    BY <1>1 DEF Found
  <2> QED BY <2>1, <2>2 DEF Filled
<1>3. f \in Buffered /\ Len(f.buf) = z
  BY DEF Held
<1>4. Waiting(f) <=> a < b
  BY <1>1, <1>2 DEF Found, Waiting
<1>5. /\ n \in Nat /\ m \in Nat /\ z \in Nat /\ a \in Nat /\ b \in Nat /\ s \in BOOLEAN
      /\ a <= b /\ 1 <= a /\ b - a < z /\ f.t \in 1 .. z /\ f.buf \in [1 .. z -> Pairs] /\ b <= n + 1
  BY <1>1, <1>2 DEF Found
<1>6. /\ e \in [1 .. n -> Pairs] /\ v \in [1 .. n -> Pairs] /\ Straight(s, v, n, a, a, b)
      /\ Together(v, e, n, f.buf, z, f.t, f.h, a, b)
      /\ (b < n + 1 => v[b] = e[b]) /\ (a < b => v[a] = f.buf[f.t])
  BY <1>1, <1>2 DEF Found
<1> QED BY <1>3, <1>4, <1>5, <1>6 DEF Last

\* The place a is filled with the first pair of the buffer.
LEMMA PopHolds ==
  ASSUME NEW n, NEW s, NEW m, NEW z, NEW e, NEW f, NEW q, NEW v, Held(n, s, m, z, e, f, q, v),
         f.a >= m, Waiting(f), f.b = n + 1 \/ ~Less(e[f.b], f.buf[f.t]),
         NEW d, d = [e EXCEPT ![f.a] = f.buf[f.t]],
         NEW g, g = Ended(Pop(f))
  PROVE  Holds(n, s, m, z, d, g, v)
<1>1. PICK a, b : a = f.a /\ b = f.b
  OBVIOUS
<1>2. Last(n, s, m, z, e, f, v, a, b)
  BY <1>1, SecondPhase
<1>3. /\ n \in Nat /\ m \in Nat /\ z \in Nat /\ a \in Nat /\ b \in Nat /\ s \in BOOLEAN
      /\ 1 <= a /\ m <= a /\ a < b /\ b <= n + 1 /\ f.t \in 1 .. z
      /\ v \in [1 .. n -> Pairs] /\ Straight(s, v, n, a, a, b)
      /\ Together(v, e, n, f.buf, z, f.t, f.h, a, b)
      /\ (b < n + 1 => v[b] = e[b]) /\ v[a] = f.buf[f.t]
  BY <1>2 DEF Last
<1>4. f \in Buffered /\ Len(f.buf) = z
  BY <1>2 DEF Last
<1>5. PICK w : w = Pop(f)
  OBVIOUS
<1>6. /\ w \in Buffered /\ w.aEnd = f.aEnd /\ w.end = f.end /\ Len(w.buf) = z
      /\ w.a = f.a /\ w.b = f.b /\ w.h = f.h /\ w.t = Following(f.t, z) /\ w.buf = f.buf
  BY <1>3, <1>4, <1>5, PopIs
<1>7. g = Ended(w)
  BY <1>5
<1>8. AsBefore(g, w, z) /\ g.a = w.a + 1 /\ g.b = w.b /\ g.h = w.h /\ g.t = w.t /\ g.buf = w.buf
  BY <1>3, <1>6, <1>7, EndedIs
<1>9. AsBefore(g, f, z)
  BY <1>6, <1>8 DEF AsBefore
<1>10. Together(v, d, n, f.buf, z, w.t, f.h, a + 1, b)
  <2>1. With(d, e, a, f.buf[f.t])
    BY <1>1 DEF With
  <2>2. w.t = Following(f.t, z)
    BY <1>6
  <2> QED BY <1>3, <2>1, <2>2, WholePopped
<1>11. Straight(s, v, n, a + 1, a + 1, b)
  <2>1. ~NextLess(v, b, n + 1, v[a])
    BY <1>1, <1>3 DEF NextLess
  <2> QED BY <1>3, <2>1, StraightPopped
<1>12. Moved(v, v, n, a, n + 1)
  <2>1. n + 1 \in Nat
    BY <1>3
  <2> QED BY <1>3, <2>1, NothingMoved
<1>13. g.a = a + 1 /\ g.b = b /\ g.t = w.t /\ g.h = f.h /\ g.buf = f.buf
  BY <1>1, <1>6, <1>8
<1>14. a + 1 = Filled(g.a, m) /\ ~(g.a < m)
  BY <1>3, <1>13 DEF Filled
<1>15. PICK c : c = a + 1
  OBVIOUS
<1>16. /\ Together(v, d, n, g.buf, z, g.t, g.h, c, g.b) /\ Straight(s, v, n, g.a, c, g.b)
       /\ Moved(v, v, n, f.a, n + 1) /\ c = Filled(g.a, m)
       /\ (g.a < m => g.b < n + 1 /\ g.b - m < g.a)
  BY <1>1, <1>10, <1>11, <1>12, <1>13, <1>14, <1>15
<1> QED BY <1>9, <1>16, StepHolds

\* The place a is filled with the first pair of b.
LEMMA TakeHolds ==
  ASSUME NEW n, NEW s, NEW m, NEW z, NEW e, NEW f, NEW q, NEW v, Held(n, s, m, z, e, f, q, v),
         f.a >= m, f.b < n + 1, ~Waiting(f) \/ Less(e[f.b], f.buf[f.t]),
         NEW d, d = [e EXCEPT ![f.a] = e[f.b]],
         NEW g, g = Ended([f EXCEPT !.b = f.b + 1])
  PROVE  Holds(n, s, m, z, d, g, v)
<1>1. PICK a, b : a = f.a /\ b = f.b
  OBVIOUS
<1>2. Last(n, s, m, z, e, f, v, a, b)
  BY <1>1, SecondPhase
<1>3. /\ n \in Nat /\ m \in Nat /\ z \in Nat /\ a \in Nat /\ b \in Nat /\ s \in BOOLEAN
      /\ 1 <= a /\ m <= a /\ a <= b /\ b < n + 1
      /\ v \in [1 .. n -> Pairs] /\ Straight(s, v, n, a, a, b)
      /\ Together(v, e, n, f.buf, z, f.t, f.h, a, b)
      /\ v[b] = e[b] /\ (a < b => v[a] = f.buf[f.t])
      /\ (Waiting(f) <=> a < b)
  BY <1>1, <1>2 DEF Last
<1>4. f \in Buffered /\ Len(f.buf) = z
  BY <1>2 DEF Last
<1>5. PICK w, c : w = [f EXCEPT !.b = c] /\ c = b + 1
  OBVIOUS
<1>6. /\ w \in Buffered /\ w.aEnd = f.aEnd /\ w.end = f.end /\ w.buf = f.buf
      /\ w.a = f.a /\ w.b = c /\ w.t = f.t /\ w.h = f.h
  <2>1. c \in Nat
    BY <1>3, <1>5
  <2> QED BY <1>4, <1>5, <2>1, NextIs
<1>7. g = Ended(w) /\ Len(w.buf) = z
  BY <1>1, <1>4, <1>5, <1>6
<1>8. AsBefore(g, w, z) /\ g.a = w.a + 1 /\ g.b = w.b /\ g.h = w.h /\ g.t = w.t /\ g.buf = w.buf
  BY <1>3, <1>6, <1>7, EndedIs
<1>9. AsBefore(g, f, z)
  BY <1>6, <1>8 DEF AsBefore
<1>10. PICK v2 : v2 = rotate(v, a, b, b + 1)
  OBVIOUS
<1>11. Together(v2, d, n, f.buf, z, f.t, f.h, a + 1, b + 1)
  <2>1. With(d, e, a, e[b])
    BY <1>1 DEF With
  <2> QED BY <1>3, <1>10, <2>1, WholeTaken
<1>12. Straight(s, v2, n, a + 1, a + 1, b + 1) /\ Moved(v, v2, n, a, n + 1)
  <2>1. a = b \/ Less(v[b], v[a])
    BY <1>1, <1>3
  <2> QED BY <1>3, <1>10, <2>1, StraightTaken
<1>13. g.a = a + 1 /\ g.b = b + 1 /\ g.t = f.t /\ g.h = f.h /\ g.buf = f.buf
  BY <1>1, <1>5, <1>6, <1>8
<1>14. a + 1 = Filled(g.a, m) /\ ~(g.a < m)
  BY <1>3, <1>13 DEF Filled
<1>15. PICK p : p = a + 1
  OBVIOUS
<1>16. /\ Together(v2, d, n, g.buf, z, g.t, g.h, p, g.b) /\ Straight(s, v2, n, g.a, p, g.b)
       /\ Moved(v, v2, n, f.a, n + 1) /\ p = Filled(g.a, m)
       /\ (g.a < m => g.b < n + 1 /\ g.b - m < g.a)
  BY <1>1, <1>11, <1>12, <1>13, <1>14, <1>15
<1> QED BY <1>9, <1>16, StepHolds

\* The array is filled.
LEMMA AllFilled ==
  ASSUME NEW n, NEW s, NEW m, NEW z, NEW e, NEW f, NEW q, NEW v, Held(n, s, m, z, e, f, q, v),
         f.a >= m, f.b = n + 1, ~Waiting(f)
  PROVE  Sorted(s, e, 1, n + 1) /\ v = e
<1>1. PICK a, b : a = f.a /\ b = f.b
  OBVIOUS
<1>2. Last(n, s, m, z, e, f, v, a, b)
  BY <1>1, SecondPhase
<1>3. /\ n \in Nat /\ a = n + 1 /\ b = n + 1 /\ s \in BOOLEAN /\ a \in Nat /\ b \in Nat
      /\ e \in [1 .. n -> Pairs] /\ v \in [1 .. n -> Pairs] /\ Straight(s, v, n, a, a, b)
      /\ Together(v, e, n, f.buf, z, f.t, f.h, a, b)
  BY <1>1, <1>2 DEF Last
<1>4. Sorted(s, v, 1, n + 1)
  <2>1. Sorted(s, v, 1, a)
    BY <1>3, StraightIs
  <2> QED BY <1>3, <2>1
<1>5. Has(v, e, n, f.buf, z, f.t, a, b)
  BY <1>3, WholeIsArray
<1>6. v = e
  <2>1. \A i \in 1 .. n : v[i] = e[i]
    BY <1>3, <1>5 DEF Has
  <2> QED BY <1>3, <2>1
<1> QED BY <1>4, <1>6

\* The array as merge() would have it.
Seen == Whole(array, Top.buf, Top.t, End - cut, Filled(Top.a, cut), Top.b)

\* What a step finds when the invariant holds.
LEMMA AtBuffer ==
  ASSUME MergeInv, how = "buffer", calls # <<>>,
         NEW n, n = Len(array), NEW s, s = Stable, NEW m, m = cut, NEW z, z = End - cut,
         NEW f, f = Top, NEW q, q = Filled(Top.a, cut), NEW v, v = Seen
  PROVE  /\ Held(n, s, m, z, array, f, q, v)
         /\ calls \in Seq(Buffered) /\ Len(calls) = 1 /\ SamePairs(v, unmerged)
<1>1. /\ array \in Seq(Pairs) /\ m \in Nat /\ 1 < m /\ m < n + 1 /\ z < m /\ z = n + 1 - m
  BY DEF MergeInv, End
<1>2. /\ Len(calls) = 1 /\ calls \in Seq(Buffered)
      /\ Filling(s, array, calls[1], n, m)
      /\ SamePairs(Whole(array, calls[1].buf, calls[1].t, z, Filled(calls[1].a, m), calls[1].b), unmerged)
  BY DEF MergeInv, BufferInv
<1>3. f = calls[1] /\ f \in Buffered
  BY <1>2 DEF Top
<1>4. n \in Nat /\ array \in [1 .. n -> Pairs]
  <2>1. array \in Seq(Pairs)
    BY <1>1
  <2> QED BY <2>1
<1>5. s \in BOOLEAN /\ (s => z = m - 1)
  BY DEF Stable
<1>6. q = Filled(f.a, m) /\ v = Whole(array, f.buf, f.t, z, q, f.b)
  BY DEF Seen
<1>7. Held(n, s, m, z, array, f, q, v)
  <2>1. Filling(s, array, f, n, m)
    BY <1>2, <1>3
  <2> QED BY <1>1, <1>3, <1>4, <1>5, <1>6, <2>1, FillingIsHeld
<1>8. SamePairs(v, unmerged)
  BY <1>2, <1>3, <1>6
<1> QED BY <1>2, <1>7, <1>8

\* One call becomes another.
LEMMA OnlyCall ==
  ASSUME NEW c, c \in Seq(Buffered), Len(c) = 1, NEW g \in Buffered
  PROVE  LET x == <<g>> \o Tail(c)
         IN  x \in Seq(Buffered) /\ Len(x) = 1 /\ x[1] = g
<1>1. PICK t : t = Tail(c)
  OBVIOUS
<1>2. t \in Seq(Buffered) /\ Len(t) = 0
  <2>1. c # <<>>
    <3> SUFFICES ASSUME c = <<>>
                 PROVE  FALSE
      OBVIOUS
    <3>1. Len(<<>>) = 0
      OBVIOUS
    <3>2. Len(c) = 0
      BY <3>1
    <3> QED BY <3>2
  <2>2. Tail(c) \in Seq(Buffered) /\ Len(Tail(c)) = Len(c) - 1
    BY <2>1, TopRemoved
  <2> QED BY <1>1, <2>2
<1>3. PICK o : o = <<g>>
  OBVIOUS
<1>4. o \in Seq(Buffered) /\ Len(o) = 1 /\ o[1] = g
  BY <1>3
<1>5. (o \o t) \in Seq(Buffered) /\ Len(o \o t) = 1 /\ (o \o t)[1] = g
  BY <1>2, <1>4
<1> QED BY <1>1, <1>3, <1>5

\* A step that keeps the array of merge() keeps the invariant.
LEMMA BufferMoves ==
  ASSUME MergeInv, how = "buffer", calls # <<>>, Calling, UNCHANGED <<unmerged, cut>>,
         NEW n, n = Len(array), NEW s, s = Stable, NEW m, m = cut, NEW z, z = End - cut, NEW v, v = Seen,
         NEW d, NEW g, Holds(n, s, m, z, d, g, v), array' = d, calls' = <<g>> \o Tail(calls)
  PROVE  MergeInv'
<1>1. /\ Held(n, s, m, z, array, Top, Filled(Top.a, cut), v)
      /\ calls \in Seq(Buffered) /\ Len(calls) = 1 /\ SamePairs(v, unmerged)
  BY AtBuffer
<1>2. PICK v2 : Held(n, s, m, z, d, g, Filled(g.a, m), v2) /\ Moved(v, v2, n, 1, n + 1)
  BY DEF Holds
<1>3. n \in Nat /\ d \in [1 .. n -> Pairs] /\ g \in Buffered /\ m \in Nat /\ z = n + 1 - m
  BY <1>2 DEF Held
<1>4. calls' \in Seq(Buffered) /\ Len(calls') = 1 /\ calls'[1] = g
  BY <1>1, <1>3, OnlyCall
<1>5. how' = how
  <2>1. PICK j, k : j = Len(calls') /\ k = Len(calls)
    OBVIOUS
  <2>2. j = 1 /\ k = 1
    BY <1>1, <1>4, <2>1
  <2>3. ~(j > k)
    BY <2>2
  <2> QED BY <2>1, <2>3 DEF Calling
<1>6. array' \in Seq(Pairs) /\ Len(array') = n /\ End' = End
  <2>1. d \in Seq(Pairs) /\ Len(d) = n
    BY <1>3
  <2> QED BY <2>1 DEF End
<1>7. Stable' = s
  BY <1>5, <1>6 DEF Stable
<1>8. /\ Filling(s, d, g, n, m) /\ v2 = Whole(d, g.buf, g.t, z, Filled(g.a, m), g.b)
  BY <1>2, HeldIsFilling
<1>9. SamePairs(v2, unmerged)
  <2>1. v \in [1 .. n -> Pairs]
    BY <1>1, HeldHas DEF Found
  <2>2. 1 <= 1 /\ n + 1 <= n + 1 /\ n + 1 \in Nat /\ 1 \in Nat
    BY <1>3
  <2> QED BY <1>1, <1>2, <1>3, <2>1, <2>2, MovedKeepsPairs
<1>10. /\ Filling(Stable', array', calls'[1], Len(array'), cut')
       /\ SamePairs(Whole(array', calls'[1].buf, calls'[1].t, End' - cut', Filled(calls'[1].a, cut'), calls'[1].b),
                    unmerged')
  BY <1>4, <1>6, <1>7, <1>8, <1>9
<1>11. BufferInv'
  BY <1>4, <1>10 DEF BufferInv
<1>12. /\ unmerged' \in Seq(Pairs) /\ Len(array') = Len(unmerged') /\ cut' \in Nat
       /\ 1 < cut' /\ cut' < End' /\ End' - cut' < cut'
  BY <1>6 DEF MergeInv
<1> QED BY <1>5, <1>6, <1>11, <1>12 DEF MergeInv

\* Each action does: while both runs have pairs,
LEMMA BufferBothKeeps ==
  ASSUME MergeInv, how = "buffer", Calling, UNCHANGED <<unmerged, cut>>, buffer_both
  PROVE  MergeInv'
<1>1. PICK n, s, m, z, f, q, v :
        /\ n = Len(array) /\ s = Stable /\ m = cut /\ z = End - cut
        /\ f = Top /\ q = Filled(Top.a, cut) /\ v = Seen
  OBVIOUS
<1>2. calls # <<>>
  BY DEF buffer_both, WithBuffer
<1>3. Held(n, s, m, z, array, f, q, v)
  BY <1>1, <1>2, AtBuffer
<1>4. f.aEnd = m /\ f.end = n + 1 /\ n \in Nat
  BY <1>3 DEF Held
<1>5. PICK e : e = array
  OBVIOUS
<1>6. /\ f.a < m
      /\ IF ~Waiting(f) \/ Less(e[f.b], f.buf[f.t])
         THEN IF ~Less(e[f.b], e[f.a])
              THEN EndBuffered(e, f)
              ELSE IF f.b < n
              THEN EndBuffered([e EXCEPT ![f.a] = e[f.b]], [PushCall(f, e[f.a]) EXCEPT !.b = f.b + 1])
              ELSE EndBuffered(Exchange(e, f.a, f.b), f)
         ELSE IF ~Less(e[f.a], f.buf[f.t])
              THEN EndBuffered([e EXCEPT ![f.a] = f.buf[f.t]], Pop(PushCall(f, e[f.a])))
              ELSE EndBuffered(e, f)
  <2>1. f.end - 1 = n
    BY <1>4
  <2> QED BY <1>1, <1>4, <1>5, <2>1 DEF buffer_both
<1>7. Held(n, s, m, z, e, f, q, v)
  BY <1>3, <1>5
<1>8. ASSUME NEW d, NEW g, EndBuffered(d, g), Holds(n, s, m, z, d, Ended(g), v)
      PROVE  MergeInv'
  <2>1. array' = d /\ calls' = <<Ended(g)>> \o Tail(calls)
    BY <1>8 DEF EndBuffered, Ended
  <2> QED BY <1>1, <1>2, <1>8, <2>1, BufferMoves
<1>9. CASE (~Waiting(f) \/ Less(e[f.b], f.buf[f.t])) /\ ~Less(e[f.b], e[f.a])
  <2>1. Holds(n, s, m, z, e, Ended(f), v)
    BY <1>6, <1>7, <1>9, StayHolds
  <2> QED BY <1>6, <1>8, <1>9, <2>1
<1>10. CASE (~Waiting(f) \/ Less(e[f.b], f.buf[f.t])) /\ Less(e[f.b], e[f.a]) /\ f.b < n
  <2>1. PICK d, g : d = [e EXCEPT ![f.a] = e[f.b]] /\ g = [PushCall(f, e[f.a]) EXCEPT !.b = f.b + 1]
    OBVIOUS
  <2>2. Holds(n, s, m, z, d, Ended(g), v)
    BY <1>6, <1>7, <1>10, <2>1, PushHolds
  <2>3. EndBuffered(d, g)
    BY <1>6, <1>10, <2>1
  <2> QED BY <1>8, <2>2, <2>3
<1>11. CASE (~Waiting(f) \/ Less(e[f.b], f.buf[f.t])) /\ Less(e[f.b], e[f.a]) /\ ~(f.b < n)
  <2>1. PICK d : d = Exchange(e, f.a, f.b)
    OBVIOUS
  <2>2. Holds(n, s, m, z, d, Ended(f), v)
    BY <1>6, <1>7, <1>11, <2>1, ExchangeHolds
  <2>3. EndBuffered(d, f)
    BY <1>6, <1>11, <2>1
  <2> QED BY <1>8, <2>2, <2>3
<1>12. CASE Waiting(f) /\ ~Less(e[f.b], f.buf[f.t])
  <2>1. PICK d, g : d = [e EXCEPT ![f.a] = f.buf[f.t]] /\ g = Pop(PushCall(f, e[f.a]))
    OBVIOUS
  <2>2. Holds(n, s, m, z, d, Ended(g), v)
    BY <1>6, <1>7, <1>12, <2>1, TurnHolds
  <2>3. ~Less(e[f.a], f.buf[f.t])
    BY <1>6, <1>7, <1>12, WaitsFirst
  <2>4. EndBuffered(d, g)
    BY <1>6, <1>12, <2>1, <2>3
  <2> QED BY <1>8, <2>2, <2>4
<1> QED BY <1>9, <1>10, <1>11, <1>12

\* when the first is filled, and when only the buffer has pairs,
LEMMA BufferSecondKeeps ==
  ASSUME MergeInv, how = "buffer", Calling, UNCHANGED <<unmerged, cut>>, buffer_second \/ buffer_flush
  PROVE  MergeInv'
<1>1. PICK n, s, m, z, f, q, v :
        /\ n = Len(array) /\ s = Stable /\ m = cut /\ z = End - cut
        /\ f = Top /\ q = Filled(Top.a, cut) /\ v = Seen
  OBVIOUS
<1>2. calls # <<>>
  BY DEF buffer_second, buffer_flush, WithBuffer
<1>3. Held(n, s, m, z, array, f, q, v)
  BY <1>1, <1>2, AtBuffer
<1>4. f.aEnd = m /\ f.end = n + 1 /\ n \in Nat
  BY <1>3 DEF Held
<1>5. PICK e : e = array
  OBVIOUS
<1>6. /\ f.a >= m
      /\ \/ /\ f.b < n + 1
            /\ IF Waiting(f) /\ ~Less(e[f.b], f.buf[f.t])
               THEN EndBuffered([e EXCEPT ![f.a] = f.buf[f.t]], Pop(f))
               ELSE EndBuffered([e EXCEPT ![f.a] = e[f.b]], [f EXCEPT !.b = f.b + 1])
         \/ /\ f.b = n + 1 /\ Waiting(f)
            /\ EndBuffered([e EXCEPT ![f.a] = f.buf[f.t]], Pop(f))
  BY <1>1, <1>4, <1>5 DEF buffer_second, buffer_flush
<1>7. Held(n, s, m, z, e, f, q, v)
  BY <1>3, <1>5
<1>8. ASSUME NEW d, NEW g, EndBuffered(d, g), Holds(n, s, m, z, d, Ended(g), v)
      PROVE  MergeInv'
  <2>1. array' = d /\ calls' = <<Ended(g)>> \o Tail(calls)
    BY <1>8 DEF EndBuffered, Ended
  <2> QED BY <1>1, <1>2, <1>8, <2>1, BufferMoves
<1>9. CASE Waiting(f) /\ (f.b = n + 1 \/ ~Less(e[f.b], f.buf[f.t]))
  <2>1. PICK d, g : d = [e EXCEPT ![f.a] = f.buf[f.t]] /\ g = Pop(f)
    OBVIOUS
  <2>2. Holds(n, s, m, z, d, Ended(g), v)
    BY <1>6, <1>7, <1>9, <2>1, PopHolds
  <2>3. EndBuffered(d, g)
    BY <1>4, <1>6, <1>9, <2>1
  <2> QED BY <1>8, <2>2, <2>3
<1>10. CASE f.b < n + 1 /\ (~Waiting(f) \/ Less(e[f.b], f.buf[f.t]))
  <2>1. PICK d, g : d = [e EXCEPT ![f.a] = e[f.b]] /\ g = [f EXCEPT !.b = f.b + 1]
    OBVIOUS
  <2>2. Holds(n, s, m, z, d, Ended(g), v)
    BY <1>6, <1>7, <1>10, <2>1, TakeHolds
  <2>3. EndBuffered(d, g)
    BY <1>4, <1>6, <1>10, <2>1
  <2> QED BY <1>8, <2>2, <2>3
<1> QED BY <1>6, <1>9, <1>10

\* and when the function returns.
LEMMA BufferReturnKeeps ==
  ASSUME MergeInv, how = "buffer", Calling, UNCHANGED <<unmerged, cut>>, buffer_return
  PROVE  MergeInv'
<1>1. PICK n, s, m, z, f, q, v :
        /\ n = Len(array) /\ s = Stable /\ m = cut /\ z = End - cut
        /\ f = Top /\ q = Filled(Top.a, cut) /\ v = Seen
  OBVIOUS
<1>2. calls # <<>> /\ calls' = Tail(calls) /\ array' = array
  BY DEF buffer_return, WithBuffer
<1>3. /\ Held(n, s, m, z, array, f, q, v)
      /\ calls \in Seq(Buffered) /\ Len(calls) = 1 /\ SamePairs(v, unmerged)
  BY <1>1, <1>2, AtBuffer
<1>4. f.aEnd = m /\ f.end = n + 1 /\ n \in Nat
  BY <1>3 DEF Held
<1>5. f.a >= m /\ f.b = n + 1 /\ ~Waiting(f)
  BY <1>1, <1>4 DEF buffer_return
<1>6. Sorted(s, array, 1, n + 1) /\ v = array
  BY <1>3, <1>5, AllFilled
<1>7. calls' = <<>>
  BY <1>2, <1>3
<1>8. how' = how
  BY <1>3, <1>7 DEF Calling
<1>9. Stable' = s /\ End' = n + 1
  BY <1>1, <1>2, <1>8 DEF Stable, End
<1>10. BufferInv'
  BY <1>2, <1>3, <1>6, <1>7, <1>9 DEF BufferInv
<1>11. /\ array' \in Seq(Pairs) /\ unmerged' \in Seq(Pairs) /\ Len(array') = Len(unmerged') /\ cut' \in Nat
       /\ 1 < cut' /\ cut' < End' /\ End' - cut' < cut'
  BY <1>2 DEF MergeInv, End
<1> QED BY <1>8, <1>10, <1>11 DEF MergeInv

\* A step of merge_with_buffer_fast() keeps the invariant.
LEMMA BufferStays ==
  ASSUME MergeInv, how = "buffer", MergeNext
  PROVE  MergeInv'
<1>1. Calling /\ UNCHANGED <<unmerged, cut>>
  BY DEF MergeNext
<1>2. calls # <<>> => calls \in Seq(Buffered) /\ Top.kind = "buffer"
  <2> SUFFICES ASSUME calls # <<>>
               PROVE  calls \in Seq(Buffered) /\ Top.kind = "buffer"
    OBVIOUS
  <2>1. calls \in Seq(Buffered)
    BY DEF MergeInv, BufferInv
  <2>2. Top \in Buffered
    BY <2>1 DEF Top
  <2> QED BY <2>1, <2>2 DEF Buffered
<1>3. CASE buffer_both
  BY <1>1, <1>3, BufferBothKeeps
<1>4. CASE buffer_second \/ buffer_flush
  BY <1>1, <1>4, BufferSecondKeeps
<1>5. CASE buffer_return
  BY <1>1, <1>5, BufferReturnKeeps
<1>6. CASE Returned
  <2>1. calls' = calls /\ array' = array /\ calls = <<>>
    BY <1>6 DEF Returned
  <2>2. how' = how
    BY <1>1, <2>1 DEF Calling
  <2> QED BY <1>1, <2>1, <2>2 DEF MergeInv, BufferInv, End, Stable
<1> QED BY <1>2, <1>3, <1>4, <1>5, <1>6
        DEF MergeNext, Step, merge_run, merge_queue, merge_plain, merge_return, InPlace

-----------------------------------------------------------------------------
(* The beginning and the end.                                              *)

\* Keys that are sorted are in order at any two places.
LEMMA KeysAscend ==
  ASSUME NEW k \in Seq(Nat), KeysSorted(k), NEW i \in 1 .. Len(k), NEW j \in 1 .. Len(k), i < j
  PROVE  k[i] <= k[j]
<1>0. \A u \in 1 .. Len(k) : k[u] \in Nat
  OBVIOUS
<1> DEFINE T == {x \in i .. Len(k) : ~(k[i] <= k[x])}
<1> SUFFICES ASSUME T # {}
             PROVE  FALSE
  OBVIOUS
<1>1. T \in SUBSET Nat
  OBVIOUS
<1>2. PICK x \in T : \A y \in T : x <= y
  <2> HIDE DEF T
  <2> QED BY <1>1, LeastMember
<1>3. k[i] \in Nat /\ x \in i .. Len(k) /\ ~(k[i] <= k[x]) /\ Len(k) \in Nat
  BY <1>2
<1>4. x # i
  BY <1>3
<1>5. PICK w : w = x - 1
  OBVIOUS
<1>6. w \in i .. Len(k) /\ w \in 1 .. Len(k) - 1 /\ w + 1 = x /\ ~(w >= x)
  BY <1>3, <1>4, <1>5
<1>7. ~(w \in T)
  BY <1>2, <1>6
<1>8. k[i] <= k[w]
  BY <1>6, <1>7
<1>9. k[w] <= k[w + 1]
  BY <1>6 DEF KeysSorted
<1>10. k[w] \in Nat /\ k[x] \in Nat
  <2>1. w \in 1 .. Len(k) /\ x \in 1 .. Len(k)
    BY <1>3, <1>6
  <2> QED BY <1>0, <2>1
<1>11. PICK p, r, u : p = k[i] /\ r = k[w] /\ u = k[x]
  OBVIOUS
<1>12. p \in Nat /\ r \in Nat /\ u \in Nat /\ p <= r /\ r <= u /\ ~(p <= u)
  BY <1>3, <1>6, <1>8, <1>9, <1>10, <1>11
<1> QED BY <1>12

\* Two runs as they are given.
Given(e, k, l, m, n) ==
  /\ k \in Seq(Nat) /\ l \in Seq(Nat) /\ k # <<>> /\ l # <<>> /\ KeysSorted(k) /\ KeysSorted(l)
  /\ m = Len(k) + 1 /\ n = Len(k) + Len(l)
  /\ e = [i \in 1 .. n |-> Pair(IF i < m THEN k[i] ELSE l[i - m + 1], i)]

\* The two runs are in order, and their pairs are numbered.
LEMMA GivenAreOrdered ==
  ASSUME NEW e, NEW k, NEW l, NEW m, NEW n, Given(e, k, l, m, n), NEW s \in BOOLEAN
  PROVE  /\ n \in Nat /\ m \in Nat /\ 1 < m /\ m < n + 1 /\ e \in [1 .. n -> Pairs]
         /\ Straight(s, e, n, 1, m, m)
<1> USE DEF Given
<1>1. n \in Nat /\ m \in Nat /\ 1 < m /\ m < n + 1 /\ m - 1 = Len(k) /\ n - m + 1 = Len(l)
  OBVIOUS
<1>2. ASSUME NEW i \in 1 .. m - 1
      PROVE  i \in 1 .. Len(k) /\ e[i] = Pair(k[i], i) /\ k[i] \in Nat
  BY <1>1
<1>3. ASSUME NEW i \in m .. n
      PROVE  i - m + 1 \in 1 .. Len(l) /\ e[i] = Pair(l[i - m + 1], i) /\ l[i - m + 1] \in Nat
  BY <1>1
<1>4. ASSUME NEW i \in 1 .. n
      PROVE  e[i] \in Pairs /\ e[i].second = i
  <2>1. CASE i < m
    <3>1. i \in 1 .. m - 1 /\ i \in Nat
      BY <1>1, <2>1
    <3> QED BY <1>2, <3>1 DEF Pair, Pairs
  <2>2. CASE ~(i < m)
    <3>1. i \in m .. n /\ i \in Nat
      BY <1>1, <2>2
    <3> QED BY <1>3, <3>1 DEF Pair, Pairs
  <2> QED BY <2>1, <2>2
<1>5. e \in [1 .. n -> Pairs]
  BY <1>4
<1>6. ASSUME NEW i \in 1 .. n, NEW j \in 1 .. n, i < j, e[i].first <= e[j].first
      PROVE  Ordered(s, e[i], e[j])
  <2>1. e[i].first \in Nat /\ e[j].first \in Nat /\ e[i].second = i /\ e[j].second = j
    BY <1>4 DEF Pairs
  <2> QED BY <1>6, <2>1 DEF Ordered, Less
<1>7. Sorted(s, e, 1, m)
  <2> SUFFICES ASSUME NEW i \in 1 .. m - 1, NEW j \in 1 .. m - 1, i < j
               PROVE  Ordered(s, e[i], e[j])
    BY DEF Sorted
  <2>1. k[i] <= k[j]
    BY <1>2, KeysAscend
  <2>2. e[i].first = k[i] /\ e[j].first = k[j]
    BY <1>2 DEF Pair
  <2>3. i \in 1 .. n /\ j \in 1 .. n
    BY <1>1
  <2> QED BY <1>6, <2>1, <2>2, <2>3
<1>8. Sorted(s, e, m, n + 1)
  <2> SUFFICES ASSUME NEW i \in m .. (n + 1) - 1, NEW j \in m .. (n + 1) - 1, i < j
               PROVE  Ordered(s, e[i], e[j])
    BY DEF Sorted
  <2>1. PICK x, y : x = i - m + 1 /\ y = j - m + 1
    OBVIOUS
  <2>2. i \in m .. n /\ j \in m .. n /\ x < y /\ i \in 1 .. n /\ j \in 1 .. n
    BY <1>1, <2>1
  <2>3. x \in 1 .. Len(l) /\ y \in 1 .. Len(l) /\ e[i].first = l[x] /\ e[j].first = l[y]
    BY <1>3, <2>1, <2>2 DEF Pair
  <2>4. l[x] <= l[y]
    BY <2>2, <2>3, KeysAscend
  <2> QED BY <1>6, <2>2, <2>3, <2>4
<1>9. Sides(s, e, 1, m, m, n + 1)
  <2> SUFFICES ASSUME NEW i \in 1 .. m - 1, NEW j \in m .. (n + 1) - 1, ~Less(e[j], e[i])
               PROVE  Ordered(s, e[i], e[j])
    BY DEF Sides
  <2>1. i \in 1 .. n /\ j \in 1 .. n /\ i < j
    BY <1>1
  <2>2. e[i].first \in Nat /\ e[j].first \in Nat
    BY <1>4, <2>1 DEF Pairs
  <2>3. e[i].first <= e[j].first
    <3>1. PICK x, y : x = e[i].first /\ y = e[j].first
      OBVIOUS
    <3>2. ~(y < x)
      BY <3>1 DEF Less
    <3> QED BY <2>2, <3>1, <3>2
  <2> QED BY <1>6, <2>1, <2>3
<1>10. Straight(s, e, n, 1, m, m)
  <2>1. Sorted(s, e, 1, 1) /\ Before(s, e, 1, 1, 1, n + 1) /\ Sorted(s, e, m, m) /\ Before(s, e, m, m, 1, m)
    BY <1>1, SortedAlone, NothingBefore
  <2>2. PICK a \in Nat : a = 1
    OBVIOUS
  <2>3. /\ 1 <= a /\ a <= m /\ m <= m /\ m <= n + 1
        /\ Sorted(s, e, 1, a) /\ Before(s, e, 1, a, a, n + 1) /\ Sorted(s, e, a, m)
        /\ Sorted(s, e, m, m) /\ Before(s, e, m, m, a, m)
        /\ Sorted(s, e, m, n + 1) /\ Sides(s, e, a, m, m, n + 1)
    BY <1>1, <1>7, <1>8, <1>9, <2>1, <2>2
  <2>4. Straight(s, e, n, a, m, m)
    <3> HIDE DEF Given
    <3> QED BY <1>1, <1>5, <2>3, IsStraight
  <2> QED BY <2>2, <2>4
<1> QED BY <1>1, <1>5, <1>10

\* The invariant holds at first, for either function.
LEMMA MergeBegins ==
  ASSUME MergeInit
  PROVE  MergeInv
<1>1. PICK k, l : Given(array, k, l, cut, Len(array)) /\ unmerged = array
  <2>1. PICK in \in Inputs :
          /\ cut = Len(in[1]) + 1
          /\ array = [i \in 1 .. Len(in[1]) + Len(in[2]) |->
                       Pair(IF i < cut THEN in[1][i] ELSE in[2][i - cut + 1], i)]
          /\ unmerged = array
    BY DEF MergeInit, TwoRuns
  <2>2. PICK k, l : k = in[1] /\ l = in[2]
    OBVIOUS
  <2>3. /\ k \in Seq(Nat) \ {<<>>} /\ KeysSorted(k) /\ l \in Seq(Nat) \ {<<>>} /\ KeysSorted(l)
    BY <2>2, InputsAssumption
  <2>4. Len(k) \in Nat /\ Len(l) \in Nat
    BY <2>3
  <2>5. /\ cut = Len(k) + 1
        /\ array = [i \in 1 .. Len(k) + Len(l) |-> Pair(IF i < cut THEN k[i] ELSE l[i - cut + 1], i)]
    BY <2>1, <2>2
  <2>6. Len(array) = Len(k) + Len(l)
    BY <2>4, <2>5
  <2>7. Given(array, k, l, cut, Len(array))
    BY <2>3, <2>5, <2>6 DEF Given
  <2> QED BY <2>1, <2>7
<1>2. PICK n, m, s, e : n = Len(array) /\ m = cut /\ s = Stable /\ e = array
  OBVIOUS
<1>3. s \in BOOLEAN
  BY <1>2 DEF Stable
<1>4. /\ n \in Nat /\ m \in Nat /\ 1 < m /\ m < n + 1 /\ e \in [1 .. n -> Pairs]
      /\ Straight(s, e, n, 1, m, m)
  <2>1. Given(e, k, l, m, n)
    BY <1>1, <1>2
  <2> QED BY <1>3, <2>1, GivenAreOrdered
<1>5. e \in Seq(Pairs) /\ Len(e) = n /\ SamePairs(e, e) /\ End = n + 1
  BY <1>2, <1>4 DEF SamePairs, End
<1>6. CASE how = "merge" /\ calls = <<MergeCall(1, cut, End)>>
  <2>1. PICK f : f = MergeCall(1, cut, End)
    OBVIOUS
  <2>2. f \in Frames /\ f.a = 1 /\ f.q = m /\ f.h = m /\ f.b = m /\ f.end = n + 1
    BY <1>2, <1>4, <1>5, <2>1 DEF MergeCall, Frames
  <2>3. calls \in Seq(Frames) /\ Len(calls) = 1 /\ calls[1] = f /\ calls # <<>>
    BY <1>6, <2>1, <2>2
  <2>4. Base(calls, 1) = 1
    BY <2>3 DEF Base
  <2>5. Current(s, e, 1, f)
    BY <1>4, <2>2 DEF Current, Straight
  <2>6. Stacked(s, e, calls, n)
    BY <2>2, <2>3, <2>4, <2>5 DEF Stacked
  <2> QED BY <1>1, <1>2, <1>4, <1>5, <1>6, <2>3, <2>6 DEF MergeInv, InPlaceInv
<1>7. CASE how = "buffer" /\ End - cut < cut /\ calls = <<BufferCall(1, cut, End)>>
  <2>1. PICK f, z : f = BufferCall(1, cut, End) /\ z = n + 1 - m
    OBVIOUS
  <2>2. z \in Nat /\ 1 <= z /\ z < m /\ End - cut = z
    BY <1>2, <1>4, <1>5, <1>7, <2>1
  <2>3. Shorter(cut - 1, End - cut) = z
    BY <1>2, <1>4, <2>2 DEF Shorter
  <2>4. PICK u : u = [i \in 1 .. z |-> e[1]]
    OBVIOUS
  <2>5. e[1] \in Pairs
    <3>1. 1 \in 1 .. n
      BY <1>4
    <3> QED BY <1>4, <3>1
  <2>6. u \in Seq(Pairs) /\ Len(u) = z
    BY <2>2, <2>4, <2>5
  <2>7. f = [kind |-> "buffer", a |-> 1, b |-> m, aEnd |-> m, end |-> n + 1, h |-> 1, t |-> 1, buf |-> u]
    BY <1>2, <1>5, <2>1, <2>3, <2>4 DEF BufferCall
  <2>8. /\ f \in Buffered /\ f.a = 1 /\ f.b = m /\ f.aEnd = m /\ f.end = n + 1 /\ f.h = 1 /\ f.t = 1 /\ f.buf = u
    BY <1>4, <2>6, <2>7 DEF Buffered
  <2>9. calls \in Seq(Buffered) /\ Len(calls) = 1 /\ calls[1] = f
    BY <1>7, <2>1, <2>8
  <2>10. Filled(1, m) = m
    BY <1>4 DEF Filled
  <2>11. Whole(e, u, 1, z, m, m) = e
    <3>1. ASSUME NEW i \in 1 .. n
          PROVE  ~(i \in m .. m - 1)
      BY <1>4
    <3> QED BY <1>4, <3>1 DEF Whole
  <2>12. Along(1, m - m, z) = 1
    BY <1>4, <2>2 DEF Along
  <2>13. Places(1, m, 1, 1, m, n, m)
    BY <1>4, <2>1, <2>2, <2>12 DEF Places
  <2>14. Filling(s, e, f, n, m)
    BY <1>4, <2>1, <2>6, <2>8, <2>10, <2>11, <2>13 DEF Filling, Straight
  <2>15. Filling(Stable, array, calls[1], Len(array), cut)
    BY <1>2, <2>9, <2>14
  <2>16. SamePairs(Whole(array, calls[1].buf, calls[1].t, End - cut, Filled(calls[1].a, cut), calls[1].b), unmerged)
    BY <1>1, <1>2, <1>5, <2>2, <2>8, <2>9, <2>10, <2>11
  <2>17. BufferInv
    BY <2>9, <2>15, <2>16 DEF BufferInv
  <2> QED BY <1>1, <1>2, <1>4, <1>5, <1>7, <2>2, <2>17 DEF MergeInv
<1> QED BY <1>6, <1>7 DEF MergeInit

\* Pairs in order have keys in order.
LEMMA SortedIsOrdered ==
  ASSUME NEW n \in Nat, NEW s \in BOOLEAN, NEW e \in [1 .. n -> Pairs],
         NEW lo \in Nat, NEW hi \in Nat, 1 <= lo, hi <= n + 1, Sorted(s, e, lo, hi)
  PROVE  is_ordered(e, lo, hi)
<1> SUFFICES ASSUME NEW i \in lo .. hi - 2
             PROVE  ~Less(e[i + 1], e[i])
  BY DEF is_ordered
<1>1. PICK j : j = i + 1
  OBVIOUS
<1>2. i \in Nat /\ j \in Nat /\ lo <= i /\ i < j /\ j < hi /\ i \in 1 .. n /\ j \in 1 .. n
  BY <1>1
<1>3. Ordered(s, e[i], e[j])
  BY <1>2, SortedAt
<1>4. ~Less(e[j], e[i])
  BY <1>2, <1>3, OrderedIsNotLess
<1> QED BY <1>1, <1>4

\* By the invariant, no call looks outside the array,
LEMMA CallsWithin ==
  ASSUME MergeInv
  PROVE  WithinArray
<1>1. PICK n : n = Len(array)
  OBVIOUS
<1>2. /\ array \in Seq(Pairs) /\ unmerged \in Seq(Pairs) /\ Len(unmerged) = n
  BY <1>1 DEF MergeInv
<1>3. n \in Nat /\ array \in [1 .. n -> Pairs] /\ DOMAIN array = DOMAIN unmerged
  BY <1>1, <1>2
<1>4. ASSUME NEW i \in DOMAIN calls, how # "buffer", NEW c, c = calls[i]
      PROVE  /\ 1 <= c.a /\ c.end <= n + 1 /\ c.kind # "buffer"
             /\ c.a <= c.q /\ c.q <= c.h /\ c.h <= c.b /\ c.b <= c.end
             /\ (c.q < c.b => c.h < c.b)
  <2>1. calls \in Seq(Frames) /\ Stacked(Stable, array, calls, n)
    BY <1>1, <1>4 DEF MergeInv, InPlaceInv
  <2>2. i \in 1 .. Len(calls) /\ c \in Frames /\ Len(calls) \in Nat
    BY <1>4, <2>1
  <2>3. c.end = n + 1
    BY <1>4, <2>1, <2>2 DEF Stacked
  <2>4. c.kind # "buffer" /\ c.a \in Nat /\ c.q \in Nat /\ c.h \in Nat /\ c.b \in Nat
    BY <2>2 DEF Frames
  <2>5. CASE i = 1
    <3>1. PICK lo : lo = Base(calls, 1)
      OBVIOUS
    <3>2. Current(Stable, array, lo, c)
      <4>1. calls # <<>>
        BY <1>4, <2>5
      <4> QED BY <1>4, <2>1, <2>5, <3>1, <4>1 DEF Stacked
    <3>3. Pointers(lo, c.a, c.q, c.h, c.b, c.end)
      BY <3>2 DEF Current, Innermost
    <3>4. lo \in Nat
      BY <2>1, <2>2, <2>5, <3>1, BaseIsNat
    <3> QED BY <1>3, <2>3, <2>4, <3>3, <3>4 DEF Pointers
  <2>6. CASE i # 1
    <3>1. PICK lo : lo = Base(calls, i)
      OBVIOUS
    <3>2. Pending(Stable, array, lo, c)
      <4>1. i \in 2 .. Len(calls)
        BY <2>2, <2>6
      <4> QED BY <1>4, <2>1, <3>1, <4>1 DEF Stacked
    <3>3. lo \in Nat
      BY <2>1, <2>2, <3>1, BaseIsNat
    <3> QED BY <1>3, <2>3, <2>4, <3>2, <3>3 DEF Pending
  <2> QED BY <2>5, <2>6
<1>5. ASSUME NEW i \in DOMAIN calls, how = "buffer", NEW c, c = calls[i]
      PROVE  1 <= c.a /\ c.end <= n + 1 /\ c.kind # "merge" /\ {c.h, c.t} \subseteq DOMAIN c.buf
  <2>1. calls # <<>>
    BY <1>5
  <2>2. PICK s, m, z, f, q, v :
          s = Stable /\ m = cut /\ z = End - cut /\ f = Top /\ q = Filled(Top.a, cut) /\ v = Seen
    OBVIOUS
  <2>3. Held(n, s, m, z, array, f, q, v) /\ calls \in Seq(Buffered) /\ Len(calls) = 1
    BY <1>1, <1>5, <2>1, <2>2, AtBuffer
  <2>4. i = 1 /\ c = f /\ c \in Buffered
    <3>1. DOMAIN calls = 1 .. 1
      BY <2>3
    <3>2. i = 1 /\ f = calls[1]
      BY <1>5, <2>2, <3>1 DEF Top
    <3>3. calls[1] \in Buffered
      BY <2>3
    <3> QED BY <1>5, <3>2, <3>3
  <2>5. Found(n, s, m, z, array, c, q, v) /\ c.end = n + 1
    BY <2>3, <2>4, HeldHas DEF Held
  <2>6. 1 <= c.a /\ c.h \in 1 .. z /\ c.t \in 1 .. z /\ DOMAIN c.buf = 1 .. z
    BY <2>5 DEF Found
  <2> QED BY <1>3, <2>4, <2>5, <2>6 DEF Buffered
<1> QED BY <1>2, <1>3, <1>4, <1>5 DEF WithinArray

\* what merge() asserts holds,
LEMMA QueueInOrder ==
  ASSUME MergeInv
  PROVE  QueueSorted
<1> SUFFICES ASSUME calls # <<>>, Top.kind = "merge"
             PROVE  /\ is_ordered(array, Top.a, Top.q)
                    /\ is_ordered(rotate(array, Top.q, Top.h, Top.b), Top.q, Top.b)
                    /\ is_ordered(array, Top.b, Top.end)
  BY DEF QueueSorted
<1>1. PICK n, s, f, lo : n = Len(array) /\ s = Stable /\ f = Top /\ lo = Base(calls, 1)
  OBVIOUS
<1>2. how # "buffer"
  <2> SUFFICES ASSUME how = "buffer"
               PROVE  FALSE
    OBVIOUS
  <2>1. calls \in Seq(Buffered)
    BY DEF MergeInv, BufferInv
  <2>2. Top \in Buffered
    BY <2>1 DEF Top
  <2> QED BY <2>2 DEF Buffered
<1>3. array \in Seq(Pairs) /\ calls \in Seq(Frames) /\ Stacked(s, array, calls, n) /\ s \in BOOLEAN
  BY <1>1, <1>2 DEF MergeInv, InPlaceInv, Stable
<1>4. n \in Nat /\ array \in [1 .. n -> Pairs]
  <2>1. array \in Seq(Pairs)
    BY <1>3
  <2> QED BY <1>1, <2>1
<1>5. f = calls[1] /\ f \in Frames /\ 1 \in 1 .. Len(calls)
  BY <1>1, <1>3 DEF Top
<1>6. f.a \in Nat /\ f.q \in Nat /\ f.h \in Nat /\ f.b \in Nat
  BY <1>5 DEF Frames
<1>7. f.end = n + 1 /\ Current(s, array, lo, f)
  BY <1>1, <1>3, <1>5 DEF Stacked
<1>8. Innermost(s, array, lo, f.a, f.q, f.h, f.b, n + 1) /\ lo \in Nat
  <2>1. lo \in Nat
    BY <1>1, <1>3, <1>5, BaseIsNat
  <2> QED BY <1>7, <2>1 DEF Current
<1>9. 1 <= lo /\ lo <= f.a /\ f.a <= f.q /\ f.q <= f.h /\ f.h <= f.b /\ f.b <= n + 1
  BY <1>8 DEF Innermost, Pointers
<1>10. Sorted(s, array, f.a, f.q) /\ Sorted(s, array, f.b, n + 1) /\ Circular(s, array, f.q, f.h, f.b)
  BY <1>8 DEF Innermost, Output, Second, Ring, Circular
<1>11. is_ordered(array, f.a, f.q)
  <2>1. 1 <= f.a /\ f.q <= n + 1
    BY <1>4, <1>6, <1>8, <1>9
  <2> QED BY <1>3, <1>4, <1>6, <1>10, <2>1, SortedIsOrdered
<1>12. is_ordered(array, f.b, n + 1)
  <2>1. 1 <= f.b /\ n + 1 <= n + 1 /\ n + 1 \in Nat
    BY <1>4, <1>6, <1>8, <1>9
  <2> QED BY <1>3, <1>4, <1>6, <1>10, <2>1, SortedIsOrdered
<1>13. PICK u : u = rotate(array, f.q, f.h, f.b)
  OBVIOUS
<1>14. is_ordered(u, f.q, f.b)
  <2>1. 1 <= f.q
    BY <1>4, <1>6, <1>8, <1>9
  <2>2. Moved(array, u, n, f.q, f.b) /\ Sorted(s, u, f.q, f.b)
    BY <1>3, <1>4, <1>6, <1>9, <1>10, <1>13, <2>1, QueueUnrolls
  <2>3. u \in [1 .. n -> Pairs]
    BY <2>2 DEF Moved
  <2> QED BY <1>3, <1>4, <1>6, <1>9, <2>1, <2>2, <2>3, SortedIsOrdered
<1> QED BY <1>1, <1>7, <1>11, <1>12, <1>13, <1>14

\* and the result is what it should be.
LEMMA RunsMerged ==
  ASSUME MergeInv
  PROVE  MergesRuns
<1>1. PICK n, s : n = Len(array) /\ s = Stable
  OBVIOUS
<1>2. array \in Seq(Pairs) /\ End = n + 1 /\ s \in BOOLEAN
  BY <1>1 DEF MergeInv, End, Stable
<1>3. n \in Nat /\ array \in [1 .. n -> Pairs]
  <2>1. array \in Seq(Pairs)
    BY <1>2
  <2> QED BY <1>1, <2>1
<1>4. calls = <<>> \/ Top.kind # "buffer" => SamePairs(array, unmerged)
  <2>1. CASE how # "buffer"
    BY <2>1 DEF MergeInv, InPlaceInv
  <2>2. CASE how = "buffer" /\ calls = <<>>
    <3>1. Len(calls) # 1
      BY <2>2
    <3> QED BY <2>2, <3>1 DEF MergeInv, BufferInv
  <2>3. CASE how = "buffer" /\ calls # <<>>
    <3>1. calls \in Seq(Buffered)
      BY <2>3 DEF MergeInv, BufferInv
    <3>2. Top \in Buffered
      BY <2>3, <3>1 DEF Top
    <3> QED BY <2>3, <3>2 DEF Buffered
  <2> QED BY <2>1, <2>2, <2>3
<1>5. calls = <<>> => Sorted(s, array, 1, n + 1)
  <2>1. CASE how # "buffer"
    BY <1>1, <2>1 DEF MergeInv, InPlaceInv, Stacked
  <2>2. CASE how = "buffer"
    <3>1. calls = <<>> => Len(calls) # 1
      OBVIOUS
    <3> QED BY <1>1, <1>2, <2>2, <3>1 DEF MergeInv, BufferInv
  <2> QED BY <2>1, <2>2
<1>6. calls = <<>> => is_ordered(array, 1, n + 1)
  <2>1. 1 <= 1 /\ n + 1 <= n + 1 /\ n + 1 \in Nat /\ 1 \in Nat
    BY <1>3
  <2> QED BY <1>2, <1>3, <1>5, <2>1, SortedIsOrdered
<1>7. ASSUME calls = <<>>, Stable, NEW i \in DOMAIN array, NEW j \in DOMAIN array,
             i < j, array[i].first = array[j].first
      PROVE  array[i].second < array[j].second
  <2>1. Sorted(s, array, 1, n + 1) /\ s
    BY <1>1, <1>5, <1>7
  <2>2. i \in 1 .. n /\ j \in 1 .. n
    BY <1>3
  <2>3. i \in 1 .. (n + 1) - 1 /\ j \in 1 .. (n + 1) - 1
    BY <1>3, <2>2
  <2>4. Ordered(s, array[i], array[j])
    BY <1>7, <2>1, <2>3 DEF Sorted
  <2>5. array[i] \in Pairs /\ array[j] \in Pairs
    BY <1>3, <2>2
  <2>6. ~Less(array[i], array[j])
    BY <1>7, <2>5 DEF Less, Pairs
  <2> QED BY <2>1, <2>4, <2>6 DEF Ordered
<1> QED BY <1>2, <1>4, <1>6, <1>7 DEF MergesRuns, SamePairs

\* Both ways to merge two runs do it, for all sorted runs with keys that are
\* naturals: no call looks outside the array; what is left of the two runs and
\* the queue are in order at each iteration, as merge() asserts; and the result
\* is sorted, has the pairs that were given and, if the function is stable, has
\* those with the same key in order.
THEOREM Merges == MergeSpec => [](WithinArray /\ QueueSorted /\ MergesRuns)
<1>1. MergeInit => MergeInv
  BY MergeBegins
<1>2. MergeInv /\ [MergeNext]_merger => MergeInv'
  <2> SUFFICES ASSUME MergeInv, [MergeNext]_merger
               PROVE  MergeInv'
    OBVIOUS
  <2>1. CASE MergeNext /\ how = "buffer"
    BY <2>1, BufferStays
  <2>2. CASE MergeNext /\ how # "buffer"
    BY <2>2, InPlaceStays
  <2>3. CASE UNCHANGED merger
    BY <2>3 DEF merger, MergeInv, BufferInv, InPlaceInv, End, Stable
  <2> QED BY <2>1, <2>2, <2>3
<1>3. MergeInv => WithinArray /\ QueueSorted /\ MergesRuns
  BY CallsWithin, QueueInOrder, RunsMerged
<1> QED BY <1>1, <1>2, <1>3, PTL DEF MergeSpec
=============================================================================

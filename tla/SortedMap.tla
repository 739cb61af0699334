----------------------------- MODULE SortedMap -----------------------------
(***************************************************************************)
(* The maps of the support library (startle/map.c): an array of pairs with *)
(* no further structure than the number of pairs in it.  The bits of that  *)
(* number, from the highest on, are the lengths of its runs; every run is  *)
(* sorted.  A new pair is a run of one, and runs of the same length are    *)
(* merged, which MergeRuns models; here a merge is its result, as far as   *)
(* its runs are too short for merge() to call itself.                      *)
(*                                                                         *)
(* MapKeys may repeat.  Then later pairs come after earlier ones in a run, so *)
(* the last pair in the shortest run that has the key is the newest.  A    *)
(* client either inserts any keys (mode "repeats": the switch map of the   *)
(* trace, modules that are joined) or replaces the pair of a key that is   *)
(* there ("distinct": the arrays of io.c, the words of a module).          *)
(***************************************************************************)
EXTENDS Runs

LOCAL INSTANCE SequencesExt

CONSTANTS
  Capacity,     \* map_size()
  MapKeys,     \* the keys of a map with repeated keys, as they compare
  Names,    \* the keys of a map with distinct keys
  Values,   \* the values in a map with distinct keys
  MaxBatch  \* a bound: the most pairs that are merged in one call

ASSUME CapacityAssumption == Capacity \in Nat \ {0}
ASSUME MapKeysAssumption == MapKeys \subseteq Nat /\ Names \subseteq Nat
ASSUME MaxBatchAssumption == MaxBatch \in Nat

VARIABLES
  mode,   \* how the client uses the map
  elems,  \* the pairs
  log     \* ghost: the pairs in the order in which they were inserted

sorted_map == <<mode, elems, log>>

map_cnt == Len(elems)

Powers == {2 ^ i : i \in 0 .. Capacity}

Has(n, bit) == (n \div bit) % 2 = 1

Bits(n) == {bit \in Powers : Has(n, bit)}

\* 1 << __builtin_ctz(n)
LowBit(n) == CHOOSE bit \in Bits(n) : \A other \in Bits(n) : bit <= other

\* The first place of the run of length bit, in a map of n pairs.
Base(n, bit) == n - (n % (2 * bit)) + 1

Upwards(bits) == SetToSortSeq(bits, LAMBDA x, y : x < y)

Downwards(bits) == Reverse(Upwards(bits))

-----------------------------------------------------------------------------
(* Look-up.                                                                *)

\* The loop of find_last_pair(): the run starts at lo, and what is looked for is
\* at least l and less than h places further on.
Bisect(lo, k, l, h) ==
  LET f[low \in 0 .. Capacity, high \in 0 .. Capacity] ==
        LET pivot == low + (high - low + 1) \div 2
        IN  IF high <= low + 1 THEN low
            ELSE IF elems[lo + pivot].first <= k THEN f[pivot, high]
            ELSE f[low, pivot]
  IN  f[l, h]

\* find_last_pair() starts at the place that is estimated from the run before.
find_last_pair(lo, n, k, est) ==
  CASE n <= 1                       -> 0
    [] n > 1 /\ elems[lo + est].first <= k -> Bisect(lo, k, est, n)
    [] OTHER                        -> Bisect(lo, k, 0, est)

NotFound == [at |-> 0, bit |-> 0, est |-> 0]

\* From longer runs to shorter ones: the place of a pair with key k, and
\* where the search continues after its run.
map_find_iter(k, from) ==
  LET n == map_cnt
      f[bit \in Powers \cup {0}, est \in 0 .. Capacity] ==
        LET low == find_last_pair(Base(n, bit), bit, k, est)
        IN  IF bit = 0 THEN NotFound
            ELSE IF ~Has(n, bit) THEN f[bit \div 2, est \div 2]
            ELSE IF elems[Base(n, bit) + low].first # k THEN f[bit \div 2, low \div 2]
            ELSE [at |-> Base(n, bit) + low, bit |-> bit \div 2, est |-> low \div 2]
  IN  f[from.bit, from.est]

\* int_log2() rounds up.
map_iterator_begin ==
  LET bit == CHOOSE p \in Powers : map_cnt <= p /\ (p = 1 \/ map_cnt > p \div 2)
  IN  [at |-> 0, bit |-> bit, est |-> bit \div 2]

map_find(k) == IF map_cnt = 0 THEN 0 ELSE map_find_iter(k, map_iterator_begin).at

\* map_next() goes back as long as the key is the same.  It allows for the
\* pair in front of the run, where a is the end of the run and bit was halved.
StaysInRun(it) == it.bit # 0 /\ it.at >= Base(map_cnt, 2 * it.bit)

Precedes(i) == IF i = 1 THEN Capacity ELSE elems[i - 1].first

map_next(k, it) ==
  IF StaysInRun(it) /\ Precedes(it.at) = k
  THEN [it EXCEPT !.at = it.at - 1]
  ELSE map_find_iter(k, it)

\* The places that a loop over the pairs with key k visits.
Visits(k) ==
  LET loop[it \in [at : 0 .. Capacity, bit : Nat, est : Nat]] ==
        IF it.at = 0 THEN <<>> ELSE <<it.at>> \o loop[map_next(k, it)]
  IN  IF map_cnt = 0 THEN <<>> ELSE loop[map_find_iter(k, map_iterator_begin)]

\* From shorter runs to longer ones (string_map_find, seg_map_find).
string_map_find(k) ==
  LET n == map_cnt
      At(bit) == Base(n, bit) + Bisect(Base(n, bit), k, 0, bit)
      hits == {bit \in Powers : Has(n, bit) /\ elems[At(bit)].first = k}
  IN  IF hits = {} THEN 0
      ELSE At(CHOOSE bit \in hits : \A other \in hits : bit <= other)

-----------------------------------------------------------------------------
(* Sorting.                                                                *)

\* mutant: only runs of bit are merged.
SortOnce(e, bit) ==
  LET x == Len(e) - 2 * bit
  IN  IF Len(e) % 2 = 1 \/ x < 0 THEN e ELSE Merged(e, x + 1, x + bit + 1, Len(e) + 1)

\* map_sort(): runs of bit and of the same length before it become one, and
\* so on for longer ones, as long as there are two of the same length.
map_sort(e, bit) ==
  LET last   == Len(e) - 1
      levels == {b \in Powers : b >= bit /\ \A c \in Powers : c \in bit .. b => Has(last, c)}
      Merge(f, b) == LET x == last - (last % (2 * b))
                     IN  Merged(f, x + 1, x + b + 1, x + 2 * b + 1)
  IN  IF Len(e) % 2 = 1 THEN e ELSE FoldLeft(Merge, e, Upwards(levels))

\* map_sort_full(): all runs become one, from the last on.
sort_full(e) ==
  LET Merge(f, b) == Merged(f, Base(Len(e), b), Base(Len(e), b) + b, Len(e) + 1)
  IN  FoldLeft(Merge, e, Upwards(Bits(Len(e)) \ {LowBit(Len(e))}))

\* _map_insert(): a new run of one.
insert(e, p) == map_sort(Append(e, p), 1)

\* _map_merge(): of the pairs that are left, as many as are in the last run
\* make a run of that length.  If they are fewer, they are runs by the bits of
\* their number.
merge_pairs(e, ps) ==
  LET loop[i \in 0 .. Len(ps)] ==
        IF i = 0 THEN [e |-> e, ps |-> ps, bit |-> 1]
        ELSE LET s == loop[i - 1]
                 m == LowBit(Len(s.e))
             IN  IF m > Len(s.ps)
                 THEN [s EXCEPT !.e = s.e \o s.ps, !.ps = <<>>]
                 ELSE [e   |-> map_sort(s.e \o SubSeq(s.ps, 1, m), s.bit),
                       ps  |-> SubSeq(s.ps, m + 1, Len(s.ps)),
                       bit |-> m]
  IN  IF e = <<>> THEN ps ELSE loop[Len(ps)].e

\* The runs of the pairs ps of a map, the longest first.
RunsOf(ps) ==
  LET n == Len(ps)
      bits == Downwards(Bits(n))
  IN  [i \in DOMAIN bits |-> SubSeq(ps, Base(n, bits[i]), Base(n, bits[i]) + bits[i] - 1)]

\* _map_union()
union_pairs(e, ps) == FoldLeft(merge_pairs, e, RunsOf(ps))

-----------------------------------------------------------------------------
MapInit ==
  /\ mode \in {"repeats", "distinct"}
  /\ elems = <<>>
  /\ log = <<>>

\* Pairs with the keys ks that are new to the map; their values number them.
Fresh(ks) == [i \in DOMAIN ks |-> Pair(ks[i], map_cnt + i)]

Fits(n) == map_cnt + n <= Capacity

map_insert(k) ==
  /\ mode = "repeats" /\ Fits(1)
  /\ elems' = insert(elems, Fresh(<<k>>)[1])
  /\ log' = log \o Fresh(<<k>>)
  /\ UNCHANGED mode

map_merge(ks) ==
  /\ mode = "repeats" /\ Fits(Len(ks))
  /\ elems' = merge_pairs(elems, Fresh(ks))
  /\ log' = log \o Fresh(ks)
  /\ UNCHANGED mode

\* The other map has the keys ks.
map_union(ks) ==
  /\ mode = "repeats" /\ Fits(Len(ks))
  /\ elems' = union_pairs(elems, Fresh(ks))
  /\ log' = log \o Fresh(ks)
  /\ UNCHANGED mode

\* The value of the pair at p is replaced; if there is none, one is inserted.
Put(p, k, v) ==
  /\ mode = "distinct"
  /\ IF p = 0
     THEN /\ Fits(1)
          /\ elems' = insert(elems, Pair(k, v))
          /\ log' = Append(log, Pair(k, v))
     ELSE /\ elems' = [elems EXCEPT ![p].second = v]
          /\ log' = [i \in DOMAIN log |-> IF log[i].first = k THEN Pair(k, v) ELSE log[i]]
  /\ UNCHANGED mode

map_replace_insert(k, v) == Put(map_find(k), k, v)

module_set(k, v) == Put(string_map_find(k), k, v)

\* Clients sort no empty map.  With repeated keys the result is the one given
\* here only if there is no room for a buffer.
map_sort_full ==
  /\ map_cnt > 0
  /\ mode = "distinct" \/ map_cnt = Capacity
  /\ elems' = sort_full(elems)
  /\ UNCHANGED <<mode, log>>

map_clear ==
  /\ elems' = <<>>
  /\ log' = <<>>
  /\ UNCHANGED mode

KeyLists == UNION {[1 .. n -> MapKeys] : n \in 1 .. MaxBatch}

MapNext ==
  \/ \E k \in MapKeys : map_insert(k)
  \/ \E k \in Names, v \in Values : map_replace_insert(k, v) \/ module_set(k, v)
  \/ \E ks \in KeyLists : KeysSorted(ks) /\ map_merge(ks)
  \/ \E ks \in KeyLists : (\A r \in {RunsOf(ks)[i] : i \in DOMAIN RunsOf(ks)} : KeysSorted(r))
                          /\ map_union(ks)
  \/ map_sort_full
  \/ map_clear

MapSpec == MapInit /\ [][MapNext]_sorted_map

-----------------------------------------------------------------------------
(* Properties.                                                             *)

AllKeys == MapKeys \cup Names

\* The number in the log of the newest pair with key k; 0 if there is none.
Newest(k) ==
  LET is == {i \in DOMAIN log : log[i].first = k}
  IN  IF is = {} THEN 0 ELSE CHOOSE i \in is : \A j \in is : j <= i

PlacesOf(k) == {i \in DOMAIN elems : elems[i].first = k}

\* Look-up from the shortest run on gives the newest pair with the key, and
\* none if there is none, and a loop over the pairs with the key visits them
\* all and no other.  A client that replaces has one pair with a key at most:
\* whatever the run, look-up by its key has found it.
PairsFound ==
  \A k \in AllKeys :
    LET at == string_map_find(k)
    IN  /\ IF Newest(k) = 0 THEN at = 0 ELSE at # 0 /\ elems[at] = log[Newest(k)]
        /\ {Visits(k)[i] : i \in DOMAIN Visits(k)} = PlacesOf(k)
        /\ mode = "distinct" => Cardinality(PlacesOf(k)) <= 1
=============================================================================

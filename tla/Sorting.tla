------------------------------ MODULE Sorting -------------------------------
(***************************************************************************)
(* Sorting and searching arrays of rows by their first word                *)
(* (startle/support.c).  quicksort() keeps the parts that it has still to  *)
(* sort on a stack of its own, an array with one entry less than there are *)
(* rows, and never looks whether it is full.                               *)
(*                                                                         *)
(* An iteration of its loop is a step.  Rows have a key and a number that  *)
(* tells them apart.  Places are counted from 1.                           *)
(***************************************************************************)
EXTENDS Integers, Sequences, FiniteSets, SequencesExt

CONSTANTS
  SortInputs, \* the lists of keys to be sorted
  SearchKeys  \* the keys to be looked for afterwards

ASSUME SortAssumption ==
  SortInputs \subseteq Seq(Int) /\ <<>> \notin SortInputs /\ SearchKeys \subseteq Int

VARIABLES
  unsorted, \* the rows as they were given
  rows,     \* the array
  lo, hi,   \* the part to be sorted now
  stack,    \* the parts to be sorted later
  sorting   \* in the loop, or done

sorter == <<unsorted, rows, lo, hi, stack, sorting>>

Row(k, n) == [key |-> k, tag |-> n]

(* The place, of three, of the key in the middle.                          *)
median3(a, l, h) ==
  LET m == l + (h - l) \div 2
      x == a[l].key  y == a[m].key  z == a[h].key
  IN  IF x < y
      THEN IF x < z THEN IF y < z THEN m ELSE h ELSE l
      ELSE IF x < z THEN l ELSE IF y < z THEN h ELSE m

(* A row with a key below the pivot's is swapped to the left.              *)
Move(s, i, pivot) ==
  IF s.array[i].key < pivot.key
  THEN [array |-> [s.array EXCEPT ![i] = s.array[s.at], ![s.at] = s.array[i]], at |-> s.at + 1]
  ELSE s

(* The rows from l on, and before h, one after the other; the pivot is     *)
(* taken out first, and the last row put in its place.                     *)
MoveAll(a, p, l, h) ==
  LET moved[i \in l .. h] ==
        IF i = l THEN [array |-> [a EXCEPT ![p] = a[h]], at |-> l]
        ELSE Move(moved[i - 1], i - 1, a[p])
  IN  moved[h]

(* The pivot goes between the rows below it and the rest.                  *)
Partition(a, l, h) ==
  LET p == median3(a, l, h)
      s == MoveAll(a, p, l, h)
  IN  [array |-> [s.array EXCEPT ![h] = s.array[s.at], ![s.at] = a[p]], at |-> s.at]

SortInit ==
  /\ \E ks \in SortInputs : unsorted = [n \in 1 .. Len(ks) |-> Row(ks[n], n)]
  /\ rows = unsorted
  /\ lo = 1 /\ hi = Len(rows)
  /\ stack = <<>>
  /\ sorting = IF Len(rows) <= 1 THEN "done" ELSE "loop"

(* mutant: the part with two rows is taken to be in order.                 *)
PushesLess(at, h) == h > at + 2

Remembers(at, h) == h > at + 1

quicksort ==
  /\ sorting = "loop"
  /\ LET part   == Partition(rows, lo, hi)
         at     == part.at
         pushed == IF Remembers(at, hi) THEN Append(stack, [lo |-> at + 1, hi |-> hi])
                   ELSE stack
     IN  /\ rows' = part.array
         /\ \/ /\ at > lo + 1
               /\ hi' = at - 1
               /\ stack' = pushed
               /\ UNCHANGED <<lo, sorting>>
            \/ /\ at <= lo + 1 /\ pushed # <<>>
               /\ lo' = Last(pushed).lo
               /\ hi' = Last(pushed).hi
               /\ stack' = Front(pushed)
               /\ UNCHANGED sorting
            \/ /\ at <= lo + 1 /\ pushed = <<>>
               /\ sorting' = "done"
               /\ UNCHANGED <<lo, hi, stack>>
  /\ UNCHANGED unsorted

SortSpec == SortInit /\ [][quicksort]_sorter

-----------------------------------------------------------------------------
(* Searching.  None is NULL.                                               *)

None == 0

(* Places between two, and behind the last row.                            *)
Spans(a) == (1 .. Len(a) + 1) \X (1 .. Len(a) + 1)

(* Any row with the key.                                                   *)
find(a, key) ==
  LET from[s \in Spans(a)] ==
        LET l == s[1]  h == s[2]  m == l + (h - l) \div 2
        IN  IF h <= l THEN None
            ELSE IF a[m].key = key THEN m
            ELSE IF a[m].key < key THEN from[<<m + 1, h>>]
            ELSE from[<<l, m>>]
  IN  from[<<1, Len(a) + 1>>]

(* find_last_string(), find_last_seg(): the last row with the key.         *)
find_last(a, key) ==
  LET from[s \in Spans(a)] ==
        LET l == s[1]  h == s[2]  m == l + (h - l + 1) \div 2
        IN  IF h <= l + 1 THEN l
            ELSE IF a[m].key <= key THEN from[<<m, h>>]
            ELSE from[<<l, m>>]
      p == from[<<1, Len(a) + 1>>]
  IN  IF a[p].key = key THEN p ELSE None

(* The first row whose name starts with the key.  A key shorter than the   *)
(* names stands for all those that start with it: class gives each name    *)
(* the key that it starts with.                                            *)
lookup(a, class, key) ==
  LET from[s \in Spans(a) \X (0 .. Len(a))] ==
        LET l == s[1][1]  h == s[1][2]  best == s[2]  m == l + (h - l) \div 2
        IN  IF h <= l THEN best
            ELSE IF class[a[m].key] = key THEN from[<< <<l, m>>, m >>]
            ELSE IF class[a[m].key] < key THEN from[<< <<m + 1, h>>, best >>]
            ELSE from[<< <<l, m>>, best >>]
  IN  from[<< <<1, Len(a) + 1>>, None >>]

-----------------------------------------------------------------------------
(* Properties.                                                             *)

(* The searches agree with a look at each row: find() answers with a row   *)
(* that has the key, find_last() with the last, lookup() with the first    *)
(* row whose name starts with the key, and None if there is none.          *)
SearchesAgree(k) ==
  LET places == {n \in DOMAIN rows : rows[n].key = k}
      class  == [x \in Int |-> x \div 2]
      starts == {n \in DOMAIN rows : class[rows[n].key] = k}
  IN  /\ find(rows, k) \in IF places = {} THEN {None} ELSE places
      /\ find_last(rows, k) = IF places = {} THEN None ELSE Max(places)
      /\ lookup(rows, class, k) = IF starts = {} THEN None ELSE Min(starts)

(* The sorted array has the rows it was given, in the order of their keys, *)
(* the stack, which holds at most one entry less than there are rows,      *)
(* sufficed (quicksort()), and every key is found by the searches that     *)
(* rely on the order.                                                      *)
SortsInPlace ==
  /\ Len(stack) <= Len(rows) - 1
  /\ sorting = "done" =>
       /\ \A n \in 1 .. Len(rows) - 1 : rows[n].key <= rows[n + 1].key
       /\ {rows[n] : n \in DOMAIN rows} = {unsorted[n] : n \in DOMAIN unsorted}
       /\ \A k \in SearchKeys : SearchesAgree(k)
=============================================================================

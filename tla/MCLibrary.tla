------------------------------ MODULE MCLibrary -----------------------------
(***************************************************************************)
(* The support library: the ring buffer, the hash set, sorting and         *)
(* searching, strings and the words on them, highlighting, and the reading *)
(* of lists; maps, and the functions that merge their runs.  A behaviour   *)
(* uses one of them.                                                       *)
(***************************************************************************)
EXTENDS HashSet, RingBuffer, Sorting, StringWords, Highlight, Lists, SortedMap, BlockMerge

CONSTANTS
  Parts,     \* those of them that are tried
  MaxRows,   \* a bound: the longest array
  MaxString, \* a bound: the longest string
  MaxChain   \* a bound: the longest chain of lists

VARIABLE part \* which of them

MCSortInputs == UNION {[1 .. n -> 0 .. 3] : n \in 1 .. MaxRows}

(* NUL, a character without a letter, a newline, digits, a quote, a        *)
(* backslash, the x of an escape, and a character that is not ASCII.       *)
SomeCharacters == {0, 1, 10, 48, 52, 34, 92, 120, -61}

MCStrs == UNION {[1 .. n -> SomeCharacters] : n \in 0 .. MaxString}

MCStray == <<-32>>

MCTagged == 0 .. 9 \cup UNION {{2 ^ n - 2, 2 ^ n - 1, 2 ^ n} : n \in 4 .. 23}
            \cup {2 ^ 24 - 2, 2 ^ 24 - 1}

MCChains ==
  UNION {{[l \in 1 .. n |-> [own |-> own[l], row |-> IF l < n THEN "list" ELSE last]] :
            own \in [1 .. n -> 0 .. 2], last \in {"no", "other"}} : n \in 1 .. MaxChain}

Plain(t) == [text |-> t, raw |-> Len(t)]

(* Nothing, a space, "-8", "0x1", a space, "a" and NUL, "\na ", "a", and a  *)
(* character that is not ASCII before a digit.                             *)
MCLiterals ==
  {Plain(t) : t \in {<<>>, <<32>>, <<45, 56>>, <<48, 120, 49>>, <<32, 97, 0>>, <<97>>, <<-61, 48>>}}
    \cup {[text |-> <<10, 97, 32>>, raw |-> 4]}

MCInts == {0, -8, 47, -301}

MCBeyond == <<97, 0>>

SortIdle ==
  /\ unsorted = <<Row(0, 1)>> /\ rows = unsorted /\ lo = 1 /\ hi = 1 /\ stack = <<>>
  /\ sorting = "idle"

StringsIdle ==
  str = <<>> /\ rest = <<>> /\ shown = <<>> /\ read = <<>> /\ stage = "idle"

HighlightIdle ==
  src = Seg(0, 0) /\ noted = {} /\ fails = <<>> /\ marked = <<>> /\ showing = "idle"

ListsIdle ==
  /\ chain = <<[own |-> 0, row |-> "no"]>> /\ include_row = TRUE
  /\ it = list_begin(1) /\ given = <<>> /\ iterating = FALSE

WordsIdle == values = <<>> /\ word = "none" /\ taken = <<>> /\ words = MaxWords

RingIdle == head = 0 /\ tail = 0 /\ data = [p \in RingPlaces |-> "a"] /\ out = <<>>

(* The sorted lists of n of the keys.                                      *)
SortedLists(keys, n) ==
  LET lists[k \in Nat] ==
        IF k = 0 THEN {<<>>}
        ELSE {l \in {Append(m, key) : m \in lists[k - 1], key \in keys} : KeysSorted(l)}
  IN  lists[n]

(* Short runs with few keys, so that many are the same.                    *)
ShortRuns == UNION {SortedLists(1 .. 3, n) : n \in 1 .. 4}

(* Runs of n and m with different keys, in every order.                    *)
LongRuns(n, m) ==
  {<<[a \in 1 .. n |-> 2 * a], b>> : b \in SortedLists({2 * a - 1 : a \in 1 .. n + 1}, m)}

(* Runs that are long enough to merge the queue, with keys that repeat.    *)
RepeatingRuns == SortedLists(1 .. 3, 6) \X SortedLists(1 .. 3, 5)

MCRuns ==
  (ShortRuns \X ShortRuns) \cup RepeatingRuns
    \cup LongRuns(8, 6) \cup LongRuns(6, 9) \cup LongRuns(7, 5) \cup LongRuns(3, 7)

(* What SortedMap takes for the result of a merge is what a stable function *)
(* gives (MergesRuns).                                                      *)
ASSUME MergedIsStable ==
  \A in \in ShortRuns \X ShortRuns :
    LET ks == in[1] \o in[2]
        e   == [n \in DOMAIN ks |-> Pair(ks[n], n)]
        m   == Merged(e, 1, Len(in[1]) + 1, Len(ks) + 1)
    IN  /\ is_ordered(m, 1, Len(m) + 1)
        /\ {m[n] : n \in DOMAIN m} = {e[n] : n \in DOMAIN e}
        /\ \A p, r \in DOMAIN m : p < r /\ m[p].first = m[r].first => m[p].second < m[r].second

MapIdle == mode = "distinct" /\ elems = <<>> /\ log = <<>>

MergeIdle == array = <<>> /\ unmerged = <<>> /\ cut = 1 /\ how = "merge" /\ calls = <<>>

LibraryInit ==
  /\ Init
  /\ part \in Parts
  /\ IF part = "ring" THEN RingInit ELSE RingIdle
  /\ IF part = "sorting" THEN SortInit ELSE SortIdle
  /\ IF part = "strings" THEN StringsInit ELSE StringsIdle
  /\ IF part = "highlight" THEN HighlightInit ELSE HighlightIdle
  /\ IF part = "lists" THEN ListsInit ELSE ListsIdle
  /\ IF part = "words" THEN WordsInit ELSE WordsIdle
  /\ IF part = "maps" THEN MapInit ELSE MapIdle
  /\ IF part = "merging" THEN BlocksInit ELSE MergeIdle

(* All the variables, by the part that uses them.                          *)
parts == <<vars, ring, sorter, strings, strwords, highlighter, reader, sorted_map, merger>>

LibraryNext ==
  /\ UNCHANGED part
  /\ \/ /\ part = "set" /\ Next
        /\ UNCHANGED <<ring, sorter, strings, strwords, highlighter, reader, sorted_map, merger>>
     \/ /\ part = "ring" /\ RingNext
        /\ UNCHANGED <<vars, sorter, strings, strwords, highlighter, reader, sorted_map, merger>>
     \/ /\ part = "sorting" /\ quicksort
        /\ UNCHANGED <<vars, ring, strings, strwords, highlighter, reader, sorted_map, merger>>
     \/ /\ part = "strings" /\ StringsNext
        /\ UNCHANGED <<vars, ring, sorter, strwords, highlighter, reader, sorted_map, merger>>
     \/ /\ part = "words" /\ WordsNext
        /\ UNCHANGED <<vars, ring, sorter, strings, highlighter, reader, sorted_map, merger>>
     \/ /\ part = "highlight" /\ HighlightNext
        /\ UNCHANGED <<vars, ring, sorter, strings, strwords, reader, sorted_map, merger>>
     \/ /\ part = "lists" /\ flat_copy
        /\ UNCHANGED <<vars, ring, sorter, strings, strwords, highlighter, sorted_map, merger>>
     \/ /\ part = "maps" /\ MapNext
        /\ UNCHANGED <<vars, ring, sorter, strings, strwords, highlighter, reader, merger>>
     \/ /\ part = "merging" /\ BlocksNext
        /\ UNCHANGED <<vars, ring, sorter, strings, strwords, highlighter, reader, sorted_map>>

LibrarySpec == LibraryInit /\ [][LibraryNext]_<<part, parts>>
=============================================================================

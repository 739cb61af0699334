------------------------------- MODULE Lists --------------------------------
(***************************************************************************)
(* Lists with a row, and how they are read (list.c).  The last place of a  *)
(* list with a row is the rest of the list: another list, whose elements   *)
(* are those on the left of it, or something that has not been computed.   *)
(*                                                                         *)
(* A list is read through an iterator, element by element, and at any time *)
(* the number of elements that are left can be asked for, or a list of     *)
(* them.  An element is named by its list, a number in a chain of lists    *)
(* each of which is the row of the one before it, and its place.           *)
(***************************************************************************)
EXTENDS Integers, Sequences

CONSTANT Chains  \* sequences of lists: how many elements they have besides
                 \* the row, and the row: "no", "list" or "other"

ASSUME ChainsAssumption ==
  \A ch \in Chains :
    /\ ch \in Seq([own : Nat, row : {"no", "list", "other"}]) \ {<<>>}
    /\ \A l \in DOMAIN ch : (ch[l].row = "list") = (l < Len(ch))

VARIABLES
  chain,       \* the lists
  include_row, \* does the iteration return a row that is not a list?
  it,          \* the iterator
  given,       \* the elements that it has returned
  iterating    \* has it not come to the end?

reader == <<chain, include_row, it, given, iterating>>

Elem(l, i) == [list |-> l, place |-> i]

Null == [list |-> 0, place |-> 0]

HasRow(l) == chain[l].row # "no"

list_size(l) == chain[l].own + IF HasRow(l) THEN 1 ELSE 0

RowIsList(i) == i.row /\ i.index = i.size /\ chain[i.list].row = "list"

RowIsOther(i) == i.row /\ i.index = i.size /\ chain[i.list].row = "other"

list_begin(l) ==
  [list |-> l, index |-> 0, size |-> chain[l].own, row |-> HasRow(l)]

(* mutant: an empty list ends the iteration, whatever its row is.          *)
NextStopsAtEmpty(i, with_row) ==
  LET j == IF RowIsList(i) THEN list_begin(i.list + 1) ELSE i
  IN  IF j.index < j.size \/ (with_row /\ RowIsOther(j))
      THEN [it |-> [j EXCEPT !.index = @ + 1], elem |-> Elem(j.list, j.index + 1)]
      ELSE [it |-> j, elem |-> Null]

(* The next element, and the iterator then: it moves on into the row.      *)
list_next(i, with_row) ==
  LET from[l \in i.list .. Len(chain)] ==
        LET j == IF l = i.list THEN i ELSE list_begin(l)
        IN  IF RowIsList(j) THEN from[l + 1]
            ELSE IF j.index < j.size \/ (with_row /\ RowIsOther(j))
            THEN [it |-> [j EXCEPT !.index = @ + 1], elem |-> Elem(l, j.index + 1)]
            ELSE [it |-> j, elem |-> Null]
  IN  from[i.list]

(* How many elements are left, with or without the last row.               *)
list_remaining_size(i, count_last_row) ==
  LET csub(x, y) == IF x > y THEN x - y ELSE 0
      from[l \in i.list .. Len(chain)] ==
        LET j == IF l = i.list THEN i ELSE list_begin(l)
        IN  IF chain[l].row = "list" THEN j.size - j.index + from[l + 1]
            ELSE csub(j.size + IF j.row /\ count_last_row THEN 1 ELSE 0, j.index)
  IN  IF i.index > i.size THEN 0 ELSE from[i.list]

(* A list of what is left: the list itself when nothing was read of it,    *)
(* the row when only that is left, or else a copy of the other places.     *)
list_rest(i) ==
  LET elems == i.size - i.index + IF i.row THEN 1 ELSE 0
  IN  CASE i.index = 0 -> [list |-> i.list, after |-> 0, row |-> i.row]
        [] i.index > 0 /\ elems = 1 /\ RowIsList(i) ->
             [list |-> i.list + 1, after |-> 0, row |-> HasRow(i.list + 1)]
        [] OTHER -> [list |-> i.list, after |-> i.index, row |-> i.row]

-----------------------------------------------------------------------------
ListsInit ==
  /\ chain \in Chains
  /\ include_row \in BOOLEAN
  /\ it = list_begin(1)
  /\ given = <<>>
  /\ iterating = TRUE

flat_copy ==
  /\ iterating
  /\ LET n == list_next(it, include_row)
     IN  /\ it' = n.it
         /\ given' = IF n.elem = Null THEN given ELSE Append(given, n.elem)
         /\ iterating' = (n.elem # Null)
  /\ UNCHANGED <<chain, include_row>>

ListsSpec == ListsInit /\ [][flat_copy]_reader

-----------------------------------------------------------------------------
(* Properties.                                                             *)

(* The elements of list l after the n-th, and of the lists it goes on in.  *)
Elements(l, n) ==
  LET f[m \in l .. Len(chain) + 1] ==
        IF m > Len(chain) THEN <<>>
        ELSE LET skip == IF m = l THEN n ELSE 0
                 own  == chain[m].own + IF chain[m].row = "other" THEN 1 ELSE 0
             IN  [i \in 1 .. own - skip |-> Elem(m, skip + i)] \o f[m + 1]
  IN  f[l]

(* An iteration returns the elements of a list and of its rows from left   *)
(* to right, each once, through lists that are empty, too (list_next());   *)
(* the number of elements that are left is right at any time               *)
(* (list_remaining_size()), and the list of them has all of them, and is   *)
(* one that has a row if its last element is one (list_rest()).            *)
ListsReadThrough ==
  LET all  == Elements(1, 0)
      ends == chain[Len(chain)].row = "other"
      rest == list_rest(it)
      left == Len(all) - Len(given)
      last == IF ends /\ left > 0 THEN 1 ELSE 0
  IN  /\ given = SubSeq(all, 1, Len(given))
      /\ ~iterating => left = IF include_row THEN 0 ELSE last
      /\ list_remaining_size(it, TRUE) = left
      /\ list_remaining_size(it, FALSE) = left - last
      /\ ~include_row => /\ given \o Elements(rest.list, rest.after) = all
                         /\ rest.row = (chain[rest.list].row # "no")
=============================================================================

------------------------------- MODULE Quotes -------------------------------
(***************************************************************************)
(* Quotes at run time: `.`, `pushl`, `pushr`, `quote` and `popr`           *)
(* (primitive/core.c: func_compose_ap()), which give arguments to the      *)
(* incomplete functions of a quote that others hold too, by copying the    *)
(* path from the quote to the function first (rt.c: compose(), arg_nd();   *)
(* mutate.c).                                                              *)
(*                                                                         *)
(* A step is one such call, its operands already reduced.  The cells are   *)
(* those of Parser, the elements of a list bottom first.  Left out:        *)
(* variables, placeholders and the rows they make, and alternatives.       *)
(***************************************************************************)
EXTENDS Integers, Sequences, FiniteSets, SequencesExt

CONSTANTS
  Words,     \* words that are defined: a function to [in, out]
  Starts,    \* the operands at first: sequences of [quoted, words]
  MaxHeld,   \* bound: operands on the stack
  MaxSteps   \* bound: operations

VARIABLES
  heap,     \* the cells
  tmp,      \* the tmp field of each cell, None when it is not used
  held,     \* the operands: cells
  meaning,  \* what each of them is
  twofold,  \* ghost: of each, whether a function of it was given an argument
            \* while a quote inside it held that function too
  steps     \* operations done

quotes == <<heap, tmp, held, meaning, twofold, steps>>

P == INSTANCE Parser WITH
       Programs <- {}, Arity <- Words, MAX_ARGS <- MaxSteps,
       MAX_PARSE_DEPTH <- 1, prog <- <<>>, pos <- 0, frames <- <<>>,
       cells <- heap, stage <- "done", result <- 0

None == 0
Present(cs) == SelectSeq(cs, LAMBDA c : c # None)
Total(s) == FoldLeft(LAMBDA x, y : x + y, 0, s)

(* Memory while an operation runs: the cells and their tmp fields.         *)
Mem(h) == [h |-> h, tmp |-> [c \in DOMAIN h |-> None]]
Kids(h, c) == Present(h[c].args)
SetTmp(m, c, t) == [m EXCEPT !.tmp[c] = t]

-----------------------------------------------------------------------------
(* mutate.c.  A list of substitutions is threaded through the tmp fields:  *)
(* a cell, its copy, the next cell, its copy, ...                          *)

(* Allocate a copy of c, which is not counted yet.                         *)
copy(m, c) ==
  LET d == P!FreshCell(m.h)
  IN  [cell |-> d,
       mem |-> [h |-> P!Put(m.h, d, [m.h[c] EXCEPT !.n = 0]),
                tmp |-> P!Put(m.tmp, d, None)]]

free(m, c) == LET rest == DOMAIN m.h \ {c}
              IN  [h |-> [x \in rest |-> m.h[x]], tmp |-> [x \in rest |-> m.tmp[x]]]

(* A step of the operators below: memory, the list, and an answer.         *)
With(m, l, dirty) == [mem |-> m, list |-> l, dirty |-> dirty]

add_to_mutate_list(m, l, c) ==
  LET new == copy(m, c)
      counted == [new.mem EXCEPT !.h[new.cell].n = -1]
  IN  IF m.tmp[c] # None THEN With(m, l, TRUE)
      ELSE With(SetTmp(SetTmp(counted, new.cell, l), c, new.cell), c, TRUE)

(* As though a reference had been dropped, but nothing is freed.           *)
RECURSIVE fake_drop(_, _)
fake_drop(h, c) ==
  LET below == IF h[c].n = 0 THEN FoldLeft(LAMBDA g, x : fake_drop(g, x), h, Kids(h, c)) ELSE h
  IN  [below EXCEPT ![c].n = @ - 1]

RECURSIVE fake_undrop(_, _)
fake_undrop(h, c) ==
  LET up == [h EXCEPT ![c].n = @ + 1]
  IN  IF up[c].n = 0 THEN FoldLeft(LAMBDA g, x : fake_undrop(g, x), up, Kids(h, c)) ELSE up

\* mutant: a copy does not count what it shares with the original.
UpdateUncounted(m, r, in_place) ==
  LET sub(c) == IF c # None /\ m.tmp[c] # None THEN m.tmp[c] ELSE c
      recount(h, c) ==
        IF sub(c) = c THEN h
        ELSE P!refn(IF in_place THEN P!refn(h, c, -1) ELSE h, sub(c), 1)
      counted == FoldLeft(recount, m.h, Kids(m.h, r))
      subs(cs) == FoldLeft(LAMBDA s, c : Append(s, sub(c)), <<>>, cs)
  IN  [m EXCEPT !.h = [counted EXCEPT ![r].args = subs(@), ![r].out = subs(@)]]

(* Replace what r refers to by the copies; outputs are not counted.        *)
mutate_update(m, r, in_place) ==
  LET sub(c) == IF c # None /\ m.tmp[c] # None THEN m.tmp[c] ELSE c
      recount(h, c) ==
        IF sub(c) = c THEN IF in_place THEN h ELSE P!refn(h, c, 1)
        ELSE P!refn(IF in_place THEN P!refn(h, c, -1) ELSE h, sub(c), 1)
      counted == FoldLeft(recount, m.h, Kids(m.h, r))
      subs(cs) == FoldLeft(LAMBDA s, c : Append(s, sub(c)), <<>>, cs)
  IN  [m EXCEPT !.h = [counted EXCEPT ![r].args = subs(@), ![r].out = subs(@)]]

(* Copy what leads from r to a cell of the list and is shared, rewrite in  *)
(* place what is not.  While its arguments are visited a cell's tmp is the *)
(* cell itself.                                                            *)
RECURSIVE mutate_sweep(_, _, _)
mutate_sweep(m, l, r) ==
  LET visit(s, c) ==
        LET t == mutate_sweep(s.mem, s.list, c) IN With(t.mem, t.list, s.dirty \/ t.dirty)
      below == FoldLeft(visit, With(SetTmp(m, r, r), l, FALSE), Reverse(Kids(m.h, r)))
      back == SetTmp(below.mem, r, None)
  IN  IF m.tmp[r] # None THEN With(m, l, TRUE)
      ELSE IF ~below.dirty THEN With(back, below.list, FALSE)
      ELSE IF m.h[r].n = -1 THEN With(mutate_update(back, r, TRUE), below.list, FALSE)
      ELSE add_to_mutate_list(back, below.list, r)

(* Write the references of the copies.                                     *)
RECURSIVE UpdateCopies(_, _)
UpdateCopies(m, l) ==
  IF l = None THEN m
  ELSE LET t == m.tmp[l] IN UpdateCopies(mutate_update(m, t, FALSE), m.tmp[t])

(* The copies of a sweep are linked; what r was is counted as before.      *)
PathCopy(swept, c, r) ==
  LET undropped == [swept.mem EXCEPT !.h = fake_undrop(@, r)]
      root == undropped.tmp[r]
      moved == IF root = None THEN undropped
               ELSE [undropped EXCEPT !.h[root].n = @ + 1, !.h[r].n = @ - 1]
  IN  [mem |-> UpdateCopies(moved, swept.list), list |-> swept.list,
       cell |-> swept.mem.tmp[c], root |-> IF root = None THEN r ELSE root]

(* A path copy from r to c: what r refers to is as before, but for the     *)
(* cells from r to c, which only r refers to now.  If nobody else could    *)
(* reach c it is left where it is.                                         *)
mutate(m0, c, r) ==
  LET added == add_to_mutate_list(m0, None, c)
      m == [added.mem EXCEPT !.h = fake_drop(@, r)]
      kept == free(SetTmp(m, c, None), m.tmp[c])
  IN  IF m.h[c].n = -1
      THEN [mem |-> [kept EXCEPT !.h = fake_undrop(@, r)], list |-> None,
            cell |-> c, root |-> r]
      ELSE PathCopy(mutate_sweep(m, added.list, r), c, r)

RECURSIVE mutate_finish(_, _)
mutate_finish(m, l) ==
  LET own(d) == IF d # None /\ m.h[d].args[1] # l THEN None ELSE d
  IN  IF l = None THEN m
      ELSE mutate_finish(SetTmp([m EXCEPT !.h[l].out = FoldLeft(LAMBDA s, d : Append(s, own(d)), <<>>, @)],
                                l, None),
                         m.tmp[l])

-----------------------------------------------------------------------------
(* Arguments for functions that others hold.                               *)

RECURSIVE NextToFill(_, _)
NextToFill(h, c) == LET a == h[c].args[P!closure_next_child(h, c)]
                    IN  IF a = None THEN c ELSE NextToFill(h, a)

(* From c down to a, the cells that are ready now that a has been given:   *)
(* those of which every one below fills its last argument.                 *)
RECURSIVE update_ready(_, _, _, _, _)
update_ready(h, p, a, stack, last) ==
  LET i == P!closure_next_child(h, p)
      ready == FoldLeft(LAMBDA g, x : [g EXCEPT ![x].ready = TRUE], h, stack)
  IN  IF p = a
      THEN IF last = None THEN ready ELSE [ready EXCEPT ![last].idx = @ - 1]
      ELSE IF i = 1 THEN update_ready(h, h[p].args[i], a, <<p>> \o stack, last)
      ELSE update_ready(h, h[p].args[i], a, <<>>, p)

\* mutant: the function is filled in place.
ArgInPlace(h, c, a, r) == [h |-> P!arg(h, c, a), tmp |-> <<>>, root |-> r]

(* The copy that replaces c in a quote is given a.                         *)
FillCopy(copied, c, a) ==
  LET m == copied.mem
      top == IF c \in DOMAIN m.tmp /\ m.tmp[c] # None THEN m.tmp[c] ELSE c
      done == mutate_finish(m, copied.list)
      filled == [done.h EXCEPT ![copied.cell].args[P!closure_next_child(done.h, copied.cell)] = a]
  IN  [h |-> IF done.h[a].ready THEN update_ready(filled, top, a, <<>>, None) ELSE filled,
       tmp |-> done.tmp,
       root |-> copied.root]

(* Give c, an element of the quote r, its next argument.                   *)
arg_nd(h, c, a, r) == FillCopy(mutate(Mem(h), NextToFill(h, c), r), c, a)

Elements(h, l) == Reverse(h[l].args)

(* The first element from the top that is incomplete.                      *)
needs_arg(h, l) == SelectSeq(Elements(h, l), LAMBDA x : ~h[x].ready)[1]

(* The arguments that c needs: those of the one being filled first.        *)
RECURSIVE args_required(_, _)
args_required(h, c) ==
  IF c = None THEN 0
  ELSE IF h[c].ready THEN 0
  ELSE LET i == P!closure_next_child(h, c)
           a == h[c].args[i]
       IN  IF a = None THEN i ELSE i - 1 + args_required(h, a)

function_in(h, l) == Total([i \in DOMAIN h[l].args |-> args_required(h, h[l].args[i])])

(* The rest of the elements go below those of l.                           *)
Prepend(h, l, xs) ==
  LET counted == FoldLeft(LAMBDA g, x : P!refn(g, x, 1), h, xs)
      d == P!FreshCell(h)
      shared == FoldLeft(LAMBDA g, x : P!refn(g, x, 1), counted, h[l].args)
  IN  IF xs = <<>> THEN [h |-> h, root |-> l]
      ELSE IF h[l].n = 0 THEN [h |-> [counted EXCEPT ![l].args = Reverse(xs) \o @], root |-> l]
      ELSE [h |-> P!Put(P!drop(shared, l), d,
                        [h[l] EXCEPT !.n = 0, !.args = Reverse(xs) \o @]),
            root |-> d]

(* After the first argument the others are given in place.                 *)
GiveRest(first, more, rest) ==
  LET next(g, x) == P!arg(P!refn(g, x, 1), needs_arg(g, first.root), x)
      whole == Prepend(FoldLeft(next, first.h, more), first.root, rest)
  IN  [h |-> whole.h, root |-> whole.root, tmp |-> first.tmp]

(* Give the incomplete functions of the quote b the elements of `it`, top  *)
(* first; what is left of them goes below.  The first is given to a copy,  *)
(* so that the others may be given in place.                               *)
compose(h, it, b) ==
  LET needed == function_in(h, b)
      given == SubSeq(it, 1, IF needed < Len(it) THEN needed ELSE Len(it))
      rest == SubSeq(it, Len(given) + 1, Len(it))
  IN  IF given = <<>> THEN GiveRest([h |-> h, root |-> b, tmp |-> <<>>], <<>>, rest)
      ELSE GiveRest(arg_nd(P!refn(h, given[1], 1), needs_arg(h, b), given[1], b),
                    Tail(given), rest)

-----------------------------------------------------------------------------
(* What an operand is: a value, or a function from the stack to the stack. *)

Lit(w) == [kind |-> w, args |-> <<>>]
Hole(k) == [kind |-> "hole", args |-> <<k>>]
Fn(in, out) == [kind |-> "list", args |-> <<in, out>>]
InOf(f) == f.args[1]
OutOf(f) == f.args[2]

(* Holes are numbered from the top of the stack.                           *)
RECURSIVE Substitute(_, _)
Substitute(t, s) ==
  CASE t.kind = "hole" -> s[t.args[1]]
    [] t.kind = "list" -> t
    [] OTHER -> [t EXCEPT !.args = [i \in DOMAIN @ |-> Substitute(@[i], s)]]

(* First f, then g.                                                        *)
Then(f, g) ==
  LET has == Len(OutOf(f))
      more == IF InOf(g) > has THEN InOf(g) - has ELSE 0
      stack == [k \in 1 .. InOf(g) |-> IF k <= has THEN OutOf(f)[has + 1 - k]
                                       ELSE Hole(InOf(f) + k - has)]
      under == SubSeq(OutOf(f), 1, has - (InOf(g) - more))
  IN  Fn(InOf(f) + more,
         under \o [i \in DOMAIN OutOf(g) |-> Substitute(OutOf(g)[i], stack)])

WordMeans(w) ==
  CASE w = "dup" -> Fn(1, <<Hole(1), Hole(1)>>)
    [] w = "swap" -> Fn(2, <<Hole(1), Hole(2)>>)
    [] w \in DOMAIN Words ->
         Fn(Words[w].in, <<[kind |-> w, args |-> [i \in 1 .. Words[w].in |->
                                                  Hole(Words[w].in + 1 - i)]]>>)
    [] OTHER -> Fn(0, <<Lit(w)>>)
ProgramMeans(p) == FoldLeft(LAMBDA f, w : Then(f, WordMeans(w)), Fn(0, <<>>), p)

(* What a cell is: Slots are the missing arguments of a function, in the   *)
(* order in which they are filled.                                         *)
RECURSIVE Slots(_, _)
Slots(h, c) ==
  LET i == P!closure_next_child(h, c)
      a == h[c].args[i]
      others(k) == [j \in 1 .. k |-> <<c, k + 1 - j>>]
  IN  IF h[c].ready THEN <<>>
      ELSE IF a = None THEN others(i)
      ELSE Slots(h, a) \o others(i - 1)

RECURSIVE Denotes(_, _, _)
Denotes(h, c, slots) ==
  LET given(f, i) ==
        LET at == {k \in DOMAIN slots : slots[k] = <<f, i>>}
        IN  IF at # {} THEN Hole(CHOOSE k \in at : TRUE)
            ELSE IF h[f].args[i] = None THEN Lit("fail")
            ELSE Denotes(h, h[f].args[i], slots)
      inside == FoldLeft(LAMBDA s, x : s \o Slots(h, x), <<>>, Elements(h, c))
      x == h[c]
  IN  CASE x.op = "list" -> Fn(Len(inside), [i \in DOMAIN x.args |->
                                             Denotes(h, x.args[i], inside)])
        [] x.op = "swap" -> given(c, 2)
        [] x.op = "dup" -> given(c, 1)
        [] x.op = "dep" -> given(x.args[1], 1)
        [] x.op = "seq" -> Denotes(h, x.args[1], <<>>)
        [] OTHER -> [kind |-> x.op, args |-> [i \in DOMAIN x.args |-> given(c, i)]]

-----------------------------------------------------------------------------
(* Operations.                                                             *)

(* An operand is read: a quote, or a value.                                *)
ReadWord(s, w) ==
  LET word == P!parse_word(s.h, w, Words[w].in, Words[w].out)
      taken == P!FromStack(word.cells, word.c, s.args)
      literal == P!FreshCell(s.h)
  IN  IF w \in DOMAIN Words
      THEN [h |-> taken.cells, args |-> taken.args \o <<word.c>> \o word.cells[word.c].out]
      ELSE [h |-> P!Put(s.h, literal, P!Value(w, <<>>)), args |-> Append(s.args, literal)]

Read(s, operand) ==
  LET read == FoldLeft(ReadWord, [h |-> s.h, args |-> <<>>], operand.words)
      l == P!FreshCell(read.h)
  IN  IF operand.quoted
      THEN [h |-> P!array_to_list(read.h, read.args), args |-> Append(s.args, l)]
      ELSE [h |-> read.h, args |-> s.args \o read.args]

OperandMeans(operand) ==
  LET f == ProgramMeans(operand.words) IN IF operand.quoted THEN f ELSE OutOf(f)[1]

Init ==
  /\ tmp = <<>>
  /\ steps = 0
  /\ \E start \in Starts :
       LET read == FoldLeft(Read, [h |-> <<>>, args |-> <<>>], start)
       IN  /\ heap = read.h
           /\ held = read.args
           /\ meaning = [k \in DOMAIN start |-> OperandMeans(start[k])]
           /\ twofold = [k \in DOMAIN start |-> FALSE]

Tick == steps < MaxSteps /\ steps' = steps + 1
IsQuote(k) == heap[held[k]].op = "list"
Quotations == {k \in DOMAIN held : IsQuote(k)}

(* Another reference to an operand.                                        *)
Dup ==
  /\ Tick /\ Len(held) < MaxHeld
  /\ \E k \in DOMAIN held :
       /\ heap' = P!refn(heap, held[k], 1)
       /\ held' = Append(held, held[k])
       /\ meaning' = Append(meaning, meaning[k])
       /\ twofold' = Append(twofold, twofold[k])
  /\ UNCHANGED tmp

Drop ==
  /\ Tick
  /\ \E k \in DOMAIN held :
       /\ heap' = P!drop(heap, held[k])
       /\ held' = RemoveAt(held, k)
       /\ meaning' = RemoveAt(meaning, k)
       /\ twofold' = RemoveAt(twofold, k)
  /\ UNCHANGED tmp

(* func_compose_ap(): the operands that are used up are dropped, and the   *)
(* result of compose() takes the place of the last.                        *)
Replace(made, used, k, means, twice) ==
  /\ heap' = P!DropAll(made.h, [i \in DOMAIN used |-> held[used[i]]])
  /\ tmp' = [c \in {c \in DOMAIN made.tmp : made.tmp[c] # None} |-> made.tmp[c]]
  /\ LET order == SelectSeq([i \in DOMAIN held |-> i],
                            LAMBDA i : i = k \/ \A j \in DOMAIN used : used[j] # i)
     IN  /\ held' = [i \in DOMAIN order |->
                       IF order[i] = k THEN made.root ELSE held[order[i]]]
         /\ meaning' = [i \in DOMAIN order |->
                          IF order[i] = k THEN means ELSE meaning[order[i]]]
         /\ twofold' = [i \in DOMAIN order |->
                          IF order[i] = k THEN twice \/ \E n \in ToSet(used) : twofold[n]
                          ELSE twofold[order[i]]]

(* The incomplete functions of a cell, apart from those of quotes in it;   *)
(* the quotes in it; and whether a quote holds a function of its own in a  *)
(* quote inside it too.                                                    *)
RECURSIVE Under(_, _, _)
Under(h, c, stops) ==
  {c} \cup IF h[c].op \in stops THEN {} ELSE UNION {Under(h, x, stops) : x \in ToSet(Kids(h, c))}
Twofold(k) ==
  LET own == UNION {Under(heap, x, {"list"}) : x \in ToSet(heap[held[k]].args)}
      inner == UNION {Under(heap, x, {}) : x \in {x \in own : heap[x].op = "list"}}
  IN  \E c \in own \cap inner : ~heap[c].ready

(* x f pushl: x is given to f.  With f = [] this is x quote.               *)
pushl ==
  /\ Tick
  /\ \E k \in Quotations : \E j \in DOMAIN held \ {k} :
       /\ Replace(compose(P!refn(heap, held[k], 1), <<held[j]>>, held[k]), <<j, k>>, k,
                  Then(Fn(0, <<meaning[j]>>), meaning[k]), Twofold(k))

(* f x pushr: composed with [], the elements are x and those of f.         *)
pushr ==
  /\ Tick
  /\ \E k \in Quotations : \E j \in DOMAIN held \ {k} :
       /\ Replace(LET nil == P!FreshCell(heap)
                      h == P!Put(heap, nil, P!Value("list", <<>>))
                      l == compose(P!refn(h, nil, 1), <<held[j]>> \o Elements(heap, held[k]), nil)
                  IN  [l EXCEPT !.h = P!drop(@, nil)],
                  <<j, k>>, k,
                  Fn(InOf(meaning[k]), Append(OutOf(meaning[k]), meaning[j])), FALSE)

(* f g . : first f, then g; composed with [] f is left as it is.           *)
dot ==
  /\ Tick
  /\ \E k \in Quotations : \E j \in Quotations \ {k} :
       /\ Replace(IF heap[held[k]].args = <<>>
                  THEN [h |-> P!refn(heap, held[j], 1), root |-> held[j], tmp |-> <<>>]
                  ELSE compose(P!refn(heap, held[k], 1), Elements(heap, held[j]), held[k]),
                  <<j, k>>, k, Then(meaning[j], meaning[k]),
                  Twofold(k) /\ heap[held[j]].args # <<>>)

(* f popr: the rest of f, and its top, which is only evaluated when it is  *)
(* used (seq); if that takes an argument that is missing it fails.  It     *)
(* goes below the others here.  Bound: the incomplete function itself is   *)
(* not taken.                                                              *)
popr ==
  /\ Tick /\ Len(held) < MaxHeld
  /\ \E k \in Quotations :
       LET l == held[k]
           rest == Front(heap[l].args)
           top == Last(heap[l].args)
           h == P!array_to_list(FoldLeft(LAMBDA g, x : P!refn(g, x, 1), heap, rest), rest)
           list_rest == P!FreshCell(heap)
           seq == P!FreshCell(h)
           out == OutOf(meaning[k])
           fails == [i \in 1 .. InOf(meaning[k]) |-> Lit("fail")]
       IN  /\ heap[l].args # <<>> /\ heap[top].ready
           /\ heap' = P!drop(P!refn(P!refn(P!Put(h, seq, P!Value("seq", <<top, list_rest>>)),
                                          top, 1), list_rest, 1), l)
           /\ held' = <<seq>> \o [held EXCEPT ![k] = list_rest]
           /\ meaning' = <<Substitute(Last(out), fails)>> \o
                         [meaning EXCEPT ![k] = Fn(InOf(meaning[k]), Front(out))]
           /\ twofold' = <<twofold[k]>> \o twofold
  /\ UNCHANGED tmp

Next == Dup \/ Drop \/ pushl \/ pushr \/ dot \/ popr
Spec == Init /\ [][Next]_quotes

-----------------------------------------------------------------------------
(* Properties.                                                             *)

(* Whatever has been done to quotes that share functions with it, an       *)
(* operand is what its own operations make it: arg_nd() and compose() are  *)
(* "nondestructive" (rt.c:641, 529), and dup duplicates what it is given.  *)
(* Except a Twofold operand: once a quote is given an argument while it    *)
(* holds the same incomplete function itself and in a quote inside it,     *)
(* arg_nd() fills it in for both (rt.c:638), and what is made from the     *)
(* result need not mean what it should.                                    *)
QuotesKeepMeaning ==
  \A k \in DOMAIN held : ~twofold[k] => Denotes(heap, held[k], <<>>) = meaning[k]

(* A path copy counts what it shares, what it replaced and what it moved   *)
(* exactly (mutate.c), so nothing is freed while it is held, and nothing   *)
(* is left when the last operand goes.                                     *)
QuoteRefsExact ==
  \A c \in DOMAIN heap :
    heap[c].n + 1 = Cardinality({k \in DOMAIN held : held[k] = c})
                    + Total([x \in 1 .. P!FreshCell(heap) - 1 |->
                         IF x \notin DOMAIN heap THEN 0
                         ELSE Cardinality({i \in DOMAIN heap[x].args : heap[x].args[i] = c})])
=============================================================================

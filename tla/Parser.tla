------------------------------- MODULE Parser -------------------------------
(***************************************************************************)
(* Turning the tokens of an expression into a graph of cells               *)
(* (parse/parse.c: parse_subexpr() and what it calls).  Each bracket that  *)
(* is open has a frame: the stack of the arguments that its words left,    *)
(* and a placeholder if one was read.  A step is one turn of the loop over *)
(* the tokens, or the return from one level when the parse fails.          *)
(***************************************************************************)
EXTENDS Integers, Sequences, FiniteSets, SequencesExt

CONSTANTS
  Programs,       \* the sequences of tokens that are read
  Arity,          \* words that are defined: a function to [in, out]
  MAX_ARGS,       \* the size of the stack of one level
  MAX_PARSE_DEPTH \* how deep brackets may nest

VARIABLES
  prog,    \* the tokens
  pos,     \* the next one (l)
  frames,  \* the levels that are open: [args, ph]
  cells,   \* the graph
  stage,   \* "parsing", "failing", "failed", "thrown", "parsed" or "done"
  result   \* the list that was read

parser == <<prog, pos, frames, cells, stage, result>>

None == 0

(* Tokens are strings; Arity names the words, these are the others.        *)
Literals == {"1", "True"}      \* numbers, strings and symbols
Punctuation == {"[", "]", ",", "("}
Ignored == {"_"}               \* of a class that parse_subexpr() skips

-----------------------------------------------------------------------------
(* Cells: args has None where an argument is missing, idx is the one to be *)
(* filled next, out has the cells of the other outputs, n counts the       *)
(* references after the first.                                             *)

FreshCell(h) == 1 + Max({0} \cup DOMAIN h)

Put(h, c, cell) == [x \in DOMAIN h \cup {c} |-> IF x = c THEN cell ELSE h[x]]

Value(op, args) ==
  [op |-> op, args |-> args, out |-> <<>>, idx |-> 0, n |-> 0, ready |-> TRUE]

closure_is_ready(h, c) == h[c].ready

closure_next_child(h, c) ==
  IF h[c].args[1] # None THEN 1 ELSE h[c].idx

refn(h, c, n) == [h EXCEPT ![c].n = @ + n]

(* Give c its next argument, or give it to the argument that needs one.    *)
RECURSIVE arg(_, _, _)
arg(h, c, a) ==
  LET i == closure_next_child(h, c)
      deeper == arg(h, h[c].args[i], a)
      full == closure_is_ready(deeper, h[c].args[i])
  IN  IF h[c].args[i] = None
      THEN [h EXCEPT ![c] =
              [@ EXCEPT !.args[i] = a,
                        !.idx = IF h[a].ready THEN i - 1 ELSE i,
                        !.ready = i = 1 /\ h[a].ready]]
      ELSE IF ~full THEN deeper
      ELSE IF i = 1 THEN [deeper EXCEPT ![c].ready = TRUE]
      ELSE [deeper EXCEPT ![c].idx = @ - 1]

(* A new output of c, the first of them.                                   *)
dep(h, c) ==
  LET d == FreshCell(h)
  IN  Put([h EXCEPT ![c].out = <<d>> \o @], d, Value("dep", <<c>>))

(* Drop a reference; the last one frees the cell and drops what it refers  *)
(* to, and a dep leaves the outputs of its function.                       *)
RECURSIVE drop(_, _)
drop(h, c) ==
  LET below == FoldLeft(LAMBDA g, a : IF a = None THEN g ELSE drop(g, a),
                        h, h[c].args)
      p == h[c].args[1]
      unlinked == IF h[c].op = "dep" /\ p \in DOMAIN below
                  THEN [below EXCEPT ![p].out =
                          [k \in DOMAIN @ |-> IF @[k] = c THEN None ELSE @[k]]]
                  ELSE below
  IN  IF h[c].n > 0 THEN [h EXCEPT ![c].n = @ - 1]
      ELSE [x \in DOMAIN unlinked \ {c} |-> unlinked[x]]

DropAll(h, cs) == FoldLeft(drop, h, cs)

-----------------------------------------------------------------------------
(* Words.                                                                  *)

(* The function for a word, with cells for its other outputs.              *)
parse_word(h, word, in, out) ==
  LET c == FreshCell(h)
      f == [Value(word, [i \in 1 .. in |-> None]) EXCEPT !.idx = in, !.ready = in = 0,
              !.n = out - 1, !.out = [k \in 1 .. out - 1 |-> c + k]]
      with_deps == [x \in DOMAIN h \cup (c .. c + out - 1) |->
                      CASE x \in DOMAIN h -> h[x]
                        [] x = c -> f
                        [] OTHER -> Value("dep", <<c>>)]
  IN  [cells |-> with_deps, c |-> c]

(* A placeholder takes the whole stack, and a variable for the rest.       *)
parse_placeholder(h, n) ==
  LET v == FreshCell(h)
      c == v + 1
      f == [Value("??", [i \in 1 .. n |-> None] \o <<v>>) EXCEPT
              !.idx = n, !.ready = n = 0]
  IN  [cells |-> Put(Put(h, v, Value("rest", <<>>)), c, f), c |-> c]

(* Arguments come from the stack, the last one first.                      *)
RECURSIVE FromStack(_, _, _)
FromStack(h, c, args) ==
  IF args = <<>> \/ closure_is_ready(h, c) THEN [cells |-> h, args |-> args]
  ELSE FromStack(arg(h, c, Last(args)), c, Front(args))

(* Those that are missing are more outputs of the placeholder.             *)
RECURSIVE FromPlaceholder(_, _, _)
FromPlaceholder(h, c, ph) ==
  IF closure_is_ready(h, c) THEN h
  ELSE LET expanded == dep(refn(h, ph, 1), ph)
       IN  FromPlaceholder(arg(expanded, c, FreshCell(h)), c, ph)

Apply(h, c, frame) ==
  LET taken == FromStack(h, c, frame.args)
  IN  IF frame.ph = None THEN taken
      ELSE [taken EXCEPT !.cells = FromPlaceholder(@, c, frame.ph)]

-----------------------------------------------------------------------------
(* The loop over the tokens.                                               *)

ParseStart ==
  /\ pos = 1
  /\ frames = <<[args |-> <<>>, ph |-> None]>>
  /\ cells = <<>>
  /\ stage = "parsing"
  /\ result = None

ParseInit ==
  /\ prog \in Programs
  /\ ParseStart

Parsing == stage = "parsing"

NextToken == prog[pos]

Reads(tokens) == Parsing /\ pos <= Len(prog) /\ NextToken \in tokens

Level == Last(frames)

SetLevel(frame) == frames' = Front(frames) \o <<frame>>

(* push_arg() of several cells; the stack of a level is fixed.             *)
push_arg(args, new) ==
  IF Len(args) + Len(new) > MAX_ARGS
  THEN stage' = "thrown" /\ UNCHANGED frames
  ELSE SetLevel([Level EXCEPT !.args = args \o new]) /\ UNCHANGED stage

Literal ==
  /\ Reads(Literals)
  /\ cells' = Put(cells, FreshCell(cells), Value(NextToken, <<>>))
  /\ push_arg(Level.args, <<FreshCell(cells)>>)
  /\ pos' = pos + 1
  /\ UNCHANGED <<prog, result>>

Word ==
  /\ Reads(DOMAIN Arity)
  /\ LET w == parse_word(cells, NextToken, Arity[NextToken].in, Arity[NextToken].out)
         applied == Apply(w.cells, w.c, Level)
     IN  /\ cells' = applied.cells
         /\ push_arg(applied.args, <<w.c>> \o w.cells[w.c].out)
  /\ pos' = pos + 1
  /\ UNCHANGED <<prog, result>>

(* A second placeholder replaces the first.                                *)
Placeholder ==
  /\ Reads({"??"})
  /\ LET w == parse_placeholder(cells, Len(Level.args))
         applied == Apply(w.cells, w.c, Level)
     IN  /\ cells' = IF Level.ph = None THEN applied.cells
                     ELSE drop(applied.cells, Level.ph)
         /\ SetLevel([args |-> applied.args, ph |-> w.c])
  /\ pos' = pos + 1
  /\ UNCHANGED <<prog, stage, result>>

Skip ==
  /\ Reads(Ignored)
  /\ pos' = pos + 1
  /\ UNCHANGED <<prog, frames, cells, stage, result>>

Enter(levels) == levels \o <<[args |-> <<>>, ph |-> None]>>

Open ==
  /\ Reads({"["})
  /\ IF Len(frames) < MAX_PARSE_DEPTH
     THEN frames' = Enter(frames) /\ UNCHANGED stage
     ELSE stage' = "thrown" /\ UNCHANGED frames
  /\ pos' = pos + 1
  /\ UNCHANGED <<prog, cells, result>>

\* mutant: the placeholder goes above the other elements.
PlaceholderLast(frame) == IF frame.ph = None THEN frame.args ELSE frame.args \o <<frame.ph>>

(* array_to_list(), with the placeholder below the other elements.         *)
Elements(frame) == IF frame.ph = None THEN frame.args ELSE <<frame.ph>> \o frame.args

array_to_list(h, elements) == Put(h, FreshCell(h), Value("list", elements))

(* The level ends: the one above gets the list, and a comma opens another. *)
Close ==
  /\ Reads({"]", ","})
  /\ Len(frames) > 1
  /\ LET outer == Front(frames)
         pushed == [Last(outer) EXCEPT !.args = Append(@, FreshCell(cells))]
         closed == Front(outer) \o <<pushed>>
     IN  IF \/ Len(Elements(Level)) > MAX_ARGS
            \/ Len(pushed.args) > MAX_ARGS
         THEN stage' = "thrown" /\ UNCHANGED <<frames, cells>>
         ELSE /\ cells' = array_to_list(cells, Elements(Level))
              /\ IF NextToken = "]" THEN frames' = closed /\ UNCHANGED stage
                 ELSE IF pos = Len(prog) THEN frames' = closed /\ stage' = "failing"
                 ELSE frames' = Enter(closed) /\ UNCHANGED stage
  /\ pos' = pos + 1
  /\ UNCHANGED <<prog, result>>

(* A word that is not known, a bracket that does not match, or a vector.   *)
Refuse ==
  /\ \/ /\ Parsing
        /\ pos <= Len(prog)
        /\ NextToken \notin DOMAIN Arity \cup {"??"} \cup Literals \cup Ignored \cup Punctuation
     \/ Reads({"("})
     \/ Reads({"]", ","}) /\ Len(frames) = 1
  /\ stage' = "failing"
  /\ pos' = pos + 1
  /\ UNCHANGED <<prog, frames, cells, result>>

End ==
  /\ Parsing
  /\ pos > Len(prog)
  /\ IF Len(frames) > 1
     THEN stage' = "failing" /\ UNCHANGED <<frames, cells, result>>
     ELSE IF Len(Elements(Level)) > MAX_ARGS
     THEN stage' = "thrown" /\ UNCHANGED <<frames, cells, result>>
     ELSE /\ cells' = array_to_list(cells, Elements(Level))
          /\ result' = FreshCell(cells)
          /\ frames' = <<>>
          /\ stage' = "parsed"
  /\ UNCHANGED <<prog, pos>>

\* mutant: the placeholder of a level that failed is not dropped.
UnwindKeepsPlaceholder ==
  /\ stage = "failing"
  /\ cells' = DropAll(cells, Level.args)
  /\ frames' = Front(frames)
  /\ stage' = IF Len(frames) = 1 THEN "failed" ELSE "failing"
  /\ UNCHANGED <<prog, pos, result>>

(* A level that failed drops what it holds, and so does the one above.     *)
Unwind ==
  /\ stage = "failing"
  /\ cells' = LET h == DropAll(cells, Level.args)
              IN  IF Level.ph = None THEN h ELSE drop(h, Level.ph)
  /\ frames' = Front(frames)
  /\ stage' = IF Len(frames) = 1 THEN "failed" ELSE "failing"
  /\ UNCHANGED <<prog, pos, result>>

(* The element that may need arguments is the leftmost.                    *)
Incomplete(h, l) == h[l].args # <<>> /\ ~closure_is_ready(h, h[l].args[1])

param(h, k) == Put(h, FreshCell(h), [Value("hole", <<>>) EXCEPT !.idx = k])

Holes(h) == Cardinality({c \in DOMAIN h : h[c].op = "hole"})

(* fill_args(): a variable for each argument that the program itself needs.*)
FillArg ==
  /\ stage = "parsed"
  /\ IF Incomplete(cells, result)
     THEN /\ cells' = arg(param(cells, Holes(cells) + 1), cells[result].args[1],
                          FreshCell(cells))
          /\ UNCHANGED stage
     ELSE stage' = "done" /\ UNCHANGED cells
  /\ UNCHANGED <<prog, pos, frames, result>>

ParseNext ==
  \/ Literal
  \/ Word
  \/ Placeholder
  \/ Skip
  \/ Open
  \/ Close
  \/ Refuse
  \/ End
  \/ Unwind
  \/ FillArg

ParseSpec == ParseInit /\ [][ParseNext]_parser

-----------------------------------------------------------------------------
(* What an expression means: a function on stacks, as a composition of its *)
(* words.  Where the stack is empty a word gets the next output of the     *)
(* placeholder, or an input of the expression.                             *)

Term(op, out, args) == [op |-> op, out |-> out, args |-> args]

Under(m, k) ==
  IF m.ph = <<>> THEN Term("hole", m.used + k, <<>>)
  ELSE Term("??", m.used + k, m.ph[1].args)

Takes(m, in) ==
  LET missing == IF in > Len(m.stack) THEN in - Len(m.stack) ELSE 0
  IN  [terms |-> [k \in 1 .. missing |-> Under(m, missing + 1 - k)]
                 \o SubSeq(m.stack, Len(m.stack) - (in - missing) + 1, Len(m.stack)),
       left |-> [m EXCEPT !.stack = SubSeq(@, 1, Len(@) - (in - missing)),
                          !.used = @ + missing]]

Nothing == [stack |-> <<>>, ph |-> <<>>, used |-> 0]

MeaningOf(m) == Term("list", 0, m.ph \o m.stack)

Pushed(m, t) == [m EXCEPT !.stack = Append(@, t)]

(* The levels that are open after the tokens of p, each a function so far; *)
(* empty if p is not the beginning of an expression.                       *)
Open1(ms) == ms \o <<Nothing>>
Close1(ms) ==
  LET n == Len(ms) IN SubSeq(ms, 1, n - 2) \o <<Pushed(ms[n - 1], MeaningOf(ms[n]))>>

Reading(p) ==
  LET step(ms, t) ==
        LET m == Last(ms)
            rest == Front(ms)
            takes == Takes(m, Arity[t].in)
            all == [m EXCEPT !.stack = <<>>, !.used = 0,
                      !.ph = <<Term("??", 0, m.stack \o <<Term("rest", 0, <<>>)>>)>>]
        IN  CASE ms = <<>> -> <<>>
              [] t \in Literals -> rest \o <<Pushed(m, Term(t, 0, <<>>))>>
              [] t \in DOMAIN Arity ->
                   rest \o <<[takes.left EXCEPT !.stack = @ \o
                       [k \in 1 .. Arity[t].out |-> Term(t, k - 1, takes.terms)]]>>
              [] t = "??" -> rest \o <<all>>
              [] t = "[" -> Open1(ms)
              [] t = "]" /\ Len(ms) > 1 -> Close1(ms)
              [] t = "," /\ Len(ms) > 1 -> Open1(Close1(ms))
              [] t \in Ignored -> ms
              [] OTHER -> <<>>
  IN  FoldLeft(step, <<Nothing>>, p)

WellFormed(p) == Len(Reading(p)) = 1

(* The term that a cell stands for; an expression that is quoted still     *)
(* needs its inputs, which are filled here.                                *)
RECURSIVE Filled(_, _, _)
Filled(h, l, k) ==
  IF Incomplete(h, l) THEN Filled(arg(param(h, k), h[l].args[1], FreshCell(h)), l, k + 1)
  ELSE h

RECURSIVE Denotes(_, _)
Denotes(h, c) ==
  LET f == h[c].args[1]
      args == h[f].args
      place == CHOOSE k \in DOMAIN h[f].out : h[f].out[k] = c
      number == IF h[f].op = "??" THEN Len(h[f].out) + 1 - place ELSE place
      full == Filled(h, c, 1)
  IN  CASE h[c].op = "dep" ->
             Term(h[f].op, number, [i \in DOMAIN args |-> Denotes(h, args[i])])
        [] h[c].op = "hole" -> Term("hole", h[c].idx, <<>>)
        [] h[c].op = "list" ->
             Term("list", 0, [i \in DOMAIN h[c].args |-> Denotes(full, h[c].args[i])])
        [] OTHER -> Term(h[c].op, 0, [i \in DOMAIN h[c].args |-> Denotes(h, h[c].args[i])])

-----------------------------------------------------------------------------
(* Properties.                                                             *)

(* The references to a cell.                                               *)
ReferencesTo(c) ==
  LET inside == {<<x, i>> \in (DOMAIN cells) \X (1 .. Len(prog) + 1) :
                   i \in DOMAIN cells[x].args /\ cells[x].args[i] = c}
      stacked == {<<f, i>> \in (DOMAIN frames) \X (1 .. MAX_ARGS) :
                    i \in DOMAIN frames[f].args /\ frames[f].args[i] = c}
      kept == {f \in DOMAIN frames : frames[f].ph = c}
  IN  Cardinality(inside) + Cardinality(stacked) + Cardinality(kept)
      + (IF result = c THEN 1 ELSE 0)

(* Counts are exact at every step, so that a parse that fails frees all    *)
(* that it allocated (parse/parse.c:649): nothing of it is left.           *)
ParserRefsExact ==
  /\ stage # "thrown" =>
       \A c \in DOMAIN cells : cells[c].n + 1 = ReferencesTo(c)
  /\ stage = "failed" => cells = <<>>

(* A second placeholder drops the first, with the arguments it still needs.*)
Chained(p) == Cardinality({i \in 1 .. Len(p) : p[i] = "??"}) > 1

(* The graph is the composition of the words, with the inputs in order, in *)
(* quotes of any depth and after a placeholder (parse/parse.c:568).        *)
MeansComposition ==
  (stage = "done" /\ ~Chained(prog)) =>
    Denotes(cells, result) = MeaningOf(Reading(prog)[1])
=============================================================================

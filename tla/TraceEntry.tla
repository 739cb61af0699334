----------------------------- MODULE TraceEntry -----------------------------
(***************************************************************************)
(* How the compiler writes one function down: ir/trace.c, the conditions   *)
(* of var.c, and the condensing pass of ir/compile.c.                      *)
(*                                                                         *)
(* While an expression is reduced, every reduction that meets a variable   *)
(* appends a cell to the entry of the function being compiled.  A cell     *)
(* names its arguments by their place in the entry and counts its readers. *)
(* A constant is written only when something stores it, and a constant     *)
(* that was reached under a condition carries the condition along until    *)
(* then.  When the reduction is over, the cells without a reader are       *)
(* dropped, the inputs are moved to the front and the rest is moved        *)
(* together, with every reference renumbered.                              *)
(*                                                                         *)
(* Each value of the reducer carries what it means: a term over the inputs *)
(* and the set of conditions it was reached under.  The entry is compared  *)
(* with it.                                                                *)
(***************************************************************************)
EXTENDS Integers, Sequences, FiniteSets, SequencesExt

CONSTANTS
    Consts,      \* the constants of the program text
    Calc,        \* what a function that is evaluated on constants yields
    Funs,        \* the functions that are called, name -> <<inputs, outputs besides the result>>
    Partial,     \* the functions among them that may fail
    Fingerprint, \* the fingerprint of a function (hash_entry)
    FirstArgs,   \* arguments that fit in the first cell
    CellArgs,    \* arguments that fit in each further cell
    Sharing,     \* whether the program duplicates a constant that is under a condition
    Outs,        \* how many values the function returns
    MaxInputs, MaxLen, MaxVals, MaxReturns

VARIABLES
    entry,       \* the cells; a cell with many arguments takes the next slots too
    in,          \* entry.in, the number of inputs
    vals,        \* the values the reducer holds
    pending,     \* conditions whose first argument is still being reduced
    returns,     \* what each return was meant to mean
    last,        \* the last return cell, 0 if none
    done         \* trace_end_entry has run

vars == <<entry, in, vals, pending, returns, last, done>>

CondOps == {"assert", "seq", "unless"}

-----------------------------------------------------------------------------
(* Cells                                                                   *)

calculate_tcells(n) ==
    IF n <= FirstArgs THEN 1 ELSE 1 + (n - FirstArgs + CellArgs - 1) \div CellArgs

Cell(op, f, args, outs) ==
    [op |-> op, f |-> f, in |-> args, out |-> outs, n |-> -1, vi |-> 0, alt |-> 0]

Rest == Cell("rest", "", <<>>, <<>>)

size(c) == Len(c.in) + Len(c.out)

trace_alloc(e, c) == e \o <<c>> \o [k \in 1..(calculate_tcells(size(c)) - 1) |-> Rest]

(* There is room left for a return.                                         *)
Fits(e) == Len(e) + calculate_tcells(Outs) <= MaxLen

CellsOf(e) == {i \in DOMAIN e : e[i].op # "rest"}

Count(e, xs) == FoldLeft(LAMBDA f, x : [f EXCEPT ![x].n = @ + 1], e, xs)

(***************************************************************************)
(* trace_cell_eq() compares the operation and the arguments; of the callee *)
(* of a call it sees only what the hash holds, its fingerprint.            *)
(***************************************************************************)
RECURSIVE trace_cell_eq(_, _, _)
trace_cell_eq(e, i, j) ==
    LET a == e[i]
        b == e[j]
        OutOf(k) == CHOOSE m \in 1..Len(e[e[k].in[1]].out) : e[e[k].in[1]].out[m] = k
    IN  \/ i = j
        \/ /\ a.op = b.op
           /\ a.op \in {"call", "dep"} \union CondOps
           /\ Len(a.in) = Len(b.in)
           /\ Len(a.out) = Len(b.out)
           /\ a.op = "call" => Fingerprint[a.f] = Fingerprint[b.f]
           /\ a.op = "dep" => OutOf(i) = OutOf(j)
           /\ \A k \in DOMAIN a.in : trace_cell_eq(e, a.in[k], b.in[k])

(* Common subexpressions: the earlier cell takes the place of the new one,  *)
(* whose count of -1 has it dropped later.                                  *)
dedup_trace_cell(e, i) ==
    LET same == {j \in 1..(i - 1) : e[j].op # "rest" /\ trace_cell_eq(e, i, j)}
    IN  IF e[i].out # <<>> \/ same = {} THEN [e |-> e, x |-> i]
        ELSE [e |-> [e EXCEPT ![i].n = -1],
              x |-> CHOOSE j \in same : \A k \in same : j <= k]

-----------------------------------------------------------------------------
(* Conditions of constants                                                 *)

RECURSIVE depends_on(_, _, _)
depends_on(e, x, y) ==
    \/ x = y
    \/ /\ x # 0
       /\ e[x].op \notin {"unless", "call"}
       /\ \E k \in DOMAIN e[x].in : e[x].in[k] # 0 /\ depends_on(e, e[x].in[k], y)

RECURSIVE has_asserted(_, _, _)
has_asserted(e, x, y) ==
    \/ e[x].op = "assert" /\ e[x].in[2] = y
    \/ /\ e[x].op \notin {"unless", "call"}
       /\ \E k \in DOMAIN e[x].in : e[x].in[k] # 0 /\ has_asserted(e, e[x].in[k], y)

(* The chain of conditions i, made to end in v: a condition that is not used *)
(* yet is taken, one that already guards something else is copied.          *)
RECURSIVE copy_conditions(_, _, _)

copy_conditions(e, i, v) ==
    IF i = 0 \/ i = v \/ e[i].op \notin CondOps \/ (e[i].op = "seq" /\ e[i].in[2] = v)
    THEN [e |-> e, x |-> v]
    ELSE LET a == e[i].in[1]
             q == e[i].in[2]
             r == copy_conditions(e, a, v)
             an == r.x
             Link(f, x) == Count([f EXCEPT ![x].in[1] = an], <<an>>)
         IN  CASE an # 0 /\ e[i].op = "seq" /\ depends_on(r.e, an, q) -> r
               [] an # 0 /\ e[i].op = "assert" /\ has_asserted(r.e, an, q) -> r
               [] a = an -> [e |-> r.e, x |-> i]
               [] a # an /\ a = 0 -> [e |-> Link(r.e, i), x |-> i]
               [] OTHER ->
                    LET x == Len(r.e) + 1
                        c == [r.e[i] EXCEPT !.n = -1, !.alt = 0]
                    IN  [e |-> Link(Count(trace_alloc(r.e, c), <<q>>), x), x |-> x]

concatenate_conditions(e, a, b) ==
    IF a = 0 THEN [e |-> e, x |-> b]
    ELSE IF b = 0 THEN [e |-> e, x |-> a]
    ELSE copy_conditions(e, a, b)

-----------------------------------------------------------------------------
(* Storing values                                                          *)

trace_lookup_value_linear(e, c) ==
    {i \in DOMAIN e : e[i].op = "const" /\ e[i].f = c}

(* mutant: a constant that is in the entry already is taken without its      *)
(* condition                                                                *)
ReuseStored(e, c, cond) ==
    LET found == trace_lookup_value_linear(e, c)
    IN  IF found # {} THEN [e |-> e, x |-> CHOOSE i \in found : TRUE]
        ELSE concatenate_conditions(trace_alloc(e, Cell("const", c, <<>>, <<>>)), cond, Len(e) + 1)

trace_store_value(e, c, cond) ==
    LET found == trace_lookup_value_linear(e, c)
        e1 == IF found = {} THEN trace_alloc(e, Cell("const", c, <<>>, <<>>)) ELSE e
        x == IF found = {} THEN Len(e) + 1 ELSE CHOOSE i \in found : TRUE
    IN  concatenate_conditions(e1, cond, x)

(* The cell for a value of the reducer, and the value afterwards: a stored  *)
(* constant's condition now ends in its cell.                               *)
trace_value(e, v) ==
    IF v.kind = "var" THEN [e |-> e, x |-> v.at]
    ELSE trace_store_value(e, v.f, v.at)

RECURSIVE StoreAll(_, _, _)
StoreAll(e, vs, xs) ==
    IF vs = <<>> THEN [e |-> e, xs |-> xs]
    ELSE LET r == trace_value(e, Head(vs))
         IN  StoreAll(Count(r.e, <<r.x>>), Tail(vs), Append(xs, r.x))

(* trace_alloc() for the result, then trace_store_expr()                    *)
trace_store_expr(e, f, vs) ==
    LET i == Len(e) + 1
        blank == Cell("call", f, [k \in DOMAIN vs |-> 0], [k \in 1..Funs[f][2] |-> 0])
        r == StoreAll(trace_alloc(e, blank), vs, <<>>)
    IN  dedup_trace_cell([r.e EXCEPT ![i].in = r.xs], i)

Conditioned(v) == v.kind = "const" /\ v.at # 0

(* What is left of values that were used: a constant under a condition is   *)
(* used up unless the program had duplicated it.                            *)
Left(vs) == {v \in Range(vs) : Sharing \/ ~Conditioned(v)}

(* The same once they are stored: a condition ends in its constant then.    *)
Stored(vs, xs) ==
    LET now == [k \in DOMAIN vs |-> IF Conditioned(vs[k]) THEN [vs[k] EXCEPT !.at = xs[k]] ELSE vs[k]]
    IN  Left(now)

-----------------------------------------------------------------------------
(* What values mean                                                        *)

Means(v) == [term |-> v.term, conds |-> v.conds]

RECURSIVE Term(_, _)
Term(e, i) ==
    LET c == e[i]
    IN  CASE c.op = "var" -> <<"input", c.vi>>
          [] c.op = "const" -> <<"const", c.f>>
          [] c.op = "call" -> <<"call", c.f, [k \in DOMAIN c.in |-> Term(e, c.in[k])]>>
          [] c.op = "dep" -> <<"output", CHOOSE m \in DOMAIN e[c.in[1]].out : e[c.in[1]].out[m] = i,
                               Term(e, c.in[1])>>
          [] c.op \in CondOps -> Term(e, c.in[1])
          [] OTHER -> <<"nothing">>

(* What has to hold for a value to exist: its assertions, and the calls that *)
(* may fail.                                                                *)
RECURSIVE Conds(_, _)
Conds(e, i) ==
    (IF e[i].op = "assert" THEN {Term(e, e[i].in[2])}
     ELSE IF e[i].op = "call" /\ e[i].f \in Partial THEN {Term(e, i)} ELSE {})
        \union UNION {Conds(e, e[i].in[k]) : k \in DOMAIN e[i].in}

-----------------------------------------------------------------------------
(* The reducer                                                             *)

Value(kind, f, at, dep, term, conds) ==
    [kind |-> kind, f |-> f, at |-> at, dep |-> dep, term |-> term, conds |-> conds]

Init ==
    /\ entry = <<>>
    /\ in = 0
    /\ vals = {}
    /\ pending = <<>>
    /\ returns = <<>>
    /\ last = 0
    /\ done = FALSE

(* Alternatives are reduced until there are none left.                      *)
Building == ~done /\ Len(returns) < MaxReturns

(* The constants of the text are at hand whenever they are needed.          *)
Texts == {Value("const", c, 0, 0, <<"const", c>>, {}) : c \in Consts}

Usable == {v \in vals : v.dep = 0} \union Texts

Hold(e, old, new) ==
    /\ entry' = e
    /\ vals' = ((vals \ old) \union new) \ Texts
    /\ Cardinality({v \in vals' : v.dep = 0}) <= MaxVals

Grow(e, old, new) == Fits(e) /\ Hold(e, old, new)

trace_alloc_var ==
    /\ Building
    /\ in < MaxInputs
    /\ LET x == Len(entry) + 1
       IN  /\ Grow(Append(entry, [Cell("var", "", <<>>, <<>>) EXCEPT !.vi = in + 1]), {},
                   {Value("var", "", x, 0, <<"input", in + 1>>, {})})
           /\ in' = in + 1
    /\ UNCHANGED <<pending, returns, last, done>>

(* A function applied to values.  On constants only it is evaluated, and    *)
(* the result takes the conditions of all of them (add_conditions).         *)
Evaluate(f, vs) ==
    /\ Building
    /\ f \in DOMAIN Calc
    /\ \A k \in DOMAIN vs : vs[k].kind = "const"
    /\ LET conds == UNION {vs[k].conds : k \in DOMAIN vs}
           r == IF Len(vs) = 1 THEN [e |-> entry, x |-> vs[1].at]
                ELSE concatenate_conditions(entry, vs[1].at, vs[2].at)
           c == Calc[f]
       IN  Grow(r.e, Range(vs), Left(vs) \union {Value("const", c, r.x, 0, <<"const", c>>, conds)})
    /\ UNCHANGED <<in, pending, returns, last, done>>

Apply(f, vs) ==
    /\ Building
    /\ f \notin DOMAIN Calc
    /\ \E k \in DOMAIN vs : vs[k].kind = "var"
    /\ LET r == trace_store_expr(entry, f, vs)
           i == Len(entry) + 1
           term == <<"call", f, [k \in DOMAIN vs |-> vs[k].term]>>
           conds == UNION {vs[k].conds : k \in DOMAIN vs} \union (IF f \in Partial THEN {term} ELSE {})
           now == Stored(vs, r.e[i].in)
       IN  Grow(r.e, Range(vs),
                now \union {Value("var", "", r.x, 0, term, conds)}
                \union {Value("var", "", r.x, d, <<"output", d, term>>, conds) : d \in 1..Funs[f][2]})
    /\ UNCHANGED <<in, pending, returns, last, done>>

(* A further output of a call is written when it is first used.             *)
trace_dep(v) ==
    /\ Building
    /\ v.dep # 0
    /\ LET x == Len(entry) + 1
           e == trace_alloc(entry, Cell("dep", "", <<v.at>>, <<>>))
       IN  Grow(Count([e EXCEPT ![v.at].out[v.dep] = x], <<v.at>>),
                {v}, {[v EXCEPT !.at = x, !.dep = 0]})
    /\ UNCHANGED <<in, pending, returns, last, done>>

(* The condition of an assertion is written first, then the value is        *)
(* reduced, and only then the cell learns which value it guards.            *)
trace_partial(op, q) ==
    /\ Building
    /\ q.kind = "var"
    /\ Len(pending) < 1
    /\ Grow(Count(trace_alloc(entry, Cell(op, "", <<0, q.at>>, <<>>)), <<q.at>>), {}, {})
    /\ pending' = Append(pending, [at |-> Len(entry) + 1, q |-> q])
    /\ UNCHANGED <<in, returns, last, done>>

Guarded(v, q, op) ==
    v.conds \union q.conds \union (IF op = "assert" THEN {q.term} ELSE {})

trace_arg(v) ==
    /\ Building
    /\ pending # <<>>
    /\ v.kind = "var"
    /\ LET p == pending[Len(pending)]
           op == entry[p.at].op
       IN  Grow(Count([entry EXCEPT ![p.at].in[1] = v.at], <<v.at>>), {},
                {Value("var", "", p.at, 0, v.term, Guarded(v, p.q, op))})
    /\ pending' = Front(pending)
    /\ UNCHANGED <<in, returns, last, done>>

(* A constant is guarded: the condition waits until the constant is stored. *)
add_conditions_var(v) ==
    /\ Building
    /\ pending # <<>>
    /\ v.kind = "const"
    /\ LET p == pending[Len(pending)]
           op == entry[p.at].op
           r == concatenate_conditions(entry, p.at, v.at)
       IN  Grow(r.e, {v}, Left(<<v>>) \union {Value("const", v.f, r.x, 0, v.term, Guarded(v, p.q, op))})
    /\ pending' = Front(pending)
    /\ UNCHANGED <<in, returns, last, done>>

(* The value fails to reduce: the cell of the condition stays, without a    *)
(* reader.                                                                  *)
ConditionDropped ==
    /\ Building
    /\ pending # <<>>
    /\ pending' = Front(pending)
    /\ UNCHANGED <<entry, in, vals, returns, last, done>>

trace_return(vs) ==
    /\ Building
    /\ pending = <<>>
    /\ LET r == StoreAll(entry, vs, <<>>)
           x == Len(r.e) + 1
           e == trace_alloc(r.e, [Cell("return", "", r.xs, <<>>) EXCEPT !.n = 0])
       IN  /\ Len(e) <= MaxLen
           /\ Hold(IF last = 0 THEN e ELSE [e EXCEPT ![last].alt = x],
                   Range(vs), Stored(vs, r.xs))
           /\ last' = x
    /\ returns' = Append(returns, [k \in DOMAIN vs |-> Means(vs[k])])
    /\ UNCHANGED <<in, pending, done>>

-----------------------------------------------------------------------------
(* Condensing                                                              *)

(* A cell without readers lets go of its arguments, and those that had no   *)
(* other reader go too.                                                     *)
RECURSIVE drop_trace(_, _), DropEach(_, _)
drop_trace(e, i) ==
    IF e[i].n > 0 THEN [e EXCEPT ![i].n = @ - 1]
    ELSE LET d == DropEach(e, SelectSeq(e[i].in, LAMBDA x : x > 0))
         IN  IF e[i].op = "var" THEN [d EXCEPT ![i].n = -1] ELSE [d EXCEPT ![i].op = "null"]

DropEach(e, xs) == IF xs = <<>> THEN e ELSE DropEach(drop_trace(e, Head(xs)), Tail(xs))

(* mutant: only the cells that are read by nothing go, not their arguments  *)
DropShallow(e) ==
    [i \in 1..Len(e) |-> IF e[i].n < 0 /\ e[i].op \notin {"var", "rest"}
                          THEN [e[i] EXCEPT !.op = "null"] ELSE e[i]]

DropUnread(e) ==
    FoldLeft(LAMBDA f, i : IF f[i].n < 0 /\ f[i].op \notin {"var", "rest"}
                           THEN drop_trace(f, i) ELSE f,
             e, [i \in 1..Len(e) |-> i])

Upto(e) == [i \in 1..Len(e) |-> i]

Kept(e, i) == e[i].op \notin {"null", "var", "rest"}

(* Inputs go to their number; what is kept goes after them, in its order.   *)
NewPlaces(e) ==
    FoldLeft(LAMBDA s, i : IF e[i].op = "var" THEN [s EXCEPT !.to[i] = e[i].vi]
                           ELSE IF Kept(e, i)
                                THEN [to |-> [s.to EXCEPT ![i] = s.next],
                                      next |-> s.next + calculate_tcells(size(e[i]))]
                           ELSE s,
             [to |-> [i \in DOMAIN e |-> 0], next |-> in + 1], Upto(e))

condense(e) ==
    LET d == DropUnread(e)
        places == NewPlaces(d)
        to == places.to
        Moved(xs) == [k \in DOMAIN xs |-> IF xs[k] > 0 THEN to[xs[k]] ELSE xs[k]]
        Move(f, i) == IF to[i] = 0 THEN f
                      ELSE [f EXCEPT ![to[i]] =
                              [d[i] EXCEPT !.in = Moved(@), !.out = Moved(@),
                                           !.alt = IF d[i].op = "return" /\ @ # 0 THEN to[@] ELSE 0]]
    IN  FoldLeft(Move, [j \in 1..(places.next - 1) |-> Rest], Upto(d))

trace_end_entry ==
    /\ ~done
    /\ pending = <<>>
    /\ returns # <<>>
    /\ entry' = condense(entry)
    /\ done' = TRUE
    /\ vals' = {}
    /\ last' = 0
    /\ UNCHANGED <<in, pending, returns>>

Args(f) == {vs \in [1..Funs[f][1] -> Usable] : TRUE}

Next ==
    \/ trace_alloc_var
    \/ \E f \in DOMAIN Funs : \E vs \in Args(f) : Evaluate(f, vs) \/ Apply(f, vs)
    \/ \E v \in vals : trace_dep(v)
    \/ \E v \in Usable : \/ trace_partial("assert", v)
                         \/ trace_arg(v)
                         \/ add_conditions_var(v)
    \/ \E vs \in [1..Outs -> Usable] : trace_return(vs)
    \/ ConditionDropped
    \/ trace_end_entry

Spec == Init /\ [][Next]_vars

-----------------------------------------------------------------------------
(* The readers of each cell, for the generators (ir/analysis.c).           *)

(* x goes to the first of the places that has nothing in it.               *)
set_nonzero(places, x) ==
    LET free == {k \in DOMAIN places : places[k] = 0}
    IN  [places EXCEPT ![CHOOSE k \in free : \A j \in free : k <= j] = x]

(* As many places for each cell as it counts readers.                       *)
BackrefIndex(e) ==
    [i \in CellsOf(e) |-> IF e[i].op = "return" THEN <<>> ELSE [k \in 1..(e[i].n + 1) |-> 0]]

(* An assertion says that there is a place left; then so does fits.         *)
build_backrefs(e) ==
    LET Reads(t, i, x) ==
            IF \E k \in DOMAIN t.table[x] : t.table[x][k] = 0
            THEN [t EXCEPT !.table[x] = set_nonzero(@, i)]
            ELSE [t EXCEPT !.fits = FALSE]
        CellReads(t, i) == IF i \notin CellsOf(e) THEN t
                       ELSE FoldLeft(LAMBDA s, x : Reads(s, i, x), t, e[i].in)
    IN  FoldLeft(CellReads, [table |-> BackrefIndex(e), fits |-> TRUE], Upto(e))

get_outputs(i, backrefs) == ToSet(backrefs[i])

-----------------------------------------------------------------------------
(* Properties                                                              *)

Readers(e, i) ==
    Cardinality(UNION {{j} \X {k \in DOMAIN e[j].in : e[j].in[k] = i} :
                          j \in {j \in CellsOf(e) : e[j].op # "null"}})

(* Every cell counts exactly its readers: the generators take a value with  *)
(* one reader for themselves.  In the end no cell but an input is without,  *)
(* and the places for readers that are made by the counts just hold them.   *)
CountsExact ==
    /\ \A i \in CellsOf(entry) :
          \/ entry[i].op = "return"
          \/ /\ entry[i].n + 1 = Readers(entry, i)
             /\ done => entry[i].op = "var" \/ Readers(entry, i) > 0
    /\ done =>
          LET backrefs == build_backrefs(entry)
          IN  /\ backrefs.fits
              /\ \A i \in CellsOf(entry) : \A reader \in get_outputs(i, backrefs.table) :
                    reader \in CellsOf(entry) /\ i \in ToSet(entry[reader].in)

ReturnCells(e) == SelectSeq([i \in DOMAIN e |-> i], LAMBDA i : e[i].op = "return")

ReturnsMean(e) ==
    LET rs == ReturnCells(e)
    IN  /\ Len(rs) = Len(returns)
        /\ \A r \in DOMAIN rs :
             \A k \in DOMAIN returns[r] :
               LET x == e[rs[r]].in[k]
               IN  Term(e, x) = returns[r][k].term /\ Conds(e, x) = returns[r][k].conds

(* The entry says what the reducer computed: each return names the value    *)
(* that was returned, under all the conditions it was reached under and no  *)
(* others, however constants were shared, conditions were taken or copied,  *)
(* common subexpressions were merged and cells dropped and renumbered.      *)
EntryMeans == ReturnsMean(entry)
=============================================================================

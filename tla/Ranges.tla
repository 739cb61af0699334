------------------------------- MODULE Ranges -------------------------------
(***************************************************************************)
(* Ranges while a function is compiled (primitive/arithmetic.c, special.c, *)
(* var.c, ir/analysis.c).  The arguments of the function are variables     *)
(* whose values nobody knows yet; each variable has a range.  A request    *)
(* for a value comes with a bound: it goes down through the operators to   *)
(* the variables and narrows them, and on the way back the operators       *)
(* compute the ranges of their results.                                    *)
(*                                                                         *)
(* A program is a sequence of nodes; the arguments of a node are nodes     *)
(* before it.  The first two are the arguments of the function.  Require   *)
(* is the assertion that a comparison holds ("!"), Return the request for  *)
(* the result.                                                             *)
(***************************************************************************)
EXTENDS Saturation, Sequences, FiniteSets

LOCAL INSTANCE FiniteSetsExt
LOCAL INSTANCE SequencesExt

CONSTANT Programs  \* the functions that are compiled

VARIABLES
  nodes,     \* the cells, with the state of their reduction
  required,  \* the nodes that were asserted
  status,    \* "ok", "fail" (no result), "killed" (the processor trapped)
  narrowed   \* ghost: has a formula been used that loses values (Loses...)?

ranges == <<nodes, required, status, narrowed>>

Comparisons == {"gt", "gte", "lt", "lte", "eq", "neq"}

Symbols == Comparisons \cup {"not"}

-----------------------------------------------------------------------------
(* What the operators compute (the *_op of arithmetic.c).  Undefined is    *)
(* what overflows, and what has no result.                                 *)

Undefined == MAX + 1

Input == Int_t \X Int_t

Bit(x, i) == ((x % 2 ^ Width) \div 2 ^ i) % 2

bitand_op(x, y) ==
  LET bits == {i \in 0 .. Width - 1 : Bit(x, i) = 1 /\ Bit(y, i) = 1}
  IN  MapThenSumSet(LAMBDA i : IF i = Width - 1 THEN MIN ELSE 2 ^ i, bits)

Truth(b) == IF b THEN 1 ELSE 0

Fit(x) == IF x \in Int_t THEN x ELSE Undefined

Op2(op, x, y) ==
  CASE Undefined \in {x, y} -> Undefined
    [] op = "add" -> Fit(x + y)
    [] op = "sub" -> Fit(x - y)
    [] op = "mul" -> Fit(x * y)
    [] op = "div" -> IF DivTraps(x, y) THEN Undefined ELSE Quot(x, y)
    [] op = "mod" -> IF DivTraps(x, y) THEN Undefined ELSE Rem(x, y)
    [] op = "bitand" -> bitand_op(x, y)
    [] op = "gt"  -> Truth(x > y)
    [] op = "gte" -> Truth(x >= y)
    [] op = "lt"  -> Truth(x < y)
    [] op = "lte" -> Truth(x <= y)
    [] op = "eq"  -> Truth(x = y)
    [] op = "neq" -> Truth(x # y)

Op1(op, x) ==
  CASE x = Undefined -> Undefined
    [] op = "negate" -> Fit(-x)
    [] op = "not" -> 1 - x
    [] op = "complement" -> -x - 1

(* The value of node i of program p, when the arguments are in.  No range  *)
(* takes part in this.                                                     *)
Meaning(p, given) ==
  LET f[i \in 1 .. Len(p)] ==
        LET n == p[i]
        IN  IF n.op = "arg" THEN given[n.val]
            ELSE IF n.op = "const" THEN n.val
            ELSE IF Len(n.args) = 1 THEN Op1(n.op, f[n.args[1]])
            ELSE Op2(n.op, f[n.args[1]], f[n.args[2]])
  IN  f

-----------------------------------------------------------------------------
(* Cells.  A lazy cell is an operator that is not reduced; a variable has  *)
(* a range and a constant a value.  The result of an operator may be one   *)
(* of its arguments: same is the node whose cell a node has.               *)

default_bound == RANGE_ALL

Same(m, i) == m.nodes[m.nodes[i].same]

is_var(m, i) == Same(m, i).state = "var"

Known(m, i) == Same(m, i).state = "const"

get_range(m, i) == LET c == Same(m, i)
                   IN  IF c.state = "var" THEN c.range ELSE RANGE(c.val, c.val)

same_var(m, i, j) == m.nodes[i].same = m.nodes[j].same

SetVar(m, i, r) ==
  [m EXCEPT !.nodes[i].state = "var", !.nodes[i].range = r]

SetConst(m, i, x) ==
  IF x = Undefined THEN [m EXCEPT !.status = "killed"]
  ELSE [m EXCEPT !.nodes[i].state = "const", !.nodes[i].val = x]

SetSame(m, i, j) == [m EXCEPT !.nodes[i].same = m.nodes[j].same]

-----------------------------------------------------------------------------
(* The bound of one argument of an operator, from the bound b of its       *)
(* result and the other argument k; left: k is the first argument.         *)

BoundMul(k, b) ==
  IF k > 0 THEN RANGE(div_maxi(b.min, k), div_mini(b.max, k))
  ELSE IF k < 0 THEN RANGE(div_maxi(b.max, k), div_mini(b.min, k))
  ELSE RANGE_ALL

BoundDividend(k, b) ==
  IF k > 0 THEN RANGE(sat_muli(b.min, k), sat_muli(b.max, k))
  ELSE IF k < 0 THEN RANGE(sat_muli(b.max, k), sat_muli(b.min, k))
  ELSE default_bound

bound_contexts_arith(op, k, left, b) ==
  CASE op = "add" -> RANGE(sat_subi(b.min, k), sat_subi(b.max, k))
    [] op = "sub" /\ left -> RANGE(sat_subi(k, b.max), sat_subi(k, b.min))
    [] op = "sub" /\ ~left -> RANGE(sat_addi(b.min, k), sat_addi(b.max, k))
    [] op = "mul" -> BoundMul(k, b)
    [] op = "div" /\ ~left -> BoundDividend(k, b)
    [] OTHER -> default_bound

reverse == [lt |-> "gt", lte |-> "gte", gt |-> "lt", gte |-> "lte",
            eq |-> "eq", neq |-> "neq"]

negate == [lt |-> "gte", lte |-> "gt", gt |-> "lte", gte |-> "lt",
           eq |-> "neq", neq |-> "eq"]

bound_contexts_cmp(op, k, left, b) ==
  LET side == IF left THEN reverse[op] ELSE op
      cmp == IF b.min = 0 THEN negate[side] ELSE side
  IN  IF ~range_singleton(b) THEN default_bound
      ELSE CASE cmp = "lt"  -> RANGE(MIN, sat_subi(k, 1))
             [] cmp = "lte" -> RANGE(MIN, k)
             [] cmp = "gt"  -> RANGE(sat_addi(k, 1), MAX)
             [] cmp = "gte" -> RANGE(k, MAX)
             [] cmp = "eq"  -> RANGE(k, k)
             [] cmp = "neq" -> default_bound

OtherBound(op, k, left, b) ==
  IF op \in Comparisons
  THEN bound_contexts_cmp(op, k, left, b)
  ELSE bound_contexts_arith(op, k, left, b)

(* The bounds of both arguments.                                           *)
ArgBounds(m, c, b) ==
  LET x == c.args[1]
      y == c.args[2]
  IN  IF Known(m, x)
      THEN <<default_bound, OtherBound(c.op, Same(m, x).val, TRUE, b)>>
      ELSE IF Known(m, y)
      THEN <<OtherBound(c.op, Same(m, y).val, FALSE, b), default_bound>>
      ELSE <<default_bound, default_bound>>

(* Of a quotient, the dividends that are not a multiple are lost; and a    *)
(* negative factor takes no limit of the product for a limit.              *)
LosesBound(m, c, b) ==
  \E x \in ToSet(c.args) :
    /\ Known(m, x)
    /\ \/ c.op = "div" /\ x = c.args[2] /\ b # default_bound
       \/ /\ c.op = "mul" /\ Same(m, x).val < 0
          /\ Unlimited(b.min) \/ Unlimited(b.max)

BoundTraps(m, c, b) ==
  /\ c.op = "div"
  /\ ~Known(m, c.args[1]) /\ Known(m, c.args[2])
  /\ \E x \in {b.min, b.max} : SatMuliTraps(x, Same(m, c.args[2]).val)

-----------------------------------------------------------------------------
(* Reduction.                                                              *)

range_op(op, a, b) ==
  CASE op = "add" -> add_range_op(a, b)
    [] op = "sub" -> sub_range_op(a, b)
    [] op = "mul" -> mul_range_op(a, b)
    [] op = "div" -> div_range_op(a, b)
    [] op = "mod" -> mod_range_op(a, b)
    [] op = "bitand" -> bitand_range_op(a, b)
    [] OTHER -> bool_range_op(a, b)

(* Of quotients by several divisors, those by all but one; and of those by *)
(* a negative one, that there is no limit.                                 *)
LosesRange(op, a, b) ==
  /\ op = "div"
  /\ \/ ~range_singleton(b)
     \/ b.max < 0 /\ (Unlimited(a.min) \/ Unlimited(a.max))

infer_bound(m, i, x, y) ==
  LET a == get_range(m, x)
      b == get_range(m, y)
      op == m.nodes[i].op
  IN  IF op = "mul" /\ MulRangeTraps(a, b)
      THEN [m EXCEPT !.status = "killed"]
      ELSE SetVar([m EXCEPT !.narrowed = @ \/ LosesRange(op, a, b)], i, range_op(op, a, b))

_op2(m, i, x, y) ==
  IF is_var(m, x) \/ is_var(m, y)
  THEN infer_bound(m, i, x, y)
  ELSE SetConst(m, i, Op2(m.nodes[i].op, Same(m, x).val, Same(m, y).val))

_op1(m, i, op, x) ==
  IF is_var(m, x)
  THEN SetVar(m, i, default_bound)
  ELSE SetConst(m, i, Op1(op, Same(m, x).val))

Inverse1(op, b) ==
  LET inverse == Op1(op, b.min)
  IN  IF range_singleton(b) /\ inverse # Undefined
      THEN RANGE(inverse, inverse)
      ELSE default_bound

func_value(m, i, b) ==
  [m EXCEPT !.nodes[i].range = range_intersect(@, b)]

IsPowerOf2(x) == \E n \in 1 .. Width : Magnitude(x) = 2 ^ n

(* What stands for the operation, with x known, if anything does.          *)
MulIdentity(m, x) ==
  LET k == Same(m, x).val
  IN  IF ~Known(m, x) THEN "none"
      ELSE IF k = 0 THEN "zero"
      ELSE IF k = 1 THEN "other"
      ELSE IF k = -1 THEN "negate"
      ELSE IF IsPowerOf2(k) THEN "shift"
      ELSE "none"

Is(m, x, k) == Known(m, x) /\ Same(m, x).val = k

(* What stands for op(x, y), and of which argument.                        *)
add_identity(m, x, y) ==
  IF Is(m, x, 0) THEN <<"other", y>>
  ELSE IF Is(m, y, 0) THEN <<"other", x>>
  ELSE <<"none", x>>

mul_identity(m, x, y) ==
  IF MulIdentity(m, x) # "none" THEN <<MulIdentity(m, x), y>>
  ELSE <<MulIdentity(m, y), x>>

sub_identity(m, x, y) ==
  IF same_var(m, x, y) THEN <<"zero", x>>
  ELSE IF Is(m, x, 0) THEN <<"negate", y>>
  ELSE IF Is(m, y, 0) THEN <<"other", x>>
  ELSE <<"none", x>>

div_identity(m, x, y) ==
  IF same_var(m, x, y) THEN <<"one", x>>
  ELSE IF Is(m, y, 1) THEN <<"other", x>>
  ELSE IF Is(m, y, -1) THEN <<"negate", x>>
  ELSE <<"none", x>>

eq_identity(m, x, y) == <<IF same_var(m, x, y) THEN "one" ELSE "none", x>>

neq_identity(m, x, y) == <<IF same_var(m, x, y) THEN "zero" ELSE "none", x>>

Identity(m, op, x, y) ==
  CASE op = "add" -> add_identity(m, x, y)
    [] op = "mul" -> mul_identity(m, x, y)
    [] op = "sub" -> sub_identity(m, x, y)
    [] op = "div" -> div_identity(m, x, y)
    [] op \in {"eq", "lte", "gte"} -> eq_identity(m, x, y)
    [] op \in {"neq", "lt", "gt"} -> neq_identity(m, x, y)
    [] OTHER -> <<"none", x>>

RECURSIVE Demand(_, _, _, _)

(* Reduce what stands for node i, an operation on x.                       *)
Replace(m, i, x, y, identity, b) ==
  LET z == identity[2]
  IN  CASE identity[1] = "none" -> _op2(m, i, x, y)
        [] identity[1] = "other" -> SetSame(m, i, z)
        [] identity[1] = "zero" -> SetConst(m, i, 0)
        [] identity[1] = "one" -> SetConst(m, i, 1)
        [] identity[1] = "negate" ->
             _op1(Demand(m, z, "int", Inverse1("negate", b)), i, "negate", z)
        [] identity[1] = "shift" ->
             IF is_var(m, z) THEN SetVar(m, i, default_bound) ELSE _op2(m, i, x, y)

nonzero(op) == op \in {"div", "mod"}

(* Both arguments are reduced; the divisor first, which is not zero.       *)
WithBoth(both, i, c, b) ==
  IF both.status # "ok" THEN both
  ELSE Replace(both, i, c.args[1], c.args[2],
               Identity(both, c.op, c.args[1], c.args[2]), b)

WithSecond(second, i, c, bound, b) ==
  IF second.status = "ok" /\ nonzero(c.op) /\ Is(second, c.args[2], 0)
  THEN [second EXCEPT !.status = "fail"]
  ELSE WithBoth(Demand(second, c.args[1], "int", bound), i, c, b)

func_op2(m, i, b) ==
  LET c == m.nodes[i]
      bounds == ArgBounds(m, c, b)
      start == [m EXCEPT !.narrowed = @ \/ LosesBound(m, c, b)]
      first == IF nonzero(c.op) THEN start ELSE Demand(start, c.args[1], "int", bounds[1])
  IN  IF BoundTraps(m, c, b) THEN [m EXCEPT !.status = "killed"]
      ELSE WithSecond(Demand(first, c.args[2], "int", bounds[2]), i, c, bounds[1], b)

func_op1(m, i, b) ==
  LET c == m.nodes[i]
      t == IF c.op = "not" THEN "symbol" ELSE "int"
      arg == Demand(m, c.args[1], t, Inverse1(c.op, b))
  IN  IF arg.status = "ok" THEN _op1(arg, i, c.op, c.args[1]) ELSE arg

(* Reduce node i to a value of type t, of which b is wanted.               *)
Demand(m, i, t, b) ==
  LET c == Same(m, i)
  IN  IF m.status # "ok" \/ c.state = "const" THEN m
      ELSE IF c.state = "var"
      THEN IF t = "int" THEN func_value(m, m.nodes[i].same, b) ELSE m
      ELSE IF Len(c.args) = 1 THEN func_op1(m, i, b)
      ELSE func_op2(m, i, b)

-----------------------------------------------------------------------------
(* The functions that are compiled, and the requests.                      *)

NewCell(p, i) ==
  [op |-> p[i].op, args |-> p[i].args, val |-> p[i].val,
   state |-> CASE p[i].op = "arg" -> "var" [] p[i].op = "const" -> "const"
               [] OTHER -> "lazy",
   range |-> default_bound, same |-> i]

RangesInit == \E p \in Programs :
  /\ nodes = [i \in 1 .. Len(p) |-> NewCell(p, i)]
  /\ required = {}
  /\ status = "ok"
  /\ narrowed = FALSE

Memory == [nodes |-> nodes, status |-> status, narrowed |-> narrowed]

(* The assertion of node i: it must be true in every result.               *)
Require(i) ==
  /\ status = "ok"
  /\ nodes[i].op \in Symbols
  /\ i \notin required
  /\ LET m == Demand(Memory, i, "symbol", RANGE(1, 1))
     IN  /\ nodes' = m.nodes /\ narrowed' = m.narrowed
         /\ status' = IF m.status = "ok" /\ Is(m, i, 0) THEN "fail" ELSE m.status
  /\ required' = required \cup {i}

(* The request for the result.                                             *)
Return ==
  /\ status = "ok"
  /\ Same(Memory, Len(nodes)).state = "lazy"
  /\ LET m == Demand(Memory, Len(nodes), "any", default_bound)
     IN  nodes' = m.nodes /\ status' = m.status /\ narrowed' = m.narrowed
  /\ UNCHANGED required

RangesNext == Return \/ \E i \in 1 .. Len(nodes) : Require(i)

RangesSpec == RangesInit /\ [][RangesNext]_ranges

-----------------------------------------------------------------------------
(* Properties.                                                             *)

Reduced == {i \in 1 .. Len(nodes) : Same(Memory, i).state # "lazy"}

(* Does the function compute the values v of its nodes?  Not if an         *)
(* assertion fails, nor if something that is computed is undefined.        *)
Happens(v, computed) ==
  /\ \A i \in required : v[i] = 1
  /\ \A i \in computed : v[i] # Undefined

(* Whatever the arguments are, as long as the assertions hold and nothing  *)
(* overflows, each value is in the range that was computed for it: neither *)
(* bounds on their way down nor ranges on their way up lose a value        *)
(* (bound_contexts_*, *_range_op, the identities).  Not so once one of the *)
(* formulas has been used that are known to lose some (narrowed): a bound  *)
(* on a quotient (arithmetic.c:138), a bound without a limit on a product  *)
(* with a negative constant (arithmetic.c:100), and the range of quotients *)
(* by a divisor that is no constant, or by a negative one of a dividend    *)
(* without a limit (div_range_op()).                                       *)
RangesContain ==
  LET range == [i \in Reduced |-> get_range(Memory, i)]
      contained(v) == \A i \in DOMAIN range :
                        range[i].min <= v[i] /\ v[i] <= range[i].max
  IN  status = "ok" /\ ~narrowed =>
        \A given \in Input : LET v == Meaning(nodes, given)
                             IN  Happens(v, DOMAIN range) => contained(v)

FitsIn(x, r, bits) ==
  IF r.min >= 0 THEN x \in 0 .. 2 ^ bits - 1
  ELSE x \in -(2 ^ (bits - 1)) .. 2 ^ (bits - 1) - 1

(* A register of bits_needed() bits holds each value of the range that was *)
(* computed (ir/analysis.c:422): the generated circuit loses no bit.       *)
WidthsSuffice ==
  \A i \in IF status = "ok" THEN Reduced ELSE {} :
    LET r == get_range(Memory, i)
        bits == bits_needed(r, nodes[i].op \in {"arg", "const"})
    IN  bits > 0 => \A x \in r.min .. r.max : FitsIn(x, r, bits)
=============================================================================

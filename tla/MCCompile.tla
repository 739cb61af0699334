----------------------------- MODULE MCCompile -----------------------------
(* A function is compiled.  In one part of the states its entry is written, *)
(* and generated as C (Cgen) or expanded for a call (Expand); in the other  *)
(* the ranges of its values are computed (Ranges).                          *)
EXTENDS Cgen, Expand, Ranges

MCConsts == {"a"}
MCFuns == [f |-> <<1, 0>>, g |-> <<1, 1>>, h |-> <<2, 0>>]
MCFingerprint == [f |-> 1, g |-> 2, h |-> 3]
MCPartial == {"f"}
MCCalc == [x \in {"h"} |-> "b"]

(* Entries with a second input or a third return are kept shorter, a fourth *)
(* value is held only for a second return, and the longest entries are      *)
(* generated but not expanded.                                              *)
MaxBody == IF Len(returns) = 3 THEN 7 ELSE 6

MCFits ==
    /\ Cardinality({v \in vals' : v.dep = 0}) > 3 => Len(returns') \in 1..2 /\ in' = 1
    /\ in' = 2 => Len(entry') <= 6
    /\ Len(returns') = 3 => Len(entry') <= 7
    /\ Len(entry') = MaxLen => Len(returns') = 2

(* Functions for Ranges: an operation on the arguments, comparisons of its  *)
(* result or of an argument with constants, and another operation.          *)

CONSTANTS FirstOps, Compared, LastOps

Addends == {-2, 2, 3}

Limits == {-2, 1}

Arg(n) == [op |-> "arg", args |-> <<>>, val |-> n]

Const(k) == [op |-> "const", args |-> <<>>, val |-> k]

Do(op, args) == [op |-> op, args |-> args, val |-> 0]

(* Nodes 1 and 2 are the arguments, 3 and 4 constants.  A constant that     *)
(* nothing reads has one value; sums and products are symmetric, and two    *)
(* (a shift) is special for products and quotients only.                    *)
Functions ==
  {<<Arg(1), Arg(2), Const(j), Const(k), Do(f, first), Do(c, test), Do(l, final)>> :
     j \in Addends, k \in Limits,
     f \in FirstOps, first \in {<<1, 2>>, <<1, 3>>, <<3, 1>>},
     c \in Compared, test \in {<<1, 4>>, <<4, 5>>},
     l \in LastOps, final \in {<<1, 5>>, <<5, 3>>}}

(* One argument, and the negation of a comparison.                          *)
Negated ==
  {<<Arg(1), Arg(2), Const(3), Const(k), Do(f, <<1>>), Do(c, <<5, 4>>),
     Do("not", <<6>>)>> :
     k \in Limits, f \in {"negate", "complement"}, c \in Comparisons}

MCFunctions ==
  {p \in Functions \cup Negated :
     /\ 3 \in UNION {ToSet(p[i].args) : i \in 5 .. 7} \/ p[3].val = 3
     /\ p[5].op \in {"add", "mul"} => p[5].args # <<3, 1>>
     /\ p[3].val = 2 => p[5].op \in {"mul", "div", "mod"}}

CompileInit ==
    /\ Init /\ ExpandInit
    /\ \/ nodes = <<>> /\ required = {} /\ status = "idle" /\ narrowed = FALSE
       \/ RangesInit

CompileNext ==
    \/ status = "idle" /\ Next /\ MCFits /\ UNCHANGED <<expand, ranges>>
    \/ done /\ Len(entry) <= MaxBody /\ ExpandNext /\ UNCHANGED ranges
    \/ RangesNext /\ UNCHANGED <<vars, expand>>

CompileSpec == CompileInit /\ [][CompileNext]_<<vars, expand, ranges>>
=============================================================================

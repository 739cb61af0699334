------------------------------- MODULE Reduce -------------------------------
(* Lazy graph reduction: reduce() and the operators it calls, over cells    *)
(* that are shared, counted by reference, rewritten in place and split into *)
(* alternatives (rt.c, cells.c, list.c, primitive/core.c,                   *)
(* primitive/arithmetic.c).                                                 *)
(*                                                                          *)
(* A step is one call of an operator, up to the next argument it has to     *)
(* reduce, or what it does when that argument has been reduced.  The stack  *)
(* of frames is the C stack: one context_t and the locals of one func_ for  *)
(* each argument that is being reduced.                                     *)
(*                                                                          *)
(* Abstracted: numbers are small, an alt_set_t is a set of <<id, branch>>,  *)
(* a cell takes one place whatever its size.  Left out: variables and       *)
(* tracing (and with them DELAY and the priorities), rows and quotes,       *)
(* positions, and source locations.                                         *)
EXTENDS Integers, Sequences, FiniteSets, SequencesExt

CONSTANTS NCells,     \* cells_size
          MaxDepth,   \* MAX_CALL_DEPTH
          Allowed(_)  \* the sequences of words that may be read

ASSUME SizesAreNumbers == NCells \in Nat \ {0} /\ MaxDepth \in Nat \ {0}

Null == 0
Cells == 1 .. NCells
FailCell == NCells + 1          \* fail_cell, which is never counted or freed
Root == -1                      \* the variable of eval() that holds the list
Local(d) == -1 - d              \* p of the func_dep() that is d frames deep
Roots == -(MaxDepth + 1) .. -1
Memory == Cells \cup {FailCell} \cup Roots

Values == {"int", "sym", "fail", "list"}
Op2 == {"+", "/", "=="}
Guards == {"!", "seq", "unless"} \* a value, if something else succeeds or fails
Functions2 == Op2 \cup Guards \cup {"|", "drop", "otherwise"}
Ops == Values \cup Functions2 \cup {"dup", "swap", "id", "dep", "root", "free"}

(* A reference is a place in memory: field 0 is alt, the others are the     *)
(* arguments (expr.arg, inputs before outputs) or the elements (value.ptr). *)
VARIABLES m,          \* what each cell and each root holds
          stack,      \* the frames, innermost first
          ret,        \* what the call that has just returned answers
          alt_cnt,    \* the next unused id of an alternative
          phase,      \* eval() reads or reduces an expression        
          prog,       \* the words that have been read
          arg_stack,  \* the cells they have left
          meaning     \* what those denote, see DenoteWord

vars == <<m, stack, ret, alt_cnt, phase, prog, arg_stack, meaning>>

Blank == [op |-> "free", n |-> 0, alt |-> Null, arg |-> <<>>, out |-> 0,
          as |-> {}, v |-> 0]
int_val(v) == [Blank EXCEPT !.op = "int", !.v = v]
symbol(v) == [Blank EXCEPT !.op = "sym", !.v = v]
Id(a, alt, as) ==
  [Blank EXCEPT !.op = "id", !.arg = <<a>>, !.alt = alt, !.as = as]
Dep(c) == [Blank EXCEPT !.op = "dep", !.arg = <<c>>]

Ins(c) == SubSeq(c.arg, 1, Len(c.arg) - c.out)
Kids(c) == <<c.alt>> \o Ins(c)
Conflict(as) == \E k \in {a[1] : a \in as} : {<<k, 0>>, <<k, 1>>} \subseteq as

Get(mm, s) == IF s[2] = 0 THEN mm[s[1]].alt ELSE mm[s[1]].arg[s[2]]
Put(mm, s, p) == IF s[2] = 0 THEN [mm EXCEPT ![s[1]].alt = p]
                             ELSE [mm EXCEPT ![s[1]].arg[s[2]] = p]

RECURSIVE Chain(_, _)
Chain(mm, p) == IF p = Null THEN <<>> ELSE <<p>> \o Chain(mm, mm[p].alt)

-----------------------------------------------------------------------------
(* Cells and references: operators on the memory mm                         *)

(* The allocator takes a free cell; which one does not matter here.         *)
NewCell(mm) == CHOOSE c \in Cells : /\ mm[c].op = "free"
                                    /\ \A d \in 1 .. (c - 1) : mm[d].op # "free"

Ref(mm, p, k) == IF p \in Cells THEN [mm EXCEPT ![p].n = @ + k] ELSE mm
RefAll(mm, ps) == FoldLeft(LAMBDA x, p : Ref(x, p, 1), mm, ps)

(* An owner does not count its outputs: it forgets one that is freed.       *)
ForgetOut(mm, d) ==
  LET c == mm[d].arg[1]
      at == {i \in DOMAIN mm[c].arg : mm[c].arg[i] = d}
  IN  IF mm[d].op # "dep" \/ mm[c].op \in Values \cup {"free"} \/ at = {}
      THEN mm
      ELSE [mm EXCEPT ![c].arg[CHOOSE i \in at : \A j \in at : j <= i] = Null]

RECURSIVE Drop(_, _, _)
DropAll(mm, ps) == FoldLeft(LAMBDA x, p : Drop(x, p, 1), mm, ps)
Drop(mm, p, k) ==
  IF p \notin Cells THEN mm
  ELSE IF k <= mm[p].n THEN [mm EXCEPT ![p].n = @ - k]
  ELSE [ForgetOut(DropAll(mm, Kids(mm[p])), p) EXCEPT ![p] = Blank]

(* Operators that also return a cell give [mem |-> ..., cell |-> ...].      *)
At(mm, c) == [mem |-> mm, cell |-> c]
Alloc(mm, cell) == LET c == NewCell(mm) IN At([mm EXCEPT ![c] = cell], c)
Copy(mm, p) == Alloc(mm, [mm[p] EXCEPT !.n = 0])
CopyRef(mm, p) == LET q == Copy(mm, p)
                  IN  At(RefAll(q.mem, Kids(mm[p])), q.cell)

Forward(mm, c, a, alt) ==
  [mm EXCEPT ![c] = [Id(a, alt, {}) EXCEPT !.n = mm[c].n]]

Unique(mm, p) == IF mm[p].n = 0 THEN At(mm, p)
                 ELSE CopyRef([mm EXCEPT ![p].n = @ - 1], p)

ConcAlt(mm, a, b) == IF a = Null THEN At(mm, b)
                     ELSE At([mm EXCEPT ![Last(Chain(mm, a))].alt = b], a)

SetAlt(mm, c, as, alt) ==
  LET x == mm[c]
      j == ConcAlt(mm, alt, x.alt)
  IN  IF as = {} /\ alt = Null THEN At(mm, c)
      ELSE IF x.n = 0 /\ x.op # "dep" /\ as = {}
           THEN At([j.mem EXCEPT ![c].alt = j.cell], c)
      ELSE IF x.n = 0 /\ x.op \in Values
           THEN At([j.mem EXCEPT ![c].alt = j.cell, ![c].as = as], c)
      ELSE Alloc(mm, Id(c, alt, as))

-----------------------------------------------------------------------------
(* Splitting: the alternatives of an argument become those of its user      *)

(* mutant: the arguments are not counted *)
DupAltNoRef(mm, c, i, b) ==
  LET a == Copy(mm, c) IN [a.mem EXCEPT ![c].alt = a.cell, ![a.cell].arg[i] = b]

(* A copy of c with argument i replaced by b, which becomes the alternative *)
(* of c.  No operator with outputs reduces its arguments here, so no        *)
(* outputs have to be split.                                                *)
DupAlt(mm, c, i, b) ==
  LET a == Copy(mm, c)
      kept == [j \in DOMAIN mm[c].arg |-> IF j = i THEN Null ELSE mm[c].arg[j]]
  IN  [RefAll(a.mem, kept) EXCEPT ![c].alt = a.cell, ![a.cell].arg[i] = b]

(* Make a cell that has no alternatives.                                    *)
DropAlt(mm, a) ==
  IF mm[a].n = 0
  THEN At([Drop(mm, mm[a].alt, 1) EXCEPT ![a].alt = Null], a)
  ELSE LET q == Copy(mm, a)
           m1 == [RefAll(q.mem, Ins(mm[a])) EXCEPT ![q.cell].alt = Null]
       IN  At(Drop(m1, a, 1), q.cell)

(* Skip the failed alternatives at the head of the chain at s.              *)
DropFailed(mm, s) ==
  LET live == SelectSeq(Chain(mm, Get(mm, s)), LAMBDA q : mm[q].op # "fail")
      p == IF live = <<>> THEN Null ELSE Head(live)
  IN  IF p = Get(mm, s) THEN mm
      ELSE Put(Drop(Ref(mm, p, 1), Get(mm, s), 1), s, p)

SplitArg(m0, c, i) ==
  LET a == m0[c].arg[i]
      mm == DropFailed(m0, <<a, 0>>)
      alt == mm[a].alt
      users == SelectSeq(Chain(mm, c), LAMBDA p : i <= Len(mm[p].arg)
                                                  /\ mm[p].arg[i] = a)
      an == Len(users)
      a1 == DropAlt(Drop(Ref(mm, alt, an), a, an - 1), a)
      Split(x, p) == Put(DupAlt(x, p, i, alt), <<p, i>>, a1.cell)
  IN  IF alt = Null THEN mm
      ELSE FoldLeft(Split, Ref(a1.mem, a1.cell, an - 1), users)
-----------------------------------------------------------------------------
(* Storing results                                                          *)

StoreFail(mm, c, alt) ==
  [mm EXCEPT ![c] = [Blank EXCEPT !.op = "fail", !.n = mm[c].n, !.alt = alt]]

(* What abort_op() does for FAIL: the place s gets the next alternative.    *)
AbortFail(mm, s, t) ==
  LET c == Get(mm, s)
      alt == mm[c].alt
      m1 == Ref(mm, alt, 1)
      m2 == IF mm[c].n > 0 /\ t = "any" /\ mm[c].op \notin Values
            THEN DropAll(m1, Ins(mm[c])) ELSE m1
      m3 == IF mm[c].n > 0 /\ t = "any" THEN StoreFail(m2, c, alt) ELSE m1
  IN  IF c = FailCell THEN Put(mm, s, Null) ELSE Put(Drop(m3, c, 1), s, alt)

(* The cell at s becomes a copy of the value r.                             *)
ReplaceCell(mm, s, as, r) ==
  LET c == Get(mm, s)
      u == Unique(mm, r)
      q == IF mm[c].alt # Null \/ as # {}
           THEN At([u.mem EXCEPT ![u.cell].alt = mm[c].alt, ![u.cell].as = as],
                   u.cell)
           ELSE At(mm, r)
      x == [q.mem EXCEPT ![c] = [q.mem[q.cell] EXCEPT !.n = q.mem[c].n]]
  IN  Drop(RefAll(x, Kids(x[q.cell])), q.cell, 1)

StoreReduced(mm, s, as, r) ==
  ReplaceCell(DropAll(mm, Ins(mm[Get(mm, s)])), s, as, r)

StoreLazy(mm, s, r) ==
  LET c == Get(mm, s)
      shared == [Ref(Forward(mm, c, r, Null), r, 1) EXCEPT ![c].n = @ - 1]
  IN  Put(IF mm[c].n > 0 THEN shared ELSE [mm EXCEPT ![c] = Blank], s, r)

StoreLazyDep(mm, d, r) ==
  IF d = Null THEN Drop(mm, r, 1)
  ELSE Forward(Drop(mm, mm[d].arg[1], 1), d, r, mm[d].alt)

-----------------------------------------------------------------------------
(* Frames.  cp is the place whose cell is reduced, kind is "reduce" for     *)
(* reduce(), which calls operators until one succeeds, "one" for            *)
(* reduce_one() and "list" for reduce_list(); c is the cell found at cp     *)
(* when its operator was called, t the type that is asked for, inv whether  *)
(* an odd number of unless wait for a failure (CONTEXT_INV), as the choices *)
(* made so far, todo the arguments that still have to be reduced.           *)
Frame(cp, kind, t, inv) ==
  [cp |-> cp, kind |-> kind, t |-> t, inv |-> inv, pc |-> "call", c |-> Null,
   as |-> {}, todo |-> <<>>]
(* The same call from its beginning.                                        *)
Called(f) == Frame(f.cp, f.kind, f.t, f.inv)

NoRet == [r |-> "none", as |-> {}]

Top == Head(stack)
Cur == Get(m, Top.cp)
Calls(ops) == /\ stack # <<>> /\ ret = NoRet /\ Top.pc = "call"
              /\ m[Cur].op \in ops
Finishes(ops) == /\ stack # <<>> /\ ret = NoRet /\ Top.pc = "finish"
                 /\ m[Top.c].op \in ops

(* mutant: p is not advanced *)
NextListSame(mm, f, r) ==
  IF Get(mm, f.cp) = Null THEN <<>> ELSE <<Frame(f.cp, "list", f.t, FALSE)>>

(* Where reduce_list() goes on: the next list, or the one that took the     *)
(* place of a failed one.                                                   *)
NextList(mm, f, r) ==
  LET s == IF r = "SUCCESS" THEN <<Get(mm, f.cp), 0>> ELSE f.cp
  IN  IF Get(mm, s) = Null THEN <<>> ELSE <<Frame(s, "list", f.t, FALSE)>>

(* The operator of the top frame has answered r and left the memory mm.     *)
Answer(mm, r, as) ==
  LET f == Top
      Pop == /\ stack' = Tail(stack)
             /\ ret' = [r |-> r, as |-> as]
      Again == /\ stack' = <<Called(f)>> \o Tail(stack)
               /\ ret' = NoRet
      failed == f.kind = "reduce" /\ Get(mm, f.cp) = Null
  IN  /\ m' = IF failed THEN Put(mm, f.cp, FailCell) ELSE mm
      /\ IF f.kind = "list"
         THEN stack' = NextList(mm, f, r) /\ ret' = NoRet
         ELSE IF f.kind = "one" \/ r = "SUCCESS" \/ failed THEN Pop ELSE Again

Fail(mm) == Answer(AbortFail(mm, Top.cp, Top.t), "FAIL", {})

(* The type asked of argument i of the operator of frame f.                 *)
ArgType(mm, f, i) == CASE mm[f.c].op \in Op2 -> "int"
                       [] mm[f.c].op = "list" -> "any"
                       [] mm[f.c].op = "!" /\ i = 2 -> "sym"
                       [] mm[f.c].op \in {"seq", "unless"} /\ i = 2 -> "any"
                       [] OTHER -> f.t

(* Does frame f wait for argument i to fail?                                *)
Awaits(mm, f, i) == mm[f.c].op = "unless" /\ i = 2

(* Frame f, on top, reduces its next argument, or finishes.                 *)
Continue(mm, f) ==
  /\ m' = mm
  /\ ret' = NoRet
  /\ stack' = IF f.todo = <<>>
              THEN <<[f EXCEPT !.pc = "finish"]>> \o Tail(stack)
              ELSE LET i == Head(f.todo)
                       inv == IF Awaits(mm, f, i) THEN ~f.inv ELSE f.inv
                   IN  <<Frame(<<f.c, i>>, "reduce", ArgType(mm, f, i), inv), f>>
                       \o Tail(stack)

StartArgs(todo, as) ==
  Continue(m, [Top EXCEPT !.pc = "args", !.c = Cur, !.todo = todo, !.as = as])
-----------------------------------------------------------------------------
(* Building the graph of an expression, a sequence of words                 *)

InputsOf(w) == CASE w \in {"0", "1", "2", "True"} -> 0
                 [] w \in {"dup", "share"} -> 1
                 [] OTHER -> 2
OutputsOf(w) == IF w \in {"dup", "swap"} THEN 1 ELSE 0
Words == {"0", "1", "2", "True", "share", "dup", "swap"} \cup Functions2
NumberOf(w) == CASE w = "0" -> 0 [] w = "1" -> 1 [] w = "2" -> 2

Taken(st, k) == SubSeq(st, Len(st) - k + 1, Len(st))
Left(st, k) == SubSeq(st, 1, Len(st) - k)

(* "share" is no word of the language: it is what the elements of a list    *)
(* that was duplicated are to two quotes that take them, two references to  *)
(* one cell.                                                                *)
parse_word(w) ==
  LET k == InputsOf(w)
      out == OutputsOf(w)
      x == CASE w \in {"0", "1", "2"} -> int_val(NumberOf(w))
             [] w = "True" -> symbol(1)
             [] OTHER -> [Blank EXCEPT !.op = w, !.n = out, !.out = out,
                            !.arg = Taken(arg_stack, k) \o [i \in 1 .. out |-> Null]]
      f == Alloc(m, x)
      d == Alloc(f.mem, Dep(f.cell))
      rest == IF x.op \in Values THEN arg_stack ELSE Left(arg_stack, k)
  IN  IF w = "share"
      THEN /\ m' = Ref(m, Last(arg_stack), 1)
           /\ arg_stack' = Append(arg_stack, Last(arg_stack))
      ELSE IF out = 0
      THEN /\ m' = f.mem
           /\ arg_stack' = Append(rest, f.cell)
      ELSE /\ m' = [d.mem EXCEPT ![f.cell].arg[k + 1] = d.cell]
           /\ arg_stack' = rest \o <<f.cell, d.cell>>

array_to_list ==
  LET l == Alloc(m, [Blank EXCEPT !.op = "list", !.arg = Reverse(arg_stack)])
  IN  Put(l.mem, <<Root, 1>>, l.cell)

-----------------------------------------------------------------------------
(* What an expression denotes: the set of its results, each with the        *)
(* choices it depends on, one for every alternative that is met on the way. *)
(* Copies of a value have made the same choices.                            *)
Apply(w, x, y) ==
  LET ints == x[1] = "int" /\ y[1] = "int"
  IN  CASE w = "+" /\ ints -> {<<"int", x[2] + y[2]>>}
        [] w = "/" /\ ints /\ y[2] # 0 -> {<<"int", x[2] \div y[2]>>}
        [] w = "==" /\ ints -> {<<"sym", IF x[2] = y[2] THEN 1 ELSE 0>>}
        [] w = "!" /\ y = <<"sym", 1>> -> {x}
        [] w = "seq" -> {x}
        [] OTHER -> {}

Both(a, b, F(_, _)) ==
  UNION {{<<x[1] \cup y[1], v>> : v \in F(x[2], y[2])} :
           <<x, y>> \in {z \in a \X b : ~Conflict(z[1][1] \cup z[2][1])}}
Chosen(a, k, b) == {<<x[1] \cup {<<k, b>>}, x[2]>> : x \in a}

(* The word at place k takes its inputs from the stack st of denotations.   *)
DenoteWord(st, w, k) ==
  LET rest == Left(st, InputsOf(w))
      x == Taken(st, InputsOf(w))
  IN  CASE w \in {"0", "1", "2"} -> Append(st, {<<{}, <<"int", NumberOf(w)>> >>})
        [] w = "True" -> Append(st, {<<{}, <<"sym", 1>> >>})
        [] w \in {"dup", "share"} -> Append(st, Last(st))
        [] w = "swap" -> rest \o Reverse(x)
        [] w = "drop" -> Append(rest, x[1])
        [] w = "unless" -> Append(rest, IF x[2] = {} THEN x[1] ELSE {})
        [] w = "otherwise" -> Append(rest, IF x[1] = {} THEN x[2] ELSE {})
        [] w = "|" -> Append(rest, Chosen(x[1], k, 0) \cup Chosen(x[2], k, 1))
        [] OTHER -> LET F(u, v) == Apply(w, u, v)
                    IN  Append(rest, Both(x[1], x[2], F))

(* The whole list, with the top of the stack first.                         *)
DenoteList(st) ==
  LET OnTop(u, v) == {<<v>> \o u}
  IN  FoldLeft(LAMBDA a, b : Both(a, b, OnTop), {<<{}, <<>> >>}, st)

-----------------------------------------------------------------------------
Init == /\ m = [c \in Memory |->
                  CASE c \in Cells -> Blank
                    [] c = FailCell -> [Blank EXCEPT !.op = "fail"]
                    [] OTHER -> [Blank EXCEPT !.op = "root", !.arg = <<Null>>]]
        /\ stack = <<>>
        /\ ret = NoRet
        /\ alt_cnt = 0
        /\ phase = "read"
        /\ prog = <<>>
        /\ arg_stack = <<>>
        /\ meaning = <<>>

(* parse_subexpr() reads a word that finds its arguments on the stack.      *)
Read(w) == /\ phase = "read"
           /\ Allowed(Append(prog, w))
           /\ Len(arg_stack) >= InputsOf(w)
           /\ prog' = Append(prog, w)
           /\ parse_word(w)
           /\ meaning' = DenoteWord(meaning, w, Len(prog'))
           /\ UNCHANGED <<stack, ret, alt_cnt, phase>>

(* eval() starts to reduce the list of what was read.                       *)
Eval == /\ phase = "read" /\ prog # <<>>
        /\ phase' = "reduce"
        /\ m' = array_to_list
        /\ arg_stack' = <<>>
        /\ meaning' = DenoteList(meaning)
        /\ stack' = <<Frame(<<Root, 1>>, "list", "return", FALSE)>>
        /\ UNCHANGED <<ret, alt_cnt, prog>>

(* eval() of the next expression drops the results; rt_init().              *)
DropResults == /\ phase = "reduce" /\ stack = <<>>
               /\ m' = Put(Drop(m, m[Root].arg[1], 1), <<Root, 1>>, Null)
               /\ phase' = "read"
               /\ prog' = <<>>
               /\ meaning' = <<>>
               /\ alt_cnt' = 0
               /\ UNCHANGED <<stack, ret, arg_stack>>

Reading == <<phase, prog, arg_stack, meaning>>
Keep == UNCHANGED <<alt_cnt, Reading>>

func_value ==
  /\ Calls(Values) /\ Top.kind # "list"
  /\ IF m[Cur].op # "fail" /\ Top.t \in {"any", m[Cur].op}
     THEN Answer(m, "SUCCESS", m[Cur].as)
     ELSE Fail(m)
  /\ Keep

func_list ==
  /\ Calls({"list"}) /\ Top.kind = "list"
  /\ StartArgs([i \in 1 .. Len(m[Cur].arg) |-> i], m[Cur].as)
  /\ Keep

(* mutant: only the innermost cell *)
LinearHere == m[Cur].n = 0
is_linear == \A i \in DOMAIN stack : m[Get(m, stack[i].cp)].n = 0

func_alt ==
  /\ Calls({"|"})
  /\ LET c == m[Cur]
         as(b) == IF is_linear THEN {} ELSE {<<alt_cnt, b>>}
         r1 == SetAlt(m, c.arg[2], as(1), c.alt)
         r0 == SetAlt(r1.mem, c.arg[1], as(0), r1.cell)
     IN  Answer(StoreLazy(r0.mem, Top.cp, r0.cell), "RETRY", {})
  /\ alt_cnt' = IF is_linear THEN alt_cnt ELSE alt_cnt + 1
  /\ UNCHANGED Reading

func_dup ==
  /\ Calls({"dup"})
  /\ LET c == m[Cur]
         m1 == StoreLazyDep(Ref(m, c.arg[1], 1), c.arg[2], c.arg[1])
     IN  Answer(StoreLazy(m1, Top.cp, c.arg[1]), "RETRY", {})
  /\ Keep

func_swap ==
  /\ Calls({"swap"})
  /\ LET c == m[Cur]
         m1 == StoreLazyDep(m, c.arg[3], c.arg[1])
     IN  Answer(StoreLazy(m1, Top.cp, c.arg[2]), "RETRY", {})
  /\ Keep

func_drop ==
  /\ Calls({"drop"})
  /\ LET c == m[Cur]
         m1 == Drop(m, c.arg[2], 1)
     IN  Answer([m1 EXCEPT ![Cur] = [Id(c.arg[1], c.alt, {}) EXCEPT !.n = c.n]],
                "RETRY", {})
  /\ Keep

(* func_dep() reduces the cell it is an output of, once, through a root.    *)
func_dep ==
  /\ Calls({"dep"})
  /\ LET p == m[Cur].arg[1]
         root == <<Local(Len(stack)), 1>>
     IN  /\ m' = Put(Ref(m, p, 1), root, p)
         /\ stack' = <<Frame(root, "one", "any", Top.inv), [Top EXCEPT !.pc = "dep"]>>
                     \o Tail(stack)
         /\ ret' = NoRet
  /\ Keep

(* Whatever the answer, it is called again: dup and swap do not fail.       *)
func_dep_done ==
  /\ stack # <<>> /\ Top.pc = "dep" /\ ret # NoRet
  /\ LET root == <<Local(Len(stack)), 1>>
     IN  Answer(Put(Drop(m, Get(m, root), 1), root, Null), "RETRY", {})
  /\ Keep

func_op2 ==
  /\ Calls(Op2)
  /\ LET res_type == IF m[Cur].op = "==" THEN "sym" ELSE "int"
     IN  IF Top.t \notin {"any", res_type} THEN Fail(m)
         ELSE StartArgs(IF m[Cur].op = "/" THEN <<2, 1>> ELSE <<1, 2, 1>>, {})
  /\ Keep

func_assert == Calls({"!"}) /\ StartArgs(<<2, 1>>, {}) /\ Keep

func_seq == Calls({"seq"}) /\ StartArgs(<<2, 1>>, {}) /\ Keep

(* x unless (y unless z) is called from the outer unless.                   *)
Merges == /\ Top.inv /\ Len(stack) > 1
          /\ LET p == m[Get(m, stack[2].cp)] IN p.op = "unless" /\ p.arg[2] = Cur

func_unless ==
  /\ Calls({"unless"}) /\ ~Merges
  /\ StartArgs(<<2, 1>>, {})
  /\ Keep

(* x unless (y unless z) becomes x z seq, and is called again.              *)
rule_merge_unless ==
  /\ Calls({"unless"}) /\ Merges
  /\ LET p == Get(m, stack[2].cp)
         z == m[Cur].arg[2]
     IN  m' = Drop([Ref(m, z, 1) EXCEPT ![p].op = "seq", ![p].arg[2] = z], Cur, 1)
  /\ stack' = <<Called(stack[2])>> \o SubSeq(stack, 3, Len(stack))
  /\ Keep /\ UNCHANGED ret

func_otherwise ==
  /\ Calls({"otherwise"})
  /\ Answer([m EXCEPT ![Cur].op = "unless", ![Cur].arg = Reverse(m[Cur].arg)], "RETRY", {})
  /\ Keep

func_id ==
  /\ Calls({"id"})
  /\ LET c == m[Cur]
     IN  IF c.as # {} \/ c.alt # Null THEN StartArgs(<<1>>, c.as)
         ELSE Answer(Put(Drop(Ref(m, c.arg[1], 1), Cur, 1), Top.cp, c.arg[1]),
                     "RETRY", {})
  /\ Keep

-----------------------------------------------------------------------------
(* A value that the operator of frame f refuses once argument i is there.   *)
Refused(mm, f, i) ==
  LET q == mm[mm[f.c].arg[i]].v
  IN  \/ mm[f.c].op = "!" /\ i = 2 /\ q # 1
      \/ mm[f.c].op = "/" /\ i = 2 /\ q = 0
      \/ (f.kind = "list" \/ f.todo = <<>>) /\ Conflict(f.as)

(* reduce_arg() and reduce_ptr(): the argument has been reduced.            *)
reduce_arg ==
  /\ stack # <<>> /\ Top.pc = "args" /\ ret.r = "SUCCESS"
  /\ ~Awaits(m, Top, Head(Top.todo))
  /\ LET i == Head(Top.todo)
         f == [Top EXCEPT !.as = @ \cup ret.as, !.todo = Tail(@)]
         mm == SplitArg(m, f.c, i)
     IN  IF Refused(mm, f, i) THEN Fail(mm) ELSE Continue(mm, f)
  /\ Keep

(* The argument has failed, and so does the operator.                       *)
reduce_arg_fail ==
  /\ stack # <<>> /\ Top.pc = "args" /\ ret.r = "FAIL"
  /\ ~Awaits(m, Top, Head(Top.todo))
  /\ Fail(m)
  /\ Keep

(* func_unless() does not split an argument that has succeeded: it fails.   *)
unless_answered ==
  /\ stack # <<>> /\ Top.pc = "args" /\ ret # NoRet
  /\ Awaits(m, Top, Head(Top.todo))
  /\ IF ret.r = "SUCCESS" THEN Fail(m) ELSE Continue(m, [Top EXCEPT !.todo = Tail(@)])
  /\ Keep

(* add_identity(), div_identity(), eq_identity() and _op2()                 *)
ResultOf(mm, op, p, q) ==
  LET x == mm[p].v
      y == mm[q].v
  IN  CASE op = "+" /\ x = 0 -> At(Ref(mm, q, 1), q)
        [] op = "+" /\ x # 0 /\ y = 0 -> At(Ref(mm, p, 1), p)
        [] op = "+" /\ x # 0 /\ y # 0 -> Alloc(mm, int_val(x + y))
        [] op = "/" /\ p = q -> Alloc(mm, int_val(1))
        [] op = "/" /\ p # q /\ y = 1 -> At(Ref(mm, p, 1), p)
        [] op = "/" /\ p # q /\ y # 1 -> Alloc(mm, int_val(x \div y))
        [] op = "==" -> Alloc(mm, symbol(IF p = q \/ x = y THEN 1 ELSE 0))

finish_op2 ==
  /\ Finishes(Op2)
  /\ LET c == m[Top.c]
         r == ResultOf(m, c.op, c.arg[1], c.arg[2])
     IN  Answer(StoreReduced(r.mem, Top.cp, Top.as, r.cell), "SUCCESS", Top.as)
  /\ Keep

finish_id ==
  /\ Finishes({"id"})
  /\ LET a == m[Top.c].arg[1]
     IN  Answer(StoreReduced(Ref(m, a, 1), Top.cp, Top.as, a), "SUCCESS", Top.as)
  /\ Keep

(* The value is taken out of the argument and made unique.                  *)
TakeFirst ==
  /\ LET u == Unique(Put(m, <<Top.c, 1>>, Null), m[Top.c].arg[1])
         m1 == Drop(u.mem, u.mem[u.cell].alt, 1)
     IN  Answer(StoreReduced(m1, Top.cp, Top.as, u.cell), "SUCCESS", Top.as)
  /\ Keep

finish_assert == Finishes({"!"}) /\ TakeFirst

finish_seq == Finishes({"seq"}) /\ TakeFirst

finish_unless == Finishes({"unless"}) /\ TakeFirst

finish_list ==
  /\ Finishes({"list"})
  /\ Answer([m EXCEPT ![Top.c].as = Top.as], "SUCCESS", Top.as)
  /\ Keep

Step == \/ func_value \/ func_list \/ func_alt \/ func_dup \/ func_swap
        \/ func_drop \/ func_dep \/ func_dep_done \/ func_op2 \/ func_assert
        \/ func_id \/ func_unless \/ rule_merge_unless \/ func_otherwise
        \/ reduce_arg \/ reduce_arg_fail \/ unless_answered \/ finish_op2
        \/ finish_id \/ finish_assert \/ func_seq \/ finish_seq \/ finish_unless
        \/ finish_list \/ DropResults

Next == Step \/ Eval \/ \E w \in Words : Read(w)

(* eval() does not stop in the middle of a reduction.  This is WF_vars(Step) *)
(* for a Step that is enabled whenever phase = "reduce", in a form that does *)
(* not ask TLC for ENABLED.                                                 *)
Fairness == []<>(phase = "read") \/ []<><<phase = "reduce">>_vars

Spec == Init /\ [][Next]_vars /\ Fairness
-----------------------------------------------------------------------------
Live == {c \in Cells : m[c].op # "free"}
Done == phase = "reduce" /\ stack = <<>>

(* The counted references: fields of live cells and of roots.               *)
Held == UNION {{<<h, i>> : i \in 0 .. Len(Ins(m[h]))} : h \in Live \cup Roots}
References(c) == Cardinality({s \in Held : Get(m, s) = c})
                 + Cardinality({i \in DOMAIN arg_stack : arg_stack[i] = c})

Pointers == Cells \cup {Null, FailCell}

TypeOK ==
  /\ \A c \in Memory :
       /\ m[c].op \in Ops /\ m[c].n \in Nat /\ m[c].alt \in Pointers
       /\ \A i \in DOMAIN m[c].arg : m[c].arg[i] \in Pointers
       /\ m[c].out \in 0 .. Len(m[c].arg) /\ m[c].v \in Nat
  /\ \A i \in DOMAIN stack :
       /\ stack[i].kind \in {"reduce", "one", "list"}
       /\ stack[i].t \in {"any", "int", "sym", "return"}
       /\ stack[i].pc \in {"call", "args", "dep", "finish"}
       /\ stack[i].cp[1] \in Live \cup Roots
  /\ Len(stack) <= MaxDepth
  /\ ret.r \in {"none", "SUCCESS", "FAIL", "RETRY"}
  /\ alt_cnt \in Nat

(* What assert_ref() checks: n + 1 is the number of references to a cell    *)
(* from live cells and roots, and nothing refers to a freed cell; and what  *)
(* leak_test() checks: when the results are dropped, every cell is free.    *)
(* An output and its owner know each other (the assertion of func_dep()).   *)
RefsExact ==
  /\ \A c \in Cells : References(c) = IF m[c].op = "free" THEN 0 ELSE m[c].n + 1
  /\ \A c \in Live :
       /\ m[c].op = "dep" => LET p == m[c].arg[1]
                             IN  p \in Live /\ m[p].op \notin Values
                                 /\ c \in ToSet(m[p].arg) \ ToSet(Ins(m[p]))
       /\ \A i \in (Len(Ins(m[c])) + 1) .. Len(m[c].arg) :
             LET d == m[c].arg[i] IN d # Null => m[d].op = "dep" /\ m[d].arg[1] = c
  /\ prog = <<>> => Live = {}

Results == [i \in DOMAIN Chain(m, m[Root].arg[1]) |->
              LET l == m[Chain(m, m[Root].arg[1])[i]].arg
              IN  [j \in DOMAIN l |-> <<m[l[j]].op, m[l[j]].v>>]]

(* The lists that are printed are what the expression denotes, each as      *)
(* often as there are choices that lead to it.                              *)
ResultsCorrect ==
  Done => \A l \in ToSet(Results) \cup {x[2] : x \in meaning} :
            Cardinality({i \in DOMAIN Results : Results[i] = l})
              = Cardinality({x \in meaning : x[2] = l})

(* Every expression is reduced completely.                                  *)
ReductionEnds == (phase = "reduce") ~> (phase = "read")
=============================================================================

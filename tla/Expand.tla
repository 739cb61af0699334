------------------------------- MODULE Expand -------------------------------
(***************************************************************************)
(* A call of a compiled function when it is evaluated: exec_expand() of    *)
(* user_func.c takes a copy of the function's entry and puts it in the     *)
(* place of the call.                                                      *)
(*                                                                         *)
(* The cells of an entry name each other by their place and say how many   *)
(* readers they have; the copies point to each other and have that count   *)
(* from the start.  The arguments of the call take the place of the        *)
(* inputs.  Each return is an alternative: the result and every further    *)
(* output that is wanted get a chain of them, with the same choice marked  *)
(* on each, so that later on nothing combines the first alternative of one *)
(* output with the second of another.                                      *)
(*                                                                         *)
(* The graph of the caller is the call with its arguments and the outputs  *)
(* that are wanted.                                                        *)
(***************************************************************************)
EXTENDS TraceEntry

CONSTANT AltIds      \* as_single() takes choices below this (AS_SIZE)

VARIABLES
    heap,        \* the cells; operation "free": given back
    instance,    \* what the caller has: the result, the outputs, and the call if it keeps it
    alt_cnt      \* the choices numbered so far

Node(op, f, args, outs, n) ==
    [op |-> op, f |-> f, args |-> args, outs |-> outs, alt |-> 0, as |-> {}, n |-> n]

(***************************************************************************)
(* drop(): the last reference frees the cell and drops what it reads; an   *)
(* output that goes is forgotten by its call.                              *)
(***************************************************************************)
RECURSIVE drop(_, _), DropList(_, _)
drop(h, x) ==
    IF x = 0 THEN h
    ELSE IF h[x].n > 0 THEN [h EXCEPT ![x].n = @ - 1]
    ELSE LET d == h[x]
             r == DropList(h, <<d.alt>> \o d.args)
             Forget(outs) == [k \in DOMAIN outs |-> IF outs[k] = x THEN 0 ELSE outs[k]]
             q == IF d.op = "dep" /\ r[d.args[1]].op = "call"
                  THEN [r EXCEPT ![d.args[1]].outs = Forget(r[d.args[1]].outs)] ELSE r
         IN  [q EXCEPT ![x].op = "free"]

DropList(h, xs) == FoldLeft(drop, h, xs)

refn(h, x, n) == IF x = 0 THEN h ELSE [h EXCEPT ![x].n = @ + n]

id(h, x, as) ==
    IF x = 0 THEN [h |-> h, x |-> 0]
    ELSE [h |-> Append(h, [Node("id", "", <<x>>, <<>>, 0) EXCEPT !.as = as]), x |-> Len(h) + 1]

(* The cell becomes one that leads to r.                                    *)
forward(h, c, r, as) ==
    [h EXCEPT ![c] = [Node("id", "", <<r>>, <<>>, h[c].n) EXCEPT !.as = as]]

store_lazy(h, c, r) ==
    IF h[c].n = 0 THEN [h EXCEPT ![c].op = "free"]
    ELSE refn([forward(h, c, r, {}) EXCEPT ![c].n = @ - 1], r, 1)

store_lazy_dep(h, d, r, as) ==
    IF d = 0 THEN drop(h, r)
    ELSE forward(drop(h, h[d].args[1]), d, r, as)

-----------------------------------------------------------------------------
(* Choices                                                                 *)

int_log2(n) == CHOOSE k \in 0..n : 2^k >= n /\ (k = 0 \/ 2^(k - 1) < n)

as_multi(k, n, v) == {<<k + i, (v \div 2^i) % 2>> : i \in 0..(n - 1)}

as_conflict(s) == \E i \in {p[1] : p \in s} : <<i, 0>> \in s /\ <<i, 1>> \in s

-----------------------------------------------------------------------------
(* The copy                                                                *)

(* mutant: an input that nothing reads keeps its argument                  *)
AssignRead(h, e, args) ==
    FoldLeft(LAMBDA s, i :
               LET a == args[in + 1 - i]
               IN  IF e[i].n + 1 = 0 THEN s
                   ELSE [h |-> refn(s.h, a, e[i].n), map |-> [s.map EXCEPT ![i] = a]],
             [h |-> h, map |-> [i \in DOMAIN e |-> 0]], [i \in 1..in |-> i])

(* The arguments, last one first, become what the places of the inputs mean. *)
AssignInputs(h, e, args) ==
    FoldLeft(LAMBDA s, i :
               LET a == args[in + 1 - i]
               IN  IF e[i].n + 1 = 0 THEN [s EXCEPT !.h = drop(s.h, a)]
                   ELSE [h |-> refn(s.h, a, e[i].n), map |-> [s.map EXCEPT ![i] = a]],
             [h |-> h, map |-> [i \in DOMAIN e |-> 0]], [i \in 1..in |-> i])

Copied(e) == SelectSeq([i \in 1..Len(e) |-> i],
                       LAMBDA i : i > in /\ e[i].op \notin {"rest", "return", "null"})

(* Every cell of the body gets a copy with its count of readers, and what it *)
(* reads is then found through the map.                                     *)
CopyBody(s, e) ==
    LET body == Copied(e)
        map == [i \in DOMAIN e |-> LET k == SelectInSeq(body, LAMBDA j : j = i)
                                   IN  IF k = 0 THEN s.map[i] ELSE Len(s.h) + k]
        map_cell(x) == IF x <= 0 THEN 0 ELSE map[x]
        Mapped(xs) == [k \in DOMAIN xs |-> map_cell(xs[k])]
    IN  [h |-> s.h \o [k \in DOMAIN body |->
                         LET p == e[body[k]] IN Node(p.op, p.f, Mapped(p.in), Mapped(p.out), p.n)],
         map |-> map]

-----------------------------------------------------------------------------
(* The returns                                                             *)

(* The first return: the result is new, the outputs that are wanted become  *)
(* what the function returns for them.                                      *)
FirstReturn(s, e, ret, deps, as) ==
    LET r == id(s.h, s.map[e[ret].in[Outs]], as)
        h == FoldLeft(LAMBDA g, k : store_lazy_dep(g, deps[k], s.map[e[ret].in[k]], as),
                      r.h, [k \in DOMAIN deps |-> k])
    IN  [h |-> h, last |-> Append(deps, r.x)]

(* Any other: one more alternative for each, or nothing for what is not     *)
(* wanted.                                                                  *)
NextReturn(t, s, e, ret, as) ==
    FoldLeft(LAMBDA u, k :
               LET a == s.map[e[ret].in[k]]
                   r == id(u.h, a, as)
               IN  IF u.last[k] = 0 THEN [u EXCEPT !.h = drop(u.h, a)]
                   ELSE [h |-> [r.h EXCEPT ![u.last[k]].alt = r.x],
                         last |-> [u.last EXCEPT ![k] = r.x]],
             t, [k \in DOMAIN t.last |-> k])

(* The whole of it.  The call's outputs are its places after the inputs; an *)
(* output is 0 when nothing wants it.                                       *)
exec_expand(h, c, e, taken) ==
    LET n == int_log2(Len(ReturnCells(e)))
        As(b) == as_multi(taken, n, b)
        rs == ReturnCells(e)
        s == CopyBody(AssignInputs(h, e, h[c].args), e)
        first == FirstReturn(s, e, rs[1], h[c].outs, As(0))
        all == FoldLeft(LAMBDA t, b : NextReturn(t, s, e, rs[b + 1], As(b)),
                        first, [b \in 1..(Len(rs) - 1) |-> b])
    IN  [h |-> store_lazy(all.h, c, first.last[Outs]), res |-> first.last[Outs],
         alt_cnt |-> taken + n]

-----------------------------------------------------------------------------
(* The caller: arguments, the call, and the outputs that are wanted.        *)

Caller(wanted, again) ==
    LET c == in + 1
        Dep(k) == IF k \in wanted THEN c + Cardinality(wanted \intersect 1..k) ELSE 0
    IN  [i \in 1..in |-> Node("arg", "", <<>>, <<>>, 0)]
        \o <<Node("call", "called", [k \in 1..in |-> in + 1 - k], [k \in 1..(Outs - 1) |-> Dep(k)],
                  again + Cardinality(wanted))>>
        \o [k \in 1..Cardinality(wanted) |-> Node("dep", "", <<c>>, <<>>, 0)]

expand == <<heap, instance, alt_cnt>>

ExpandInit == heap = <<>> /\ instance = [result |-> 0, outs |-> <<>>, call |-> 0] /\ alt_cnt = 0

(* The choices just fit: one more in the expression and as_single() throws. *)
exec(wanted, again, taken) ==
    /\ LET c == in + 1
           before == Caller(wanted, again)
           r == exec_expand(before, c, entry, taken)
       IN  /\ heap' = r.h
           /\ alt_cnt' = r.alt_cnt
           /\ instance' = [result |-> r.res, outs |-> before[c].outs,
                           call |-> IF again > 0 THEN c ELSE 0]
    /\ UNCHANGED vars

ExpandNext ==
    /\ done
    /\ heap = <<>>
    /\ \E wanted \in SUBSET (1..(Outs - 1)), again \in 0..1 :
          exec(wanted, again, AltIds - int_log2(Len(returns)))

-----------------------------------------------------------------------------
(* Properties                                                              *)

Live == {x \in DOMAIN heap : heap[x].op # "free"}

Held(x) ==
    (IF instance.result = x THEN 1 ELSE 0) + (IF instance.call = x THEN 1 ELSE 0)
        + Cardinality({k \in DOMAIN instance.outs : instance.outs[k] = x})

ReadersOf(x) ==
    Cardinality(UNION {{y} \X {k \in DOMAIN heap[y].args : heap[y].args[k] = x} : y \in Live})
        + Cardinality({y \in Live : heap[y].alt = x}) + Held(x)

(* Every cell of an instance counts exactly the references to it, and none  *)
(* leads to a cell that was given back: whatever the function reads more    *)
(* than once or not at all, whatever the caller wants, nothing leaks and    *)
(* nothing is freed twice.                                                  *)
InstanceRefsExact ==
    /\ \A x \in Live : heap[x].n + 1 = ReadersOf(x)
    /\ \A x \in DOMAIN heap \ Live : ReadersOf(x) = 0

RECURSIVE TermOf(_)
TermOf(x) ==
    LET c == heap[x]
    IN  CASE c.op = "arg" -> <<"input", x>>
          [] c.op = "const" -> <<"const", c.f>>
          [] c.op = "call" -> <<"call", c.f, [k \in DOMAIN c.args |-> TermOf(c.args[k])]>>
          [] c.op = "dep" -> <<"output", CHOOSE m \in DOMAIN heap[c.args[1]].outs :
                                            heap[c.args[1]].outs[m] = x, TermOf(c.args[1])>>
          [] OTHER -> TermOf(c.args[1])

RECURSIVE CondsOf(_)
CondsOf(x) ==
    (IF heap[x].op = "assert" THEN {TermOf(heap[x].args[2])}
     ELSE IF heap[x].op = "call" /\ heap[x].f \in Partial THEN {TermOf(x)} ELSE {})
        \union UNION {CondsOf(heap[x].args[k]) : k \in DOMAIN heap[x].args}

RECURSIVE AltChain(_)
AltChain(x) == IF x = 0 THEN <<>> ELSE <<x>> \o AltChain(heap[x].alt)

(* The chains of alternatives the caller has, by output.                    *)
Chains ==
    [k \in {j \in 1..Outs : j = Outs \/ instance.outs[j] # 0} |->
        AltChain(IF k = Outs THEN instance.result ELSE instance.outs[k])]

Expanded == heap # <<>>

(* Each output the caller wanted has one alternative for each return of the *)
(* function, in their order, and each is the value that was returned,       *)
(* applied to the arguments and under the same conditions.                  *)
InstanceMeans ==
    Expanded =>
        \A k \in DOMAIN Chains :
            /\ Len(Chains[k]) = Len(returns)
            /\ \A b \in DOMAIN returns :
                  TermOf(Chains[k][b]) = returns[b][k].term /\ CondsOf(Chains[k][b]) = returns[b][k].conds

(* The expansion of a call has the cells that the function says, and counts *)
(* them exactly (expand_user_func()).                                       *)
InstanceExact == InstanceRefsExact /\ InstanceMeans
=============================================================================

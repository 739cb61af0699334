-------------------------------- MODULE Cgen --------------------------------
(***************************************************************************)
(* From a finished entry to C: the analyses of ir/analysis.c and the       *)
(* generator gen/cgen.c, and a machine that runs what they generate.       *)
(*                                                                         *)
(* The returns of an entry are alternatives.  The generated function tries *)
(* them in turn: the cells up to a return are one block, and where an      *)
(* assertion or a call fails it jumps to a later block, after it has done  *)
(* what that block needs of the part it skips.  A value is declared for    *)
(* the whole function or in the block where it is computed.                *)
(***************************************************************************)
EXTENDS TraceEntry

Places(e) == SelectSeq([i \in 1..Len(e) |-> i], LAMBDA i : e[i].op # "rest")

AfterCell(e, c) == SelectSeq(Places(e), LAMBDA i : i > c)

is_return(e, i) == e[i].op = "return"

is_expr(e, i) == e[i].op \notin {"var", "const", "return"}

PartialCell(e, i) == e[i].op = "assert" \/ (e[i].op = "call" /\ e[i].f \in Partial)

direct_refs(e, i) == e[i].n + 1 - Cardinality({k \in DOMAIN e[i].out : e[i].out[k] # 0})

UpTo(xs, P(_)) ==
    LET k == SelectInSeq(xs, P) IN IF k = 0 THEN xs ELSE SubSeq(xs, 1, k)

-----------------------------------------------------------------------------
(* Last uses (last_use_analysis): the places where a value is handed over   *)
(* for good, found going backwards, first over the whole entry and then     *)
(* once more over the part of each branch that can no longer fail.          *)

ArgOrder(e, c) ==
    IF is_return(e, c) THEN [k \in DOMAIN e[c].in |-> k]
    ELSE IF is_expr(e, c) /\ e[c].op # "dep" THEN Reverse([k \in DOMAIN e[c].in |-> k])
    ELSE <<>>

last_use_mark_cell(e, c, m) ==
    FoldLeft(LAMBDA r, k :
                LET x == e[c].in[k]
                IN  IF x = 0 \/ x \in r.used THEN r
                    ELSE [r EXCEPT !.used = @ \union {x}, !.final = @ \union {<<c, k>>}],
             m, ArgOrder(e, c))

(* mutant: the second walk does not stop where a branch can fail            *)
LastUseThrough(e) ==
    LET back == Reverse(Places(e))
        Walk(r, c) == last_use_mark_cell(e, c, IF is_return(e, c) THEN [r EXCEPT !.used = {}] ELSE r)
    IN  FoldLeft(Walk, [used |-> {}, final |-> {}], back).final

last_use_analysis(e) ==
    LET back == Reverse(Places(e))
        all == FoldLeft(LAMBDA r, c : last_use_mark_cell(e, c, r),
                        [used |-> {}, final |-> {}], back)
        Segment(r, c) ==
            LET r1 == IF is_return(e, c) THEN [r EXCEPT !.used = {}, !.partial = FALSE]
                      ELSE IF is_expr(e, c) /\ PartialCell(e, c) THEN [r EXCEPT !.partial = TRUE]
                      ELSE r
            IN  IF r1.partial THEN r1 ELSE last_use_mark_cell(e, c, r1)
    IN  FoldLeft(Segment, [used |-> {}, final |-> all.final, partial |-> FALSE], back).final

-----------------------------------------------------------------------------
(* Cells that must be computed even when their block is left (NO_SKIP)      *)

RECURSIVE mark_no_skip(_, _, _, _, _)
mark_no_skip(e, c, last_return, last_partial, marks) ==
    LET before == {i \in CellsOf(e) : i <= c /\ PartialCell(e, i)}
        look == c < last_return /\ last_partial = 0
        lp == IF look /\ before # {} THEN CHOOSE i \in before : \A j \in before : j <= i
              ELSE last_partial
        here == c = lp
        deps == IF e[c].op \in CondOps THEN <<e[c].in[1]>> ELSE e[c].in
        r == FoldLeft(LAMBDA s, x :
                        IF x = 0 THEN s
                        ELSE LET q == mark_no_skip(e, x, last_return, IF here THEN 0 ELSE lp, s.marks)
                             IN  [res |-> s.res /\ q.res, marks |-> q.marks],
                      [res |-> ~here, marks |-> marks], deps)
    IN  IF ~is_expr(e, c) \/ c < last_partial \/ (look /\ before = {})
        THEN [res |-> TRUE, marks |-> marks]
        ELSE [r EXCEPT !.marks = IF r.res /\ c < last_return THEN @ \union {c} ELSE @]

(* mutant: the arguments of what can fail itself are not looked at          *)
NoSkipWhole(e) ==
    FoldLeft(LAMBDA s, c : IF is_return(e, c) THEN [s EXCEPT !.ret = c]
                           ELSE IF PartialCell(e, c) THEN s
                           ELSE [s EXCEPT !.marks = mark_no_skip(e, c, s.ret, 0, @).marks],
             [ret |-> 0, marks |-> {}], Places(e)).marks

no_skip_analysis(e) ==
    FoldLeft(LAMBDA s, c : IF is_return(e, c) THEN [s EXCEPT !.ret = c]
                           ELSE [s EXCEPT !.marks = mark_no_skip(e, c, s.ret, 0, @).marks],
             [ret |-> 0, marks |-> {}], Places(e)).marks

-----------------------------------------------------------------------------
(* The generator                                                           *)

RECURSIVE cgen_lookup(_, _)
cgen_lookup(e, i) == IF e[i].op \in CondOps THEN cgen_lookup(e, e[i].in[1]) ELSE i

gen_decls(e) ==
    {i \in CellsOf(e) : e[i].op \in {"const", "var"}}
    \union {cgen_lookup(e, i) : i \in {j \in CellsOf(e) :
                /\ is_expr(e, j)
                /\ direct_refs(e, j) > 1 \/ e[j].op = "dep" \/ PartialCell(e, j)}}

NextBlock(e, ret) ==
    LET b == ret + calculate_tcells(size(e[ret])) IN IF b <= Len(e) THEN b ELSE 0

arg_in_range(e, noskip, c, low, high) ==
    \E k \in DOMAIN e[c].in :
        LET x == cgen_lookup(e, e[c].in[k]) IN x \in low..high /\ x \notin noskip

(* After a call that may fail: past the return of its block, and past every *)
(* block with a cell that needs something from the part that is skipped.    *)
find_next_possible_block(e, noskip, c) ==
    LET Look(s, p) ==
            IF s.stop \/ e[p].op \in CondOps THEN s
            ELSE IF is_return(e, p)
                 THEN IF s.skip THEN [s EXCEPT !.skip = FALSE, !.high = p] ELSE [s EXCEPT !.stop = TRUE]
            ELSE IF ~s.skip /\ arg_in_range(e, noskip, p, c, s.high) THEN [s EXCEPT !.skip = TRUE]
            ELSE s
        end == FoldLeft(Look, [skip |-> TRUE, high |-> c, stop |-> FALSE], AfterCell(e, c))
    IN  IF end.stop THEN NextBlock(e, end.high) ELSE 0

(* After a failed assertion: past the return that follows the last          *)
(* assertion of the same condition.                                         *)
AssertBlock(e, c, iq) ==
    LET Look(ret, p) ==
            IF e[p].op = "assert" /\ cgen_lookup(e, e[p].in[2]) = iq THEN 0
            ELSE IF ret = 0 /\ is_return(e, p) THEN p
            ELSE ret
    IN  FoldLeft(Look, 0, AfterCell(e, c))

(* One instruction, and those done before a jump (gen_noskip).  g holds the *)
(* statements generated and the conditions checked so far.                  *)
RECURSIVE gen_instruction(_, _, _, _), gen_noskip(_, _, _, _)
gen_instruction(e, noskip, c, g) ==
    LET Emit(s, h) == [h EXCEPT !.code = Append(g.code, s)]
    IN  CASE is_return(e, c) -> Emit([op |-> "return", at |-> c, skipped |-> <<>>, to |-> 0], g)
          [] e[c].op = "assert" ->
                LET iq == cgen_lookup(e, e[c].in[2])
                    ret == AssertBlock(e, c, iq)
                    h == [g EXCEPT !.asserts = @ \union {iq}]
                IN  IF iq \in g.asserts THEN g
                    ELSE IF ret = 0 THEN h
                    ELSE IF NextBlock(e, ret) = 0
                         THEN Emit([op |-> "check", at |-> iq, skipped |-> <<>>, to |-> 0], h)
                    ELSE LET n == gen_noskip(e, noskip, c, h)
                         IN  Emit([op |-> "check", at |-> iq, skipped |-> n.code,
                                   to |-> NextBlock(e, ret)], n)
          [] e[c].op = "call" /\ c \in {i \in CellsOf(e) : PartialCell(e, i)} ->
                LET b == find_next_possible_block(e, noskip, c)
                    n == IF b = 0 THEN [g EXCEPT !.code = <<>>] ELSE gen_noskip(e, noskip, c, g)
                IN  Emit([op |-> "call", at |-> c, skipped |-> n.code, to |-> b], n)
          [] e[c].op = "call" -> Emit([op |-> "call", at |-> c, skipped |-> <<>>, to |-> 0], g)
          [] OTHER -> g

gen_noskip(e, noskip, c, g) ==
    LET Stop(p) == is_return(e, p) \/ PartialCell(e, p)
        next == UpTo(AfterCell(e, c), Stop)
        todo == SelectSeq(next, LAMBDA p : p \in noskip /\ ~is_return(e, p))
    IN  FoldLeft(LAMBDA h, p : gen_instruction(e, noskip, p, h), [g EXCEPT !.code = <<>>], todo)

gen_body(e) ==
    LET noskip == no_skip_analysis(e)
        Label(h, c) == IF is_return(e, c) /\ NextBlock(e, c) # 0
                       THEN [h EXCEPT !.code = Append(@, [op |-> "block", at |-> NextBlock(e, c),
                                                          skipped |-> <<>>, to |-> 0])]
                       ELSE h
    IN  FoldLeft(LAMBDA g, c : Label(gen_instruction(e, noskip, c, g), c),
                 [code |-> <<>>, asserts |-> {}], Places(e)).code

-----------------------------------------------------------------------------
(* Running it.  holds says which conditions hold.  have maps the cells that *)
(* were computed to their terms, gone has those that were handed over and   *)
(* reread those that are read after that.                                   *)

Reads(e, c) == [k \in DOMAIN e[c].in |-> cgen_lookup(e, e[c].in[k])]

RunCall(e, final, holds, c, m) ==
    LET xs == Reads(e, c)
        ok == \A k \in DOMAIN xs : xs[k] \in DOMAIN m.have
        t == <<"call", e[c].f, [k \in DOMAIN xs |-> m.have[xs[k]]]>>
        outs == {k \in DOMAIN e[c].out : e[c].out[k] # 0}
        made == {c} \union {e[c].out[k] : k \in outs}
        taken == {xs[k] : k \in {j \in DOMAIN xs : <<c, j>> \in final}}
    IN  IF ~ok THEN [m EXCEPT !.missing = TRUE, !.stop = TRUE]
        ELSE [m EXCEPT
                !.reread = @ \union (Range(xs) \intersect m.gone),
                !.gone = (@ \union taken) \ made,
                !.failed = e[c].f \in Partial /\ ~holds[t],
                !.have = [x \in made |->
                            IF x = c THEN t
                            ELSE <<"output", CHOOSE k \in outs : e[c].out[k] = x, t>>] @@ @]

RECURSIVE Run(_, _, _, _, _, _)
Run(e, decls, final, holds, code, m) ==
    IF m.stop \/ code = <<>> THEN m
    ELSE LET s == Head(code)
             Go(n) == Run(e, decls, final, holds, Tail(code), n)
             Leave(n) ==     \* do what cannot be skipped, then jump or give up
                IF s.to = 0 THEN [n EXCEPT !.stop = TRUE]
                ELSE LET k == Run(e, decls, final, holds, s.skipped, [n EXCEPT !.failed = FALSE])
                         at == CHOOSE j \in DOMAIN code : code[j].op = "block" /\ code[j].at = s.to
                     IN  Run(e, decls, final, holds, SubSeq(code, at, Len(code)), k)
         IN  CASE s.op = "block" ->
                    Go([m EXCEPT !.have = [x \in DOMAIN m.have \intersect decls |-> m.have[x]]])
               [] s.op = "call" ->
                    LET n == RunCall(e, final, holds, s.at, m)
                    IN  IF n.failed THEN Leave(n) ELSE Go(n)
               [] s.op = "check" ->
                    IF s.at \notin DOMAIN m.have
                    THEN [m EXCEPT !.missing = TRUE, !.stop = TRUE]
                    ELSE IF holds[m.have[s.at]] THEN Go(m) ELSE Leave(m)
               [] s.op = "return" ->
                    LET xs == Reads(e, s.at)
                    IN  IF \E k \in DOMAIN xs : xs[k] \notin DOMAIN m.have
                        THEN [m EXCEPT !.missing = TRUE, !.stop = TRUE]
                        ELSE [m EXCEPT !.stop = TRUE,
                                !.reread = @ \union (Range(xs) \intersect m.gone),
                                !.answer = <<[k \in DOMAIN xs |-> m.have[xs[k]]]>>]

Ready(e) ==
    [have |-> [x \in {i \in CellsOf(e) : e[i].op \in {"var", "const"}} |-> Term(e, x)],
     gone |-> {}, reread |-> {}, missing |-> FALSE, failed |-> FALSE, stop |-> FALSE, answer |-> <<>>]

Generated(e, holds) ==
    Run(e, gen_decls(e), last_use_analysis(e), holds, gen_body(e), Ready(e))

-----------------------------------------------------------------------------
(* Properties                                                              *)

Branches(e) == ReturnCells(e)

BranchConds(e, r) == UNION {Conds(e, e[r].in[k]) : k \in DOMAIN e[r].in}

AllConds(e) == UNION {Conds(e, i) : i \in CellsOf(e)}

(* The first alternative all of whose conditions hold.                      *)
Meant(e, holds) ==
    LET rs == SelectSeq(Branches(e), LAMBDA r : \A t \in BranchConds(e, r) : holds[t])
    IN  IF rs = <<>> THEN <<>>
        ELSE <<[k \in DOMAIN e[rs[1]].in |-> Term(e, e[rs[1]].in[k])]>>

MeansEntry(e) ==
    \A holds \in [AllConds(e) -> BOOLEAN] :
        LET g == Generated(e, holds) IN g.answer = Meant(e, holds) /\ ~g.missing

BlockStart(e, r) == IF r = 1 THEN 1 ELSE Branches(e)[r - 1] + 1

(* What can fail in the block of an alternative is a condition of that       *)
(* alternative and of no other.                                             *)
OwnConditions(e) ==
    LET rs == Branches(e)
        Failing(i) == IF e[i].op = "assert" THEN Term(e, e[i].in[2]) ELSE Term(e, i)
    IN  /\ \A r \in DOMAIN rs : \A i \in BlockStart(e, r)..rs[r] :
             PartialCell(e, i) => Failing(i) \in BranchConds(e, rs[r])
        /\ \A r, s \in DOMAIN rs :
             r # s => BranchConds(e, rs[r]) \intersect BranchConds(e, rs[s]) = {}

(* A return or the condition of an assertion names a cell that is computed  *)
(* in an earlier block.                                                     *)
ReadsBack(e) ==
    \E r \in DOMAIN Branches(e) : \E c \in BlockStart(e, r)..Branches(e)[r] :
        /\ e[c].op \in {"return", "assert"}
        /\ \E k \in DOMAIN e[c].in :
             LET x == cgen_lookup(e, e[c].in[k])
             IN  e[x].op \in {"call", "dep"} /\ x < BlockStart(e, r)

RECURSIVE ReadBy(_, _)
ReadBy(e, i) == {i} \union UNION {ReadBy(e, e[i].in[k]) : k \in DOMAIN e[i].in}

(* Every cell is in the block of an alternative that reads it.              *)
Demanded(e) ==
    \A r \in DOMAIN Branches(e) :
        \A i \in CellsOf(e) \intersect BlockStart(e, r)..Branches(e)[r] :
            is_expr(e, i) => i \in ReadBy(e, Branches(e)[r])

Separate(e) == OwnConditions(e) /\ ~ReadsBack(e) /\ Demanded(e)

(* The generated code returns the first alternative whose conditions hold,  *)
(* and reads no value that was not computed (gen_body()), for the entries   *)
(* in which every condition belongs to one alternative, every cell is in a  *)
(* block that reads it and no return and no assertion names a value of an   *)
(* earlier block: what a failing block computes for the cells of a later    *)
(* one is computed before the jump, in scope, and from values that are      *)
(* there.  Other entries are known to go wrong (gen/cgen.c:338).            *)
SeparateCodeMeans ==
    (done /\ Separate(entry)) => MeansEntry(entry)

(* Value x is read under a condition and also past it: last uses are marked *)
(* on cells, so the two readers do not know of each other.                  *)
ReadPast(e, x) ==
    \E r, s \in CellsOf(e) : \E j \in DOMAIN e[r].in, k \in DOMAIN e[s].in :
        /\ {e[r].op, e[s].op} \subseteq {"call", "return"}
        /\ e[r].in[j] # e[s].in[k]
        /\ cgen_lookup(e, e[r].in[j]) = x
        /\ cgen_lookup(e, e[s].in[k]) = x

(* Something that cannot be skipped reads it: that is also done on the way  *)
(* to another block, which may read on.                                     *)
ReadNoSkip(e, x) == \E c \in no_skip_analysis(e) : x \in Range(Reads(e, c))

(* A value that was handed over for good is not read again on the way to    *)
(* any return, wherever a block is left and whatever alternatives share     *)
(* (last_use_analysis()).  Two kinds of values are known to go wrong, and   *)
(* excluded: those that are read under a condition and past it, and those   *)
(* that something reads that cannot be skipped.                             *)
HandedOverOnce ==
    done => \A holds \in [AllConds(entry) -> BOOLEAN] :
        \A x \in Generated(entry, holds).reread : ReadPast(entry, x) \/ ReadNoSkip(entry, x)
=============================================================================

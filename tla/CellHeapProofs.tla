--------------------------- MODULE CellHeapProofs ---------------------------
(***************************************************************************)
(* Proofs about the cell allocator, for every number of cells and every    *)
(* set of argument counts.                                                 *)
(***************************************************************************)
EXTENDS CellHeap, TLAPS, FiniteSetTheorems, WellFoundedInduction

\* The size word of a cell never makes a closure reach over the end.
SizesFit == \A x \in Cells : x + closure_cells(x) - 1 \in Cells

\* The chunk that is being unlinked lies inside the array.
UnlinkRange ==
  pc = "unlink" => /\ idx < calculate_cells(req)
                   /\ chunk + calculate_cells(req) - 1 \in Cells

TypeInv == TypeOK /\ SizesFit /\ UnlinkRange

-----------------------------------------------------------------------------
\* A closure has at least one cell.
LEMMA CellsPositive ==
  \A n \in Nat : calculate_cells(n) \in Nat /\ calculate_cells(n) >= 1
BY SMT DEF calculate_cells, CellWords, HeaderWords

\* A closure without arguments has one cell.
LEMMA CellsOfZero == calculate_cells(0) = 1
BY SMT DEF calculate_cells, CellWords, HeaderWords

\* The types hold once cells_init() has run.
LEMMA TypeInit == Init => TypeInv
<1> SUFFICES ASSUME Init PROVE TypeInv
  OBVIOUS
<1>1. TypeOK
  BY NCellsAssumption, SMT DEF Init, TypeOK, Cells, NoCell
<1>2. SizesFit
  BY CellsOfZero, NCellsAssumption, SMT DEF Init, SizesFit, closure_cells, Cells
<1>3. UnlinkRange
  BY DEF Init, UnlinkRange
<1> QED BY <1>1, <1>2, <1>3 DEF TypeInv

\* Taking a chunk that lies inside the array keeps the types and the sizes.
LEMMA TakeChunkTypes ==
  ASSUME TypeOK, SizesFit,
         NEW c \in Cells, NEW args \in Nat, c + calculate_cells(args) - 1 \in Cells,
         NEW before \in [Cells -> Int], NEW after \in [Cells -> Int],
         TakeChunk(c, args, before, after)
  PROVE  /\ op' \in [Cells -> BOOLEAN]
         /\ prev' \in [Cells -> Int] /\ next' \in [Cells -> Int]
         /\ size' \in [Cells -> Nat]
         /\ owner' \in [Cells -> Cells \cup {NoCell}]
         /\ alloc_cnt' \in Int
         /\ persistent' \subseteq Cells
         /\ SizesFit'
<1>1. calculate_cells(args) \in Nat
  BY CellsPositive
<1>2. op' \in [Cells -> BOOLEAN] /\ size' \in [Cells -> Nat]
  BY DEF TakeChunk, TypeOK
<1>3. prev' \in [Cells -> Int] /\ next' \in [Cells -> Int]
  BY DEF TakeChunk, NoCell
<1>4. owner' \in [Cells -> Cells \cup {NoCell}]
  BY DEF TakeChunk, TypeOK
<1>5. alloc_cnt' \in Int /\ persistent' \subseteq Cells
  BY <1>1 DEF TakeChunk, TypeOK
<1>6. SizesFit'
  BY DEF TakeChunk, TypeOK, SizesFit, closure_cells
<1> QED BY <1>2, <1>3, <1>4, <1>5, <1>6

\* Linking cells of the array into the ring keeps the types.
LEMMA LinkTypes ==
  ASSUME TypeOK, NEW first \in Cells, NEW last \in Cells, Link(first, last)
  PROVE  /\ op' \in [Cells -> BOOLEAN]
         /\ prev' \in [Cells -> Int] /\ next' \in [Cells -> Int]
         /\ free' \subseteq Cells
         /\ persistent' \subseteq Cells
<1>1. op' \in [Cells -> BOOLEAN]
  BY DEF Link, ClearOp, TypeOK
<1>2. first \in Int /\ last \in Int /\ cells_ptr \in Int /\ \A x \in Cells : x \in Int
  BY NCellsAssumption DEF TypeOK, Cells
<1>5. prev' \in [Cells -> Int]
  <2>1. \A x \in Cells : prev[x] \in Int
    BY DEF TypeOK
  <2>2. cells_ptr \in Cells
    BY DEF TypeOK
  <2> QED BY <1>2, <2>1, <2>2 DEF Link, LinkPrev
<1>6. next' \in [Cells -> Int]
  <2>1. \A x \in Cells : next[x] \in Int
    BY DEF TypeOK
  <2> QED BY <1>2, <2>1 DEF Link, LinkNext
<1>3. free' \subseteq Cells
  BY NCellsAssumption DEF Link, TypeOK, Cells
<1>4. persistent' \subseteq Cells
  BY DEF Link, TypeOK
<1> QED BY <1>1, <1>5, <1>6, <1>3, <1>4

\* So does returning cells of a closure.
LEMMA ShrinkTypes ==
  ASSUME TypeOK, SizesFit, NEW c \in Cells, NEW s \in Nat, closure_shrink(c, s)
  PROVE  /\ op' \in [Cells -> BOOLEAN]
         /\ prev' \in [Cells -> Int] /\ next' \in [Cells -> Int]
         /\ free' \subseteq Cells
         /\ persistent' \subseteq Cells
         /\ owner' \in [Cells -> Cells \cup {NoCell}]
         /\ alloc_cnt' \in Int
<1>1. closure_cells(c) \in Nat
  BY CellsPositive DEF closure_cells, TypeOK
<1>2. CASE closure_cells(c) > s
  <2>1. c + s \in Cells /\ c + closure_cells(c) - 1 \in Cells
    BY <1>1, <1>2, NCellsAssumption DEF SizesFit, Cells
  <2>2. Link(c + s, c + closure_cells(c) - 1)
    BY <1>2 DEF closure_shrink
  <2>3. owner' \in [Cells -> Cells \cup {NoCell}]
    BY <1>2 DEF closure_shrink, TypeOK
  <2>4. alloc_cnt' \in Int
    BY <1>1, <1>2 DEF closure_shrink, ShrunkCount, TypeOK
  <2> QED BY <2>1, <2>2, <2>3, <2>4, LinkTypes
<1>3. CASE ~(closure_cells(c) > s)
  BY <1>3 DEF closure_shrink, TypeOK
<1> QED BY <1>2, <1>3

\* Fewer arguments need no more cells.
LEMMA CellsMonotone ==
  \A m, n \in Nat : m <= n => calculate_cells(m) <= calculate_cells(n)
BY SMT DEF calculate_cells, CellWords, HeaderWords

\* There is a first cell.
LEMMA ZeroCell == 0 \in Cells
BY NCellsAssumption DEF Cells

\* An abandoned call keeps the types.
LEMMA ThrowTypes ==
  ASSUME TypeInv, NEW e \in {"limit", "unexpected", "other"}, NEW orphans \in SUBSET Cells,
         Throw(e, orphans), cells_ptr' \in Cells, uninit' \in {NoCell} \cup 2 .. NCells
  PROVE  TypeInv'
<1>1. TypeOK'
  BY ZeroCell DEF Throw, Leave, TypeInv, TypeOK
<1>2. SizesFit'
  BY DEF Throw, TypeInv, SizesFit, closure_cells
<1>3. UnlinkRange'
  BY DEF Throw, Leave, UnlinkRange
<1> QED BY <1>1, <1>2, <1>3 DEF TypeInv

\* The start of an allocation keeps the types.
LEMMA AllocTypes ==
  ASSUME TypeInv, NEW args \in ArgCounts,
         AllocLimit(args) \/ AllocUninit(args) \/ AllocSearch(args)
  PROVE  TypeInv'
<1> DEFINE k == calculate_cells(args)
<1>0. args \in Nat /\ k \in Nat /\ k >= 1
  BY ArgCountsAssumption, CellsPositive
<1>1. CASE AllocLimit(args)
  BY <1>1, ThrowTypes DEF AllocLimit, TypeInv, TypeOK
<1>2. CASE AllocUninit(args)
  <2>1. uninit \in Cells /\ uninit + k - 1 \in Cells /\ uninit' \in 2 .. NCells
    <3>1. uninit \in 2 .. NCells /\ uninit + k <= NCells /\ uninit' = uninit + k
      BY <1>2 DEF AllocUninit, FitsUninit, UninitAfter, TypeInv, TypeOK
    <3> QED BY <1>0, <3>1, NCellsAssumption DEF Cells
  <2>2. TakeChunk(uninit, args, prev, next)
    BY <1>2 DEF AllocUninit
  <2>3. UnlinkRange'
    BY <1>2 DEF AllocUninit, Ready, UnlinkRange
  <2> QED
    BY <1>0, <1>2, <2>1, <2>2, <2>3, TakeChunkTypes
    DEF AllocUninit, TypeInv, TypeOK, call, ghost
<1>3. CASE AllocSearch(args)
  <2>1. uninit' \in {NoCell} \cup 2 .. NCells
    BY <1>3 DEF AllocSearch, UninitLeft, TypeInv, TypeOK
  <2>2. CASE NextOK(cells_ptr)
    <3>1. TypeOK'
      BY <1>0, <1>3, <2>1, <2>2 DEF AllocSearch, NextOK, is_cell, TypeInv, TypeOK, ghost
    <3> QED
      BY <1>3, <2>2, <3>1
      DEF AllocSearch, TypeInv, SizesFit, closure_cells, UnlinkRange
  <2>3. CASE ~NextOK(cells_ptr)
    BY <1>3, <2>1, <2>3, ThrowTypes DEF AllocSearch, TypeInv, TypeOK
  <2> QED BY <2>2, <2>3
<1> QED BY <1>1, <1>2, <1>3

\* The search for a chunk and its unlinking keep the types.
LEMMA AllocatorTypes ==
  ASSUME TypeInv, Allocator
  PROVE  TypeInv'
<1>1. CASE SearchFound
  <2>1. calculate_cells(req) \in Nat /\ calculate_cells(req) >= 1
    BY CellsPositive DEF TypeInv, TypeOK
  <2>2. chunk + calculate_cells(req) - 1 \in Cells
    BY <1>1, <2>1 DEF SearchFound, LooksFree, is_cell, TypeInv, TypeOK, Cells
  <2> QED
    BY <1>1, <2>1, <2>2
    DEF SearchFound, ring, heap, TypeInv, TypeOK, SizesFit, closure_cells, UnlinkRange
<1>2. CASE SearchNext
  <2>1. cells_ptr' \in Cells /\ uninit' \in {NoCell} \cup 2 .. NCells
    BY <1>2 DEF SearchNext, NextOK, is_cell, TypeInv, TypeOK
  <2>2. CASE Throw("limit", {}) \/ Throw("unexpected", {})
    BY <2>1, <2>2, ThrowTypes
  <2>3. CASE NextOK(cells_ptr) /\ ~Lapped
    <3>1. TypeOK'
      BY <1>2, <2>1, <2>3 DEF SearchNext, TypeInv, TypeOK, ghost
    <3>2. SizesFit' /\ UnlinkRange'
      BY <1>2, <2>3 DEF SearchNext, TypeInv, SizesFit, closure_cells, UnlinkRange
    <3> QED BY <3>1, <3>2 DEF TypeInv
  <2> QED BY <1>2, <2>2, <2>3 DEF SearchNext
<1>3. CASE cell_alloc
  <2> DEFINE c == chunk + idx
             k == calculate_cells(req)
             done == chunk .. c - 1
             before == [prev EXCEPT ![next[c]] = prev[c]]
             after == [next EXCEPT ![prev[c]] = next[c]]
  <2>1. pc = "unlink" /\ k \in Nat /\ idx < k /\ chunk + k - 1 \in Cells
    BY <1>3, CellsPositive DEF cell_alloc, TypeInv, TypeOK, UnlinkRange
  <2>2. c \in Cells /\ done \subseteq Cells
    <3>1. chunk \in Cells /\ idx \in Nat
      BY DEF TypeInv, TypeOK
    <3> QED BY <2>1, <3>1, NCellsAssumption DEF Cells
  <2>7. uninit' \in {NoCell} \cup 2 .. NCells
    BY <1>3 DEF cell_alloc, TypeInv, TypeOK
  <2>3. CASE ~Unlinkable(c)
    BY <1>3, <2>2, <2>7, <2>3, ThrowTypes DEF cell_alloc, TypeInv, TypeOK
  <2>4. CASE Unlinkable(c)
    <3>1. cells_ptr' \in Cells
      BY <1>3, <2>4 DEF cell_alloc, Unlinkable, is_cell, TypeInv, TypeOK
    <3>2. before \in [Cells -> Int] /\ after \in [Cells -> Int]
      BY <2>2, <2>4 DEF Unlinkable, is_cell, TypeInv, TypeOK
    <3>3. CASE c = prev[c] \/ c = next[c]
      BY <1>3, <2>2, <2>7, <2>4, <3>1, <3>3, ThrowTypes DEF cell_alloc
    <3>4. CASE ~(c = prev[c] \/ c = next[c]) /\ idx + 1 = k
      <4>1. TakeChunk(chunk, req, before, after) /\ Leave /\ free' = free \ {c}
            /\ UNCHANGED <<uninit, err, lost, stale, sound>>
        BY <1>3, <2>4, <3>4 DEF cell_alloc, ghost
      <4> QED
        BY <2>1, <3>1, <3>2, <4>1, TakeChunkTypes, ZeroCell
        DEF Leave, TypeInv, TypeOK, UnlinkRange
    <3>5. CASE ~(c = prev[c] \/ c = next[c]) /\ idx + 1 # k
      <4>1. prev' = before /\ next' = after /\ idx' = idx + 1 /\ free' = free \ {c}
            /\ UNCHANGED <<uninit, err, lost, stale, sound, op, size, owner, alloc_cnt,
                           persistent, pc, req, chunk, mark>>
        BY <1>3, <2>4, <3>5 DEF cell_alloc, ghost
      <4> QED
        BY <2>1, <3>1, <3>2, <3>5, <4>1
        DEF TypeInv, TypeOK, SizesFit, closure_cells, UnlinkRange
    <3> QED BY <3>3, <3>4, <3>5
  <2> QED BY <2>3, <2>4
<1> QED BY <1>1, <1>2, <1>3 DEF Allocator

\* A freed closure reads as one of a single cell.
LEMMA FreedSizeFits ==
  ASSUME TypeOK, SizesFit, NEW c \in Cells, size' = [size EXCEPT ![c] = 0]
  PROVE  SizesFit'
<1> SUFFICES ASSUME NEW x \in Cells PROVE x + calculate_cells(size'[x]) - 1 \in Cells
  BY DEF SizesFit, closure_cells
<1>1. CASE x = c
  <2>1. size'[x] = 0
    BY <1>1 DEF TypeOK
  <2> QED BY <2>1, CellsOfZero DEF Cells
<1>2. CASE x # c
  BY <1>2 DEF TypeOK, SizesFit, closure_cells
<1> QED BY <1>1, <1>2

\* Every way of giving up cells keeps the types.
LEMMA ReturnTypes ==
  ASSUME TypeInv, NEW c \in Closures, Return(c)
  PROVE  TypeInv'
<1>0. c \in Cells /\ closure_cells(c) \in Nat /\ size[c] \in Nat
  BY CellsPositive DEF Closures, closure_cells, TypeInv, TypeOK
<1>1. CASE closure_free(c)
  <2>1. closure_shrink(c, 0) /\ size' = [size EXCEPT ![c] = 0]
        /\ UNCHANGED <<cells_ptr, uninit, err, pc, call, lost, stale>> /\ pc = "idle"
        /\ sound' \in BOOLEAN
    BY <1>1 DEF closure_free, Ready, RelyOn
  <2>2. SizesFit'
    BY <1>0, <2>1, FreedSizeFits DEF TypeInv
  <2> QED
    BY <1>0, <2>1, <2>2, ShrinkTypes DEF call, TypeInv, TypeOK, UnlinkRange
<1>2. CASE store_fail(c)
  <2>1. closure_shrink(c, 1)
        /\ UNCHANGED <<size, cells_ptr, uninit, err, pc, call, lost>> /\ pc = "idle"
        /\ sound' \in BOOLEAN
    BY <1>2 DEF store_fail, Ready, RelyOn
  <2>2. stale' \subseteq Cells
    BY <1>0, <1>2 DEF store_fail, TypeInv, TypeOK
  <2> QED
    BY <1>0, <2>1, <2>2, ShrinkTypes
    DEF call, TypeInv, TypeOK, UnlinkRange, SizesFit, closure_cells
<1>3. ASSUME NEW args \in ArgCounts, Overwrite(c, args)
      PROVE  TypeInv'
  <2> DEFINE k == calculate_cells(args)
  <2>1. closure_shrink(c, k) /\ size' = [size EXCEPT ![c] = args] /\ k <= closure_cells(c)
        /\ UNCHANGED <<cells_ptr, uninit, err, pc, call, lost, stale>> /\ pc = "idle"
        /\ sound' \in BOOLEAN
    BY <1>3 DEF Overwrite, OverwrittenSize, Ready, RelyOn
  <2>2. args \in Nat /\ k \in Nat /\ k >= 1
    BY ArgCountsAssumption, CellsPositive
  <2>3. c + k - 1 \in Cells
    BY <1>0, <2>1, <2>2, NCellsAssumption DEF TypeInv, SizesFit, Cells
  <2>4. SizesFit'
    BY <1>0, <2>1, <2>2, <2>3 DEF TypeInv, TypeOK, SizesFit, closure_cells
  <2> QED
    BY <1>0, <2>1, <2>2, <2>4, ShrinkTypes DEF call, TypeInv, TypeOK, UnlinkRange
<1>4. ASSUME NEW n \in 0 .. size[c], closure_shrink_list(c, n)
      PROVE  TypeInv'
  <2> DEFINE s == n + ListOffset
  <2>1. closure_shrink(c, s) /\ size' = [size EXCEPT ![c] = s] /\ s < size[c]
        /\ UNCHANGED <<cells_ptr, uninit, err, pc, call, lost>> /\ pc = "idle"
        /\ sound' \in BOOLEAN
    BY <1>4 DEF closure_shrink_list, Ready, RelyOn
  <2>2. s \in Nat /\ s <= size[c]
    BY <1>0, <2>1 DEF ListOffset
  <2>3. calculate_cells(s) <= closure_cells(c) /\ calculate_cells(s) \in Nat
        /\ calculate_cells(s) >= 1
    BY <1>0, <2>2, CellsMonotone, CellsPositive DEF closure_cells
  <2>4. c + calculate_cells(s) - 1 \in Cells
    BY <1>0, <2>3, NCellsAssumption DEF TypeInv, SizesFit, Cells
  <2>5. SizesFit'
    BY <1>0, <2>1, <2>2, <2>4 DEF TypeInv, TypeOK, SizesFit, closure_cells
  <2>6. stale' \subseteq Cells
    BY <1>0, <1>4 DEF closure_shrink_list, TypeInv, TypeOK
  <2> QED
    BY <1>0, <2>1, <2>2, <2>5, <2>6, ShrinkTypes DEF call, TypeInv, TypeOK, UnlinkRange
<1> QED BY <1>1, <1>2, <1>3, <1>4 DEF Return

\* alloc_to() keeps the types.
LEMMA AllocToTypes ==
  ASSUME TypeInv, NEW n \in Cells, alloc_to(n)
  PROVE  TypeInv'
<1>1. uninit \in 2 .. NCells /\ uninit < n /\ pc = "idle"
  BY DEF alloc_to, Ready, TypeInv, TypeOK
<1>2. CASE TooLarge(n - uninit)
  BY <1>2, ThrowTypes DEF alloc_to, TypeInv, TypeOK
<1>3. CASE ~TooLarge(n - uninit)
  <2>1. n \in 2 .. NCells /\ uninit \in Cells /\ n - 1 \in Cells
    BY <1>1, NCellsAssumption DEF Cells
  <2>2. Link(uninit, n - 1) /\ uninit' = n
    BY <1>3 DEF alloc_to
  <2> QED
    BY <1>1, <1>3, <2>1, <2>2, LinkTypes
    DEF alloc_to, call, ghost, TypeInv, TypeOK, SizesFit, closure_cells, UnlinkRange
<1> QED BY <1>2, <1>3

\* So does an error of the program.
LEMMA FailTypes ==
  ASSUME TypeInv, FailElsewhere
  PROVE  TypeInv'
BY ThrowTypes DEF FailElsewhere, TypeInv, TypeOK

\* Writing an argument over an inner cell keeps the types.
LEMMA StoreArgTypes ==
  ASSUME TypeInv, NEW x \in Cells, StoreArg(x)
  PROVE  TypeInv'
<1>1. op' \in [Cells -> BOOLEAN]
  BY DEF StoreArg, TypeInv, TypeOK
<1> QED
  BY <1>1 DEF StoreArg, heap, call, ghost, TypeInv, TypeOK, SizesFit, closure_cells, UnlinkRange

\* cleanup_cells() and a restart keep the types.
LEMMA RecoveryTypes ==
  ASSUME TypeInv, Recovery
  PROVE  TypeInv'
<1>1. CASE CatchError \/ CatchAndGoOn
  BY <1>1
  DEF CatchError, CatchAndGoOn, ring, heap, call, ghost, TypeInv, TypeOK, SizesFit,
      closure_cells, UnlinkRange
<1>2. CASE cleanup_cells
  <2>0. pc = "cleanup" /\ sound' \in BOOLEAN
        /\ UNCHANGED <<cells_ptr, uninit, err, pc, req, chunk, mark, lost, stale>>
    BY <1>2 DEF cleanup_cells
  <2>1. idx \in Cells /\ closure_cells(idx) \in Nat /\ idx' \in Nat
    <3>1. idx \in Cells
      BY <1>2, NCellsAssumption DEF cleanup_cells, TypeInv, TypeOK, Cells
    <3>2. closure_cells(idx) \in Nat
      BY <3>1, CellsPositive DEF closure_cells, TypeInv, TypeOK
    <3> QED BY <1>2, <3>1, <3>2 DEF cleanup_cells, CleanupStep, TypeInv, TypeOK
  <2>2. CASE op[idx] /\ idx \notin persistent
    <3>1. closure_shrink(idx, 0) /\ size' = [size EXCEPT ![idx] = 0]
      BY <1>2, <2>2 DEF cleanup_cells
    <3>2. SizesFit'
      BY <2>1, <3>1, FreedSizeFits DEF TypeInv
    <3> QED
      BY <2>0, <2>1, <3>1, <3>2, ShrinkTypes DEF TypeInv, TypeOK, UnlinkRange
  <2>3. CASE ~(op[idx] /\ idx \notin persistent)
    BY <1>2, <2>0, <2>1, <2>3
    DEF cleanup_cells, TypeInv, TypeOK, SizesFit, closure_cells, UnlinkRange
  <2> QED BY <2>2, <2>3
<1>3. CASE CleanupDone
  BY <1>3, ZeroCell
  DEF CleanupDone, Leave, ring, heap, ghost, TypeInv, TypeOK, SizesFit, closure_cells, UnlinkRange
<1>4. CASE Restart
  <2>1. /\ op' \in [Cells -> BOOLEAN]
        /\ prev' \in [Cells -> Int] /\ next' \in [Cells -> Int]
        /\ size' \in [Cells -> Nat]
    BY <1>4 DEF Restart, TypeInv, TypeOK, Cells
  <2>2. {0, 1} \subseteq Cells /\ 2 \in 2 .. NCells
    BY NCellsAssumption DEF Cells
  <2>3. SizesFit'
    <3> SUFFICES ASSUME NEW x \in Cells PROVE x + calculate_cells(size'[x]) - 1 \in Cells
      BY DEF SizesFit, closure_cells
    <3>1. CASE x < 2
      BY <1>4, <3>1, CellsOfZero DEF Restart, Cells
    <3>2. CASE ~(x < 2)
      BY <1>4, <3>2 DEF Restart, TypeInv, SizesFit, closure_cells
    <3> QED BY <3>1, <3>2
  <2>4. owner' \in [Cells -> Cells \cup {NoCell}] /\ persistent' \subseteq Cells
    BY <1>4 DEF Restart, TypeInv, TypeOK
  <2>5. TypeOK'
    <3>1. /\ cells_ptr' = 0 /\ uninit' = 2 /\ alloc_cnt' = 0 /\ err' = "none"
          /\ pc' = "idle" /\ req' = 0 /\ chunk' = 0 /\ mark' = 0 /\ idx' = 0
          /\ free' = {0, 1} /\ lost' = {} /\ stale' = {} /\ sound' = TRUE
      BY <1>4 DEF Restart, Leave
    <3> QED BY <2>1, <2>2, <2>4, <3>1, ZeroCell DEF TypeOK
  <2>6. UnlinkRange'
    BY <1>4 DEF Restart, Leave, UnlinkRange
  <2> QED BY <2>3, <2>5, <2>6 DEF TypeInv
<1> QED BY <1>1, <1>2, <1>3, <1>4 DEF Recovery

\* TypeInv is inductive.
LEMMA TypeNext == TypeInv /\ [Next]_vars => TypeInv'
<1> SUFFICES ASSUME TypeInv, [Next]_vars PROVE TypeInv'
  OBVIOUS
<1>1. CASE UNCHANGED vars
  BY <1>1 DEF vars, TypeInv, TypeOK, SizesFit, closure_cells, UnlinkRange
<1>2. CASE Next
  BY <1>2, AllocTypes, ReturnTypes, AllocToTypes, StoreArgTypes, FailTypes, AllocatorTypes,
     RecoveryTypes
  DEF Next, Alloc
<1> QED BY <1>1, <1>2

\* Every variable of the allocator keeps its type, whatever clients do and
\* after any error: links are words, cells_ptr is always a cell, and no cell
\* outside the array is ever put into the ring or given to a closure.
THEOREM TypeCorrect == Spec => []TypeOK
<1>1. TypeInv => TypeOK
  BY DEF TypeInv
<1> QED BY <1>1, TypeInit, TypeNext, PTL DEF Spec

-----------------------------------------------------------------------------
(* The heap while it is sound.                                             *)

Ring ==
  /\ cells_ptr \in free
  /\ \A x \in free : /\ ~op[x]
                    /\ next[x] \in free /\ prev[next[x]] = x
                    /\ prev[x] \in free /\ next[prev[x]] = x

\* Owned cells belong to a closure that begins no later and has an op, and
\* are as many as its size word says; other cells have no op, if they were
\* ever used.
Blocks ==
  /\ \A x \in Cells : owner[x] # NoCell =>
       /\ owner[x] \in Cells /\ owner[x] <= x
       /\ owner[owner[x]] = owner[x] /\ op[owner[x]]
  /\ \A c \in Cells : owner[c] = c /\ c \notin stale =>
       \A x \in Cells : owner[x] = c <=> c <= x /\ x < c + closure_cells(c)
  /\ \A x \in Cells : op[x] => owner[x] # NoCell \/ x \in Uninit

\* A cell is in exactly one of five places.
Regions ==
  /\ \A x \in free : owner[x] = NoCell /\ x \notin Uninit /\ x \notin Taken /\ x \notin lost
  /\ \A x \in Uninit : owner[x] = NoCell /\ x \notin Taken /\ x \notin lost
  /\ \A x \in lost : owner[x] = NoCell /\ x \notin Taken
  /\ \A x \in Cells : x \in free \/ owner[x] # NoCell \/ x \in Uninit \/ x \in Taken \/ x \in lost

\* What the loops know of the heap: the candidate of a search is free, the
\* cells of a chunk that are still to be unlinked are free and none of its
\* cells is owned, and cleanup_cells stands between two closures.
Calls ==
  /\ pc = "search" => chunk \in free
  /\ pc = "unlink" =>
       \A x \in chunk .. chunk + calculate_cells(req) - 1 :
         owner[x] = NoCell /\ (chunk + idx <= x => x \in free)
  /\ pc = "cleanup" => \A x \in Cells : idx <= x /\ owner[x] # NoCell => idx <= owner[x]

HeapInv == sound => Ring /\ Blocks /\ Regions /\ Calls

\* Never-used and lost cells are cells.
LEMMA UninitInCells == TypeOK => Uninit \cup lost \subseteq Cells
<1> SUFFICES ASSUME TypeOK PROVE Uninit \cup lost \subseteq Cells
  OBVIOUS
<1>1. lost \subseteq Cells /\ uninit \in {NoCell} \cup 2 .. NCells
  BY DEF TypeOK
<1>2. CASE uninit = NoCell
  BY <1>1, <1>2 DEF Uninit
<1>3. CASE uninit \in 2 .. NCells
  <2>1. \A x \in uninit .. NCells - 1 : x \in 0 .. NCells - 1
    BY <1>3, NCellsAssumption
  <2> QED BY <1>1, <2>1 DEF Uninit, Cells
<1> QED BY <1>1, <1>2, <1>3

\* HeapInv holds once cells_init() has run.
LEMMA HeapInit == Init => HeapInv
<1> SUFFICES ASSUME Init PROVE HeapInv
  OBVIOUS
<1>1. {0, 1} \subseteq Cells /\ 2 \in 2 .. NCells
  BY NCellsAssumption DEF Cells
<1>2. Ring
  <2>1. \A x \in {0, 1} : next[x] = 1 - x /\ prev[x] = 1 - x /\ ~op[x]
    BY <1>1 DEF Init
  <2> QED BY <2>1 DEF Init, Ring
<1>3. Blocks
  <2>1. \A x \in Cells : owner[x] = NoCell /\ ~op[x] /\ owner[x] # x
    BY DEF Init, NoCell, Cells
  <2> QED BY <2>1 DEF Blocks
<1>4. Regions
  <2>1. Uninit = 2 .. NCells - 1 /\ Taken = {} /\ free = {0, 1} /\ lost = {}
    BY DEF Init, Uninit, Taken, NoCell
  <2>2. \A x \in Cells : owner[x] = NoCell
    BY DEF Init
  <2> QED BY <1>1, <2>1, <2>2, NCellsAssumption DEF Regions, Cells
<1>5. Calls
  BY DEF Init, Calls
<1> QED BY <1>2, <1>3, <1>4, <1>5 DEF HeapInv

\* A new closure in cells that nobody owns leaves the other closures as they
\* are.
LEMMA TakeChunkBlocks ==
  ASSUME TypeOK, Blocks, NEW c \in Cells, NEW args \in Nat,
         NEW before, NEW after,
         \A x \in c .. c + calculate_cells(args) - 1 : x \in Cells /\ owner[x] = NoCell,
         \A x \in Uninit : x \in c .. c + calculate_cells(args) - 1 \/ x \in Uninit',
         TakeChunk(c, args, before, after), stale' = stale
  PROVE  Blocks'
<1> DEFINE k == calculate_cells(args)
           took == c .. c + k - 1
<1>1. k \in Nat /\ k >= 1 /\ c \in Int /\ c # NoCell
  BY CellsPositive, NCellsAssumption DEF Cells, NoCell
<1>2. c \in took
  BY <1>1
<1>3. \A x \in Cells : owner'[x] = IF x \in took THEN c ELSE owner[x]
  BY DEF TakeChunk
<1>4. \A x \in Cells : op'[x] = IF x = c THEN TRUE ELSE op[x]
  BY DEF TakeChunk, TypeOK
<1>5. \A x \in Cells : size'[x] = IF x = c THEN args ELSE size[x]
  BY DEF TakeChunk, TypeOK
<1>6. \A x \in took : owner[x] = NoCell
  OBVIOUS
<1>7. \A x \in Cells : owner[x] # NoCell => owner[x] \notin took /\ x \notin took
  BY <1>6 DEF Blocks
<1>8. ASSUME NEW x \in Cells, owner'[x] # NoCell
      PROVE  /\ owner'[x] \in Cells /\ owner'[x] <= x
             /\ owner'[owner'[x]] = owner'[x] /\ op'[owner'[x]]
  <2>1. CASE x \in took
    <3>1. owner'[x] = c /\ owner'[c] = c /\ op'[c]
      BY <1>2, <1>3, <1>4, <2>1
    <3>2. c <= x
      BY <1>1, <2>1
    <3> QED BY <3>1, <3>2
  <2>2. CASE x \notin took
    <3> DEFINE d == owner[x]
    <3>1. owner'[x] = d /\ d # NoCell
      BY <1>3, <1>8, <2>2
    <3>2. d \in Cells /\ d <= x /\ owner[d] = d /\ op[d] /\ d \notin took
      BY <1>7, <3>1 DEF Blocks
    <3>3. owner'[d] = d /\ op'[d]
      BY <1>3, <1>4, <3>2
    <3> HIDE DEF d
    <3> QED BY <3>1, <3>2, <3>3
  <2> QED BY <2>1, <2>2
<1>9. ASSUME NEW d \in Cells, owner'[d] = d, d \notin stale, NEW x \in Cells
      PROVE  owner'[x] = d <=> d <= x /\ x < d + calculate_cells(size'[d])
  <2>1. CASE d = c
    <3>1. owner'[x] = c <=> x \in took
      BY <1>1, <1>3, <1>6, <1>2, <1>7
    <3>2. x \in took <=> c <= x /\ x < c + k
      BY <1>1, NCellsAssumption DEF Cells
    <3> QED BY <1>5, <2>1, <3>1, <3>2
  <2>2. CASE d # c
    <3>1. d \notin took /\ owner[d] = d /\ size'[d] = size[d]
      BY <1>3, <1>5, <1>9, <2>2
    <3>2. owner'[x] = d <=> owner[x] = d
      <4>0. d # NoCell
        BY NCellsAssumption DEF Cells, NoCell
      <4>1. CASE x \in took
        BY <1>3, <1>6, <2>2, <4>0, <4>1
      <4>2. CASE x \notin took
        BY <1>3, <4>2
      <4> QED BY <4>1, <4>2
    <3> QED BY <1>9, <3>1, <3>2 DEF Blocks, closure_cells
  <2> QED BY <2>1, <2>2
<1>10. ASSUME NEW x \in Cells, op'[x]
       PROVE  owner'[x] # NoCell \/ x \in Uninit'
  BY <1>1, <1>2, <1>3, <1>4, <1>10 DEF Blocks
<1> QED BY <1>8, <1>9, <1>10 DEF Blocks, closure_cells

\* Cells that were not in the ring can be linked into it.
LEMMA LinkRing ==
  ASSUME TypeOK, Ring, NEW first \in Cells, NEW last \in Cells, first <= last,
         \A x \in first .. last : x \notin free,
         Link(first, last), UNCHANGED cells_ptr
  PROVE  Ring'
<1> DEFINE back == first .. last
           tail == prev[cells_ptr]
<1>1. first \in back /\ last \in back /\ back \subseteq Cells
      /\ first \in Int /\ last \in Int
  BY NCellsAssumption DEF Cells
<1>2. cells_ptr \in free /\ tail \in free /\ next[tail] = cells_ptr /\ tail \in Cells
      /\ cells_ptr \in Cells
  BY DEF Ring, TypeOK
<1>3. \A x \in Cells : op'[x] <=> (x \notin back /\ op[x])
  BY DEF Link, ClearOp
<1>4. \A x \in Cells : prev'[x] = IF x = cells_ptr THEN last
                                 ELSE IF x = first THEN tail
                                 ELSE IF x \in back THEN x - 1
                                 ELSE prev[x]
  BY DEF Link, LinkPrev
<1>5. \A x \in Cells : next'[x] = IF x = last THEN cells_ptr
                                 ELSE IF x \in back THEN x + 1
                                 ELSE IF x = tail THEN first
                                 ELSE next[x]
  BY DEF Link, LinkNext
<1>6. free' = free \cup back
  BY DEF Link
<1>7. \A x \in back : x \notin free /\ x \in Int /\ first <= x /\ x <= last
  BY <1>1
<1>8. \A x \in back : (x # last => x + 1 \in back /\ x + 1 # first /\ (x + 1) - 1 = x)
                     /\ (x # first => x - 1 \in back /\ x - 1 # last /\ (x - 1) + 1 = x)
  BY <1>1
<1>9. ASSUME NEW x \in back
      PROVE  /\ ~op'[x]
             /\ next'[x] \in free' /\ prev'[next'[x]] = x
             /\ prev'[x] \in free' /\ next'[prev'[x]] = x
  <2>1. ~op'[x]
    BY <1>1, <1>3
  <2>2. next'[x] \in free' /\ prev'[next'[x]] = x
    <3>1. CASE x = last
      BY <1>1, <1>2, <1>4, <1>5, <1>6, <3>1
    <3>2. CASE x # last
      BY <1>1, <1>2, <1>4, <1>5, <1>6, <1>7, <1>8, <3>2
    <3> QED BY <3>1, <3>2
  <2>3. prev'[x] \in free' /\ next'[prev'[x]] = x
    <3>1. CASE x = first
      BY <1>1, <1>2, <1>4, <1>5, <1>6, <1>7, <3>1
    <3>2. CASE x # first
      BY <1>1, <1>2, <1>4, <1>5, <1>6, <1>7, <1>8, <3>2
    <3> QED BY <3>1, <3>2
  <2> QED BY <2>1, <2>2, <2>3
<1>10. ASSUME NEW x \in free
       PROVE  /\ ~op'[x]
              /\ next'[x] \in free' /\ prev'[next'[x]] = x
              /\ prev'[x] \in free' /\ next'[prev'[x]] = x
  <2>0. x \in Cells /\ x \notin back /\ next[x] \in free /\ prev[x] \in free
        /\ next[x] \in Cells /\ prev[x] \in Cells /\ next[x] \notin back /\ prev[x] \notin back
        /\ prev[next[x]] = x /\ next[prev[x]] = x
    BY <1>7 DEF Ring, TypeOK
  <2>1. ~op'[x]
    BY <1>3, <2>0 DEF Ring
  <2>2. next'[x] \in free' /\ prev'[next'[x]] = x
    <3>1. CASE x = tail
      BY <1>1, <1>2, <1>4, <1>5, <1>6, <1>7, <2>0, <3>1
    <3>2. CASE x # tail
      BY <1>1, <1>2, <1>4, <1>5, <1>6, <1>7, <2>0, <3>2
    <3> QED BY <3>1, <3>2
  <2>3. prev'[x] \in free' /\ next'[prev'[x]] = x
    <3>1. CASE x = cells_ptr
      BY <1>1, <1>2, <1>4, <1>5, <1>6, <1>7, <2>0, <3>1
    <3>2. CASE x # cells_ptr
      BY <1>1, <1>2, <1>4, <1>5, <1>6, <1>7, <2>0, <3>2
    <3> QED BY <3>1, <3>2
  <2> QED BY <2>1, <2>2, <2>3
<1> QED BY <1>2, <1>6, <1>9, <1>10 DEF Ring

\* A new size word that stands for as many cells, or is known to be stale,
\* changes nothing.
LEMMA SameCellsHeap ==
  ASSUME TypeOK, Ring, Blocks, Regions,
         NEW c \in Cells, NEW n \in Nat, stale \subseteq stale',
         c \in stale' \/ calculate_cells(n) = closure_cells(c),
         size' = [size EXCEPT ![c] = n],
         UNCHANGED <<op, prev, next, free, owner, cells_ptr, uninit, lost>>,
         Taken' = Taken
  PROVE  Ring' /\ Blocks' /\ Regions'
<1>1. Ring'
  BY DEF Ring
<1>2. \A x \in Cells : x \notin stale' => closure_cells(x)' = closure_cells(x)
  BY DEF closure_cells, TypeOK
<1>3. Blocks'
  <2>1. Uninit' = Uninit
    BY DEF Uninit
  <2>2. \A d \in Cells : owner[d] = d /\ d \notin stale' =>
          \A x \in Cells : owner[x] = d <=> d <= x /\ x < d + closure_cells(d)'
    BY <1>2 DEF Blocks
  <2> QED BY <2>1, <2>2 DEF Blocks
<1>4. Regions'
  BY DEF Regions, Uninit
<1> QED BY <1>1, <1>3, <1>4

\* Returning the cells of a closure from the s-th on: the ring takes them up,
\* and what is left of the closure is as long as its new size says, unless
\* the closure is known to be stale from now on.
LEMMA ShrinkHeap ==
  ASSUME TypeOK, SizesFit, Ring, Blocks, Regions,
         NEW c \in Cells, owner[c] = c, c \notin stale, NEW s \in Nat, NEW n \in Nat,
         stale' = stale \/ stale' = stale \cup {c},
         \/ s = 0
         \/ c \in stale'
         \/ calculate_cells(n) = IF closure_cells(c) > s THEN s ELSE closure_cells(c),
         closure_shrink(c, s), size' = [size EXCEPT ![c] = n],
         UNCHANGED <<cells_ptr, uninit, lost>>, Taken = {}, Taken' = {}
  PROVE  Ring' /\ Blocks' /\ Regions'
<1> DEFINE k == closure_cells(c)
           back == c + s .. c + k - 1
<1>0. k \in Nat /\ k >= 1 /\ c \in Int /\ c # NoCell
  <2>1. size[c] \in Nat
    BY DEF TypeOK
  <2>2. c \in Int /\ c # NoCell
    BY NCellsAssumption DEF Cells, NoCell
  <2> QED BY <2>1, <2>2, CellsPositive DEF closure_cells
<1>00. stale \subseteq stale' /\ \A d : d # c => (d \in stale' <=> d \in stale)
  OBVIOUS
<1>1. CASE ~(s < k)
  <2>1. UNCHANGED <<op, prev, next, free, owner>>
    BY <1>0, <1>1 DEF closure_shrink
  <2>2. c \in stale' \/ calculate_cells(n) = k
    BY <1>0, <1>1
  <2> QED BY <1>00, <2>1, <2>2, SameCellsHeap
<1>2. CASE s < k
  <2>1. Link(c + s, c + k - 1)
    BY <1>2 DEF closure_shrink
  <2>2. c + s \in Cells /\ c + k - 1 \in Cells /\ c + s <= c + k - 1 /\ back \subseteq Cells
    BY <1>0, <1>2, NCellsAssumption DEF SizesFit, Cells
  <2>3. \A x \in Cells : owner[x] = c <=> c <= x /\ x < c + k
    BY DEF Blocks
  <2>4. \A x \in back : owner[x] = c /\ x \notin free
    <3>1. \A x \in back : owner[x] = c
      BY <1>0, <2>2, <2>3
    <3> QED BY <1>0, <3>1 DEF Regions
  <2>5. Ring'
    BY <2>1, <2>2, <2>4, LinkRing
  <2>6. \A x \in Cells : owner'[x] = IF x \in back THEN NoCell ELSE owner[x]
    BY <1>2 DEF closure_shrink
  <2>7. \A x \in Cells : op'[x] <=> x \notin back /\ op[x]
    BY <2>1 DEF Link, ClearOp
  <2>10. Uninit' = Uninit
    BY DEF Uninit
  <2>8. Blocks'
    <3>1. ASSUME NEW x \in Cells, owner'[x] # NoCell
          PROVE  /\ owner'[x] \in Cells /\ owner'[x] <= x
                 /\ owner'[owner'[x]] = owner'[x] /\ op'[owner'[x]]
      <4> DEFINE d == owner[x]
      <4>1. owner'[x] = d /\ d # NoCell /\ x \notin back
        BY <2>6, <3>1
      <4>2. d \in Cells /\ d <= x /\ owner[d] = d /\ op[d]
        BY <4>1 DEF Blocks
      <4>3. d \notin back
        <5> SUFFICES ASSUME d \in back PROVE FALSE
          OBVIOUS
        <5>1. d = c
          BY <2>4, <4>2
        <5>2. s = 0
          BY <1>0, <5>1
        <5>3. x \in back
          BY <1>0, <2>3, <5>1, <5>2, NCellsAssumption DEF Cells
        <5> QED BY <4>1, <5>3
      <4>4. owner'[d] = d /\ op'[d]
        BY <2>6, <2>7, <4>2, <4>3
      <4> HIDE DEF d
      <4> QED BY <4>1, <4>2, <4>4
    <3>2. ASSUME NEW d \in Cells, owner'[d] = d, d \notin stale', NEW x \in Cells
          PROVE  owner'[x] = d <=> d <= x /\ x < d + calculate_cells(size'[d])
      <4>0. d # NoCell /\ d \notin back /\ owner[d] = d /\ d \notin stale
        <5>1. d # NoCell
          BY NCellsAssumption DEF Cells, NoCell
        <5> QED BY <1>00, <2>6, <3>2, <5>1
      <4>1. CASE d = c
        <5>1. s # 0
          BY <1>0, <1>2, <4>0, <4>1
        <5>2. calculate_cells(size'[d]) = s
          BY <1>2, <3>2, <4>1, <5>1 DEF TypeOK
        <5>3. owner'[x] = c <=> owner[x] = c /\ x \notin back
          BY <1>0, <2>6
        <5>4. x \notin back /\ c <= x /\ x < c + k <=> c <= x /\ x < c + s
          BY <1>0, <1>2, NCellsAssumption DEF Cells
        <5> QED BY <2>3, <4>1, <5>2, <5>3, <5>4
      <4>2. CASE d # c
        <5>1. owner'[x] = d <=> owner[x] = d
          BY <2>4, <2>6, <4>0, <4>2
        <5>2. size'[d] = size[d]
          BY <4>2 DEF TypeOK
        <5> QED BY <4>0, <5>1, <5>2 DEF Blocks, closure_cells
      <4> QED BY <4>1, <4>2
    <3>3. ASSUME NEW x \in Cells, op'[x]
          PROVE  owner'[x] # NoCell \/ x \in Uninit'
      BY <2>6, <2>7, <2>10, <3>3 DEF Blocks
    <3> QED BY <3>1, <3>2, <3>3 DEF Blocks, closure_cells
  <2>9. Regions'
    <3>1. free' = free \cup back
      BY <2>1 DEF Link
    <3>3. \A x \in Uninit \cup lost : x \notin back
      BY <1>0, <2>4 DEF Regions
    <3>4. Uninit \cup lost \subseteq Cells
      BY UninitInCells
    <3>5. \A x \in free' : owner'[x] = NoCell /\ x \notin Uninit' /\ x \notin Taken' /\ x \notin lost'
      BY <2>2, <2>6, <2>10, <3>1, <3>3 DEF Regions, TypeOK
    <3>6. /\ \A x \in Uninit' : owner'[x] = NoCell /\ x \notin Taken' /\ x \notin lost'
          /\ \A x \in lost' : owner'[x] = NoCell /\ x \notin Taken'
      BY <2>6, <2>10, <3>3, <3>4 DEF Regions
    <3>7. \A x \in Cells : x \in free' \/ owner'[x] # NoCell \/ x \in Uninit' \/ x \in Taken'
                          \/ x \in lost'
      BY <2>6, <2>10, <3>1 DEF Regions
    <3> QED BY <3>5, <3>6, <3>7 DEF Regions
  <2> QED BY <2>5, <2>8, <2>9
<1> QED BY <1>1, <1>2

\* closure_free() is the case s = 0 of it.
LEMMA FreeHeap ==
  ASSUME TypeOK, SizesFit, Ring, Blocks, Regions,
         NEW c \in Cells, owner[c] = c, c \notin stale, stale' = stale,
         closure_shrink(c, 0), size' = [size EXCEPT ![c] = 0],
         UNCHANGED <<cells_ptr, uninit, lost>>, Taken = {}, Taken' = {}
  PROVE  Ring' /\ Blocks' /\ Regions'
<1> DEFINE s == 0
           n == 0
<1>2. /\ s \in Nat /\ n \in Nat /\ s = 0
      /\ closure_shrink(c, s) /\ size' = [size EXCEPT ![c] = n]
  OBVIOUS
<1> HIDE DEF s, n
<1> QED BY <1>2, ShrinkHeap

\* The start of an allocation keeps HeapInv.
LEMMA AllocHeap ==
  ASSUME TypeInv, HeapInv, NEW args \in ArgCounts,
         AllocLimit(args) \/ AllocUninit(args) \/ AllocSearch(args)
  PROVE  HeapInv'
<1> SUFFICES ASSUME sound' PROVE (Ring /\ Blocks /\ Regions /\ Calls)'
  BY DEF HeapInv
<1> DEFINE k == calculate_cells(args)
<1>0. args \in Nat /\ k \in Nat /\ k >= 1 /\ pc = "idle" /\ TypeOK /\ SizesFit /\ Taken = {}
  BY ArgCountsAssumption, CellsPositive
  DEF TypeInv, AllocLimit, AllocUninit, AllocSearch, Ready, Taken
<1>1. sound /\ stale' = stale /\ lost' = lost
  BY DEF AllocLimit, AllocUninit, AllocSearch, Throw, ghost
<1>2. Ring /\ Blocks /\ Regions
  BY <1>1 DEF HeapInv
<1>3. CASE AllocUninit(args)
  <2> DEFINE took == uninit .. uninit + k - 1
  <2>1. uninit \in 2 .. NCells /\ uninit + k <= NCells /\ uninit' = uninit + k
        /\ pc' = "idle" /\ TakeChunk(uninit, args, prev, next)
        /\ UNCHANGED <<cells_ptr, free>>
    BY <1>0, <1>3 DEF AllocUninit, FitsUninit, UninitAfter, TypeOK
  <2>2. uninit \in Cells /\ took \subseteq Cells /\ Uninit = uninit .. NCells - 1
        /\ Uninit' = uninit + k .. NCells - 1 /\ took \subseteq Uninit
        /\ Uninit' \subseteq Uninit \ took /\ Uninit \subseteq took \cup Uninit'
    BY <1>0, <2>1, NCellsAssumption DEF Cells, Uninit, NoCell
  <2>3. \A x \in took : x \in Cells /\ owner[x] = NoCell /\ x \notin free /\ x \notin lost
    BY <1>2, <2>2 DEF Regions
  <2>4. Blocks'
    BY <1>0, <1>1, <1>2, <2>1, <2>2, <2>3, TakeChunkBlocks
  <2>5. \A x \in Cells : x \notin took => prev'[x] = prev[x] /\ next'[x] = next[x]
                                           /\ owner'[x] = owner[x]
    BY <2>1 DEF TakeChunk
  <2>6. \A x \in Cells : x \in took => owner'[x] = uninit /\ uninit # NoCell
    BY <2>1 DEF TakeChunk, NoCell
  <2>7. \A x \in free : x \in Cells /\ x \notin took /\ op'[x] = op[x]
    <3>1. uninit \in took
      BY <1>0, <2>1
    <3>2. op' = [op EXCEPT ![uninit] = TRUE]
      BY <2>1 DEF TakeChunk
    <3> QED BY <1>0, <2>3, <3>1, <3>2 DEF TypeOK
  <2>8. Ring'
    BY <1>2, <2>1, <2>5, <2>7 DEF Ring
  <2>9. Taken' = {}
    BY <2>1 DEF Taken
  <2>10. Regions'
    <3>0. Uninit \subseteq Cells /\ lost \subseteq Cells
      BY <1>0, UninitInCells
    <3>1. \A x \in free' : owner'[x] = NoCell /\ x \notin Uninit' /\ x \notin Taken' /\ x \notin lost'
      BY <1>1, <1>2, <2>1, <2>2, <2>5, <2>7, <2>9 DEF Regions
    <3>2. /\ \A x \in Uninit' : owner'[x] = NoCell /\ x \notin Taken' /\ x \notin lost'
          /\ \A x \in lost' : owner'[x] = NoCell /\ x \notin Taken'
      BY <1>1, <1>2, <2>2, <2>3, <2>5, <2>9, <3>0 DEF Regions
    <3>3. \A x \in Cells : x \in free' \/ owner'[x] # NoCell \/ x \in Uninit' \/ x \in Taken'
                          \/ x \in lost'
      BY <1>0, <1>1, <1>2, <2>1, <2>2, <2>5, <2>6 DEF Regions
    <3> QED BY <3>1, <3>2, <3>3 DEF Regions
  <2>11. Calls'
    BY <2>1 DEF Calls
  <2> QED BY <2>4, <2>8, <2>10, <2>11
<1>4. CASE AllocLimit(args) \/ AllocSearch(args)
  <2>1. UNCHANGED <<op, prev, next, free, size, owner>>
    BY <1>4 DEF AllocLimit, AllocSearch, Throw
  <2>2. Taken' = {}
    BY <1>4 DEF Taken, AllocLimit, AllocSearch, Throw, Leave
  <2>3. cells_ptr' \in free
    BY <1>2, <1>4 DEF Ring, AllocLimit, AllocSearch
  <2>4. Uninit' = Uninit
    <3>1. CASE uninit' = uninit
      BY <3>1 DEF Uninit
    <3>2. CASE uninit' # uninit
      <4>1. uninit' = NoCell /\ k = 1 /\ ~FitsUninit(1) /\ uninit \in {NoCell} \cup 2 .. NCells
        BY <1>0, <1>4, <3>2 DEF AllocLimit, AllocSearch, UninitLeft, TypeOK
      <4>2. uninit = NoCell \/ uninit .. NCells - 1 = {}
        BY <4>1, NCellsAssumption DEF FitsUninit
      <4> QED BY <4>1, <4>2 DEF Uninit
    <3> QED BY <3>1, <3>2
  <2>5. Ring' /\ Blocks' /\ Regions'
    BY <1>0, <1>1, <1>2, <2>1, <2>2, <2>3, <2>4 DEF Ring, Blocks, Regions, closure_cells
  <2>6. Calls'
    BY <1>2, <1>4, <2>1
    DEF Calls, AllocLimit, AllocSearch, Throw, Leave, Ring
  <2> QED BY <2>5, <2>6
<1> QED BY <1>3, <1>4

\* The search for a chunk and its unlinking keep HeapInv: what an allocation
\* that fails had unlinked is lost, and everything else stays in its place.
LEMMA AllocatorHeap ==
  ASSUME TypeInv, HeapInv, Allocator
  PROVE  HeapInv'
<1> SUFFICES ASSUME sound' PROVE (Ring /\ Blocks /\ Regions /\ Calls)'
  BY DEF HeapInv
<1>1. sound /\ stale' = stale
  BY DEF Allocator, SearchFound, SearchNext, cell_alloc, Throw, ghost
<1>2. Ring /\ Blocks /\ Regions /\ Calls /\ TypeOK /\ SizesFit
  BY <1>1 DEF HeapInv, TypeInv
<1> DEFINE k == calculate_cells(req)
<1>3. k \in Nat /\ k >= 1 /\ chunk \in Cells /\ idx \in Nat /\ chunk \in Int
  <2>1. req \in Nat /\ chunk \in Cells /\ idx \in Nat
    BY <1>2 DEF TypeOK
  <2> QED BY <2>1, CellsPositive, NCellsAssumption DEF Cells
<1>4. CASE SearchFound
  <2>1. UNCHANGED <<op, prev, next, cells_ptr, free, size, uninit, owner, req, chunk, lost>>
        /\ pc = "search" /\ pc' = "unlink" /\ idx' = 0 /\ chunk .. chunk + k - 1 \subseteq free
    BY <1>4 DEF SearchFound, ring, heap
  <2>3. \A x \in chunk .. chunk + k - 1 : x \in free /\ owner[x] = NoCell
    BY <1>2, <2>1 DEF Regions
  <2>4. Taken = {} /\ Taken' = {}
    BY <1>3, <2>1 DEF Taken
  <2>5. Uninit' = Uninit
    BY <2>1 DEF Uninit
  <2>6. Ring' /\ Blocks' /\ Regions'
    BY <1>1, <1>2, <2>1, <2>4, <2>5 DEF Ring, Blocks, Regions, closure_cells
  <2>7. Calls'
    BY <2>1, <2>3 DEF Calls
  <2> QED BY <2>6, <2>7
<1>5. CASE SearchNext
  <2>1. UNCHANGED <<op, prev, next, free, size, uninit, owner, lost>> /\ pc = "search"
    BY <1>5 DEF SearchNext, Throw, ghost
  <2>2. cells_ptr' \in free
    BY <1>2, <1>5 DEF SearchNext, Ring
  <2>3. pc' = "idle" \/ (pc' = "search" /\ chunk' = cells_ptr)
    BY <1>5 DEF SearchNext, Throw, Leave
  <2>4. Taken = {} /\ Taken' = {} /\ Uninit' = Uninit
    BY <2>1, <2>3 DEF Taken, Uninit
  <2>5. Ring' /\ Blocks' /\ Regions'
    BY <1>1, <1>2, <2>1, <2>2, <2>4 DEF Ring, Blocks, Regions, closure_cells
  <2>6. Calls'
    BY <1>2, <2>1, <2>3 DEF Calls, Ring
  <2> QED BY <2>5, <2>6
<1>6. CASE cell_alloc
  <2> DEFINE c == chunk + idx
             before == [prev EXCEPT ![next[c]] = prev[c]]
             after == [next EXCEPT ![prev[c]] = next[c]]
             took == chunk .. chunk + k - 1
  <2>1. pc = "unlink" /\ idx < k /\ chunk + k - 1 \in Cells /\ uninit' = uninit
    BY <1>6 DEF cell_alloc, TypeInv, UnlinkRange
  <2>2. c \in took /\ c \in Cells /\ took \subseteq Cells /\ Taken = chunk .. c - 1
        /\ c \notin Taken /\ Uninit' = Uninit /\ Taken \subseteq took /\ c <= c
    BY <1>3, <2>1, NCellsAssumption DEF Cells, Taken, Uninit
  <2>3. \A x \in took : owner[x] = NoCell /\ (c <= x => x \in free)
    BY <1>2, <2>1 DEF Calls
  <2>4. c \in free
    BY <2>2, <2>3
  <2>5. CASE ~Unlinkable(c) \/ c = prev[c] \/ c = next[c]
    <3>1. lost' = lost \cup Taken /\ pc' = "idle" /\ Taken' = {}
          /\ UNCHANGED <<op, prev, next, free, size, owner>>
      BY <1>6, <2>2, <2>5 DEF cell_alloc, Throw, Leave, Taken
    <3>4. cells_ptr' \in free
      BY <1>2, <1>6, <2>4 DEF cell_alloc, Ring
    <3>2. Ring' /\ Blocks'
      BY <1>1, <1>2, <2>2, <3>1, <3>4 DEF Ring, Blocks, closure_cells
    <3>3. Regions'
      <4>1. \A x \in Taken : owner[x] = NoCell
        BY <2>2, <2>3
      <4> QED BY <1>2, <2>2, <3>1, <4>1 DEF Regions
    <3>6. Calls'
      BY <3>1 DEF Calls
    <3> QED BY <3>2, <3>3, <3>6
  <2>6. CASE Unlinkable(c) /\ c # prev[c] /\ c # next[c]
    <3>1. free' = free \ {c} /\ cells_ptr' = (IF cells_ptr = c THEN next[c] ELSE cells_ptr)
          /\ lost' = lost
      BY <1>6, <2>6 DEF cell_alloc, ghost
    <3>3. next[c] \in free' /\ prev[c] \in free' /\ cells_ptr' \in free'
          /\ prev[c] \in Cells /\ next[c] \in Cells
      BY <1>2, <2>4, <2>6, <3>1 DEF Ring, TypeOK
    <3>4. \A x \in Cells : before[x] = (IF x = next[c] THEN prev[c] ELSE prev[x])
                        /\ after[x] = (IF x = prev[c] THEN next[c] ELSE next[x])
      BY <1>2 DEF TypeOK
    <3>5. \A x \in free' : /\ after[x] \in free' /\ before[after[x]] = x
                          /\ before[x] \in free' /\ after[before[x]] = x
      <4> SUFFICES ASSUME NEW x \in free'
                   PROVE  /\ after[x] \in free' /\ before[after[x]] = x
                          /\ before[x] \in free' /\ after[before[x]] = x
        OBVIOUS
      <4> HIDE DEF before, after
      <4>1. x \in free /\ x # c /\ x \in Cells /\ next[x] \in free /\ prev[x] \in free
            /\ prev[next[x]] = x /\ next[prev[x]] = x /\ next[x] \in Cells /\ prev[x] \in Cells
        BY <1>2, <3>1 DEF Ring, TypeOK
      <4>2. next[prev[c]] = c /\ prev[next[c]] = c
        BY <1>2, <2>4 DEF Ring
      <4> QED BY <3>1, <3>3, <3>4, <4>1, <4>2
    <3>6. \A x \in free' : /\ x \in Cells /\ ~op[x] /\ owner[x] = NoCell
                          /\ x \notin Uninit /\ x \notin Taken /\ x # c /\ x \notin lost
      BY <1>2, <3>1 DEF Ring, Regions, TypeOK
    <3>7. \A x \in Uninit \cup lost : x \in Cells /\ x # c /\ x \notin Taken
      <4>1. Uninit \cup lost \subseteq Cells
        BY <1>2, UninitInCells
      <4> QED BY <1>2, <2>4, <4>1 DEF Regions
    <3>8. CASE idx + 1 = k
      <4>1. TakeChunk(chunk, req, before, after) /\ pc' = "idle"
        BY <1>6, <2>6, <3>8 DEF cell_alloc, Leave
      <4>2. Blocks'
        <5>1. \A x \in took : x \in Cells /\ owner[x] = NoCell
          BY <2>2, <2>3
        <5>2. req \in Nat /\ \A x \in Uninit : x \in Uninit'
          BY <1>2, <2>2 DEF TypeOK
        <5> QED BY <1>1, <1>2, <1>3, <4>1, <5>1, <5>2, TakeChunkBlocks
      <4>3. took = Taken \cup {c} /\ Taken' = {} /\ chunk \in took /\ chunk # NoCell
        BY <1>3, <2>2, <3>8, <4>1, NCellsAssumption DEF Taken, Cells, NoCell
      <4>4. \A x \in Cells : x \notin took =>
               prev'[x] = before[x] /\ next'[x] = after[x] /\ owner'[x] = owner[x]
        BY <4>1 DEF TakeChunk
      <4>10. \A x \in Cells : x \in took => owner'[x] = chunk
        BY <4>1 DEF TakeChunk
      <4>5. \A x \in Cells : x \notin took => op'[x] = op[x]
        <5>1. op' = [op EXCEPT ![chunk] = TRUE]
          BY <4>1 DEF TakeChunk
        <5> QED BY <1>2, <4>3, <5>1 DEF TypeOK
      <4>9. c \in took /\ (\A x \in free' : x \notin took)
            /\ (\A x \in Uninit \cup lost : x \notin took)
        BY <3>6, <3>7, <4>3
      <4> HIDE DEF before, after, took, c
      <4>6. Ring'
        <5>1. \A x \in free' : ~op'[x] /\ prev'[x] = before[x] /\ next'[x] = after[x]
          BY <3>6, <4>4, <4>5, <4>9
        <5> QED BY <3>3, <3>5, <5>1 DEF Ring
      <4>7. Regions'
        <5>1. \A x \in free' : /\ owner'[x] = NoCell /\ x \notin Uninit' /\ x \notin Taken'
                              /\ x \notin lost'
          BY <2>2, <3>1, <3>6, <4>3, <4>4, <4>9
        <5>2. /\ \A x \in Uninit' : owner'[x] = NoCell /\ x \notin Taken' /\ x \notin lost'
              /\ \A x \in lost' : owner'[x] = NoCell /\ x \notin Taken'
          BY <1>2, <2>2, <3>1, <3>7, <4>3, <4>4, <4>9 DEF Regions
        <5>3. \A x \in Cells : x \in free' \/ owner'[x] # NoCell \/ x \in Uninit' \/ x \in Taken'
                              \/ x \in lost'
          BY <1>2, <2>2, <3>1, <4>3, <4>4, <4>10, <4>9 DEF Regions
        <5> QED BY <5>1, <5>2, <5>3 DEF Regions
      <4>8. Calls'
        BY <4>1 DEF Calls
      <4> QED BY <4>2, <4>6, <4>7, <4>8
    <3>9. CASE idx + 1 # k
      <4>1. prev' = before /\ next' = after /\ idx' = idx + 1
            /\ UNCHANGED <<op, size, owner, pc, req, chunk>>
        BY <1>6, <2>6, <3>9 DEF cell_alloc
      <4>2. Taken' = Taken \cup {c}
        BY <1>3, <2>1, <2>2, <4>1 DEF Taken
      <4>3. Blocks'
        BY <1>1, <1>2, <2>2, <4>1 DEF Blocks, closure_cells
      <4>4. Calls'
        <5>1. \A x \in took : owner[x] = NoCell /\ (chunk + (idx + 1) <= x => x \in free')
          BY <1>3, <2>3, <3>1
        <5> QED BY <2>1, <4>1, <5>1 DEF Calls
      <4> HIDE DEF before, after, took
      <4>5. Ring'
        BY <3>3, <3>5, <3>6, <4>1 DEF Ring
      <4>6. Regions'
        <5>1. \A x \in free' : /\ owner'[x] = NoCell /\ x \notin Uninit' /\ x \notin Taken'
                              /\ x \notin lost'
          BY <2>2, <3>1, <3>6, <4>1, <4>2
        <5>2. /\ \A x \in Uninit' : owner'[x] = NoCell /\ x \notin Taken' /\ x \notin lost'
              /\ \A x \in lost' : owner'[x] = NoCell /\ x \notin Taken'
          BY <1>2, <2>2, <3>1, <3>7, <4>1, <4>2 DEF Regions
        <5>3. \A x \in Cells : x \in free' \/ owner'[x] # NoCell \/ x \in Uninit' \/ x \in Taken'
                              \/ x \in lost'
          BY <1>2, <2>2, <3>1, <4>1, <4>2 DEF Regions
        <5> QED BY <5>1, <5>2, <5>3 DEF Regions
      <4> QED BY <4>3, <4>4, <4>5, <4>6
    <3> QED BY <3>8, <3>9
  <2> QED BY <2>5, <2>6
<1> QED BY <1>4, <1>5, <1>6 DEF Allocator

\* Every way of giving up cells keeps HeapInv: a closure whose size word no
\* longer fits is known to be stale, and the size of no stale closure has been
\* relied on.
LEMMA ReturnHeap ==
  ASSUME TypeInv, HeapInv, NEW c \in Closures, Return(c)
  PROVE  HeapInv'
<1> SUFFICES ASSUME sound' PROVE (Ring /\ Blocks /\ Regions /\ Calls)'
  BY DEF HeapInv
<1>0. /\ UNCHANGED <<cells_ptr, uninit, pc, req, chunk, idx, lost>>
      /\ pc = "idle" /\ sound /\ c \notin stale
  BY DEF Return, closure_free, store_fail, Overwrite, closure_shrink_list, Ready, call, RelyOn
<1>1. Ring /\ Blocks /\ Regions /\ Calls /\ TypeOK /\ SizesFit
  BY <1>0 DEF HeapInv, TypeInv
<1>2. Calls' /\ Taken = {} /\ Taken' = {}
  BY <1>0 DEF Calls, Taken
<1>3. c \in Cells /\ owner[c] = c /\ size[c] \in Nat /\ closure_cells(c) \in Nat
      /\ closure_cells(c) >= 1
  BY <1>1, CellsPositive DEF Closures, closure_cells, TypeOK
<1>4. CASE closure_free(c)
  <2>1. closure_shrink(c, 0) /\ size' = [size EXCEPT ![c] = 0] /\ stale' = stale
    BY <1>4 DEF closure_free
  <2> QED BY <1>0, <1>1, <1>2, <1>3, <2>1, FreeHeap
<1>5. CASE store_fail(c)
  <2> DEFINE s == 1
             n == size[c]
  <2>1. closure_shrink(c, s) /\ size' = [size EXCEPT ![c] = n] /\ s \in Nat /\ n \in Nat
    BY <1>1, <1>3, <1>5 DEF store_fail, TypeOK
  <2>2. stale' = stale \/ stale' = stale \cup {c}
    BY <1>5 DEF store_fail
  <2>3. c \in stale' \/ calculate_cells(n) = IF closure_cells(c) > s THEN s ELSE closure_cells(c)
    <3>1. CASE closure_cells(c) > 1
      BY <1>5, <3>1 DEF store_fail
    <3>2. CASE ~(closure_cells(c) > 1)
      BY <1>3, <3>2 DEF closure_cells
    <3> QED BY <3>1, <3>2
  <2> HIDE DEF s, n
  <2> QED BY <1>0, <1>1, <1>2, <1>3, <2>1, <2>2, <2>3, ShrinkHeap
<1>6. ASSUME NEW args \in ArgCounts, Overwrite(c, args)
      PROVE  (Ring /\ Blocks /\ Regions /\ Calls)'
  <2> DEFINE k == calculate_cells(args)
  <2>1. closure_shrink(c, k) /\ size' = [size EXCEPT ![c] = args] /\ k <= closure_cells(c)
        /\ stale' = stale
    BY <1>6 DEF Overwrite, OverwrittenSize
  <2>2. args \in Nat /\ k \in Nat
    BY ArgCountsAssumption, CellsPositive
  <2>3. k = IF closure_cells(c) > k THEN k ELSE closure_cells(c)
    BY <1>3, <2>1, <2>2
  <2> QED BY <1>0, <1>1, <1>2, <1>3, <2>1, <2>2, <2>3, ShrinkHeap
<1>7. ASSUME NEW n \in 0 .. size[c], closure_shrink_list(c, n)
      PROVE  (Ring /\ Blocks /\ Regions /\ Calls)'
  <2> DEFINE s == n + ListOffset
  <2>1. closure_shrink(c, s) /\ size' = [size EXCEPT ![c] = s]
    BY <1>7 DEF closure_shrink_list
  <2>2. s \in Nat
    BY <1>3 DEF ListOffset
  <2>3. /\ stale' = stale \/ stale' = stale \cup {c}
        /\ c \in stale' \/ calculate_cells(s) = IF closure_cells(c) > s THEN s ELSE closure_cells(c)
    BY <1>7 DEF closure_shrink_list, CellsAfterShrink
  <2> HIDE DEF s
  <2> QED BY <1>0, <1>1, <1>2, <1>3, <2>1, <2>2, <2>3, ShrinkHeap
<1> QED BY <1>4, <1>5, <1>6, <1>7 DEF Return

\* alloc_to() keeps HeapInv.
LEMMA AllocToHeap ==
  ASSUME TypeInv, HeapInv, NEW n \in Cells, alloc_to(n)
  PROVE  HeapInv'
<1> SUFFICES ASSUME sound' PROVE (Ring /\ Blocks /\ Regions /\ Calls)'
  BY DEF HeapInv
<1>0. /\ UNCHANGED <<cells_ptr, size, owner, stale>> /\ sound /\ lost' = lost
      /\ pc = "idle" /\ pc' = "idle" /\ uninit # NoCell /\ uninit < n
  BY DEF alloc_to, Ready, call, ghost, Throw, Leave
<1>1. Ring /\ Blocks /\ Regions /\ Calls /\ TypeOK
  BY <1>0 DEF HeapInv, TypeInv
<1>2. Calls' /\ Taken = {} /\ Taken' = {}
  BY <1>0 DEF Calls, Taken
<1>3. CASE TooLarge(n - uninit)
  <2>1. UNCHANGED <<op, prev, next, free, uninit>>
    BY <1>3 DEF alloc_to, Throw
  <2>2. Uninit' = Uninit
    BY <2>1 DEF Uninit
  <2> QED BY <1>0, <1>1, <1>2, <2>1, <2>2 DEF Ring, Blocks, Regions, closure_cells
<1>4. CASE ~TooLarge(n - uninit)
  <2> DEFINE back == uninit .. n - 1
  <2>0. uninit' = n /\ Link(uninit, n - 1) /\ uninit \in 2 .. NCells
    BY <1>0, <1>1, <1>4 DEF alloc_to, TypeOK
  <2>1. uninit \in Cells /\ n - 1 \in Cells /\ uninit <= n - 1 /\ uninit \in back
        /\ Uninit = uninit .. NCells - 1 /\ Uninit' = n .. NCells - 1
        /\ back \subseteq Uninit /\ Uninit' \subseteq Uninit \ back /\ Uninit \subseteq Cells
        /\ Uninit \subseteq back \cup Uninit'
    BY <1>0, <2>0, NCellsAssumption DEF Cells, Uninit, NoCell
  <2>2. \A x \in back : x \notin free /\ owner[x] = NoCell /\ x \in Cells /\ x \notin lost
    BY <1>1, <2>1 DEF Regions
  <2>3. Ring'
    BY <1>0, <1>1, <2>0, <2>1, <2>2, LinkRing
  <2>4. \A x \in Cells : op'[x] <=> x \notin back /\ op[x]
    BY <2>0 DEF Link, ClearOp
  <2>5. Blocks'
    <3>1. \A x \in Cells : owner[x] # NoCell => owner[x] \notin back
      BY <1>1, <2>2 DEF Blocks
    <3>2. \A x \in Cells : owner'[x] # NoCell =>
            /\ owner'[x] \in Cells /\ owner'[x] <= x
            /\ owner'[owner'[x]] = owner'[x] /\ op'[owner'[x]]
      BY <1>0, <1>1, <2>4, <3>1 DEF Blocks
    <3>3. \A x \in Cells : op'[x] => owner'[x] # NoCell \/ x \in Uninit'
      BY <1>0, <1>1, <2>1, <2>4 DEF Blocks
    <3> QED BY <1>0, <1>1, <3>2, <3>3 DEF Blocks, closure_cells
  <2>6. Regions'
    <3>1. free' = free \cup back
      BY <2>0 DEF Link
    <3>2. \A x \in free' : owner'[x] = NoCell /\ x \notin Uninit' /\ x \notin Taken' /\ x \notin lost'
      BY <1>0, <1>1, <1>2, <2>1, <2>2, <3>1 DEF Regions
    <3>3. /\ \A x \in Uninit' : owner'[x] = NoCell /\ x \notin Taken' /\ x \notin lost'
          /\ \A x \in lost' : owner'[x] = NoCell /\ x \notin Taken'
      BY <1>0, <1>1, <1>2, <2>1 DEF Regions
    <3>4. \A x \in Cells : x \in free' \/ owner'[x] # NoCell \/ x \in Uninit' \/ x \in Taken'
                          \/ x \in lost'
      BY <1>0, <1>1, <1>2, <2>1, <3>1 DEF Regions
    <3> QED BY <3>2, <3>3, <3>4 DEF Regions
  <2> QED BY <1>2, <2>3, <2>5, <2>6
<1> QED BY <1>3, <1>4

\* Writing an argument over an inner cell keeps HeapInv.
LEMMA StoreArgHeap ==
  ASSUME TypeInv, HeapInv, NEW x \in Cells, StoreArg(x)
  PROVE  HeapInv'
<1> SUFFICES ASSUME sound' PROVE (Ring /\ Blocks /\ Regions /\ Calls)'
  BY DEF HeapInv
<1>0. /\ UNCHANGED <<prev, next, free, cells_ptr, uninit, size, owner, pc, req, chunk, idx>>
      /\ UNCHANGED <<lost, stale>>
      /\ pc = "idle" /\ sound /\ owner[x] # NoCell /\ owner[x] # x
  BY DEF StoreArg, Ready, call, heap, ghost
<1>1. Ring /\ Blocks /\ Regions /\ Calls /\ TypeOK
  BY <1>0 DEF HeapInv, TypeInv
<1>2. \A y \in Cells : y # x => op'[y] = op[y]
  BY <1>1 DEF StoreArg, TypeOK
<1>3. Calls' /\ Taken = {} /\ Taken' = {} /\ Uninit' = Uninit
  BY <1>0 DEF Calls, Taken, Uninit
<1>4. Ring'
  <2>1. \A y \in free : y \in Cells /\ y # x
    BY <1>0, <1>1 DEF Regions, TypeOK
  <2> QED BY <1>0, <1>1, <1>2, <2>1 DEF Ring
<1>5. Blocks'
  <2>1. \A y \in Cells : owner[y] # NoCell => owner[y] \in Cells /\ owner[y] # x
    BY <1>0, <1>1 DEF Blocks
  <2>2. \A y \in Cells : owner'[y] # NoCell =>
          /\ owner'[y] \in Cells /\ owner'[y] <= y
          /\ owner'[owner'[y]] = owner'[y] /\ op'[owner'[y]]
    BY <1>0, <1>1, <1>2, <2>1 DEF Blocks
  <2>3. \A y \in Cells : op'[y] => owner'[y] # NoCell \/ y \in Uninit'
    BY <1>0, <1>1, <1>2, <1>3 DEF Blocks
  <2> QED BY <1>0, <1>1, <2>2, <2>3 DEF Blocks, closure_cells
<1>6. Regions'
  BY <1>0, <1>1, <1>3 DEF Regions
<1> QED BY <1>3, <1>4, <1>5, <1>6

\* A step that leaves the heap alone and no call in the middle of its
\* unlinking keeps the first three parts of HeapInv.
LEMMA SameHeap ==
  ASSUME Ring, Blocks, Regions, Taken = {}, Taken' = {},
         UNCHANGED <<op, prev, next, free, cells_ptr, uninit, size, owner, lost, stale>>
  PROVE  Ring' /\ Blocks' /\ Regions'
<1>1. Uninit' = Uninit
  BY DEF Uninit
<1> QED BY <1>1 DEF Ring, Blocks, Regions, closure_cells

\* An error of another part of the program keeps HeapInv.
LEMMA FailHeap == ASSUME HeapInv, FailElsewhere PROVE HeapInv'
<1> SUFFICES ASSUME sound' PROVE (Ring /\ Blocks /\ Regions /\ Calls)'
  BY DEF HeapInv
<1>1. /\ UNCHANGED <<op, prev, next, free, cells_ptr, uninit, size, owner, lost, stale>>
      /\ sound /\ pc = "idle" /\ pc' = "idle"
  BY DEF FailElsewhere, Ready, Throw, Leave
<1>2. Taken = {} /\ Taken' = {} /\ Calls'
  BY <1>1 DEF Taken, Calls
<1>3. Ring /\ Blocks /\ Regions
  BY <1>1 DEF HeapInv
<1> QED BY <1>1, <1>2, <1>3, SameHeap

\* cleanup_cells() keeps HeapInv: it goes from one closure to the next.
LEMMA CleanupHeap ==
  ASSUME TypeInv, HeapInv, cleanup_cells
  PROVE  HeapInv'
<1> SUFFICES ASSUME sound' PROVE (Ring /\ Blocks /\ Regions /\ Calls)'
  BY DEF HeapInv
<1>0. /\ pc = "cleanup" /\ pc' = "cleanup" /\ UNCHANGED <<cells_ptr, uninit, lost, stale>>
      /\ idx' = idx + CleanupStep /\ sound
      /\ op[idx] => idx \in (Closures \cup persistent) \ stale
  BY DEF cleanup_cells
<1>1. Ring /\ Blocks /\ Regions /\ Calls /\ TypeOK /\ SizesFit
  BY <1>0 DEF HeapInv, TypeInv
<1>2. idx \in Cells
  <2>1. idx \in Nat
    BY <1>1 DEF TypeOK
  <2> QED BY <2>1, NCellsAssumption DEF cleanup_cells, Cells
<1>3. Taken = {} /\ Taken' = {} /\ idx \in Int
  BY <1>0, <1>2, NCellsAssumption DEF Taken, Cells
<1>4. closure_cells(idx) \in Nat /\ closure_cells(idx) >= 1
  BY <1>1, <1>2, CellsPositive DEF closure_cells, TypeOK
<1>5. \A x \in Cells : idx <= x /\ owner[x] # NoCell => idx <= owner[x]
  BY <1>0, <1>1 DEF Calls
<1>6. CASE op[idx] /\ idx \in Closures
  <2>1. owner[idx] = idx /\ idx' = idx + closure_cells(idx) /\ idx \notin stale
    BY <1>0, <1>6 DEF Closures, CleanupStep
  <2>2. Ring' /\ Blocks' /\ Regions'
        /\ (\A x \in Cells : owner'[x] # NoCell => owner'[x] = owner[x])
    <3>1. CASE idx \notin persistent
      <4>1. closure_shrink(idx, 0) /\ size' = [size EXCEPT ![idx] = 0]
        BY <1>6, <3>1 DEF cleanup_cells
      <4>2. \A x \in Cells : owner'[x] # NoCell => owner'[x] = owner[x]
        BY <1>4, <4>1 DEF closure_shrink
      <4> QED BY <1>0, <1>1, <1>2, <1>3, <2>1, <4>1, <4>2, FreeHeap
    <3>2. CASE idx \in persistent
      <4>1. UNCHANGED <<op, prev, next, free, owner, size>>
        BY <3>2 DEF cleanup_cells
      <4> QED BY <1>0, <1>1, <1>3, <4>1, SameHeap
    <3> QED BY <3>1, <3>2
  <2>3. ASSUME NEW x \in Cells, idx' <= x, owner'[x] # NoCell
        PROVE  idx' <= owner'[x]
    <3> DEFINE d == owner[x]
    <3>1. owner'[x] = d /\ d # NoCell /\ x \in Int
      BY <2>2, <2>3, NCellsAssumption DEF Cells
    <3>2. d \in Cells /\ owner[d] = d /\ d \in Int
      BY <1>1, <3>1, NCellsAssumption DEF Blocks, Cells
    <3>3. \A y \in Cells : owner[y] = idx <=> idx <= y /\ y < idx + closure_cells(idx)
      BY <1>1, <1>2, <2>1 DEF Blocks
    <3>4. idx <= d
      BY <1>3, <1>4, <1>5, <2>1, <2>3, <3>1
    <3> HIDE DEF d
    <3>5. d # idx
      BY <1>3, <1>4, <2>1, <2>3, <3>1, <3>3 DEF d
    <3>6. ~(d < idx + closure_cells(idx))
      BY <3>2, <3>3, <3>4, <3>5
    <3> QED BY <1>3, <1>4, <2>1, <3>1, <3>2, <3>6
  <2> QED BY <1>0, <2>2, <2>3 DEF Calls
<1>7. CASE ~(op[idx] /\ idx \in Closures)
  <2>1. UNCHANGED <<op, prev, next, free, owner, size>> /\ idx' >= idx + 1
    BY <1>0, <1>3, <1>4, <1>7 DEF cleanup_cells, CleanupStep
  <2>2. Ring' /\ Blocks' /\ Regions'
    BY <1>0, <1>1, <1>3, <2>1, SameHeap
  <2>3. owner[idx] = NoCell
    <3> SUFFICES ASSUME owner[idx] # NoCell PROVE FALSE
      OBVIOUS
    <3>1. owner[idx] \in Cells /\ owner[idx] <= idx /\ op[owner[idx]] /\ idx <= owner[idx]
      BY <1>1, <1>2, <1>3, <1>5 DEF Blocks
    <3>2. owner[idx] = idx
      BY <1>3, <3>1, NCellsAssumption DEF Cells
    <3> QED BY <1>2, <1>7, <3>1, <3>2 DEF Closures
  <2>4. Calls'
    <3>1. CASE op[idx]
      <4>1. idx \in Uninit
        BY <1>1, <1>2, <2>3, <3>1 DEF Blocks
      <4>2. \A x \in Cells : idx <= x => x \in Uninit
        <5>1. uninit \in 2 .. NCells /\ Uninit = uninit .. NCells - 1
          BY <1>1, <4>1 DEF Uninit, TypeOK
        <5> QED BY <4>1, <5>1, NCellsAssumption DEF Cells
      <4>3. \A x \in Cells : idx' <= x => owner'[x] = NoCell
        <5>1. idx' \in Int
          BY <1>0, <1>3, <1>4 DEF CleanupStep
        <5>2. \A x \in Cells : idx' <= x => idx <= x
          BY <1>3, <2>1, <5>1, NCellsAssumption DEF Cells
        <5> QED BY <1>1, <2>1, <4>2, <5>2 DEF Regions
      <4> QED BY <1>0, <4>3 DEF Calls
    <3>2. CASE ~op[idx]
      <4>1. idx' = idx + 1
        BY <1>0, <3>2 DEF CleanupStep
      <4>2. ASSUME NEW x \in Cells, idx + 1 <= x, owner[x] # NoCell
            PROVE  idx + 1 <= owner[x]
        <5>1. owner[x] \in Cells /\ op[owner[x]]
          BY <1>1, <4>2 DEF Blocks
        <5>2. idx <= owner[x]
          <6>1. idx <= x
            BY <1>3, <4>2, NCellsAssumption DEF Cells
          <6> QED BY <1>5, <4>2, <6>1
        <5>3. owner[x] # idx
          BY <3>2, <5>1
        <5> QED BY <1>3, <5>1, <5>2, <5>3, NCellsAssumption DEF Cells
      <4> QED BY <1>0, <2>1, <4>1, <4>2 DEF Calls
    <3> QED BY <3>1, <3>2
  <2> QED BY <2>2, <2>4
<1> QED BY <1>6, <1>7

\* Whatever the array holds, cells_init() leaves a sound heap.
LEMMA RestartHeap == ASSUME TypeInv, Restart PROVE HeapInv'
<1>1. {0, 1} \subseteq Cells /\ \A x \in Cells : x # 0 /\ x # 1 => x \in 2 .. NCells - 1
  BY NCellsAssumption DEF Cells
<1>2. /\ free' = {0, 1} /\ cells_ptr' = 0 /\ uninit' = 2 /\ lost' = {} /\ pc' = "idle"
      /\ \A x \in Cells : owner'[x] = NoCell
  BY DEF Restart, Leave
<1>3. Taken' = {} /\ Uninit' = 2 .. NCells - 1
  BY <1>2 DEF Taken, Uninit, NoCell
<1>8. \A x \in Cells : op'[x] => x >= 2
  <2>1. op' = [x \in Cells |-> x >= 2 /\ op[x]]
    BY DEF Restart
  <2> HIDE DEF Cells
  <2> QED BY <2>1
<1>4. Ring'
  <2>1. next'[0] = 1 /\ prev'[0] = 1 /\ next'[1] = 0 /\ prev'[1] = 0
    BY <1>1 DEF Restart
  <2>2. ~op'[0] /\ ~op'[1]
    BY <1>1, <1>8
  <2> QED BY <1>2, <2>1, <2>2 DEF Ring
<1>5. Blocks'
  <2>1. \A x \in Cells : op'[x] => x \in 2 .. NCells - 1
    BY <1>1, <1>8
  <2>2. \A x \in Cells : owner'[x] # x
    BY <1>2 DEF Cells, NoCell
  <2> QED BY <1>2, <1>3, <2>1, <2>2 DEF Blocks
<1>6. Regions'
  <2>1. \A x \in {0, 1} : x \in Cells /\ x \notin 2 .. NCells - 1
    BY <1>1
  <2>2. \A x \in Uninit' : x \in Cells
    BY <1>3, NCellsAssumption DEF Cells
  <2> QED BY <1>1, <1>2, <1>3, <2>1, <2>2 DEF Regions
<1>7. Calls'
  BY <1>2 DEF Calls
<1> QED BY <1>4, <1>5, <1>6, <1>7 DEF HeapInv

\* Recovery keeps HeapInv.
LEMMA RecoveryHeap ==
  ASSUME TypeInv, HeapInv, Recovery
  PROVE  HeapInv'
<1>1. CASE CatchAndGoOn \/ CatchError \/ CleanupDone
  <2> SUFFICES ASSUME sound' PROVE (Ring /\ Blocks /\ Regions /\ Calls)'
    BY DEF HeapInv
  <2>1. UNCHANGED <<op, prev, next, free, cells_ptr, uninit, size, owner, lost, stale>>
        /\ sound /\ pc # "unlink" /\ (pc' = "idle" \/ (pc' = "cleanup" /\ idx' = 0))
    BY <1>1 DEF CatchAndGoOn, CatchError, CleanupDone, ring, heap, ghost, Leave, call
  <2>2. Taken = {} /\ Taken' = {} /\ Ring /\ Blocks /\ Regions
    BY <2>1 DEF Taken, HeapInv
  <2>3. Ring' /\ Blocks' /\ Regions'
    BY <2>1, <2>2, SameHeap
  <2>4. \A x \in Cells : owner[x] # NoCell => 0 <= owner[x]
    BY <2>2, NCellsAssumption DEF Blocks, Cells
  <2>5. Calls'
    BY <2>1, <2>4 DEF Calls
  <2> QED BY <2>3, <2>5
<1> QED BY <1>1, CleanupHeap, RestartHeap DEF Recovery

\* HeapInv is inductive relative to TypeInv.
LEMMA HeapNext == TypeInv /\ HeapInv /\ [Next]_vars => HeapInv'
<1> SUFFICES ASSUME TypeInv, HeapInv, [Next]_vars PROVE HeapInv'
  OBVIOUS
<1>1. CASE UNCHANGED vars
  BY <1>1
  DEF vars, HeapInv, Ring, Blocks, Regions, Calls, closure_cells, Uninit, Taken
<1>2. CASE Next
  BY <1>2, AllocHeap, ReturnHeap, AllocToHeap, StoreArgHeap, FailHeap, AllocatorHeap,
     RecoveryHeap
  DEF Next, Alloc
<1> QED BY <1>1, <1>2

\* The inductive invariant says what the runs check.
LEMMA HeapInvImplies ==
  ASSUME TypeInv, HeapInv
  PROVE  RingLinked /\ SizeMatches /\ Disjoint /\ NothingLost
<1>1. RingLinked
  BY DEF HeapInv, Ring, RingLinked
<1>2. SizeMatches
  <2> SUFFICES ASSUME sound, NEW c \in Closures \ stale
               PROVE  {x \in Cells : owner[x] = c} = c .. c + closure_cells(c) - 1
    BY DEF SizeMatches
  <2>1. c \in Cells /\ owner[c] = c /\ c + closure_cells(c) - 1 \in Cells
    BY DEF Closures, TypeInv, SizesFit
  <2>2. \A x \in Cells : owner[x] = c <=> c <= x /\ x < c + closure_cells(c)
    BY <2>1 DEF HeapInv, Blocks
  <2>3. closure_cells(c) \in Nat
    BY <2>1, CellsPositive DEF closure_cells, TypeInv, TypeOK
  <2>4. \A x \in Cells : owner[x] = c <=> x \in c .. c + closure_cells(c) - 1
    BY <2>1, <2>2, <2>3, NCellsAssumption DEF Cells
  <2>5. c .. c + closure_cells(c) - 1 \subseteq Cells
    BY <2>1, <2>3, NCellsAssumption DEF Cells
  <2> QED BY <2>4, <2>5
<1>3. Taken \subseteq Cells /\ (sound => \A x \in Taken : owner[x] = NoCell)
  <2>1. CASE pc = "unlink"
    <3>1. Taken = chunk .. chunk + idx - 1 /\ idx < calculate_cells(req)
          /\ chunk + calculate_cells(req) - 1 \in Cells
      BY <2>1 DEF Taken, TypeInv, UnlinkRange
    <3>2. chunk \in Cells /\ idx \in Nat /\ calculate_cells(req) \in Nat
      BY CellsPositive DEF TypeInv, TypeOK
    <3>3. Taken \subseteq chunk .. chunk + calculate_cells(req) - 1 /\ Taken \subseteq Cells
      BY <3>1, <3>2, NCellsAssumption DEF Cells
    <3> QED BY <2>1, <3>3 DEF HeapInv, Calls
  <2>2. CASE pc # "unlink"
    BY <2>2 DEF Taken
  <2> QED BY <2>1, <2>2
<1>4. Uninit \subseteq Cells /\ lost \subseteq Cells
  BY UninitInCells DEF TypeInv
<1>5. Disjoint
  BY <1>3 DEF HeapInv, Regions, Disjoint, Owned
<1>6. NothingLost
  BY <1>3, <1>4 DEF HeapInv, Regions, NothingLost, Owned, TypeInv, TypeOK
<1> QED BY <1>1, <1>2, <1>5, <1>6

\* For every size of the heap, every mix of closure sizes and whatever is
\* allocated, cut short, failed, shrunk, returned, recovered and restarted, in
\* any order: the free cells are doubly linked, every closure whose size word
\* is not stale owns exactly the cells that closure_free() would return, and
\* each cell is in exactly one of the five places it can be, as long as the
\* code has not relied on a stale size word, taken cells that are in no ring
\* or freed what is left from before a restart (sound).
THEOREM HeapSafe == Spec => [](RingLinked /\ SizeMatches /\ Disjoint /\ NothingLost)
<1>1. TypeInv /\ HeapInv /\ [Next]_vars => TypeInv' /\ HeapInv'
  BY TypeNext, HeapNext
<1>2. Init => TypeInv /\ HeapInv
  BY TypeInit, HeapInit
<1>3. TypeInv /\ HeapInv => RingLinked /\ SizeMatches /\ Disjoint /\ NothingLost
  BY HeapInvImplies
<1> QED BY <1>1, <1>2, <1>3, PTL DEF Spec

\* No step takes a cell away from a live closure to give it to another one,
\* as long as the heap is sound.
THEOREM LiveCellsKept == Spec => NeverReissued
<1> DEFINE Keep == sound => \A x \in Owned : owner'[x] \in {owner[x], NoCell}
<1>1. ASSUME TypeInv, HeapInv, Next PROVE Keep
  <2> SUFFICES ASSUME sound, NEW x \in Owned PROVE owner'[x] \in {owner[x], NoCell}
    OBVIOUS
  <2>0. x \in Cells /\ owner[x] # NoCell /\ Blocks /\ Regions /\ Calls /\ TypeOK
    BY <1>1 DEF Owned, HeapInv, TypeInv
  <2>1. CASE owner' = owner
    BY <2>1
  <2>2. ASSUME NEW c, NEW s, closure_shrink(c, s)
        PROVE  owner'[x] \in {owner[x], NoCell}
    BY <2>0, <2>2 DEF closure_shrink
  <2>3. ASSUME NEW args \in ArgCounts, AllocUninit(args)
        PROVE  owner'[x] \in {owner[x], NoCell}
    <3> DEFINE k == calculate_cells(args)
    <3>1. k \in Nat /\ uninit \in 2 .. NCells /\ uninit + k <= NCells
      BY <2>0, <2>3, ArgCountsAssumption, CellsPositive
      DEF AllocUninit, FitsUninit, TypeOK
    <3>2. uninit .. uninit + k - 1 \subseteq Uninit
      BY <3>1, NCellsAssumption DEF Uninit, NoCell
    <3>3. x \notin uninit .. uninit + k - 1
      BY <2>0, <3>2 DEF Regions
    <3> QED BY <2>0, <2>3, <3>3 DEF AllocUninit, TakeChunk
  <2>4. CASE cell_alloc
    <3>1. x \notin chunk .. chunk + calculate_cells(req) - 1
      BY <2>0, <2>4 DEF Calls, cell_alloc
    <3> QED BY <2>0, <2>4, <3>1 DEF cell_alloc, Throw, TakeChunk
  <2>5. CASE \E args \in ArgCounts : AllocLimit(args) \/ AllocSearch(args)
    <3>1. owner' = owner
      BY <2>5 DEF AllocLimit, AllocSearch, Throw
    <3> QED BY <3>1
  <2>6. ASSUME NEW c \in Closures, Return(c)
        PROVE  owner'[x] \in {owner[x], NoCell}
    BY <2>2, <2>6 DEF Return, closure_free, store_fail, Overwrite, closure_shrink_list
  <2>7. ASSUME NEW n \in Cells, alloc_to(n) \/ StoreArg(n) \/ FailElsewhere
        PROVE  owner' = owner
    BY <2>7 DEF alloc_to, StoreArg, FailElsewhere, Throw, heap
  <2>8. CASE SearchFound \/ SearchNext
    <3>1. owner' = owner
      BY <2>8 DEF SearchFound, SearchNext, Throw, heap
    <3> QED BY <3>1
  <2>9. CASE Recovery
    <3>1. CASE cleanup_cells
      BY <2>1, <2>2, <3>1 DEF cleanup_cells
    <3>2. CASE CatchAndGoOn \/ CatchError \/ CleanupDone
      <4>1. owner' = owner
        BY <3>2 DEF CatchAndGoOn, CatchError, CleanupDone, heap
      <4> QED BY <4>1
    <3>3. CASE Restart
      BY <2>0, <3>3 DEF Restart
    <3> QED BY <2>9, <3>1, <3>2, <3>3 DEF Recovery
  <2> QED
    BY <1>1, <2>1, <2>3, <2>4, <2>5, <2>6, <2>7, <2>8, <2>9, ZeroCell DEF Next, Alloc, Allocator
<1>2. TypeInv /\ HeapInv /\ [Next]_vars => [Keep]_vars
  BY <1>1
<1>3. TypeInv /\ HeapInv /\ [Next]_vars => TypeInv' /\ HeapInv'
  BY TypeNext, HeapNext
<1>4. Init => TypeInv /\ HeapInv
  BY TypeInit, HeapInit
<1>5. NeverReissued <=> [][Keep]_vars
  BY DEF NeverReissued
<1> HIDE DEF Keep
<1> QED BY <1>2, <1>3, <1>4, <1>5, PTL DEF Spec

-----------------------------------------------------------------------------
(* More from the invariant: the count of the cells in use, the assertions  *)
(* of the allocator, what recovery leaves behind, and that the search for  *)
(* a chunk is complete.                                                    *)

\* Only cells_init() makes a heap sound that is not.
LEMMA SoundBefore == ASSUME Next, sound', ~Restart PROVE sound
<1>1. ASSUME NEW args \in ArgCounts,
             AllocLimit(args) \/ AllocUninit(args) \/ AllocSearch(args)
      PROVE  sound
  BY <1>1 DEF AllocLimit, AllocUninit, AllocSearch, Throw, ghost
<1>2. ASSUME NEW c \in Closures, Return(c)
      PROVE  sound
  BY <1>2 DEF Return, closure_free, store_fail, Overwrite, closure_shrink_list, RelyOn
<1>3. ASSUME NEW n \in Cells, alloc_to(n) \/ StoreArg(n) \/ FailElsewhere
      PROVE  sound
  BY <1>3 DEF alloc_to, StoreArg, FailElsewhere, Throw, ghost
<1>4. CASE Allocator
  BY <1>4 DEF Allocator, SearchFound, SearchNext, cell_alloc, Throw, ghost
<1>5. CASE Recovery
  BY <1>5 DEF Recovery, CatchAndGoOn, CatchError, cleanup_cells, CleanupDone, ghost
<1> QED BY <1>1, <1>2, <1>3, <1>4, <1>5, ZeroCell DEF Next, Alloc

\* cleanup_cells() frees closures whose size word is right, or changes nothing.
LEMMA CleanupFrees ==
  ASSUME TypeInv, HeapInv, cleanup_cells, sound'
  PROVE  \/ idx \in Cells /\ owner[idx] = idx /\ idx \notin stale /\ closure_shrink(idx, 0)
         \/ UNCHANGED <<op, prev, next, free, owner, alloc_cnt>>
<1>1. sound /\ pc = "cleanup" /\ (op[idx] => idx \in (Closures \cup persistent) \ stale)
  BY DEF cleanup_cells
<1>2. idx \in Cells
  <2>1. idx \in Nat
    BY DEF TypeInv, TypeOK
  <2> QED BY <2>1, NCellsAssumption DEF cleanup_cells, Cells
<1>3. CASE op[idx] /\ idx \notin persistent
  BY <1>1, <1>2, <1>3 DEF cleanup_cells, Closures
<1>4. CASE ~(op[idx] /\ idx \notin persistent)
  BY <1>4 DEF cleanup_cells
<1> QED BY <1>3, <1>4

(* current_alloc_cnt.                                                      *)

\* An interval of cells is a finite set of as many cells as it is long.
LEMMA IntervalCells ==
  ASSUME NEW a \in Int, NEW k \in Nat
  PROVE  IsFiniteSet(a .. a + k - 1) /\ Cardinality(a .. a + k - 1) = k
<1>1. IsFiniteSet(a .. a + k - 1)
      /\ Cardinality(a .. a + k - 1) = IF a > a + k - 1 THEN 0 ELSE (a + k - 1) - a + 1
  BY FS_Interval
<1> QED BY <1>1

\* Any set of cells is finite, and so has a number of members.
LEMMA CellsFinite ==
  ASSUME NEW S \in SUBSET Cells
  PROVE  IsFiniteSet(S) /\ Cardinality(S) \in Nat
<1>1. IsFiniteSet(Cells)
  BY NCellsAssumption, FS_Interval DEF Cells
<1>2. IsFiniteSet(S)
  BY <1>1, FS_Subset
<1> QED BY <1>2, FS_CardinalityType

\* Cells that are added to a set without them are counted once each.
LEMMA CountAdded ==
  ASSUME NEW S \in SUBSET Cells, NEW a \in Int, NEW k \in Nat,
         a .. a + k - 1 \subseteq Cells, S \cap a .. a + k - 1 = {}
  PROVE  Cardinality(S \cup a .. a + k - 1) = Cardinality(S) + k
<1> DEFINE T == a .. a + k - 1
<1>1. IsFiniteSet(S) /\ IsFiniteSet(T) /\ Cardinality(T) = k /\ Cardinality(S) \in Nat
  BY CellsFinite, IntervalCells
<1>2. Cardinality(S \cup T) = Cardinality(S) + Cardinality(T) - Cardinality(S \cap T)
  BY <1>1, FS_Union
<1>3. Cardinality(S \cap T) = 0
  BY FS_EmptySet
<1> QED BY <1>1, <1>2, <1>3

\* TakeChunk() counts the cells that it gives away.
LEMMA TakeChunkCounts ==
  ASSUME TypeOK, NEW c \in Cells, NEW args \in Nat, NEW before, NEW after,
         \A x \in c .. c + calculate_cells(args) - 1 : x \in Cells /\ owner[x] = NoCell,
         TakeChunk(c, args, before, after), alloc_cnt = Cardinality(Owned)
  PROVE  alloc_cnt' = Cardinality(Owned')
<1> DEFINE k == calculate_cells(args)
           took == c .. c + k - 1
<1>1. k \in Nat /\ c \in Int /\ c # NoCell
  BY CellsPositive, NCellsAssumption DEF Cells, NoCell
<1>2. Owned' = Owned \cup took
  <2>1. \A x \in Cells : owner'[x] = IF x \in took THEN c ELSE owner[x]
    BY DEF TakeChunk
  <2>2. took \subseteq Cells
    OBVIOUS
  <2> QED BY <1>1, <2>1, <2>2 DEF Owned
<1>3. Owned \cap took = {} /\ Owned \subseteq Cells /\ took \subseteq Cells
  BY DEF Owned
<1>4. Cardinality(Owned \cup took) = Cardinality(Owned) + k
  BY <1>1, <1>3, CountAdded
<1>5. alloc_cnt' = alloc_cnt + k
  BY DEF TakeChunk
<1> QED BY <1>2, <1>4, <1>5

\* closure_shrink() counts the cells that it returns.
LEMMA ShrinkCounts ==
  ASSUME TypeOK, SizesFit, Blocks, NEW c \in Cells, owner[c] = c, c \notin stale,
         NEW s \in Nat, closure_shrink(c, s), alloc_cnt = Cardinality(Owned)
  PROVE  alloc_cnt' = Cardinality(Owned')
<1> DEFINE k == closure_cells(c)
           back == c + s .. c + k - 1
<1>1. k \in Nat /\ c \in Int
  <2>1. size[c] \in Nat /\ c \in Int
    BY NCellsAssumption DEF TypeOK, Cells
  <2> QED BY <2>1, CellsPositive DEF closure_cells
<1>2. CASE k > s
  <2>1. \A x \in Cells : owner'[x] = IF x \in back THEN NoCell ELSE owner[x]
    BY <1>2 DEF closure_shrink
  <2>2. back \subseteq Cells /\ c # NoCell
    BY <1>1, NCellsAssumption DEF SizesFit, Cells, NoCell
  <2>3. \A x \in back : owner[x] = c
    BY <1>1, <2>2 DEF Blocks
  <2>4. Owned = Owned' \cup back /\ Owned' \cap back = {} /\ Owned' \subseteq Cells
    BY <2>1, <2>2, <2>3 DEF Owned
  <2>5. Cardinality(Owned) = Cardinality(Owned') + (k - s)
    <3> DEFINE first == c + s
               n == k - s
               left == Owned'
    <3>1. first \in Int /\ n \in Nat /\ first .. first + n - 1 = back
      BY <1>1, <1>2
    <3>2. left \in SUBSET Cells /\ left \cap first .. first + n - 1 = {}
          /\ first .. first + n - 1 \subseteq Cells /\ Owned = left \cup first .. first + n - 1
      BY <2>2, <2>4, <3>1
    <3> HIDE DEF first, n, left
    <3>3. Cardinality(Owned) = Cardinality(left) + n
      BY <3>1, <3>2, CountAdded
    <3> QED BY <3>3 DEF n, left
  <2>6. alloc_cnt' = alloc_cnt - (k - s)
    BY <1>2 DEF closure_shrink, ShrunkCount
  <2>7. Cardinality(Owned') \in Nat
    BY <2>4, CellsFinite
  <2> QED BY <1>1, <2>5, <2>6, <2>7
<1>3. CASE ~(k > s)
  BY <1>3 DEF closure_shrink, Owned
<1> QED BY <1>2, <1>3

\* Nothing is counted once cells_init() has run.
LEMMA CountInit == Init => Accounting
<1> SUFFICES ASSUME Init PROVE alloc_cnt = Cardinality(Owned)
  BY DEF Accounting
<1>1. Owned = {}
  BY DEF Init, Owned
<1> QED BY <1>1, FS_EmptySet DEF Init

\* Every step keeps the count: what closure_alloc_cells() adds is what the
\* closure gets, what closure_shrink() subtracts is what it loses.
LEMMA CountNext ==
  TypeInv /\ HeapInv /\ Accounting /\ [Next]_vars => Accounting'
<1> SUFFICES ASSUME TypeInv, HeapInv, Accounting, [Next]_vars, sound'
             PROVE  alloc_cnt' = Cardinality(Owned')
  BY DEF Accounting
<1>1. ASSUME UNCHANGED <<owner, alloc_cnt>>, sound
      PROVE  alloc_cnt' = Cardinality(Owned')
  BY <1>1 DEF Accounting, Owned
<1>2. ASSUME NEW c \in Cells, owner[c] = c, c \notin stale, NEW s \in Nat,
             closure_shrink(c, s), sound
      PROVE  alloc_cnt' = Cardinality(Owned')
  BY <1>2, ShrinkCounts DEF Accounting, TypeInv, HeapInv
<1>3. CASE UNCHANGED vars
  BY <1>1, <1>3 DEF vars
<1>4. ASSUME NEW args \in ArgCounts, AllocLimit(args) \/ AllocSearch(args)
      PROVE  alloc_cnt' = Cardinality(Owned')
  BY <1>1, <1>4 DEF AllocLimit, AllocSearch, Throw, ghost
<1>5. ASSUME NEW args \in ArgCounts, AllocUninit(args)
      PROVE  alloc_cnt' = Cardinality(Owned')
  <2> DEFINE k == calculate_cells(args)
  <2>1. args \in Nat /\ k \in Nat /\ k >= 1 /\ TypeOK /\ sound
    BY <1>5, ArgCountsAssumption, CellsPositive DEF AllocUninit, TypeInv, ghost
  <2>2. uninit \in 2 .. NCells /\ uninit + k <= NCells
        /\ TakeChunk(uninit, args, prev, next)
    BY <1>5, <2>1 DEF AllocUninit, FitsUninit, TypeOK
  <2>3. uninit \in Cells /\ uninit .. uninit + k - 1 \subseteq Cells
        /\ uninit .. uninit + k - 1 \subseteq Uninit
    BY <2>1, <2>2, NCellsAssumption DEF Cells, Uninit, NoCell
  <2>4. \A x \in uninit .. uninit + k - 1 : x \in Cells /\ owner[x] = NoCell
    BY <2>1, <2>3 DEF HeapInv, Regions
  <2> QED BY <2>1, <2>2, <2>3, <2>4, TakeChunkCounts DEF Accounting
<1>6. CASE SearchFound \/ SearchNext
  BY <1>1, <1>6 DEF SearchFound, SearchNext, Throw, heap, ghost
<1>7. CASE cell_alloc
  <2> DEFINE c == chunk + idx
             before == [prev EXCEPT ![next[c]] = prev[c]]
             after == [next EXCEPT ![prev[c]] = next[c]]
  <2>1. sound
    BY <1>7 DEF cell_alloc, Throw, ghost
  <2>2. CASE UNCHANGED <<owner, alloc_cnt>>
    BY <1>1, <2>1, <2>2
  <2>3. CASE TakeChunk(chunk, req, before, after)
    <3>1. pc = "unlink" /\ TypeOK /\ Calls /\ chunk + calculate_cells(req) - 1 \in Cells
      BY <1>7, <2>1 DEF cell_alloc, TypeInv, HeapInv, UnlinkRange
    <3>2. req \in Nat /\ chunk \in Cells /\ calculate_cells(req) \in Nat
      BY <3>1, CellsPositive DEF TypeOK
    <3>3. \A x \in chunk .. chunk + calculate_cells(req) - 1 : x \in Cells /\ owner[x] = NoCell
      <4>1. chunk .. chunk + calculate_cells(req) - 1 \subseteq Cells
        BY <3>1, <3>2, NCellsAssumption DEF Cells
      <4> QED BY <3>1, <4>1 DEF Calls
    <3> HIDE DEF before, after
    <3> QED BY <2>1, <2>3, <3>1, <3>2, <3>3, TakeChunkCounts DEF Accounting
  <2> QED BY <1>7, <2>2, <2>3 DEF cell_alloc, Throw
<1>8. ASSUME NEW c \in Closures, Return(c)
      PROVE  alloc_cnt' = Cardinality(Owned')
  <2>1. c \in Cells /\ owner[c] = c
    BY DEF Closures
  <2>2. sound /\ c \notin stale
    BY <1>8
    DEF Return, closure_free, store_fail, Overwrite, closure_shrink_list, RelyOn
  <2>3. \E s \in Nat : closure_shrink(c, s)
    <3>1. CASE closure_free(c)
      BY <3>1 DEF closure_free
    <3>2. CASE store_fail(c)
      BY <3>2 DEF store_fail
    <3>3. ASSUME NEW args \in ArgCounts, Overwrite(c, args)
          PROVE  \E s \in Nat : closure_shrink(c, s)
      BY <3>3, ArgCountsAssumption, CellsPositive DEF Overwrite
    <3>4. ASSUME NEW n \in 0 .. size[c], closure_shrink_list(c, n)
          PROVE  \E s \in Nat : closure_shrink(c, s)
      <4>1. n + ListOffset \in Nat
        BY DEF ListOffset
      <4> QED BY <3>4, <4>1 DEF closure_shrink_list
    <3> QED BY <1>8, <3>1, <3>2, <3>3, <3>4 DEF Return
  <2> QED BY <1>2, <2>1, <2>2, <2>3
<1>9. ASSUME NEW n \in Cells, alloc_to(n) \/ StoreArg(n) \/ FailElsewhere
      PROVE  alloc_cnt' = Cardinality(Owned')
  BY <1>1, <1>9 DEF alloc_to, StoreArg, FailElsewhere, Throw, heap, ghost
<1>10. CASE Recovery
  <2>1. CASE CatchAndGoOn \/ CatchError \/ CleanupDone
    BY <1>1, <2>1 DEF CatchAndGoOn, CatchError, CleanupDone, heap, ghost
  <2>2. CASE cleanup_cells
    <3>1. sound
      BY <2>2 DEF cleanup_cells
    <3> QED BY <1>1, <1>2, <2>2, <3>1, CleanupFrees
  <2>3. CASE Restart
    <3>1. Owned' = {} /\ alloc_cnt' = 0
      BY <2>3 DEF Restart, Owned
    <3> QED BY <3>1, FS_EmptySet
  <2> QED BY <1>10, <2>1, <2>2, <2>3 DEF Recovery
<1> QED
  BY <1>3, <1>4, <1>5, <1>6, <1>7, <1>8, <1>9, <1>10, ZeroCell DEF Next, Alloc, Allocator

\* Ring, closures and count agree with each other, for every size of the
\* heap, every mix of closure sizes and every order of allocating, failing,
\* shrinking, returning, recovering and restarting, until the code relies on
\* what it has left in disorder: a stale size word, cells that are in no ring
\* or an op byte from before a restart.
THEOREM HeapAlwaysSound == Spec => []HeapSound
<1>1. TypeInv /\ HeapInv /\ Accounting /\ [Next]_vars => TypeInv' /\ HeapInv' /\ Accounting'
  BY TypeNext, HeapNext, CountNext
<1>2. Init => TypeInv /\ HeapInv /\ Accounting
  BY TypeInit, HeapInit, CountInit
<1>3. TypeInv /\ HeapInv /\ Accounting => HeapSound
  BY HeapInvImplies DEF HeapSound
<1> QED BY <1>1, <1>2, <1>3, PTL DEF Spec

-----------------------------------------------------------------------------
(* The assertions of the allocator.                                        *)

\* In a heap that is sound no assertion of the allocator fails: the ring is
\* whole, and all cells of a chunk that was found in it are still there.
THEOREM AssertionsHold == Spec => SoundNeverAsserts
<1> DEFINE Quiet == sound /\ err = "none" => err' # "unexpected"
<1>1. ASSUME TypeInv, HeapInv, Next PROVE Quiet
  <2> SUFFICES ASSUME sound, err = "none" PROVE err' # "unexpected"
    OBVIOUS
  <2>0. Ring /\ Regions /\ Calls /\ TypeOK
    BY <1>1 DEF HeapInv, TypeInv
  <2>1. CASE err' = err
    BY <2>1
  <2>2. NextOK(cells_ptr)
    BY <2>0 DEF NextOK, is_cell, Ring, TypeOK
  <2>3. ASSUME NEW args \in ArgCounts,
               AllocLimit(args) \/ AllocUninit(args) \/ AllocSearch(args)
        PROVE  err' # "unexpected"
    BY <2>1, <2>2, <2>3 DEF AllocLimit, AllocUninit, AllocSearch, Throw
  <2>4. CASE SearchFound \/ SearchNext
    BY <2>1, <2>2, <2>4 DEF SearchFound, SearchNext, Throw
  <2>5. CASE cell_alloc
    <3> DEFINE c == chunk + idx
               k == calculate_cells(req)
    <3>1. pc = "unlink" /\ idx < k /\ chunk + k - 1 \in Cells
      BY <1>1, <2>5 DEF cell_alloc, TypeInv, UnlinkRange
    <3>2. chunk \in Cells /\ idx \in Nat /\ k \in Nat
      BY <2>0, CellsPositive DEF TypeOK
    <3>3. c \in chunk .. chunk + k - 1 /\ c \in Cells /\ Taken = chunk .. c - 1 /\ c \notin Taken
      BY <3>1, <3>2, NCellsAssumption DEF Cells, Taken
    <3>5. c \in free
      BY <2>0, <3>1, <3>3 DEF Calls
    <3>6. Unlinkable(c)
      BY <2>0, <3>3, <3>5 DEF Unlinkable, is_cell, Ring, TypeOK
    <3> QED BY <2>5, <3>6 DEF cell_alloc, Throw
  <2>6. ASSUME NEW c \in Closures, Return(c)
        PROVE  err' = err
    BY <2>6 DEF Return, closure_free, store_fail, Overwrite, closure_shrink_list
  <2>7. ASSUME NEW n \in Cells, alloc_to(n) \/ StoreArg(n) \/ FailElsewhere
        PROVE  err' # "unexpected"
    BY <2>7 DEF alloc_to, StoreArg, FailElsewhere, Throw
  <2>8. CASE Recovery
    BY <2>1, <2>8
    DEF Recovery, CatchAndGoOn, CatchError, cleanup_cells, CleanupDone, Restart
  <2> QED
    BY <1>1, <2>1, <2>3, <2>4, <2>5, <2>6, <2>7, <2>8, ZeroCell DEF Next, Alloc, Allocator
<1>2. TypeInv /\ HeapInv /\ [Next]_vars => [Quiet]_vars
  BY <1>1
<1>3. TypeInv /\ HeapInv /\ [Next]_vars => TypeInv' /\ HeapInv'
  BY TypeNext, HeapNext
<1>4. Init => TypeInv /\ HeapInv
  BY TypeInit, HeapInit
<1>5. SoundNeverAsserts <=> [][Quiet]_vars
  BY DEF SoundNeverAsserts
<1> HIDE DEF Quiet
<1> QED BY <1>2, <1>3, <1>4, <1>5, PTL DEF Spec

-----------------------------------------------------------------------------
(* Recovery.                                                               *)

\* Of the closures that cleanup_cells() has passed, only persistent ones are
\* left.
Passed ==
  sound /\ pc = "cleanup" => \A x \in Cells : x < idx /\ owner[x] = x => x \in persistent

\* Nothing is being cleaned up at the start.
LEMMA PassedInit == Init => Passed
BY DEF Init, Passed

\* A cell with an op byte that is in no closure was never used since
\* cells_init(), and neither were the cells above it.
LEMMA UnusedAbove ==
  ASSUME TypeInv, HeapInv, sound, pc = "cleanup", idx \in Cells, op[idx], idx \notin Closures
  PROVE  \A x \in Cells : idx <= x => owner[x] = NoCell
<1>1. Blocks /\ Regions /\ Calls /\ TypeOK /\ idx \in Int
  BY NCellsAssumption DEF HeapInv, TypeInv, Cells
<1>2. owner[idx] = NoCell
  <2> SUFFICES ASSUME owner[idx] # NoCell PROVE FALSE
    OBVIOUS
  <2>1. owner[idx] \in Cells /\ owner[idx] <= idx /\ idx <= owner[idx]
    BY <1>1 DEF Blocks, Calls
  <2>2. owner[idx] = idx
    BY <1>1, <2>1, NCellsAssumption DEF Cells
  <2> QED BY <2>2 DEF Closures
<1>3. idx \in Uninit
  BY <1>1, <1>2 DEF Blocks
<1>4. \A x \in Cells : idx <= x => x \in Uninit
  <2>1. uninit \in 2 .. NCells /\ Uninit = uninit .. NCells - 1
    BY <1>1, <1>3 DEF Uninit, TypeOK
  <2> QED BY <1>3, <2>1, NCellsAssumption DEF Cells
<1> QED BY <1>1, <1>4 DEF Regions

\* The loop steps from one closure to the next, and frees the one it leaves
\* behind unless it is persistent.
LEMMA PassedNext ==
  TypeInv /\ HeapInv /\ Passed /\ [Next]_vars => Passed'
<1> SUFFICES ASSUME TypeInv, HeapInv, Passed, [Next]_vars, sound', pc' = "cleanup",
                    NEW x \in Cells, x < idx', owner'[x] = x
             PROVE  x \in persistent'
  BY DEF Passed
<1>1. CASE UNCHANGED vars
  BY <1>1 DEF vars, Passed
<1>2. CASE CatchError
  BY <1>2 DEF CatchError, Cells
<1>3. CASE cleanup_cells
  <2>1. /\ sound /\ pc = "cleanup" /\ idx' = idx + CleanupStep /\ Blocks /\ TypeOK
        /\ op[idx] => idx \in (Closures \cup persistent) \ stale
    BY <1>3 DEF cleanup_cells, HeapInv, TypeInv
  <2>2. idx \in Cells /\ x # NoCell /\ x \in Int /\ idx \in Int
    <3>1. idx \in Nat /\ idx < NCells
      BY <1>3, <2>1 DEF cleanup_cells, TypeOK
    <3>2. idx \in Cells
      BY <3>1, NCellsAssumption DEF Cells
    <3> QED BY <3>2, NCellsAssumption DEF Cells, NoCell
  <2>3. size[idx] \in Nat /\ closure_cells(idx) \in Nat
    BY <2>1, <2>2, CellsPositive DEF closure_cells, TypeOK
  <2> DEFINE back == idx + 0 .. idx + closure_cells(idx) - 1
             freed == op[idx] /\ idx \notin persistent
  <2>4. CASE x < idx
    <3>1. owner[x] = x
      <4>1. CASE freed
        BY <1>3, <2>2, <4>1 DEF cleanup_cells, closure_shrink
      <4>2. CASE ~freed
        BY <1>3, <4>2 DEF cleanup_cells
      <4> QED BY <4>1, <4>2
    <3>2. x \in persistent
      BY <2>1, <2>4, <3>1 DEF Passed
    <3>3. x \notin back
      BY <2>2, <2>3, <2>4
    <3>4. CASE freed
      BY <1>3, <3>2, <3>3, <3>4 DEF cleanup_cells, closure_shrink, Link
    <3>5. CASE ~freed
      BY <1>3, <3>2, <3>5 DEF cleanup_cells
    <3> QED BY <3>4, <3>5
  <2>5. CASE ~(x < idx)
    <3>1. CASE op[idx] /\ idx \in Closures
      <4>1. owner[idx] = idx /\ idx' = idx + closure_cells(idx)
        BY <2>1, <3>1 DEF Closures, CleanupStep
      <4>2. owner[x] = idx /\ x \in back
        <5>1. idx \notin stale
          BY <2>1, <3>1
        <5> QED BY <2>1, <2>2, <2>3, <2>5, <4>1, <5>1 DEF Blocks
      <4>3. CASE idx \notin persistent
        <5>1. owner'[x] = NoCell
          BY <1>3, <2>2, <2>3, <2>5, <3>1, <4>1, <4>2, <4>3 DEF cleanup_cells, closure_shrink
        <5> QED BY <2>2, <5>1
      <4>4. CASE idx \in persistent
        BY <1>3, <4>2, <4>4 DEF cleanup_cells
      <4> QED BY <4>3, <4>4
    <3>2. CASE ~op[idx]
      <4>1. x = idx
        BY <2>1, <2>2, <2>5, <3>2 DEF CleanupStep
      <4>2. owner[idx] = idx
        BY <1>3, <3>2, <4>1 DEF cleanup_cells
      <4> QED BY <2>1, <2>2, <3>2, <4>1, <4>2 DEF Blocks
    <3>3. CASE op[idx] /\ idx \notin Closures
      <4>1. owner[x] = x
        BY <1>3, <2>1, <3>3 DEF cleanup_cells
      <4> QED BY <2>1, <2>2, <2>5, <3>3, <4>1, UnusedAbove
    <3> QED BY <3>1, <3>2, <3>3
  <2> QED BY <2>4, <2>5
<1>4. CASE ~CatchError /\ ~cleanup_cells /\ Next
  <2>1. ASSUME NEW args \in ArgCounts,
               AllocLimit(args) \/ AllocUninit(args) \/ AllocSearch(args)
        PROVE  pc' # "cleanup"
    BY <2>1 DEF AllocLimit, AllocUninit, AllocSearch, Throw, Leave, Ready
  <2>2. ASSUME NEW c \in Closures, Return(c)
        PROVE  pc' # "cleanup"
    BY <2>2 DEF Return, closure_free, store_fail, Overwrite, closure_shrink_list, Ready
  <2>3. ASSUME NEW n \in Cells, alloc_to(n) \/ StoreArg(n) \/ FailElsewhere
        PROVE  pc' # "cleanup"
    BY <2>3 DEF alloc_to, StoreArg, FailElsewhere, Ready, Throw, Leave
  <2>4. CASE Allocator
    BY <2>4 DEF Allocator, SearchFound, SearchNext, cell_alloc, Throw, Leave
  <2>5. CASE CatchAndGoOn \/ CleanupDone \/ Restart
    BY <2>5 DEF CatchAndGoOn, CleanupDone, Restart, Leave
  <2> QED BY <1>4, <2>1, <2>2, <2>3, <2>4, <2>5, ZeroCell DEF Next, Alloc, Recovery
<1> QED BY <1>1, <1>2, <1>3, <1>4

\* When cleanup_cells() is done, every closure that is left is persistent, if
\* it met no stale size word and no op byte from before a restart on its way
\* and the heap was sound when it began.
THEOREM RecoveryComplete == Spec => RecoveryFreesAll
<1> DEFINE Freed == pc = "cleanup" /\ pc' = "idle" /\ sound => Closures \subseteq persistent
<1>1. ASSUME TypeInv, HeapInv, Passed, Next PROVE Freed
  <2> SUFFICES ASSUME pc = "cleanup", pc' = "idle", sound PROVE Closures \subseteq persistent
    OBVIOUS
  <2>1. CASE CleanupDone \/ Restart
    <3>1. idx >= NCells /\ idx \in Nat
      BY <1>1, <2>1 DEF CleanupDone, Restart, TypeInv, TypeOK
    <3>2. \A x \in Cells : x < idx
      BY <3>1, NCellsAssumption DEF Cells
    <3> QED BY <1>1, <3>2 DEF Passed, Closures
  <2>2. CASE ~CleanupDone /\ ~Restart
    <3>1. ASSUME NEW args \in ArgCounts,
                 AllocLimit(args) \/ AllocUninit(args) \/ AllocSearch(args)
          PROVE  FALSE
      BY <3>1 DEF AllocLimit, AllocUninit, AllocSearch, Ready
    <3>2. ASSUME NEW c \in Closures, Return(c)
          PROVE  FALSE
      BY <3>2 DEF Return, closure_free, store_fail, Overwrite, closure_shrink_list, Ready
    <3>3. ASSUME NEW n \in Cells, alloc_to(n) \/ StoreArg(n) \/ FailElsewhere
          PROVE  FALSE
      BY <3>3 DEF alloc_to, StoreArg, FailElsewhere, Ready
    <3>4. CASE Allocator
      BY <3>4 DEF Allocator, SearchFound, SearchNext, cell_alloc
    <3>5. CASE CatchAndGoOn \/ CatchError \/ cleanup_cells
      BY <3>5 DEF CatchAndGoOn, CatchError, cleanup_cells
    <3> QED
      BY <1>1, <2>2, <3>1, <3>2, <3>3, <3>4, <3>5, ZeroCell DEF Next, Alloc, Recovery
  <2> QED BY <2>1, <2>2
<1>2. TypeInv /\ HeapInv /\ Passed /\ [Next]_vars => [Freed]_vars
  BY <1>1
<1>3. TypeInv /\ HeapInv /\ Passed /\ [Next]_vars => TypeInv' /\ HeapInv' /\ Passed'
  BY TypeNext, HeapNext, PassedNext
<1>4. Init => TypeInv /\ HeapInv /\ Passed
  BY TypeInit, HeapInit, PassedInit
<1>5. RecoveryFreesAll <=> [][Freed]_vars
  BY DEF RecoveryFreesAll
<1> HIDE DEF Freed
<1> QED BY <1>2, <1>3, <1>4, <1>5, PTL DEF Spec

-----------------------------------------------------------------------------
(* The search for a chunk.                                                 *)

\* The ring is one ring: following next from any of its cells leads to all.
OneRing == \A S \in SUBSET free : S # {} /\ (\A x \in S : next[x] \in S) => S = free

\* The starts that a search has tried are a stretch of the ring from mark to
\* the candidate, and none of them but the candidate looked free.
Tried ==
  pc = "search" =>
    /\ err = "none" /\ cells_ptr = next[chunk]
    /\ \E T \in SUBSET free :
         /\ mark \in T /\ chunk \in T
         /\ \A x \in T : x # chunk => next[x] \in T /\ ~LooksFree(x, calculate_cells(req))

SearchInv == sound => OneRing /\ Tried

\* A set of naturals has a least member.
LEMMA LeastNat ==
  ASSUME NEW T \in SUBSET Nat, T # {}
  PROVE  \E m \in T : \A y \in T : m <= y
<1> DEFINE R == OpToRel(<, Nat)
<1>1. IsWellFoundedOn(R, Nat)
  BY NatLessThanWellFounded
<1>2. \A a, b \in Nat : a < b => <<a, b>> \in R
  BY DEF OpToRel
<1> HIDE DEF R
<1>3. PICK m \in T : \A y \in T : ~(<<y, m>> \in R)
  BY <1>1, WFMin
<1>4. ASSUME NEW y \in T
      PROVE  m <= y
  <2>1. m \in Nat /\ y \in Nat
    OBVIOUS
  <2>2. ~(<<y, m>> \in R)
    BY <1>3
  <2>3. ~(y < m)
    BY <1>2, <2>1, <2>2, Zenon
  <2> QED BY <2>1, <2>3, SMT
<1> QED BY <1>4

\* A set of cells that goes on from each of first .. last - 1 to the next one
\* holds last if it holds any of them, and all of them if it holds first.
LEMMA Chain ==
  ASSUME NEW first \in Nat, NEW last \in Nat, NEW S,
         \A x \in first .. last : x \in S /\ x # last => x + 1 \in S
  PROVE  /\ S \cap first .. last # {} => last \in S
         /\ first \in S => first .. last \subseteq S
<1>1. ASSUME NEW x \in first .. last, x \in S, last \notin S
      PROVE  FALSE
  <2> DEFINE D == {d \in Nat : last - d \in first .. last /\ last - d \in S}
  <2>1. last - x \in D
    BY <1>1
  <2>2. PICK d \in D : \A y \in D : d <= y
    BY <2>1, LeastNat
  <2>3. d \in Nat /\ last - d \in first .. last /\ last - d \in S /\ d # 0
    BY <1>1, <2>2
  <2>4. (last - d) + 1 \in S
    BY <2>3
  <2>5. d - 1 \in D
    BY <2>3, <2>4
  <2> QED BY <2>2, <2>3, <2>5
<1>2. ASSUME first \in S, NEW x \in first .. last, x \notin S
      PROVE  FALSE
  <2> DEFINE D == {d \in Nat : d \in first .. last /\ d \notin S}
  <2>1. x \in D
    BY <1>2
  <2>2. PICK d \in D : \A y \in D : d <= y
    BY <2>1, LeastNat
  <2>3. d \in Nat /\ first < d /\ d <= last /\ d \notin S
    BY <1>2, <2>2
  <2>4. d - 1 \in S
    <3>1. d - 1 \notin D
      BY <2>2, <2>3
    <3> QED BY <2>3, <3>1
  <2>5. (d - 1) + 1 \in S
    BY <2>3, <2>4
  <2> QED BY <2>3, <2>5
<1> QED BY <1>1, <1>2

\* Cells linked in at the tail make the ring longer.
LEMMA LinkOneRing ==
  ASSUME TypeOK, Ring, OneRing, NEW first \in Cells, NEW last \in Cells, first <= last,
         \A x \in first .. last : x \notin free,
         Link(first, last)
  PROVE  OneRing'
<1> DEFINE back == first .. last
           tail == prev[cells_ptr]
<1>1. first \in back /\ last \in back /\ back \subseteq Cells /\ first \in Nat /\ last \in Nat
  BY NCellsAssumption DEF Cells
<1>2. cells_ptr \in free /\ tail \in free /\ next[tail] = cells_ptr /\ tail \in Cells
      /\ tail \notin back
  BY DEF Ring, TypeOK
<1>3. \A x \in Cells : next'[x] = IF x = last THEN cells_ptr
                                 ELSE IF x \in back THEN x + 1
                                 ELSE IF x = tail THEN first
                                 ELSE next[x]
  BY DEF Link, LinkNext
<1>4. free' = free \cup back
  BY DEF Link
<1> SUFFICES ASSUME NEW S \in SUBSET (free \cup back), S # {}, \A x \in S : next'[x] \in S
             PROVE  S = free \cup back
  BY <1>4 DEF OneRing
<1>5. \A x \in first .. last : x \in S /\ x # last => x + 1 \in S
  BY <1>1, <1>3
<1>6. /\ S \cap back # {} => last \in S
      /\ first \in S => back \subseteq S
  BY <1>1, <1>5, Chain
<1>7. S \cap back # {} => cells_ptr \in S
  BY <1>1, <1>3, <1>6
<1> DEFINE F == S \cap free
<1>8. F # {}
  BY <1>2, <1>7
<1>9. \A x \in F : next[x] \in F
  <2> SUFFICES ASSUME NEW x \in F PROVE next[x] \in F
    OBVIOUS
  <2>1. x \in Cells /\ x \notin back /\ x # last /\ next[x] \in free
    BY <1>1 DEF Ring, TypeOK
  <2>2. CASE x = tail
    BY <1>1, <1>2, <1>3, <1>7, <2>1, <2>2
  <2>3. CASE x # tail
    BY <1>3, <2>1, <2>3
  <2> QED BY <2>2, <2>3
<1>10. F = free
  BY <1>8, <1>9 DEF OneRing
<1>11. first \in S
  <2>1. tail \in S
    BY <1>2, <1>10
  <2>2. next'[tail] = first
    BY <1>1, <1>2, <1>3
  <2> QED BY <2>1, <2>2
<1> QED BY <1>6, <1>10, <1>11

\* A cell that leaves the ring does not break it in two.
LEMMA UnlinkOneRing ==
  ASSUME TypeOK, Ring, OneRing, NEW c \in free, prev[c] # c, free' = free \ {c},
         \A x \in free' : next'[x] = IF x = prev[c] THEN next[c] ELSE next[x]
  PROVE  OneRing'
<1> SUFFICES ASSUME NEW S \in SUBSET (free \ {c}), S # {}, \A x \in S : next'[x] \in S
             PROVE  S = free \ {c}
  BY DEF OneRing
<1>1. prev[c] \in free' /\ next[prev[c]] = c /\ next'[prev[c]] = next[c]
  BY DEF Ring
<1>2. CASE prev[c] \in S
  <2> DEFINE S2 == S \cup {c}
  <2>1. \A x \in S2 : next[x] \in S2
    BY <1>1, <1>2
  <2>2. S2 \in SUBSET free /\ S2 # {}
    OBVIOUS
  <2> HIDE DEF S2
  <2>3. S2 = free
    BY <2>1, <2>2 DEF OneRing
  <2> QED BY <2>3 DEF S2
<1>3. CASE prev[c] \notin S
  <2>1. \A x \in S : next[x] \in S
    BY <1>3
  <2>2. S = free
    BY <2>1 DEF OneRing
  <2> QED BY <1>1, <1>3, <2>2
<1> QED BY <1>2, <1>3

\* The ring of cells_init() has two cells.
LEMMA SearchInit == Init => SearchInv
<1> SUFFICES ASSUME Init PROVE OneRing /\ Tried
  BY DEF SearchInv
<1>1. free = {0, 1} /\ next[0] = 1 /\ next[1] = 0
  BY NCellsAssumption DEF Init, Cells
<1>2. OneRing
  BY <1>1 DEF OneRing
<1>3. Tried
  BY DEF Init, Tried
<1> QED BY <1>2, <1>3

\* So has the ring after a restart.
LEMMA RestartOneRing == Restart => OneRing'
<1> SUFFICES ASSUME Restart PROVE OneRing'
  OBVIOUS
<1>1. free' = {0, 1} /\ next'[0] = 1 /\ next'[1] = 0
  BY NCellsAssumption DEF Restart, Cells
<1> QED BY <1>1 DEF OneRing

\* Returning cells of a closure keeps the ring in one piece.
LEMMA ShrinkOneRing ==
  ASSUME TypeOK, SizesFit, Ring, Blocks, Regions, OneRing,
         NEW c \in Cells, owner[c] = c, c \notin stale, NEW s \in Nat, closure_shrink(c, s)
  PROVE  OneRing'
<1> DEFINE k == closure_cells(c)
<1>1. k \in Nat /\ c \in Int
  <2>1. size[c] \in Nat /\ c \in Int
    BY NCellsAssumption DEF TypeOK, Cells
  <2> QED BY <2>1, CellsPositive DEF closure_cells
<1>2. CASE k > s
  <2>1. Link(c + s, c + k - 1)
    BY <1>2 DEF closure_shrink
  <2>2. c + s \in Cells /\ c + k - 1 \in Cells /\ c + s <= c + k - 1
    BY <1>1, <1>2, NCellsAssumption DEF SizesFit, Cells
  <2>3. \A x \in c + s .. c + k - 1 : x \in Cells /\ owner[x] = c /\ c # NoCell
    BY <1>1, <2>2, NCellsAssumption DEF Blocks, Cells, NoCell
  <2>4. \A x \in c + s .. c + k - 1 : x \notin free
    BY <2>3 DEF Regions
  <2> QED BY <2>1, <2>2, <2>4, LinkOneRing
<1>3. CASE ~(k > s)
  BY <1>3 DEF closure_shrink, OneRing
<1> QED BY <1>2, <1>3

\* Unlinking a cell of a chunk keeps the ring in one piece.
LEMMA UnlinkStepOneRing ==
  ASSUME TypeInv, HeapInv, sound, OneRing, cell_alloc
  PROVE  OneRing'
<1> DEFINE c == chunk + idx
           k == calculate_cells(req)
           before == [prev EXCEPT ![next[c]] = prev[c]]
           after == [next EXCEPT ![prev[c]] = next[c]]
           took == chunk .. chunk + k - 1
<1>1. Ring /\ Regions /\ Calls /\ TypeOK /\ pc = "unlink" /\ idx < k
      /\ chunk + k - 1 \in Cells
  BY DEF cell_alloc, HeapInv, TypeInv, UnlinkRange
<1>2. k \in Nat /\ chunk \in Cells /\ idx \in Nat
  BY <1>1, CellsPositive DEF TypeOK
<1>3. c \in took /\ c \in Cells /\ Taken = chunk .. c - 1 /\ c \notin Taken
      /\ (idx + 1 = k => took = Taken \cup {c})
  BY <1>1, <1>2, NCellsAssumption DEF Cells, Taken
<1>4. CASE ~Unlinkable(c) \/ c = prev[c] \/ c = next[c]
  BY <1>4 DEF cell_alloc, Throw, OneRing
<1>5. CASE Unlinkable(c) /\ c # prev[c] /\ c # next[c]
  <2>1. free' = free \ {c}
    BY <1>5 DEF cell_alloc
  <2>2. c \in free
    <3>1. c <= c
      BY <1>2, NCellsAssumption DEF Cells
    <3> QED BY <1>1, <1>3, <3>1 DEF Calls
  <2>3. \A x \in free' : x \in Cells /\ x \notin Taken /\ x # c
    BY <1>1, <2>1 DEF Regions, TypeOK
  <2>4. \A x \in Cells : after[x] = (IF x = prev[c] THEN next[c] ELSE next[x])
    BY <1>1 DEF TypeOK
  <2>5. \A x \in free' : next'[x] = after[x]
    <3>1. CASE idx + 1 = k
      <4>1. TakeChunk(chunk, req, before, after)
        BY <1>5, <3>1 DEF cell_alloc
      <4>2. \A x \in free' : x \notin took
        BY <1>3, <2>3, <3>1
      <4> HIDE DEF before, after, c
      <4> QED BY <2>3, <4>1, <4>2 DEF TakeChunk
    <3>2. CASE idx + 1 # k
      BY <1>5, <3>2 DEF cell_alloc
    <3> QED BY <3>1, <3>2
  <2> HIDE DEF c, after
  <2> QED BY <1>1, <1>5, <2>1, <2>2, <2>3, <2>4, <2>5, UnlinkOneRing
<1> QED BY <1>4, <1>5

\* No step breaks the ring in two.
LEMMA OneRingNext ==
  ASSUME TypeInv, HeapInv, OneRing, sound, sound', Next
  PROVE  OneRing'
<1>0. Ring /\ Blocks /\ Regions /\ Calls /\ TypeOK /\ SizesFit
  BY DEF HeapInv, TypeInv
<1>1. ASSUME UNCHANGED <<free, next>>
      PROVE  OneRing'
  BY <1>1 DEF OneRing
<1>2. ASSUME NEW args \in ArgCounts, AllocLimit(args) \/ AllocSearch(args)
      PROVE  OneRing'
  BY <1>1, <1>2 DEF AllocLimit, AllocSearch, Throw
<1>3. ASSUME NEW args \in ArgCounts, AllocUninit(args)
      PROVE  OneRing'
  <2> DEFINE k == calculate_cells(args)
             took == uninit .. uninit + k - 1
  <2>1. k \in Nat /\ uninit \in 2 .. NCells /\ uninit + k <= NCells
        /\ TakeChunk(uninit, args, prev, next) /\ free' = free
    BY <1>0, <1>3, ArgCountsAssumption, CellsPositive DEF AllocUninit, FitsUninit, TypeOK
  <2>2. took \subseteq Uninit
    BY <2>1, NCellsAssumption DEF Uninit, NoCell
  <2>3. \A x \in free : x \in Cells /\ x \notin took
    BY <1>0, <2>2 DEF Regions, TypeOK
  <2>4. \A x \in free : next'[x] = next[x]
    BY <2>1, <2>3 DEF TakeChunk
  <2> QED BY <2>1, <2>4 DEF OneRing
<1>4. CASE SearchFound \/ SearchNext
  BY <1>1, <1>4 DEF SearchFound, SearchNext, Throw, ring
<1>5. CASE cell_alloc
  BY <1>5, UnlinkStepOneRing
<1>6. ASSUME NEW c \in Closures, Return(c)
      PROVE  OneRing'
  <2>1. c \in Cells /\ owner[c] = c /\ c \notin stale
    BY <1>6
    DEF Closures, Return, closure_free, store_fail, Overwrite, closure_shrink_list, RelyOn
  <2>2. ASSUME NEW s \in Nat, closure_shrink(c, s)
        PROVE  OneRing'
    BY <1>0, <2>1, <2>2, ShrinkOneRing
  <2>3. CASE closure_free(c)
    BY <2>2, <2>3 DEF closure_free
  <2>4. CASE store_fail(c)
    BY <2>2, <2>4 DEF store_fail
  <2>5. ASSUME NEW args \in ArgCounts, Overwrite(c, args)
        PROVE  OneRing'
    BY <2>2, <2>5, ArgCountsAssumption, CellsPositive DEF Overwrite
  <2>6. ASSUME NEW n \in 0 .. size[c], closure_shrink_list(c, n)
        PROVE  OneRing'
    <3>1. n + ListOffset \in Nat
      BY DEF ListOffset
    <3> QED BY <2>2, <2>6, <3>1 DEF closure_shrink_list
  <2> QED BY <1>6, <2>3, <2>4, <2>5, <2>6 DEF Return
<1>7. ASSUME NEW n \in Cells, alloc_to(n)
      PROVE  OneRing'
  <2>0. CASE TooLarge(n - uninit)
    BY <1>1, <1>7, <2>0 DEF alloc_to, Throw
  <2> SUFFICES ASSUME ~TooLarge(n - uninit) PROVE OneRing'
    BY <2>0
  <2>1. uninit \in 2 .. NCells /\ uninit < n /\ Link(uninit, n - 1)
    BY <1>0, <1>7 DEF alloc_to, TypeOK
  <2>2. uninit \in Cells /\ n - 1 \in Cells /\ uninit <= n - 1 /\ uninit .. n - 1 \subseteq Uninit
    BY <2>1, NCellsAssumption DEF Cells, Uninit, NoCell
  <2>3. \A x \in uninit .. n - 1 : x \notin free
    BY <1>0, <2>2 DEF Regions
  <2> QED BY <1>0, <2>1, <2>2, <2>3, LinkOneRing
<1>8. ASSUME NEW x \in Cells, StoreArg(x) \/ FailElsewhere
      PROVE  OneRing'
  BY <1>1, <1>8 DEF StoreArg, FailElsewhere, Throw
<1>9. CASE Recovery
  <2>1. CASE CatchAndGoOn \/ CatchError \/ CleanupDone
    BY <1>1, <2>1 DEF CatchAndGoOn, CatchError, CleanupDone, ring
  <2>2. CASE cleanup_cells
    BY <1>0, <1>1, <2>2, CleanupFrees, ShrinkOneRing
  <2>3. CASE Restart
    BY <2>3, RestartOneRing
  <2> QED BY <1>9, <2>1, <2>2, <2>3 DEF Recovery
<1> QED
  BY <1>2, <1>3, <1>4, <1>5, <1>6, <1>7, <1>8, <1>9, ZeroCell DEF Next, Alloc, Allocator

\* Only the search moves its mark and its candidate, and nothing else happens
\* to the heap in the meantime.
LEMMA TriedNext ==
  ASSUME TypeInv, HeapInv, sound, Tried, Next
  PROVE  Tried'
<1> SUFFICES ASSUME pc' = "search" PROVE Tried'
  BY DEF Tried
<1>0. Ring /\ Calls /\ TypeOK
  BY DEF HeapInv, TypeInv
<1>1. ASSUME NEW args \in ArgCounts, AllocSearch(args)
      PROVE  Tried'
  <2>1. /\ mark' = cells_ptr /\ chunk' = cells_ptr /\ cells_ptr' = next[cells_ptr]
        /\ free' = free /\ next' = next /\ cells_ptr \in free /\ err' = "none"
    BY <1>0, <1>1 DEF AllocSearch, Throw, Leave, Ring, Ready
  <2>2. {cells_ptr} \in SUBSET free'
    BY <2>1
  <2> QED BY <2>1, <2>2 DEF Tried
<1>2. CASE SearchNext
  <2>1. /\ pc = "search" /\ ~LooksFree(chunk, calculate_cells(req))
        /\ chunk' = cells_ptr /\ cells_ptr' = next[cells_ptr] /\ err' = err
        /\ UNCHANGED <<op, next, free, mark, req>>
    BY <1>2 DEF SearchNext, Throw, Leave
  <2>2. \A x : LooksFree(x, calculate_cells(req))' <=> LooksFree(x, calculate_cells(req))
    BY <2>1 DEF LooksFree
  <2>3. cells_ptr = next[chunk] /\ cells_ptr \in free
    BY <1>0, <2>1 DEF Tried, Ring
  <2>4. PICK T \in SUBSET free :
          /\ mark \in T /\ chunk \in T
          /\ \A x \in T : x # chunk => next[x] \in T /\ ~LooksFree(x, calculate_cells(req))
    BY <2>1 DEF Tried
  <2> DEFINE T2 == T \cup {cells_ptr}
  <2>5. /\ T2 \in SUBSET free /\ mark \in T2 /\ cells_ptr \in T2
        /\ \A x \in T2 : x # cells_ptr => next[x] \in T2 /\ ~LooksFree(x, calculate_cells(req))
    BY <2>1, <2>3, <2>4
  <2> HIDE DEF T2
  <2> QED BY <2>1, <2>2, <2>5 DEF Tried
<1>3. CASE ~SearchNext
  <2>1. ASSUME NEW args \in ArgCounts, AllocLimit(args) \/ AllocUninit(args)
        PROVE  FALSE
    BY <2>1 DEF AllocLimit, AllocUninit, Throw, Leave, Ready
  <2>2. ASSUME NEW c \in Closures, Return(c)
        PROVE  FALSE
    BY <2>2 DEF Return, closure_free, store_fail, Overwrite, closure_shrink_list, Ready
  <2>3. ASSUME NEW n \in Cells, alloc_to(n) \/ StoreArg(n) \/ FailElsewhere
        PROVE  FALSE
    BY <2>3 DEF alloc_to, StoreArg, FailElsewhere, Ready, Throw, Leave
  <2>4. CASE SearchFound \/ cell_alloc
    BY <2>4 DEF SearchFound, cell_alloc, Throw, Leave
  <2>5. CASE Recovery
    BY <2>5 DEF Recovery, CatchAndGoOn, CatchError, cleanup_cells, CleanupDone, Restart, Leave
  <2> QED
    BY <1>1, <1>3, <2>1, <2>2, <2>3, <2>4, <2>5, ZeroCell DEF Next, Alloc, Allocator
<1> QED BY <1>2, <1>3

\* No search is going on when cells_init() has run.
LEMMA RestartTried == Restart => Tried'
BY DEF Restart, Leave, Tried

\* SearchInv is inductive relative to TypeInv and HeapInv.
LEMMA SearchInvNext ==
  TypeInv /\ HeapInv /\ SearchInv /\ [Next]_vars => SearchInv'
<1> SUFFICES ASSUME TypeInv, HeapInv, SearchInv, [Next]_vars PROVE SearchInv'
  OBVIOUS
<1>1. CASE UNCHANGED vars
  BY <1>1 DEF vars, SearchInv, OneRing, Tried, LooksFree
<1>2. CASE Next /\ ~Restart
  BY <1>2, SoundBefore, OneRingNext, TriedNext DEF SearchInv
<1>3. CASE Restart
  BY <1>3, RestartOneRing, RestartTried DEF SearchInv
<1> QED BY <1>1, <1>2, <1>3

\* When the allocator says of a sound heap that it cannot find cells, the ring
\* holds no run of that many: the search has come round to its mark, and the
\* ring is one ring, so every cell of it has been tried as a start.
THEOREM SearchComplete == Spec => SearchIsComplete
<1> DEFINE k == calculate_cells(req)
           Complete == pc = "search" /\ err' = "limit" /\ sound =>
                         \A c \in free : ~(c .. c + calculate_cells(req) - 1 \subseteq free)
<1>1. ASSUME TypeInv, HeapInv, SearchInv, Next PROVE Complete
  <2> SUFFICES ASSUME pc = "search", err' = "limit", sound, NEW c \in free,
                      c .. c + k - 1 \subseteq free
               PROVE  FALSE
    OBVIOUS
  <2>0. Ring /\ Calls /\ TypeOK /\ OneRing /\ Tried
    BY <1>1 DEF HeapInv, TypeInv, SearchInv
  <2>1. CASE SearchNext
    <3>1. ~LooksFree(chunk, k) /\ (err = "limit" \/ cells_ptr = mark)
      BY <2>1 DEF SearchNext, Lapped, Throw
    <3>2. LooksFree(c, k)
      BY <2>0 DEF LooksFree, is_cell, Ring, TypeOK
    <3>3. PICK T \in SUBSET free :
            /\ mark \in T /\ chunk \in T
            /\ \A x \in T : x # chunk => next[x] \in T /\ ~LooksFree(x, k)
      BY <2>0 DEF Tried
    <3>4. CASE cells_ptr = mark
      <4>1. \A x \in T : next[x] \in T
        BY <2>0, <3>3, <3>4 DEF Tried
      <4>2. T = free
        BY <2>0, <3>3, <4>1 DEF OneRing
      <4> QED BY <3>1, <3>2, <3>3, <4>2
    <3> QED BY <2>0, <3>1, <3>4 DEF Tried
  <2>2. CASE ~SearchNext
    <3>0. err = "none" /\ ~Ready
      BY <2>0 DEF Tried, Ready
    <3>1. ASSUME NEW args \in ArgCounts,
                 AllocLimit(args) \/ AllocUninit(args) \/ AllocSearch(args)
          PROVE  FALSE
      BY <3>0, <3>1 DEF AllocLimit, AllocUninit, AllocSearch
    <3>2. ASSUME NEW x \in Closures, Return(x)
          PROVE  FALSE
      BY <3>0, <3>2 DEF Return, closure_free, store_fail, Overwrite, closure_shrink_list
    <3>3. ASSUME NEW n \in Cells, alloc_to(n) \/ StoreArg(n) \/ FailElsewhere
          PROVE  FALSE
      BY <3>0, <3>3 DEF alloc_to, StoreArg, FailElsewhere
    <3>4. CASE SearchFound \/ cell_alloc
      BY <3>0, <3>4 DEF SearchFound, cell_alloc, Leave
    <3>5. CASE Recovery
      BY <3>0, <3>5 DEF Recovery, CatchAndGoOn, CatchError, cleanup_cells, CleanupDone, Restart
    <3> QED
      BY <1>1, <2>2, <3>1, <3>2, <3>3, <3>4, <3>5, ZeroCell DEF Next, Alloc, Allocator
  <2> QED BY <2>1, <2>2
<1> HIDE DEF Complete, k
<1>2. ASSUME TypeInv, HeapInv, SearchInv, [Next]_vars PROVE [Complete]_vars
  BY <1>1, <1>2
<1>3. TypeInv /\ HeapInv /\ SearchInv /\ [Next]_vars
        => TypeInv' /\ HeapInv' /\ SearchInv'
  BY TypeNext, HeapNext, SearchInvNext
<1>4. Init => TypeInv /\ HeapInv /\ SearchInv
  BY TypeInit, HeapInit, SearchInit
<1>5. SearchIsComplete <=> [][Complete]_vars
  BY DEF SearchIsComplete, Complete, k
<1> QED BY <1>2, <1>3, <1>4, <1>5, PTL DEF Spec
=============================================================================

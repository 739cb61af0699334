------------------------------ MODULE CellHeap ------------------------------
(***************************************************************************)
(* The cell allocator of the runtime (cells.c).                            *)
(*                                                                         *)
(* All closures live in one array of cells.  A cell that is not in use is  *)
(* a member of a doubly linked ring entered at cells_ptr; cells that were  *)
(* never used lie above uninitialized_cells and are in no ring.  A closure *)
(* takes one or more CONTIGUOUS cells, and its first cell records how many *)
(* argument words it has (size); the number of cells is always recomputed  *)
(* from that word.                                                         *)
(*                                                                         *)
(* The only mark of a free cell is that its op byte is zero.  In the cells *)
(* of a closure after the first, that byte is part of an argument and      *)
(* takes any value.                                                        *)
(*                                                                         *)
(* The loops of the code that change the heap one cell at a time and can   *)
(* be cut short by an error (the search for a chunk, the unlinking of the  *)
(* chunk, cleanup_cells) are modelled one iteration per step.              *)
(*                                                                         *)
(* Words that nobody reads have one value: the links of a cell in use are  *)
(* NoCell, the size of a cell that was returned is 0 and it is not         *)
(* persistent, and the locals of a call are 0 once it has ended.           *)
(*                                                                         *)
(* Three ghosts record where the code leaves its own discipline.  lost     *)
(* holds the cells that an allocation had unlinked before it failed; stale *)
(* the closures whose size word no longer tells how many cells they have;  *)
(* and sound says that the code has not yet acted on either of them, or on *)
(* cells that it has never used, as if nothing were wrong with it:         *)
(*   - a search has settled on cells that are not all in the ring, for it  *)
(*     looks at op bytes alone (cells.c:216);                              *)
(*   - a closure with a stale size has been changed, freed or walked over; *)
(*   - recovery has freed a never-used cell for the op byte that was left  *)
(*     in it before a restart (cells_init() clears two cells).             *)
(* No guard reads a ghost.                                                 *)
(***************************************************************************)
EXTENDS Integers, FiniteSets

CONSTANTS
  NCells,     \* cells_size, the length of the cell array
  ArgCounts   \* the argument counts that clients ask for

ASSUME NCellsAssumption == NCells \in Nat /\ NCells >= 3
ASSUME ArgCountsAssumption == ArgCounts \subseteq Nat

VARIABLES
  op,         \* op[x]: is the op byte of cell x non-zero?
  prev, next, \* mem.prev and mem.next
  size,       \* size[c]: the argument words closure c says it has
  persistent, \* the closures with n = PERSISTENT
  cells_ptr,  \* the entry of the ring
  uninit,     \* uninitialized_cells, NoCell once it is set to NULL
  alloc_cnt,  \* current_alloc_cnt
  err,        \* the pending error: none, limit, unexpected or another one
  pc,         \* what the allocator is doing
  req,        \* the argument count of the current allocation
  chunk,      \* the candidate chunk of the current allocation
  mark,       \* where the search for it started
  idx,        \* loop counter of the unlinking and of cleanup_cells
  free,       \* ghost: the members of the ring
  owner,      \* ghost: the closure that a cell belongs to
  lost,       \* ghost: cells unlinked by an allocation that then failed
  stale,      \* ghost: closures whose size word is not that of their cells
  sound       \* ghost: has the code relied on none of these so far?

ring  == <<op, prev, next, cells_ptr, free>>
heap  == <<size, persistent, uninit, alloc_cnt, owner>>
call  == <<req, chunk, mark, idx>>
ghost == <<lost, stale, sound>>
vars  == <<op, prev, next, size, persistent, cells_ptr, uninit, alloc_cnt,
           err, pc, req, chunk, mark, idx, free, owner, lost, stale, sound>>

Cells     == 0 .. NCells - 1
NoCell    == -1
MaxAlloc  == 1024  \* MAX_ALLOC_SIZE

is_cell(x) == x \in Cells

-----------------------------------------------------------------------------
(* Layout, in words: a cell has 10, the first 6 of a closure are a header. *)

CellWords   == 10
HeaderWords == 6
ListOffset  == 2  \* VALUE_OFFSET(ptr)

calculate_cells(n) ==
  IF n <= CellWords - HeaderWords
  THEN 1
  ELSE (HeaderWords + n + CellWords - 1) \div CellWords

closure_cells(c) == calculate_cells(size[c])

\* The heads of the closures that clients hold.
Closures == {c \in Cells : owner[c] = c}

-----------------------------------------------------------------------------
Init ==
  /\ op = [x \in Cells |-> FALSE]
  /\ prev = [x \in Cells |-> IF x < 2 THEN 1 - x ELSE NoCell]
  /\ next = [x \in Cells |-> IF x < 2 THEN 1 - x ELSE NoCell]
  /\ size = [x \in Cells |-> 0]
  /\ persistent = {}
  /\ cells_ptr = 0
  /\ uninit = 2
  /\ alloc_cnt = 0
  /\ err = "none"
  /\ pc = "idle"
  /\ req = 0 /\ chunk = 0 /\ mark = 0 /\ idx = 0
  /\ free = {0, 1}
  /\ owner = [x \in Cells |-> NoCell]
  /\ lost = {} /\ stale = {} /\ sound = TRUE

Ready == pc = "idle" /\ err = "none"

\* The call ends, and its locals with it.
Leave ==
  /\ pc' = "idle"
  /\ req' = 0 /\ chunk' = 0 /\ mark' = 0 /\ idx' = 0

\* longjmp out of the allocator; the call is abandoned where it stands, and
\* with it the cells that it has unlinked so far.
Throw(e, orphans) ==
  /\ err' = e
  /\ lost' = lost \cup orphans
  /\ Leave
  /\ UNCHANGED <<op, prev, next, free, size, persistent, alloc_cnt, owner>>
  /\ UNCHANGED <<stale, sound>>

\* The assertion of cells_next().
NextOK(p) == is_cell(p) /\ ~op[p] /\ is_cell(next[p])

-----------------------------------------------------------------------------
(* Allocation.                                                             *)

\* The caller gets the cells c .. c + k - 1 and fills in the first of them;
\* before and after are the links of the ring.
TakeChunk(c, args, before, after) ==
  LET k    == calculate_cells(args)
      took == c .. c + k - 1
  IN
  /\ op' = [op EXCEPT ![c] = TRUE]
  /\ prev' = [x \in Cells |-> IF x \in took THEN NoCell ELSE before[x]]
  /\ next' = [x \in Cells |-> IF x \in took THEN NoCell ELSE after[x]]
  /\ size' = [size EXCEPT ![c] = args]
  /\ owner' = [x \in Cells |-> IF x \in took THEN c ELSE owner[x]]
  /\ alloc_cnt' = alloc_cnt + k
  /\ \E p \in BOOLEAN :
       persistent' = IF p THEN persistent \cup {c} ELSE persistent \ {c}

\* Does the request exceed a limit, whatever the state of the ring?
TooLarge(k) == k > MaxAlloc \/ alloc_cnt + k > NCells

\* Is there room left in the cells that were never used?
FitsUninit(k) == uninit # NoCell /\ uninit + k <= NCells

AllocLimit(args) ==
  /\ Ready
  /\ TooLarge(calculate_cells(args))
  /\ Throw("limit", {})
  /\ UNCHANGED <<cells_ptr, uninit>>

UninitAfterNone(k) == uninit     \* mutant: the cells are not taken

UninitAfter(k) == uninit + k

AllocUninit(args) ==
  LET k == calculate_cells(args) IN
  /\ Ready
  /\ ~TooLarge(k) /\ FitsUninit(k)
  /\ uninit' = UninitAfter(k)
  /\ TakeChunk(uninit, args, prev, next)
  /\ UNCHANGED <<cells_ptr, free, err, pc, call, ghost>>

\* The rest is given up once not even one cell is left.
UninitLeft(k) == IF k = 1 THEN NoCell ELSE uninit

AllocSearch(args) ==
  LET k == calculate_cells(args) IN
  /\ Ready
  /\ ~TooLarge(k) /\ ~FitsUninit(k)
  /\ uninit' = UninitLeft(k)
  /\ IF NextOK(cells_ptr)
     THEN /\ cells_ptr' = next[cells_ptr]
          /\ req' = args
          /\ chunk' = cells_ptr
          /\ mark' = cells_ptr
          /\ pc' = "search"
          /\ UNCHANGED <<op, prev, next, free, err, idx>>
          /\ UNCHANGED <<size, persistent, alloc_cnt, owner, ghost>>
     ELSE Throw("unexpected", {}) /\ UNCHANGED cells_ptr

\* The cells from c on that look free: no op byte, inside the array.
LooksFree(c, k) == \A x \in c .. c + k - 1 : is_cell(x) /\ ~op[x]

SearchFound ==
  /\ pc = "search"
  /\ LooksFree(chunk, calculate_cells(req))
  /\ pc' = "unlink"
  /\ idx' = 0
  /\ sound' = (sound /\ chunk .. chunk + calculate_cells(req) - 1 \subseteq free)
  /\ UNCHANGED <<ring, heap, err, req, chunk, mark, lost, stale>>

LappedEarly == next[cells_ptr] = mark  \* mutant: gives up one cell early
LappedNever == FALSE                   \* mutant: no mark

\* Is the next candidate the one the search started from?
Lapped == cells_ptr = mark

SearchNext ==
  /\ pc = "search"
  /\ ~LooksFree(chunk, calculate_cells(req))
  /\ UNCHANGED uninit
  /\ IF ~NextOK(cells_ptr)
     THEN Throw("unexpected", {}) /\ UNCHANGED cells_ptr
     ELSE /\ cells_ptr' = next[cells_ptr]
          /\ IF Lapped
             THEN Throw("limit", {})
             ELSE /\ chunk' = cells_ptr
                  /\ UNCHANGED <<op, prev, next, free, req, mark, idx, ghost>>
                  /\ UNCHANGED <<size, persistent, alloc_cnt, owner, err, pc>>

\* The assertions of cell_alloc() on cell c.
Unlinkable(c) ==
  /\ is_cell(c) /\ ~op[c]
  /\ is_cell(prev[c]) /\ ~op[prev[c]]
  /\ is_cell(next[c]) /\ ~op[next[c]]

\* cell_alloc(&c[idx]), and after the last cell the end of closure_alloc_cells.
cell_alloc ==
  LET c == chunk + idx
      last == idx + 1 = calculate_cells(req)
      done == chunk .. c - 1
      before == [prev EXCEPT ![next[c]] = prev[c]]
      after  == [next EXCEPT ![prev[c]] = next[c]]
  IN
  /\ pc = "unlink"
  /\ UNCHANGED uninit
  /\ IF ~Unlinkable(c)
     THEN Throw("unexpected", done) /\ UNCHANGED cells_ptr
     ELSE /\ cells_ptr' = IF cells_ptr = c THEN next[c] ELSE cells_ptr
          /\ IF c = prev[c] \/ c = next[c]
             THEN Throw("limit", done)
             ELSE /\ free' = free \ {c}
                  /\ IF last
                     THEN TakeChunk(chunk, req, before, after) /\ Leave
                     ELSE /\ prev' = before /\ next' = after
                          /\ idx' = idx + 1
                          /\ UNCHANGED <<op, size, owner, alloc_cnt, persistent>>
                          /\ UNCHANGED <<pc, req, chunk, mark>>
                  /\ UNCHANGED <<err, ghost>>

-----------------------------------------------------------------------------
(* Returning cells.                                                        *)

\* The links once the cells first .. last are in the ring, at its tail.
LinkPrevOneWay(first, last) ==  \* mutant: cells_ptr->mem.prev is not set
  [x \in Cells |-> IF x = first THEN prev[cells_ptr]
                  ELSE IF x \in first .. last THEN x - 1
                  ELSE prev[x]]

LinkPrev(first, last) ==
  [x \in Cells |-> IF x = cells_ptr THEN last
                  ELSE IF x = first THEN prev[cells_ptr]
                  ELSE IF x \in first .. last THEN x - 1
                  ELSE prev[x]]

LinkNext(first, last) ==
  [x \in Cells |-> IF x = last THEN cells_ptr
                  ELSE IF x \in first .. last THEN x + 1
                  ELSE IF x = prev[cells_ptr] THEN first
                  ELSE next[x]]

ClearNoOp(first, last) == op  \* mutant: op is not reset

ClearOp(first, last) == [x \in Cells |-> x \notin first .. last /\ op[x]]

Link(first, last) ==
  /\ op' = ClearOp(first, last)
  /\ prev' = LinkPrev(first, last)
  /\ next' = LinkNext(first, last)
  /\ free' = free \cup first .. last
  /\ persistent' = persistent \ first .. last

ShrunkCount(c, s) == alloc_cnt - (closure_cells(c) - s)

\* Return the cells of closure c from the s-th on.
closure_shrink(c, s) ==
  IF closure_cells(c) > s
  THEN /\ Link(c + s, c + closure_cells(c) - 1)
       /\ owner' = [x \in Cells |-> IF x \in c + s .. c + closure_cells(c) - 1
                                    THEN NoCell ELSE owner[x]]
       /\ alloc_cnt' = ShrunkCount(c, s)
  ELSE UNCHANGED <<op, prev, next, free, owner, alloc_cnt, persistent>>

\* The size word of closure c is acted upon.
RelyOn(c) == sound' = (sound /\ c \notin stale)

closure_free(c) ==
  /\ Ready
  /\ closure_shrink(c, 0)
  /\ size' = [size EXCEPT ![c] = 0]
  /\ RelyOn(c)
  /\ UNCHANGED <<cells_ptr, uninit, err, pc, call, lost, stale>>

\* Cells that were never used, up to cell n, are allocated and freed at once.
\* (Once uninitialized_cells is NULL the number of cells that is computed
\* from it means nothing: some closure is allocated and freed, by AllocLimit,
\* AllocSearch and closure_free.)
alloc_to(n) ==
  /\ Ready
  /\ uninit # NoCell /\ uninit < n
  /\ IF TooLarge(n - uninit)
     THEN Throw("limit", {}) /\ UNCHANGED <<cells_ptr, uninit>>
     ELSE /\ Link(uninit, n - 1)
          /\ uninit' = n
          /\ UNCHANGED <<size, cells_ptr, alloc_cnt, owner, err, pc, call, ghost>>

OverwrittenSize(c, args) == [size EXCEPT ![c] = args]

\* A closure is overwritten by one that needs no more cells: forward() and
\* store_dep() leave one cell, replace_cell() as many as the result has.
Overwrite(c, args) ==
  /\ Ready
  /\ calculate_cells(args) <= closure_cells(c)
  /\ closure_shrink(c, calculate_cells(args))
  /\ size' = OverwrittenSize(c, args)
  /\ RelyOn(c)
  /\ UNCHANGED <<cells_ptr, uninit, err, pc, call, lost, stale>>

\* store_fail() gives up all cells but one, and does not set size.
store_fail(c) ==
  /\ Ready
  /\ closure_shrink(c, 1)
  /\ stale' = IF closure_cells(c) > 1 THEN stale \cup {c} ELSE stale
  /\ RelyOn(c)
  /\ UNCHANGED <<size, cells_ptr, uninit, err, pc, call, lost>>

\* The cells that list c keeps when it is truncated to n elements.
CellsAfterShrink(c, n) ==
  IF closure_cells(c) > n + ListOffset THEN n + ListOffset ELSE closure_cells(c)

\* Truncate a list to n elements: closure_shrink() takes a number of cells
\* and is given the number of argument words.
closure_shrink_list(c, n) ==
  /\ Ready
  /\ n + ListOffset < size[c]
  /\ closure_shrink(c, n + ListOffset)
  /\ size' = [size EXCEPT ![c] = n + ListOffset]
  /\ stale' = IF CellsAfterShrink(c, n) # calculate_cells(n + ListOffset)
              THEN stale \cup {c} ELSE stale
  /\ RelyOn(c)
  /\ UNCHANGED <<cells_ptr, uninit, err, pc, call, lost>>

\* A client stores an argument over the op byte of an inner cell x.
StoreArg(x) ==
  /\ Ready
  /\ owner[x] # NoCell /\ owner[x] # x
  /\ \E b \in BOOLEAN : op' = [op EXCEPT ![x] = b]
  /\ UNCHANGED <<prev, next, cells_ptr, free, heap, err, pc, call, ghost>>

\* The program fails for a reason that is not the allocator's.
FailElsewhere == Ready /\ Throw("other", {}) /\ UNCHANGED <<cells_ptr, uninit>>

-----------------------------------------------------------------------------
(* Recovery: an error is caught and every closure that is not persistent   *)
(* is freed.                                                               *)

\* run_eval_irc() and emscripten_eval() go on with the heap as it stands.
CatchAndGoOn ==
  /\ err # "none"
  /\ pc = "idle"
  /\ err' = "none"
  /\ UNCHANGED <<ring, heap, pc, call, ghost>>

CatchError ==
  /\ err # "none"
  /\ pc = "idle"
  /\ pc' = "cleanup"
  /\ idx' = 0
  /\ UNCHANGED <<ring, heap, err, req, chunk, mark, ghost>>

CleanupStepWide == IF op[idx] THEN closure_cells(idx) + 1 ELSE 1  \* mutant

\* How far the loop moves on: over the whole closure.
CleanupStep == IF op[idx] THEN closure_cells(idx) ELSE 1

cleanup_cells ==
  /\ pc = "cleanup"
  /\ idx < NCells
  /\ IF op[idx] /\ idx \notin persistent
     THEN closure_shrink(idx, 0) /\ size' = [size EXCEPT ![idx] = 0]
     ELSE UNCHANGED <<op, prev, next, free, owner, alloc_cnt, size, persistent>>
  /\ idx' = idx + CleanupStep
  /\ sound' = (sound /\ (op[idx] => idx \in (Closures \cup persistent) \ stale))
  /\ UNCHANGED <<cells_ptr, uninit, err, pc, req, chunk, mark, lost, stale>>

\* print_module_bytecode() goes on with the heap it has.
CleanupDone ==
  /\ pc = "cleanup"
  /\ idx >= NCells
  /\ Leave
  /\ err' = "none"
  /\ UNCHANGED <<ring, heap, ghost>>

\* The main loop runs cells_init() again, over cells that are not blank.
Restart ==
  /\ pc = "cleanup"
  /\ idx >= NCells
  /\ Leave
  /\ err' = "none"
  /\ op' = [x \in Cells |-> x >= 2 /\ op[x]]
  /\ prev' = [x \in Cells |-> IF x < 2 THEN 1 - x ELSE prev[x]]
  /\ next' = [x \in Cells |-> IF x < 2 THEN 1 - x ELSE next[x]]
  /\ size' = [x \in Cells |-> IF x < 2 THEN 0 ELSE size[x]]
  /\ persistent' = persistent \ {0, 1}
  /\ cells_ptr' = 0
  /\ uninit' = 2
  /\ alloc_cnt' = 0
  /\ free' = {0, 1}
  /\ owner' = [x \in Cells |-> NoCell]
  /\ lost' = {} /\ stale' = {} /\ sound' = TRUE

-----------------------------------------------------------------------------
Alloc == \E args \in ArgCounts :
           AllocLimit(args) \/ AllocUninit(args) \/ AllocSearch(args)

Return(c) ==
  \/ closure_free(c)
  \/ store_fail(c)
  \/ \E args \in ArgCounts : Overwrite(c, args)
  \/ \E n \in 0 .. size[c] : closure_shrink_list(c, n)

\* The steps of a call that has begun.
Allocator == SearchFound \/ SearchNext \/ cell_alloc

Recovery ==
  CatchAndGoOn \/ CatchError \/ cleanup_cells \/ CleanupDone \/ Restart

Next ==
  \/ Alloc
  \/ \E c \in Closures : Return(c)
  \/ \E n \in Cells : alloc_to(n)
  \/ \E x \in Cells : StoreArg(x)
  \/ FailElsewhere
  \/ Allocator
  \/ Recovery

Spec == Init /\ [][Next]_vars

\* A call runs to its end: the program is sequential and nothing preempts it.
FairSpec == Spec /\ WF_vars(Allocator) /\ WF_vars(Recovery)

-----------------------------------------------------------------------------
(* Properties.                                                             *)

TypeOK ==
  /\ op \in [Cells -> BOOLEAN]
  /\ prev \in [Cells -> Int] /\ next \in [Cells -> Int]
  /\ size \in [Cells -> Nat]
  /\ persistent \subseteq Cells
  /\ cells_ptr \in Cells
  /\ uninit \in {NoCell} \cup 2 .. NCells
  /\ alloc_cnt \in Int
  /\ err \in {"none", "limit", "unexpected", "other"}
  /\ pc \in {"idle", "search", "unlink", "cleanup"}
  /\ req \in Nat /\ chunk \in Cells /\ mark \in Cells /\ idx \in Nat
  /\ free \subseteq Cells
  /\ owner \in [Cells -> Cells \cup {NoCell}]
  /\ lost \subseteq Cells /\ stale \subseteq Cells
  /\ sound \in BOOLEAN

Owned  == {x \in Cells : owner[x] # NoCell}
Uninit == IF uninit = NoCell THEN {} ELSE uninit .. NCells - 1
Taken  == IF pc = "unlink" THEN chunk .. chunk + idx - 1 ELSE {}

\* While the heap is sound, next and prev are inverse to each other on the
\* ring, its members have no op, and cells_ptr is one of them: what
\* cell_alloc() asserts of the neighbours of every cell it unlinks.
RingLinked ==
  sound => /\ cells_ptr \in free
           /\ \A x \in free : /\ ~op[x]
                             /\ next[x] \in free /\ prev[next[x]] = x
                             /\ prev[x] \in free /\ next[prev[x]] = x

\* A closure owns exactly the cells that closure_free() would return, unless
\* store_fail() or closure_shrink_list() has left it with a stale size.
SizeMatches ==
  sound => \A c \in Closures \ stale :
             {x \in Cells : owner[x] = c} = c .. c + closure_cells(c) - 1

\* No cell is at once free, in a closure, half allocated, lost or never used.
Disjoint ==
  sound => /\ \A x \in free : x \notin Owned \cup Uninit \cup Taken \cup lost
           /\ \A x \in Owned : x \notin Uninit \cup Taken \cup lost
           /\ \A x \in Uninit : x \notin Taken \cup lost
           /\ \A x \in Taken : x \notin lost

\* current_alloc_cnt counts the cells of the closures that exist.
Accounting == sound => alloc_cnt = Cardinality(Owned)

\* Every cell is somewhere; only an allocation that fails loses any.
NothingLost == sound => Cells = free \cup Owned \cup Uninit \cup Taken \cup lost

\* Whatever is allocated, shrunk, overwritten, returned, lost to allocations
\* that fail half way, recovered and restarted, in any order: the ring, the
\* closures and the count agree with each other until the code relies on a
\* stale size word, takes a cell that is not in the ring for a free one, or
\* frees what was left over from before a restart (see sound).
HeapSound == RingLinked /\ SizeMatches /\ Disjoint /\ NothingLost /\ Accounting

\* The assertions of cell_alloc() and cells_next() about the ring hold in
\* every call.  They do not: a search may run into cells that are in no ring.
NoUnexpected == [][err = "none" => err' # "unexpected"]_vars

\* While the heap is sound, also after allocations that failed half way and
\* after restarts, no assertion about the ring fails.
SoundNeverAsserts == [][sound /\ err = "none" => err' # "unexpected"]_vars

\* A cell of a live closure is never handed to another one while the heap is
\* sound: it keeps its owner until it is returned.
NeverReissued ==
  [][sound => \A x \in Owned : owner'[x] \in {owner[x], NoCell}]_vars

\* "could not find cells to allocate" is only said when the ring holds no
\* run of that many cells: the search has tried every start.
SearchIsComplete ==
  [][pc = "search" /\ err' = "limit" /\ sound =>
       \A c \in free : ~(c .. c + calculate_cells(req) - 1 \subseteq free)]_vars

\* After cleanup_cells() only persistent closures are left (what leak_test()
\* checks), if it met no stale size and nothing left over from a restart.
RecoveryFreesAll ==
  [][pc = "cleanup" /\ pc' = "idle" /\ sound => Closures \subseteq persistent]_vars

\* A search for cells that begins in a sound heap ends, with the cells or
\* with an error, and after an error the program goes on.
SearchEnds == (pc = "search" /\ sound) \/ err # "none" ~> pc = "idle" /\ err = "none"

\* The states about which the properties say something, and those on the way
\* from there through an error to a restart, which makes the heap sound again.
Explored == sound \/ pc # "idle" \/ err # "none"
=============================================================================

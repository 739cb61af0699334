----------------------------- MODULE TraceMemory -----------------------------
(***************************************************************************)
(* The memory that functions are compiled into: trace_cells of ir/trace.c, *)
(* and compile_word() of ir/compile.c.                                     *)
(*                                                                         *)
(* An entry is a header and the cells behind it.  While it is written it   *)
(* has a block to itself.  A quote, and a function that is specialised for *)
(* a call, gets an entry of its own in the middle of the one that calls    *)
(* it; when it is complete, a cell that calls it is put into its parent.   *)
(* When the word is complete, quotes that are the same are merged, and the *)
(* blocks are moved together over one another.  Calls and parents are      *)
(* numbers of cells, and are changed first.                                *)
(*                                                                         *)
(* The entry that a cell is in is found by walking from the entry that     *)
(* trace_block_map has for the part of the memory.                         *)
(*                                                                         *)
(* What cells mean and which of them condense() keeps is the subject of    *)
(* TraceEntry: here a cell is an item and perhaps a call, every cell has   *)
(* the same size, and any of them may be left.  The scratch space at the   *)
(* other end of the memory is left out.                                    *)
(***************************************************************************)
EXTENDS Integers, Sequences, FiniteSets

CONSTANTS
  TraceSize,  \* trace_cells_size
  BlockSize,  \* ENTRY_BLOCK_SIZE
  MapBlock,   \* MAP_BLOCK_SIZE
  MaxActive,  \* active_entries_size
  Items,      \* what cells are, but for the function that they call
  MaxStarted  \* a bound: the entries that are started

(* With 8000 cells in blocks of 1024 there is an end to the memory before   *)
(* there are 16 active entries.                                            *)
ASSUME MemoryAssumption ==
  /\ {TraceSize, BlockSize, MapBlock, MaxActive} \subseteq Nat \ {0}
  /\ TraceSize <= MaxActive * BlockSize
  /\ MaxStarted \in Nat

VARIABLES
  trace_cells, trace_ptr, trace_block_map,
  active_entries,  \* the entries that are being written, each above the last
  word,            \* the entry of compile_word(), or NoEntry
  doing,           \* the loop that runs, "reduce" when none does
  at, next, index, \* the locals e, ne and i of the loops
  started,         \* ghost: how many entries have been started
  stored,            \* ghost: what was put into each of them
  merged           \* ghost: those that were replaced by one like it

trace == <<trace_cells, trace_ptr, trace_block_map, active_entries, word, doing, at, next,
           index, started, stored, merged>>

NoEntry == -1

Places == 0 .. TraceSize - 1

Zero == [kind |-> "zero"]

(* What is left of a cell that drop_trace() drops is of no use.            *)
Dropped == [kind |-> "dropped"]

(* The id is a ghost.                                                      *)
Header(id, parent, quote) ==
  [kind |-> "entry", id |-> id, n |-> TRUE, len |-> 0, parent |-> parent, quote |-> quote,
   block |-> TRUE, complete |-> FALSE, compact |-> NoEntry]

(* A call is the number of an entry; whom it calls is a ghost.             *)
Cell(item, call, callee) == [kind |-> "cell", item |-> item, call |-> call, callee |-> callee]

is_entry(e) == trace_cells[e].kind = "entry"

is_persistent(e) == is_entry(e) /\ trace_cells[e].n

IdOf(e) == IF e = NoEntry THEN 0 ELSE trace_cells[e].id

trace_entry_size(e) == trace_cells[e].len + 1

trace_entry_next(e) == e + IF trace_cells[e].block THEN BlockSize ELSE trace_entry_size(e)

(* Where that leads beyond trace_ptr: what is not used is zero, and as long *)
(* as one cell; and what is left there of entries that were given up is    *)
(* taken for an entry of one cell, or for a long one.                      *)
NextFrom(e) ==
  CASE trace_cells[e].kind = "entry" -> {trace_entry_next(e)}
    [] trace_cells[e].kind = "zero"  -> {e + 1}
    [] OTHER                         -> {e + 1, e + TraceSize}

Body(e) == e + 1 .. e + trace_cells[e].len

entry_has(e, v) == v \in Body(e)

BlockOf(e) == e .. e + BlockSize - 1

Until(f, id) == [i \in {i \in DOMAIN f : i < id} |-> f[i]]

DivUp(n) == (n + MapBlock - 1) \div MapBlock

-----------------------------------------------------------------------------
TraceInit ==
  /\ trace_cells = [a \in Places |-> Zero]
  /\ trace_ptr = 0
  /\ trace_block_map = [i \in 0 .. DivUp(TraceSize) - 1 |-> NoEntry]
  /\ active_entries = <<>>
  /\ word = NoEntry /\ doing = "reduce"
  /\ at = 0 /\ next = 0 /\ index = 0
  /\ started = 0
  /\ stored = [i \in {} |-> <<>>]
  /\ merged = {}

(* trace_update_block_map(e), from its first round on.                     *)
UpdateBlockMap(e, behind) ==
  /\ doing' = "map"
  /\ at' = e /\ next' = behind /\ index' = DivUp(e)

trace_start_entry(active, parent, quote) ==
  LET e == trace_ptr
      id == started + 1
  IN  /\ id <= MaxStarted
      /\ e + BlockSize < TraceSize
      /\ Len(active) < MaxActive
      /\ trace_cells' = [a \in Places |-> IF a = e THEN Header(id, parent, quote)
                                          ELSE IF a \in BlockOf(e) THEN Zero ELSE trace_cells[a]]
      /\ trace_ptr' = e + BlockSize
      /\ active_entries' = Append(active, e)
      /\ started' = id
      /\ stored' = [i \in DOMAIN stored \union {id} |->
                    IF i = id THEN [cells |-> <<>>, parent |-> IdOf(parent)] ELSE stored[i]]
      /\ UpdateBlockMap(e, e + BlockSize)
      /\ UNCHANGED <<trace_block_map, merged>>

(* compile_word(): trace_init() forgets what an error has left active.     *)
compile_word ==
  /\ doing = "reduce" /\ word = NoEntry
  /\ trace_start_entry(<<>>, NoEntry, FALSE)
  /\ word' = trace_ptr

Reducing == doing = "reduce" /\ word # NoEntry

Active == {active_entries[k] : k \in DOMAIN active_entries}

Current == active_entries[Len(active_entries)]

(* A function is specialised for a call in the current entry; a quote may   *)
(* belong to one below it, whose value is reduced there.                   *)
start_specialized == Reducing /\ trace_start_entry(active_entries, Current, FALSE) /\ UNCHANGED word

compile_quote ==
  /\ Reducing
  /\ \E parent \in Active : trace_start_entry(active_entries, parent, TRUE)
  /\ UNCHANGED word

(* One round of trace_update_block_map().                                  *)
MapRound ==
  /\ doing = "map"
  /\ IF index \notin DOMAIN trace_block_map
     THEN doing' = "reduce" /\ UNCHANGED <<trace_block_map, at, next, index>>
     ELSE IF next <= index * MapBlock
     THEN /\ at' = next /\ next' \in NextFrom(next)
          /\ UNCHANGED <<trace_block_map, doing, index>>
     ELSE /\ trace_block_map' = [trace_block_map EXCEPT ![index] = at]
          /\ IF at >= trace_ptr THEN doing' = "reduce" /\ UNCHANGED index
             ELSE index' = index + 1 /\ UNCHANGED doing
          /\ UNCHANGED <<at, next>>
  /\ UNCHANGED <<trace_cells, trace_ptr, active_entries, word, started, stored, merged>>

-----------------------------------------------------------------------------
(* Cells are put into entries.                                             *)

Room(e) == trace_cells[e].len < BlockSize - 1

(* The memory when a cell is put into entry e.                             *)
trace_alloc(m, e, cell) ==
  [m EXCEPT ![e].len = @ + 1, ![e + m[e].len + 1] = cell]

Given(h, id, item, callee) ==
  [h EXCEPT ![id].cells = Append(@, [item |-> item, callee |-> callee])]

(* Words that were compiled before, and functions that are being compiled,  *)
(* if the entry is inside of them.                                         *)
Callable(e) ==
  {f \in Places : /\ is_entry(f) /\ ~trace_cells[f].quote
                  /\ \/ f < word /\ trace_cells[f].parent = NoEntry /\ trace_cells[f].complete
                     \/ f \in Active /\ f <= e}

store_cell ==
  /\ Reducing
  /\ \E e \in Active, item \in Items, call \in {NoEntry} \union Callable(Current) :
       /\ Room(e)
       /\ call <= e
       /\ trace_cells' = trace_alloc(trace_cells, e, Cell(item, call, IdOf(call)))
       /\ stored' = Given(stored, IdOf(e), item, IdOf(call))
  /\ UNCHANGED <<trace_ptr, trace_block_map, active_entries, word, doing, at, next, index,
                 started, merged>>

block_first_entry(v) == trace_block_map[v \div MapBlock]

(* trace_dep(): the cell goes where the variable v is, which var_entry()    *)
(* finds.                                                                  *)
trace_dep ==
  /\ Reducing
  /\ \E e \in Active : \E v \in Body(e) :
       Room(e) /\ index' = v /\ at' = block_first_entry(v)
  /\ doing' = "find"
  /\ UNCHANGED <<trace_cells, trace_ptr, trace_block_map, active_entries, word, next, started,
                 stored, merged>>

(* The entry in whose block a place is.                                    *)
Owner(v) == CHOOSE e \in Active : v \in BlockOf(e)

(* One round of var_entry(), and the cell when it returns.                 *)
FindRound ==
  /\ doing = "find"
  /\ IF at < trace_ptr /\ is_persistent(at) /\ ~entry_has(at, index)
     THEN at' = trace_entry_next(at) /\ UNCHANGED <<trace_cells, stored, doing>>
     ELSE /\ \E item \in Items :
               /\ trace_cells' = IF at < trace_ptr /\ is_persistent(at)
                                 THEN trace_alloc(trace_cells, at, Cell(item, NoEntry, 0))
                                 ELSE trace_cells
               /\ stored' = Given(stored, IdOf(Owner(index)), item, 0)
          /\ doing' = "reduce"
          /\ UNCHANGED at
  /\ UNCHANGED <<trace_ptr, trace_block_map, active_entries, word, next, index, started, merged>>

-----------------------------------------------------------------------------
(* Entries are completed, or given up.                                     *)

(* The cells that are left, in their order.                                *)
Kept(len) ==
  {f \in UNION {[1 .. k -> 1 .. len] : k \in 0 .. len} :
     \A i \in DOMAIN f, j \in DOMAIN f : i < j => f[i] < f[j]}

(* The memory and the ghost when entry e is complete (trace_end_entry());  *)
(* condense() clears the places that it moves cells from.                  *)
Completed(m, e, f) ==
  [a \in Places |->
     IF a = e THEN [m[e] EXCEPT !.len = Len(f), !.complete = TRUE]
     ELSE IF a \in e + 1 .. e + Len(f) THEN m[e + f[a - e]]
     ELSE IF f # <<>> /\ a \in e + Len(f) + 1 .. e + f[Len(f)] THEN Zero
     ELSE IF a \in e + Len(f) + 1 .. e + m[e].len THEN Dropped
     ELSE m[a]]

Condensed(h, id, f) ==
  [h EXCEPT ![id].cells = [k \in 1 .. Len(f) |-> @[f[k]]]]

(* The end of compile_quote() and func_exec_specialize(): the current       *)
(* entry is complete, and called by its parent.                            *)
trace_end_entry ==
  /\ Reducing
  /\ Len(active_entries) > 1
  /\ LET e == Current
         parent == trace_cells[e].parent
     IN  /\ Room(parent)
         /\ \E item \in Items, f \in Kept(trace_cells[e].len) :
              /\ trace_cells' = trace_alloc(Completed(trace_cells, e, f), parent,
                                            Cell(item, e, IdOf(e)))
              /\ stored' = Given(Condensed(stored, IdOf(e), f), IdOf(parent), item, IdOf(e))
  /\ active_entries' = SubSeq(active_entries, 1, Len(active_entries) - 1)
  /\ UNCHANGED <<trace_ptr, trace_block_map, word, doing, at, next, index, started, merged>>

(* [id] map is nothing: its entry is given up, and those above it.  It      *)
(* computes nothing outside of itself, so no quote above it belongs to an  *)
(* entry below it.                                                         *)
trace_reset ==
  /\ Reducing
  /\ Len(active_entries) > 1 /\ ~trace_cells[Current].quote
  /\ \A e \in Current + 1 .. trace_ptr - 1 : is_entry(e) => trace_cells[e].parent >= Current
  /\ trace_ptr' = Current
  /\ active_entries' = SubSeq(active_entries, 1, Len(active_entries) - 1)
  /\ stored' = Until(stored, IdOf(Current))
  /\ UNCHANGED <<trace_cells, trace_block_map, word, doing, at, next, index, started, merged>>

(* An error.  The main loop leaves everything as it is, print_module_bytecode() *)
(* calls trace_reset_active().                                             *)
Throw ==
  /\ Reducing
  /\ word' = NoEntry
  /\ UNCHANGED <<trace_cells, trace_ptr, trace_block_map, active_entries, doing, at, next,
                 index, started, stored, merged>>

trace_reset_active ==
  /\ doing = "reduce" /\ word = NoEntry
  /\ active_entries # <<>>
  /\ trace_ptr' = active_entries[1]
  /\ active_entries' = <<>>
  /\ stored' = Until(stored, IdOf(active_entries[1]))
  /\ UNCHANGED <<trace_cells, trace_block_map, word, doing, at, next, index, started, merged>>

-----------------------------------------------------------------------------
(* The word is complete.                                                   *)

EndWord ==
  /\ Reducing
  /\ Len(active_entries) = 1
  /\ \E f \in Kept(trace_cells[word].len) :
       /\ trace_cells' = Completed(trace_cells, word, f)
       /\ stored' = Condensed(stored, IdOf(word), f)
  /\ active_entries' = <<>>
  /\ doing' = "dedup" /\ index' = 1
  /\ UNCHANGED <<trace_ptr, trace_block_map, word, at, next, started, merged>>

(* The entry that the cell calls that dedup_subentries() has come to.      *)
Callee == trace_cells[word + index].call

closure_match(a, b) ==
  trace_cells[a].item = trace_cells[b].item /\ trace_cells[a].call = trace_cells[b].call

entries_match(a, b) ==
  /\ trace_cells[a].len = trace_cells[b].len
  /\ \A k \in 1 .. trace_cells[a].len : closure_match(a + k, b + k)

(* dedup_subentries(): the next cell.                                      *)
DedupNext ==
  /\ doing = "dedup"
  /\ IF index > trace_cells[word].len
     THEN doing' = "place" /\ at' = word /\ next' = word /\ UNCHANGED index
     ELSE IF Callee # NoEntry /\ trace_cells[Callee].quote
     THEN doing' = "top" /\ at' = Callee /\ UNCHANGED <<next, index>>
     ELSE index' = index + 1 /\ UNCHANGED <<doing, at, next>>
  /\ UNCHANGED <<trace_cells, trace_ptr, trace_block_map, active_entries, word, started, stored,
                 merged>>

(* top_parent()                                                            *)
TopRound ==
  /\ doing = "top"
  /\ IF trace_cells[at].parent # NoEntry THEN at' = trace_cells[at].parent /\ UNCHANGED doing
     ELSE doing' = "match" /\ UNCHANGED at
  /\ UNCHANGED <<trace_cells, trace_ptr, trace_block_map, active_entries, word, next, index,
                 started, stored, merged>>

(* One round of trace_matching_entry(): an entry like the callee is called  *)
(* instead, and dedup_entry() marks the callee.                            *)
MatchRound ==
  /\ doing = "match"
  /\ IF at < Callee /\ ~entries_match(at, Callee)
     THEN at' = trace_entry_next(at) /\ UNCHANGED <<trace_cells, merged, index, doing>>
     ELSE /\ IF at < Callee
             THEN /\ trace_cells' = [trace_cells EXCEPT ![Callee].n = FALSE,
                                                        ![word + index].call = at]
                  /\ merged' = merged \union {IdOf(Callee)}
             ELSE UNCHANGED <<trace_cells, merged>>
          /\ index' = index + 1 /\ doing' = "dedup"
          /\ UNCHANGED at
  /\ UNCHANGED <<trace_ptr, trace_block_map, active_entries, word, next, started, stored>>

-----------------------------------------------------------------------------
(* trace_compact()                                                         *)

Cleared(m, places) == [a \in Places |-> IF a \in places THEN Zero ELSE m[a]]

(* The loop that computes the new places.                                  *)
PlaceRound ==
  /\ doing = "place"
  /\ IF at >= trace_ptr
     THEN doing' = "refer" /\ at' = word /\ UNCHANGED <<trace_cells, next>>
     ELSE /\ IF trace_cells[at].n
             THEN /\ trace_cells' = [trace_cells EXCEPT ![at].compact = next]
                  /\ next' = next + trace_entry_size(at)
             ELSE trace_cells' = Cleared(trace_cells, BlockOf(at)) /\ UNCHANGED next
          /\ at' = at + BlockSize
          /\ UNCHANGED doing
  /\ UNCHANGED <<trace_ptr, trace_block_map, active_entries, word, index, started, stored, merged>>

CompactOf(e) == IF is_entry(e) THEN trace_cells[e].compact ELSE NoEntry

CallAfter(call) == IF call > word /\ CompactOf(call) # NoEntry THEN CompactOf(call) ELSE call

(* mutant: calls are moved, parents are not *)
ParentStays(parent) == parent

ParentAfter(parent) == IF parent > word THEN CompactOf(parent) ELSE parent

(* The loop that updates references.                                       *)
ReferRound ==
  /\ doing = "refer"
  /\ IF at >= trace_ptr
     THEN doing' = "move" /\ at' = word /\ UNCHANGED trace_cells
     ELSE /\ trace_cells' =
               IF ~is_persistent(at) THEN trace_cells
               ELSE [a \in Places |->
                       IF a = at THEN [trace_cells[a] EXCEPT !.parent = ParentAfter(@)]
                       ELSE IF a \in Body(at) THEN [trace_cells[a] EXCEPT !.call = CallAfter(@)]
                       ELSE trace_cells[a]]
          /\ at' = at + BlockSize
          /\ UNCHANGED doing
  /\ UNCHANGED <<trace_ptr, trace_block_map, active_entries, word, next, index, started, stored,
                 merged>>

Least(a, b) == IF a < b THEN a ELSE b

(* memmove(), and memset() of what was left behind.                        *)
Moved(e) ==
  LET to == trace_cells[e].compact
      size == trace_entry_size(e)
      zero_size == Least(size, e - to)
      header == [trace_cells[e] EXCEPT !.block = FALSE, !.compact = NoEntry]
  IN  [a \in Places |->
         IF a = to THEN header
         ELSE IF a \in to .. to + size - 1 THEN trace_cells[e + (a - to)]
         ELSE IF a \in e + (size - zero_size) .. e + size - 1 THEN Zero
         ELSE trace_cells[a]]

(* The loop that moves entries, and the end of compile_word().             *)
MoveRound ==
  /\ doing = "move"
  /\ IF at >= trace_ptr
     THEN /\ trace_ptr' = next
          /\ UpdateBlockMap(word, trace_entry_next(word))
          /\ word' = NoEntry
          /\ UNCHANGED trace_cells
     ELSE /\ trace_cells' = IF is_persistent(at) THEN Moved(at) ELSE trace_cells
          /\ at' = at + BlockSize
          /\ UNCHANGED <<trace_ptr, word, doing, next, index>>
  /\ UNCHANGED <<trace_block_map, active_entries, started, stored, merged>>

-----------------------------------------------------------------------------
TraceNext ==
  \/ compile_word \/ start_specialized \/ compile_quote \/ MapRound
  \/ store_cell \/ trace_dep \/ FindRound
  \/ trace_end_entry \/ trace_reset \/ Throw \/ trace_reset_active
  \/ EndWord \/ DedupNext \/ TopRound \/ MatchRound
  \/ PlaceRound \/ ReferRound \/ MoveRound

TraceSpec == TraceInit /\ [][TraceNext]_trace

-----------------------------------------------------------------------------
(* Properties.                                                             *)

(* The cell says what was put there: the same item, and a call of the same  *)
(* function, or of one that was found to be like it.                       *)
Says(cell, was) ==
  /\ cell.kind = "cell"
  /\ cell.item = was.item
  /\ IF was.callee = 0 THEN cell.call = NoEntry
     ELSE /\ cell.call \in 0 .. trace_ptr - 1 /\ is_entry(cell.call)
          /\ stored[IdOf(cell.call)].cells = stored[was.callee].cells

(* Entry e has everything that was put into it, and its parent.            *)
Holds(e, was) ==
  /\ trace_cells[e].len = Len(was.cells)
  /\ \A k \in 1 .. trace_cells[e].len : Says(trace_cells[e + k], was.cells[k])
  /\ IF was.parent \in merged \union {0} THEN trace_cells[e].parent = NoEntry
     ELSE /\ trace_cells[e].parent \in 0 .. trace_ptr - 1
          /\ is_entry(trace_cells[e].parent) /\ IdOf(trace_cells[e].parent) = was.parent

(* Every entry that was started, and neither given up nor merged, is there  *)
(* whole, below trace_ptr, and the cells that call it do so where it is     *)
(* now, whatever was written, dropped, merged and moved over it since; and  *)
(* a cell that is added for a variable is in the entry of the variable     *)
(* (trace_compact(), dedup_entry(), var_entry()).                          *)
EntriesKept ==
  doing = "reduce" =>
    \A id \in DOMAIN stored \ merged :
      \E e \in 0 .. trace_ptr - 1 : is_entry(e) /\ IdOf(e) = id /\ Holds(e, stored[id])
=============================================================================

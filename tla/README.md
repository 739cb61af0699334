# Verification of PoprC

PoprC compiles and interprets Popr, a concatenative language in which an
expression may have several results. It is a single-threaded C program: a parser builds
a graph of reference-counted cells, the runtime reduces that graph lazily and splits it
into alternatives where it meets a choice, and a tracer records the reduction of a
function so that it can be emitted as C or Verilog.

This directory holds TLA+ modules translated from that code, TLC runs over small
instances, and TLAPS proofs for every size of the instance. `PROJECT.json` maps each
definition to the lines it stands for, and lists the runs, their mutants, the theorems,
the hazards and the findings.

## 1. Inventory

| Component | Source | State | Operations | What is hard, and what has to hold |
|---|---|---|---|---|
| Cell heap | `cells.c` | the array of cells, a ring of free cells (`cells_ptr`), `uninitialized_cells`, `current_alloc_cnt` | allocate, shrink, free, `alloc_to`, `cleanup_cells` | an allocation may throw half way; sizes are recomputed from a field clients change; cells above `uninitialized_cells` are in no ring. No cell in two places, none lost, searches end and are complete. |
| References | `cells.c`, `rt.c` | `n` of each cell | `ref`, `drop`, `copy`, `unique`, `take` | cells are rewritten in place while others refer to them. Count = references, nothing left at the end. |
| Reduction runtime | `rt.c` | the graph, the stack of contexts, `alt_cnt` | `reduce`, `reduce_arg`, `split_arg`, `store_*`, `abort_op` | operators hold `c` over calls that rewrite the graph; shared arguments are split under their users. Every combination of choices exactly once. |
| Roots | `rt.c`, `startle/support.c` | `rt_roots`, a hash set of addresses | `insert_root`, `remove_root` | removals leave holes in chains of displaced keys. |
| Lists and quotes | `list.c`, `rt.c`, `mutate.c` | cells of type list | iterators, `compose`, `arg_nd`, path copies | a list goes on in its row; a quote shares incomplete functions with others. |
| Primitives | `primitive/*.c` | arrays and files | one function per word | second argument fails after the first was split; overflow of ranges; keys of arrays. |
| Variables, user functions | `var.c`, `special.c`, `user_func.c` | trace entries, positions, the `tmp` field of each cell | bounds, expand, specialise, unify | ranges pushed backwards through operators; a call becomes alternatives of every output that is wanted. |
| Trace and compilation | `ir/*.c` | the trace of an entry; the memory all entries are in | append, switch entry, dedup, condense, analyse; start, complete, give up, merge, compact | a value may be found again that was stored under other conditions; last uses across branches; entries moved over one another while others refer to them by place. |
| Modules, lexer, parser | `module.c`, `parse/*.c` | maps from names to definitions; a stack per open bracket | import, look up, compile, read | order of imports, definitions that compile each other, errors in the middle of nested quotes. |
| Buffered input, arrays, IRC | `io.c`, `irc.c`, `primitive/io.c` | one ring buffer per file, one shared by stdin and irc; the time of the next message | open, close, read, push back, seek, write | texts are pushed back into a buffer of the same size; lines begun in one call and ended in another, with errors between. |
| Sorted maps | `startle/map.c` | an array of pairs and a count, whose bits are the lengths of sorted runs | insert, merge, union, replace, sort, look up, iterate | equal keys, merges in place that call themselves, estimates carried from run to run. |
| Support library | `startle/support.c` | ring buffer, hash set, escapes | | boundaries: full, empty, wrapped, overfull. |
| Log and errors | `startle/log.c`, `startle/error.c` | a ring of words, contexts in C frames, `catch_error` | log, open and close contexts, throw, catch | contexts added lazily to a ring that overwrites itself; an error leaves frames at once. |
| Generators, Verilog primitives | `gen/*.c`, `vlgen/*.v` | none, or registers of a circuit | print; handshakes | what the generated C does with blocks and references. |
| Command loop | `eval.c`, `command.c`, `startle/static_alloc.c` | flags, sizes, the previous result | run arguments, evaluate, recover, reinit | starts over with the same arguments on the memory of the session that failed. |
| Debugging aids, makeheaders | `debug/*`, `startle/makeheaders` | | | output for developers; third-party tool. Not modelled. |

How they interact: everything allocates from the cell heap and gives cells up through the
runtime (`drop`, `forward`, `store_fail`, `closure_shrink`). The parser builds the graph that
the runtime reduces; names are looked up in modules, which compile definitions on demand
by reducing them over variables and tracing that. An error anywhere is a `longjmp` to the
innermost `CATCH`: the command loop, the IRC loop, or a printer in `module.c`. The runtime
keeps its local variables known to the reference checker through the root set. There are no
threads; what interleaves are the steps of nested reductions, each of which may rewrite
cells that an outer one holds, and messages, timers and prompts with the evaluation they
serve.

## 2. Modules

| Module | Models | Extends / uses |
|---|---|---|
| `CellHeap` | the allocator of `cells.c`, the ways the runtime gives cells up, error recovery in `eval.c` and `module.c` | |
| `CellHeapProofs` | theorems about `CellHeap` | TLAPS |
| `Fifo` | what a ring buffer promises: a bounded queue | |
| `RingBuffer` | `rb_*` of `startle/support.c` | refines `Fifo` |
| `RingBufferProofs` | theorems about `RingBuffer` | TLAPS |
| `TextFile` | text input with push-back, `io.c` and the reader of `irc.c` | composes `RingBuffer` |
| `TextFileProofs` | theorem about `TextFile` | instantiates `RingBufferProofs` |
| `Arrays` | arrays in a map and over mapped files, `primitive/io.c` | |
| `Irc` | lines, prefixes and rate of the IRC client, `irc.c` | |
| `Log` | the ring of the log, contexts, errors: `startle/log.c`, `startle/error.c` | |
| `MCInputOutput` | a behaviour of one of `TextFile`, `Arrays`, `Irc`, `Log` | these |
| `HashSet`, `HashSetProofs` | `set_*` of `startle/support.c`, theorems | TLAPS |
| `Sorting` | quicksort and the searches of `startle/support.c` | |
| `LibraryProofs` | theorems about `Sorting` and `Lists` | TLAPS |
| `Strings`, `StringWords` | escaping and unescaping; the words on strings and the memory of a string | |
| `Highlight` | the places of failures, flattened and underlined in a source | |
| `Lists` | iterators over lists with rows, `list.c` | |
| `Runs` | pairs, their order, and the stable merge of two runs | |
| `MergeRuns` | `merge()` and `merge_with_buffer_fast()` of `startle/map.c` | `Runs` |
| `MergeProofs` | theorem about `MergeRuns` | TLAPS |
| `BlockMerge` | `merge_huang88()` | `MergeRuns` |
| `SortedMap` | maps: insertion, merging, union, sorting, look-up, iteration | `Runs` |
| `MCLibrary` | a behaviour of one part of the support library | these |
| `Reduce`, `MCReduce` | reduction of an expression: graph, runtime, primitives, list of results | |
| `Quotes` | quotes composed, given arguments and taken apart; path copies of `mutate.c` | |
| `MCQuotes` | a behaviour of `Quotes` or of `TraceMemory` | these |
| `TraceEntry` | a function written down: `ir/trace.c`, conditions of `var.c`, condensing | |
| `TraceMemory` | the memory of entries: `ir/trace.c`, `compile_word()` of `ir/compile.c` | |
| `TraceMemoryProofs` | theorems about `TraceMemory` | TLAPS |
| `Cgen` | analyses of `ir/analysis.c` and a machine that runs what `gen/cgen.c` prints | `TraceEntry` |
| `Expand` | a call of a compiled function is expanded: `user_func.c` | `TraceEntry` |
| `Saturation` | saturating arithmetic, ranges of operators, widths of registers | |
| `Ranges` | bounds down to the variables, ranges back up | `Saturation` |
| `MCCompile` | one function through `TraceEntry`, `Cgen`, `Expand`, or through `Ranges` | these |
| `Lexer` | text to tokens | |
| `Parser` | tokens to a graph, error paths included | |
| `Modules` | files, imports, look-up, and words that compile each other | |
| `MainLoop` | arguments, rc file, input, errors, reinitialisation | |
| `OuterLoopProofs` | theorems about `Irc` and `MainLoop` | TLAPS |
| `MCFront` | a behaviour of one of the four | these |

A definition has the name of the function it translates where there is one. Where a
behaviour of an MC module uses one of several components (variable `part`), the others
keep their initial state.

### CellHeap

`op`, `prev`, `next`, `size`, `persistent` are the fields of the cells, `cells_ptr`,
`uninit` and `alloc_cnt` the globals. A call of the allocator is atomic where nothing can
cut it short; the search for a chunk (`SearchFound`, `SearchNext`), the unlinking of its
cells (`cell_alloc`) and `cleanup_cells` are one iteration per step, because an error
leaves them in the middle. Clients are modelled by what they may do: `closure_free`,
`Overwrite` (`forward`, `store_dep`: shrink, then set the size), `store_fail` (which does
not), `closure_shrink_list`, `StoreArg` (any byte in a cell after the first of a closure).
`CatchAndGoOn` is a client that catches an error and keeps the heap, `Restart` the main loop that starts over on the cells
of the session before. No action is restricted to cases that go well.

Ghosts: `free` and `owner`, and three that record where the code leaves its own discipline. `lost`: the cells
that an allocation had unlinked before it failed. `stale`: the closures whose size no longer says how many cells
they have (`store_fail`, `closure_shrink_list`). `sound`: the code has not yet acted on either as if
nothing were wrong, that is, taken cells outside of the ring for a chunk, used a stale size, or freed what was left
from before a restart. The properties speak of what holds until then; that `sound` does become false is
the first finding (section 3).

### RingBuffer, Fifo, TextFile

`head` and `tail` may stand at `RingSize` as well as at 0, as in the code, and every length
allows for both. `Fifo` has the queue only; `RingBuffer` implements it with
`queue <- Contents` (`IsQueue`), and moreover each call with its argument is that operation
of the queue. `TextFile` numbers the characters of the input, so "in order" can
be said of a text. A file's buffer is new on open; the streams stdin and irc keep theirs.
`Junk` is what `malloc` leaves in the positions of a new buffer: anything within its data, for the first call leaves the array with
other values. A program may push back up to `MaxParts` texts before the next read, more than fits. Ghosts say what it is owed
(`due`, in how many parts: `given`) and whether a new buffer was not empty and nothing has cleared it yet (`junk`). `RingSize` and `InputBuf` are both 1024 in
the code (`io.c:51`, `io.c:124`, `eval.c:93`), and the model assumes them equal.

### Arrays, Irc, Log

`Arrays` keeps the code's key, `Key(id, addr)`, with its width, and the bytes of mapped files.
`Irc` has one action for each way a line is written, ended or printed. Evaluation is any
sequence of writes, reads and push-backs with any end, and `Tick` may come between any two
steps. `count` is a ghost: the messages sent up to each time. `torn` is a ghost as well: something
was printed into a line that had been begun.
`Log` is the ring with its wrap, contexts as records in frames that are written to the log
when something is logged inside them, and frames that an error leaves.

### HashSet

One iteration of the loop of `set_insert()` per step. Clients insert any key, also one that the set has: the root of an
aborted reduction stays in `rt_roots` and is inserted again (`primitive/core.c:461`, `516`). Such an insertion stops at
the hole that a removal has left, before it comes to the key, and gives it a second slot. The ghosts `holes` (a slot was emptied since
the array was empty) and `again` (the keys inserted while the set had them, and holes) say when this may be.

### Runs, MergeRuns, BlockMerge, SortedMap

`MergeRuns` is one call on two sorted runs, a step one iteration of a loop; `calls` is the
C stack of merges, because `merge()` calls itself in the middle of an iteration when its
queue has become expensive. `a`, `q`, `h`, `b` and `end` are the pointers of the code,
as places. `Rebalance` is the constant 1 << 7 of the code, made smaller so
that short runs reach the inner call. Every pair has its first place as value, so
stability can be told. In place it is kept until `merge()` has called itself (the ghost `how`
is "rebalanced" from then on): the inner call makes pairs of the first run part of `b`, and those
with the same key that are still in `a` come before them. With a buffer it is kept
for runs of the same length (`Stable`). `BlockMerge` has a step for each part of
`merge_huang88()` and for each round of its long loops.

`SortedMap` is the map on top: a merge there is its result, `Merged` of `Runs`. That is what
a stable function gives (`MergesRuns`; the `ASSUME MergedIsStable` of `MCLibrary` compares the
two), and all that the maps of the run can meet: `merge()` calls itself only after more than
`1 << 7` swaps in one iteration. In longer maps with repeated keys a merge may put an older
pair last. Look-up is translated with its estimates (`find_last`, `map_find_iter`). In `mode`
"repeats" keys are inserted again and again (the switch map of the trace, joined modules); in "distinct" pairs are replaced by
`map_replace_insert` or `module_set`.

### Reduce

`m` is the memory: cells, and roots (the variable of `eval()` and one local `p` of
`func_dep` for each depth) as cells with one argument, so that every reference is a place
in memory. `stack` is the C stack: a frame is one `context_t` with the locals of the
operator that reduces its arguments. An action is one operator from its entry to the first
argument it reduces (`func_*`), the return of an argument with the split that follows it
(`reduce_arg`, `reduce_arg_fail`), or what it does with its reduced arguments
(`finish_*`). `Answer` is the loop of `reduce()` and `reduce_list()`: what is called next
after an operator has answered. The operators on memory (`Drop`, `Forward`, `SplitArg`,
`DupAlt`, `AbortFail`, `StoreLazy`, ...) are the functions of `rt.c` and `cells.c` of the
same name, applied to a memory they are given, so that an action is the whole function.

`Read` and `Eval` are `parse_subexpr()` and `eval()`: they build the graph of a sequence of
words. At the same time `meaning` records what the sequence denotes, by a definition that
knows nothing of the graph: a stack of sets of results, each with the choices it depends
on, combined where the choices do not conflict. The definition was also compared with the
program itself on 1200 random expressions, without a difference.

Left out of `Reduce`: variables and tracing (with them DELAY, priorities and ranges), rows,
positions, floats, strings. Sizes of cells are `CellHeap`'s subject: here every closure takes
one place, so `forward` and `replace_cell` always fit.

### Quotes

A step is one of `.`, `pushl`, `pushr`, `quote`, `popr` on operands that are reduced.
`meaning` is what the operations so far make of each operand, as a list of words. The path
copy threads its cells through `tmp` and settles the counts at the end, as the code does.
Any quote may be pushed on or composed with any other, whatever functions they share. The ghost `twofold` marks an operand that was
given an argument while it held the same incomplete function itself and in a quote inside it: the code fills the
function in for both (see "also seen"). Rows and variables in quotes are left out.

### TraceMemory

`trace_cells` is the array: headers of entries, cells, and places that are zero or hold what is left of cells that
were dropped. Every cell takes one place. `compile_word`, `start_specialized` and `compile_quote` start an entry in a
block of its own; `store_cell` and `trace_dep` put cells into active ones; `trace_end_entry` completes the current
one and puts the cell that calls it into its parent; `trace_reset`, `Throw` and `trace_reset_active` give entries
up; `EndWord` begins what `compile_word()` does when the word is complete. Each loop is taken a round at a time, with its
locals in `at`, `next` and `index`: `trace_update_block_map()` (`MapRound`), `var_entry()` (`FindRound`),
`dedup_subentries()` (`DedupNext`, `TopRound`, `MatchRound`), and the three of `trace_compact()` (`PlaceRound`,
`ReferRound`, `MoveRound`). Ghosts number the entries and keep what was put into each (`stored`) and which were replaced by
one like them (`merged`). Where a loop comes to places that are not in use, it reads what is there (`NextFrom`).

Left out: what cells mean and which of them `condense()` keeps (any may be kept here; the rest is
`TraceEntry`'s subject), the scratch space at the other end of the memory, and cells of more than one place.
Recursion is there only as calls of functions that are being compiled; starting over with an empty memory
(`trace_reinit()`) is the initial state again.

### TraceEntry, Cgen, Expand, Ranges

`TraceEntry` appends cells as reductions produce them, in any order that reduction can. Each value of
the reducer carries a term over the inputs and the conditions it was reached under, and
the finished entry is compared with that. `Cgen` runs the generated blocks, jumps and
reference counts on the entries; `Expand` puts an entry in the place of a call, with any
of its outputs wanted, and compares results and counts (`InstanceExact`: both at once). `Ranges` reads programs of seven
nodes over `Saturation` with `MAX` as the greatest integer, and computes each node's value for
every pair of arguments beside the range the code gives it. The ghost `narrowed` says that one of the formulas has
been used that are known to lose values (`LosesBound`, `LosesRange`); `RangesContain` is claimed until then.

The machine of `Cgen` notes each value that is read after it was handed over (`reread`). `HandedOverOnce` allows it for two kinds
of values, in any entry: those read under a condition and past it (`ReadPast`), and those read by what cannot be skipped (`ReadNoSkip`).
`SeparateCodeMeans` is about entries in which every condition belongs to one alternative and every cell to a block that reads it; others
are known to go wrong (see "also seen").

### Lexer, Parser, Modules, MainLoop

`Lexer`: one call of `tok()` per step. Comments are compared with the rules of `org/lang_spec.org:28`, in texts that these rules read in one way
and in which no two underscores that start or end one are next to each other but for one character (`Crowded`): `skip_comment()` does not see the second. `Parser`: one turn of the loop over tokens per step,
frames for the open brackets, and the unwinding of an error level by level. `Modules`: a task is
the C stack of compilations that started each other; what a name means in the text of the files is
computed apart from the maps (`Scope`). A word may be found to call a placeholder where its definition and that of the word need each
other, or where an error has cut it short while bytecode was printed, and nowhere else (`CallsWhatItMeans`). `MainLoop`: arguments, the rc file and the typed lines
are run with the flags of `eval.c`, and `Catch` is the `longjmp`. `load` opens as many files as there is room for (`files_held`): those of the
sessions before an error stay open, and are only closed when memory is allocated anew.

## 3. Runs

| Run | Question | Bounds, and why they are enough |
|---|---|---|
| `heap` | is the heap sound under every order of calls, failures and restarts, as long as the code has not relied on what it left unsound? | 5 cells, closures of one and two cells (1 and 5 arguments): chunks between other chunks, a ring that is not contiguous, a chunk that wraps in the ring, a full heap, an allocation that fails at its second cell, failures and lists with stale sizes. `CONSTRAINT Explored`: not beyond the point where `sound` is false, but for the way through an error to a restart, which makes it true again. |
| `heap_live` | do searches end? | 4 cells, closures of one, two and three cells |
| `heap_asserts` | violation: a search takes cells that were never used | 5 cells, closures of one and two cells |
| `input_output` | are texts read in order, arrays kept, lines addressed and limited, contexts found? | buffers of 4, which hold 3 characters, and an input of 4, so that it wraps in the buffer; new buffers with positions at 0, in the middle and at the end; two parts pushed back, so more than fits; an array map of 2 and addresses that reach the bits of the id; a period of 2, one message in advance and time up to 9, so that the client is silent, bursts, and is silent again; a log of 5 words, so it overwrites itself under open contexts |
| `log_irc` | violation: contexts that an error left | the same, with the `CATCH` of the IRC loop |
| `library` | does the support library do what it promises on small inputs? | ring buffer of 4 with every pair of positions and every wrap; 4 slots and 5 keys of which three share a home; arrays of up to 5 rows with 4 keys; strings of up to 4 of nine characters and an escape buffer of 8 that is left full; lists in up to 4 rows; 4 words on strings; maps of 8 pairs, so every count from 0 to 8; runs of up to 4, and of 6 and 5, of three keys, and every order of runs of 8 and 6, 6 and 9, 7 and 5, 3 and 7 with `Rebalance` 2, so that merges call themselves, also twice deep and with keys that repeat |
| `strings` | violation: a string of a full block has no NUL | strings of up to 7 bytes in pointers of 8 |
| `reduce` | are references counted, results right, cells returned, and does it end? | all expressions of up to 5 words over nine words, and seventeen longer ones in which copies or guarded values meet (up to 11 words); 30 cells and depth 12, which are not reached |
| `reduce_shared` | violation: choices are lost when a shared value becomes an alternative | four expressions with two direct references to a cell |
| `quotes` | does each quote stay what its own operations made it, and each compiled entry what was put into it? | a value and two quotes lacking up to two arguments, 4 operations, 4 operands: a path copy over a path copy, and both taken apart again; a memory of 10 places in blocks of 3, so three entries of up to two cells, which can be a word with two quotes that are the same, one inside of the other, or two words, with one to give up; parts of the map of 4 places, so that an entry is before, behind or across a part |
| `compiled` | does what is compiled mean what was reduced, in C and expanded; do ranges hold? | entries of up to 9 cells, two inputs, two outputs, three returns, functions that can fail and that return two values; ranges over -8 .. 7, every pair of arguments, quotients by variables and by negative constants among the programs |
| `front` | do words mean the same to every part, after any error, and does all of it end? | texts of up to four of seven words with underscores, so that a comment with another one inside is closed and followed by more, and every text of up to 4 characters; programs of up to 4 tokens over 11, with limits of 3 arguments and depth 3; two files with imports, recursion, module expressions and undefined names; room for one or two open files, so that it is used up after two errors; up to 3 arguments, and up to ten that set sizes twice, around a reinit; five rc files, six inputs |

`CHECK_DEADLOCK FALSE` where behaviours end: programs, files, texts and entries do, and an
error that nobody expects ends the program. In `reduce` and `reduce_shared` deadlock is checked: no cell is ever in a
state for which no operator is defined.

Each property of a passing run has a mutant in `PROJECT.json`: a mapped definition with a
plausible bug (the definitions marked `mutant`), under which the run fails with that
property.

Fairness. `FairSpec` of `CellHeap` assumes that a call that has begun goes on and that an error is
caught: the program is sequential and does nothing else meanwhile. `Fairness` of `Reduce`
assumes that steps are taken as long as `eval()` is reducing, and `Uninterrupted` of `Modules` as
long as something is being compiled; both are weak fairness of the step,
written without ENABLED. `FrontSpec` also has weak fairness of the steps of the main loop, which
does not stop on its own. None of them assumes that clients call anything.

### Findings

1. `heap_asserts`: the search of `closure_alloc_cells()` (`cells.c:216`) looks at op bytes alone and takes cells that were never used
   for free ones; `cell_alloc()` then fails its assertion on their links (`cells.c:135`).
2. `log_irc`: `run_eval_irc()` (`irc.c:187`) catches errors without closing the contexts they
   left, against `startle/log.c:511`.
3. `strings`: `alloc_string()` (`cells.c:161`) stores the number of unused bytes over the NUL
   when the string fills its block, against `cells.c:152`.
4. `reduce_shared`: `set_alt()` (`primitive/core.c:62`) overwrites the choices of a value, against
   `org/ttpl_slides.org:283`. In the language: `[1 2 | 1 +] dup [10 |] . head swap head swap +`
   has results that follow both choices of one alternative.

### Also seen

Met while modelling, and without a run of their own.

Heap and runtime
- `store_fail()` (`rt.c:666`) leaves `size` as it was; when the closure had several cells they
  are freed twice; `closure_shrink_list()` (`cells.c:298`) shrinks to as many cells as the list has words.
- `cells_init()` (`cells.c:117`) clears two cells of the array the main loop starts over
  with: `cleanup_cells()` may take an op from before for a closure, and a search may not end after that. An allocation
  that throws half way leaves cells that a later search takes again (`cells.c:228`).
- `set_insert()` gives a key that the set has a second slot when it comes to a hole first (`support.c:557`).
- `[+] dup pushr 10 swap pushl` prints `[10 + [10 +]]`: a quote that holds itself is copied on
  a path that misses the outer use (`rt.c:638`; `Twofold`).
- `1 2 False ! 3 False ! unless unless` is merged into one `unless` (`primitive/core.c:198`).
- `+ ?? + ??` fails.

Arithmetic
- `-2 *` and `-3 *` have an empty range (`primitive/arithmetic.c:103`); the range of a quotient
  likewise. `dup 2 / 1 == !`, `dup 1 >= ! 10 swap /` and `dup -1 >= ! 3 *` compile to the wrong range, the
  last one divides by zero (`startle/support.c:1328`). `sat_muli()` tests `x` twice (`support.c:1341`).
- `-1 ->bin <-bin` is 4294967295; literals above 127 in escapes become negative (`cells.c:175`).

Compilation
- `tt: ...` uses a value of a block that was skipped; `f: dup fa swap fb | ...` reaches
  `assert_error(sym4)`; `20 f` sees the input's number (`var.c:222`); constants 1.5 and 2.5
  are taken for one; an assertion shared by two returns, a range narrowed by one of them, and a value handed
  over on two ways are wrong in the generated C (`gen/cgen.c:338`).
- An error leaves the blocks of the entries that were being compiled in memory: the main loop does not call
  `trace_reset_active()` (`eval.c:237`), so after seven such errors there is no room for a block in the 8000 cells until the session starts over.
- `get_scratch()` clears no scratch space: it moves `scratch_ptr` before it takes the difference (`ir/trace.c:556`).
- Modules: a module expression is freed while its map is in use; an error leaves a half-built module behind
  (`module.c:312`); `:define f: 1 2 +` frees twice; `files_cnt` is not reset (`eval.c:797`);
  words that call each other print `??` and stay marked as being traced; `free_modules()`
  clears a local only (`module.c:258`).

Library
- `map_next()` (`startle/map.c:988`) steps back out of its run into the one before, so that an
  iteration may visit pairs twice; `map_find()` may return an older one of several pairs
  with a key (`map.c:950`), and `map_find_recent()` one that is not the newest (`map.c:1027`).
- `merge()` is not stable once it has merged its queue (`map.c:228`): that takes more than 128 swaps in
  one iteration. The newest of several pairs with a key may then not be the last one.
- `merge_with_buffer_fast()` is not stable when the first run is longer than the second, and loses
  pairs when it is shorter, which no caller asks for.
- Printing: sixteen unprintable characters fill the escape buffer exactly (`support.c:941`); quotes in
  strings are not escaped; NUL before a digit is read back as another character.
- `alloc_ring_buffer()` (`io.c:76`) leaves `head` and `tail` as `malloc` found them: the first read of a file may give what
  was never in it. `io_unread()` (`io.c:121`) loses what does not fit when several parts are pushed back.
- `log_fail()` reads a segment that is not set; a tag of 2^24 - 1 is taken for none; a context
  dropped inside another stays on the list (`log.c:375`).

Input, output and the loop
- IRC: a private message is answered with an empty name; a channel is taken for one whose name it begins with
  ("#testing" for "#test"); results are not counted against the rate; what a program prints without a newline is
  cut by a result or a ping.
- Arrays: an address of 65537 is that of another array; a full map loses the write and reports
  success; `new_mmap_array()` returns NULL to a caller that does not look; the last element of a
  mapping may be read beyond it.
- The `-single` option evaluates a second line after an error (`eval.c:155`); `:reinit` typed as a
  line ends the program (`eval.c:1130`); a failure whose place lies before the source is
  underlined at its beginning (`eval.c:673`); `static_alloc.c:146` aligns sizes instead of
  offsets.

## 4. Proofs

All theorems hold for every value of the constants under the `ASSUME`s of their module.

**CellHeapProofs.** `TypeCorrect`: the inductive invariant `TypeInv` adds to `TypeOK` that
every closure fits in the array (`SizesFit`), without which a free could leave it.
`HeapSafe` proves `RingLinked`, `SizeMatches`, `Disjoint` and `NothingLost`, for every operation, failure and
restart, each as long as `sound` is true. None of them is
inductive alone: linking a run of cells needs to know that the run is owned, that it is
owned by this closure only and that its neighbours in the ring are free. `HeapInv` is their
conjunction with the state of a call in progress (`Calls`): what is unlinked so far, and
where the search stands. The step lemmas are by operation (`AllocHeap`, `AllocatorHeap`,
`ReturnHeap`, `AllocToHeap`, `StoreArgHeap`, `RecoveryHeap`), over two lemmas about the list
surgery, `LinkRing` and `ShrinkHeap`. `LiveCellsKept` is the action property `NeverReissued`.

More follows from `HeapInv`. `HeapAlwaysSound` (`HeapSound`): the counter of the allocator
is exact. It counts what is owned, and is moved before the cells are when
an allocation begins and after them when it is recovered. `AssertionsHold` (`SoundNeverAsserts`): what an
allocation in progress has found in the ring is still there when it unlinks it. `RecoveryComplete`
(`RecoveryFreesAll`): the loop of `cleanup_cells()` goes from head to head, because the cells behind a head
are its own. `SearchComplete` (`SearchIsComplete`): the ghost set of what was tried is the
part of the ring that the search has passed. That needs the ring to be one cycle, which is an
invariant by itself: every operation cuts or joins the one cycle at neighbouring places.

**RingBufferProofs.** `TypeCorrect`: what makes the positions sound is that `head = Size`
and `tail = 0` never hold together. `CallsImplement` proves that `Filled`, `Front` and
`Advance` do to `Contents` what append and take do to a sequence, place by place, and
`ImplementsQueue` is the refinement `RingSpec => Queue!Spec`.

**HashSetProofs.** `TypeCorrect`; `KeysKept` (`NoKeyLost`), for clients that insert and remove any key: every key of the clients' set is in the
array, and only keys in `again` may be in two slots, or in one after their removal. The inductive invariant (`Sane`) adds
that while the loop carries a displaced key, that key is in no slot, and that in an array without holes a key passes, on the
way from its home to its slot, only keys that are as far from theirs (`Passes`), so that an insertion meets it. `FullOnlyWhenFull`: the
loop has seen a filled slot at each of its `i` places.

**TextFileProofs.** `InputInOrder` (`ReadInOrder`): the lemmas of `RingBufferProofs` are instantiated
over the buffer of a file, and what is in it is, as a sequence, as much as fits of what was pushed back since the last read
(`FileInv`; `FitsMore`: a part that follows another fills what is left). A read takes all of it, and that is where the equal sizes of
the buffers are needed. A new buffer may have any positions within its data, also those that no sequence of calls
leads to (`Lapped`); nothing is assumed about them, and nothing is claimed of the first read if they leave the buffer not empty (`junk`).

**OuterLoopProofs.** `ClientBehaves` (`LinesAllowed`): the rate is bounded by a claim about every time `a`
in the past: whatever was sent since `a` is paid for by `next_message_time` (`Paced`).
A line that was begun when it was allowed may be ended later, because time only helps. The
other half is what is in an unfinished line (`Begun`): a prefix and then text, unless it is torn.

`ArgumentsApplied` (`ArgumentsInForce`), for all arguments, rc files and inputs, tables of sizes and
abbreviations. The property speaks of words, and the loop runs lines: `Cut` says at which words the lines begin that `arguments()` makes, and
is shown word by word (`LinesOfArguments`), so what is given after a word with a dash is the operands of its line (`GivenOperands`).
That such a word has a name (`LoopAssumption`) holds because `arguments()` takes a dash for one only when a letter follows it. Of the loop, `LoopInv`
says that commands are run, or never will be again (an error between `single` and the next reading of the input does not change that); that the lines run
so far have loaded what they say (`Loads`); and of sizes (`Resized`) that until the first reinit of the arguments has been reached nothing asks for one,
that `size_init` then holds what the lines before it make of it, in a session that may have failed before and been started again, and
that the memory is allocated with that and never again. A file that is asked for is loaded or refused, and refused only when all places for files are
taken, which they stay until memory is allocated anew. An rc file with a reinit of its own is left out: it takes the place of the one in the arguments.

**LibraryProofs.** `Sorts` (`SortsInPlace`), for every array and every key. Of one iteration
(`PartitionParts`): rows below the pivot's key to its left, the others to its right, and no row of the
part is lost, by a claim about the rows up to the one that the loop has come to (`Scanned`). `SortInv` says of the
loop that two rows are in order unless some part still to be sorted has both, and that the
parts on the stack lie apart and in the array, the last of the stack first, with two rows or more
each. So the part at height k ends at least k - 1 rows before the end, which bounds the stack; parts of a single row, pushed,
would break it. The searches are loops whose answer is shown to be right wherever the
loop may be (`LoopAnswers`), each by its own claim about the rows outside of the span:
the key may be in the span only (`FindFinds`), it is not behind the span and not less than the row at its beginning
(`FindLastFinds`), and the last match seen is the end of the span (`LookupFinds`). Recursive functions
are shown to exist by the least argument at which they do not (`LeastMember`).

`ReadsThrough` (`ListsReadThrough`), for every chain of lists, as long as only the last of them does not go on in
another (`ChainsAssumption`). The invariant is that what the iterator has given out and what is left from its place are together
the elements of the chain (`ReaderInv`). That `list_next()` gives the first of what is left, whatever empty lists it
passes over (`NextGives`), and that `list_remaining_size()` counts it (`SizeCounts`), are claims about every list from
that of the iterator to the last, shown from the last backwards: the same loop is taken up at the beginning of the next list.

**MergeProofs.** `Merges` (`MergesRuns`, `WithinArray`, `QueueSorted`), for all sorted runs that are not empty. That
the result is sorted is not inductive: between two iterations the array is in pieces. `MergeInv`
says of the call that runs (`Innermost`) that what it has given out is in order and comes
before all that is left, that the rest of `a`, the queue from its head round to its head, and the rest of
`b` are in order, and that pairs of `a` come before those of the queue. What comes later must be
true of pairs with the same key as well, as long as the function is stable, so order is a
relation on pairs that has stability as a parameter (`Ordered`), and a merge of the queue weakens it. Of the calls
that wait, `Pending` says that all before the part that the inner call was given is in order and comes
before that part; it is kept because an inner call only moves pairs within its part (`Moved`).
The ways `Queued` has to make room in the ring are each shown to give the same pairs in
the order of the queue. For a buffer, `Whole` puts the waiting pairs into the places
that have become free, where `merge()` would keep its queue: each step is then one of `merge()` on that
array, or changes nothing in it, and the invariant is carried over (`Filling`).

**TraceMemoryProofs.** `EntriesAlwaysKept` (`EntriesKept`), for every size of the memory, of its blocks and of the map
that satisfies `MemoryAssumption` (the memory is full before the array of active entries is), and `TypeCorrect`. The property speaks of the states in which no loop runs and says nothing of what a loop may
rely on, so `Inv` has a part for each. Entries lie apart with their cells (`Apart`), each follows
the one before (`Joined`), and there is one for each that was started and not given up, in the same order
(`Numbered`). `Content` says of every cell and parent what it refers to, in whatever form it has at
the time: a place, or while `trace_compact()` runs the place where the entry will be (`Final`, `Leads`), and for an entry
that was merged, one that stands for it (`StandsFor`). `Mapped` is what `var_entry()` starts from,
and is claimed only of the parts of the map that are below `trace_ptr`: the rest is out of date.

While a word is reduced, every entry above its beginning has one cell that calls it, in its parent (`AsMade`, `OneCell`), and nothing
below refers to it (`Based`): that is why giving entries up leaves nothing behind that calls them. `Deduping` says
that a quote that more than one cell calls has no entry like it before it, so that it is never merged itself, and
that each that was merged has one. Of the compaction, `Blocks` says
where blocks start, cleared ones included, and `PlacesFor` that the places are given in order, without gaps, none
above the old one. So what is moved lands on places that are free, on its own, or on what has been moved
already (`MoveEntryInv`), and no reference has to be looked at again. There is a lemma for each action; `CompactContent`
reduces `Content` after a round of the compaction to where each entry was before it.

What stays with TLC. Liveness (`SearchEnds`, `ReductionEnds`, `CompilingEnds`, `LoopEnds`) under
fairness. What is about `Reduce`, `Quotes` and its counts, what entries mean (`TraceEntry`), `Cgen`, `Expand`, `Ranges`, `Parser`,
`Modules` and `Log`, whose walks over graphs, names and chains are recursive operators, which the provers do not
take. `ArraysKeep`, whose keys are made with bit operations. `merge_huang88()`, whose
rounds repeat a step as often as a recursive function says; maps and strings, which are not proved yet or whose results
are what a recursive reading returns.

## 5. Plan

Modelled so far is what section 2 lists, and each component's `note` in `PROJECT.json` says
what of it is left out. Open, in this order:

1. Scratch space and cells of more than one place in `TraceMemory`; theorems about `Saturation` (ranges of operators hold their results for every
   `MAX`) and about the loops of `BlockMerge`.
2. A module with counted references only, without recursion, to prove that `Ref`, `Copy`,
   `Forward` and `Unique` keep counts exact.
3. Specialisation and recursion of user functions, tail calls and type resolution in the generators.
4. The ready/valid handshakes of `vlgen/primitives.v`, composed in pairs.

Not planned: token formats, printing, text of the generated code, the debugging
aids, makeheaders.

------------------------------ MODULE MainLoop ------------------------------
(***************************************************************************)
(* The main loop (eval.c, command.c, startle/static_alloc.c): it allocates *)
(* memory, runs the commands of the rc file and of the arguments, and      *)
(* evaluates the lines of the input.  After an error, and when sizes of    *)
(* the memory were changed, it starts again, with the same arguments and   *)
(* with what is left of the input.                                         *)
(*                                                                         *)
(* A line is an expression or a command with an operand.  Of the commands  *)
(* there are those that change what the loop does, and load, which stands  *)
(* for the commands that change the modules.  The files that it loads stay *)
(* open, and there is room for so many of them.                            *)
(***************************************************************************)
EXTENDS Integers, Sequences, FiniteSets, SequencesExt

CONSTANTS
  Argvs,       \* the arguments of the program: words with or without a dash
  RcFiles,     \* the lines of rc files
  Typed,       \* the lines of the input
  Abbreviates, \* pairs of a word and a command that starts with it
  Numbers,     \* the words that are numbers, and their values
  Items,       \* the static allocations: a size and what is allocated for it
  Default      \* the default size of each

(* A dash is one only if a letter follows.                                 *)
ASSUME LoopAssumption ==
  /\ Argvs \subseteq Seq([dash : BOOLEAN, name : STRING])
  /\ \A av \in Argvs : \A i \in DOMAIN av : av[i].dash => av[i].name # ""
  /\ RcFiles \cup Typed \subseteq Seq([cmd : STRING, operands : Seq(STRING)])
  /\ Default \in [DOMAIN Default -> Nat] /\ Numbers \in [DOMAIN Numbers -> Nat]
  /\ "files" \in DOMAIN Default

VARIABLES
  argv, rc, input,   \* what there is to read; input is what is left of it
  pc,                \* "start", "rc", "args", "input" or "ended"
  todo,              \* the lines that are run: of the rc file or the arguments
  flag,              \* the global flags
  leave,             \* quit in main(), which hides the global flag
  size_init, size,   \* configured sizes, and those of the memory
  offsets, mem_size, \* the memory
  loaded, refused,   \* what load has loaded, or found no room for, since Start
  files_held,        \* how many files are open (files_cnt)
  failed             \* has the program ended with an error?

storage == <<size, offsets, mem_size>>
open_files == <<loaded, refused, files_held>>
mainloop == <<argv, rc, input, pc, todo, flag, leave, size_init, storage, open_files, failed>>

Line(cmd, operands) == [cmd |-> cmd, operands |-> operands]

Expression(words) == Line("", words)

(* mutant: a word that does not start with a dash is a line of its own.    *)
ArgumentsApart(av) == [i \in DOMAIN av |-> Line(IF av[i].dash THEN av[i].name ELSE "",
                                                 IF av[i].dash THEN <<>> ELSE <<av[i].name>>)]

(* A word with a dash starts a line; what is before the first of them is   *)
(* an expression.                                                          *)
arguments(av) ==
  LET add(ls, w) ==
        IF w.dash THEN Append(ls, Line(w.name, <<>>))
        ELSE IF ls = <<>> THEN <<Expression(<<w.name>>)>>
        ELSE [ls EXCEPT ![Len(ls)].operands = Append(@, w.name)]
      lines[n \in 0 .. Len(av)] == IF n = 0 THEN <<>> ELSE add(lines[n - 1], av[n])
  IN  lines[Len(av)]

(* The commands, in the order in which they are looked for.                *)
Commands == <<"load", "quit", "reinit", "single", "size_param">>

(* The first command that starts with the word, if there is one.           *)
CommandOf(w) ==
  LET c == {i \in DOMAIN Commands : <<w, Commands[i]>> \in Abbreviates}
  IN  IF c = {} THEN "unknown" ELSE Commands[CHOOSE i \in c : \A j \in c : i <= j]

align_offset(n, a) == (a - (n % a)) % a

(* Places for all items, each aligned, one after the other.                *)
Place(sizes) ==
  LET put(m, it) ==
        LET o == m.end + align_offset(m.end, it.align)
        IN  [at |-> Append(m.at, o), end |-> o + it.width * sizes[it.of]]
  IN  FoldLeft(put, [at |-> <<>>, end |-> 0], Items)

(* The sizes that do not depend on others are copied, and all is placed.   *)
alloc_all == size' = size_init /\ offsets' = Place(size_init).at /\ mem_size' = Place(size_init).end

LoopStart(av, rc_lines, lines) ==
  /\ argv = av /\ rc = rc_lines /\ input = lines
  /\ todo = <<>> /\ leave = FALSE
  /\ flag = [exit_on_error |-> FALSE, reinit_requested |-> FALSE, reinited_on_start |-> FALSE,
             will_eval_commands |-> TRUE, eval_commands |-> TRUE, command_line |-> FALSE,
             quit |-> FALSE]
  /\ size_init = Default /\ size = Default
  /\ offsets = Place(Default).at /\ mem_size = Place(Default).end
  /\ loaded = {} /\ refused = {} /\ files_held = 0 /\ failed = FALSE

LoopInit ==
  /\ pc = "start"
  /\ \E av \in Argvs, rc_lines \in RcFiles, lines \in Typed : LoopStart(av, rc_lines, lines)

(* The body of the loop: everything is initialised, and the rc file read.  *)
(* Files are closed only if memory is allocated anew (unload_files()).     *)
Start ==
  /\ pc = "start"
  /\ IF flag.reinit_requested THEN alloc_all /\ files_held' = 0 ELSE UNCHANGED <<storage, files_held>>
  /\ flag' = [flag EXCEPT !.reinit_requested = FALSE]
  /\ loaded' = {} /\ refused' = {}
  /\ pc' = "rc" /\ todo' = rc
  /\ UNCHANGED <<argv, rc, input, leave, size_init, failed>>

(* mutant: an error while starting starts again, as any other.             *)
CatchAlways ==
  /\ pc' = "start"
  /\ flag' = [flag EXCEPT !.exit_on_error = TRUE]
  /\ todo' = <<>>
  /\ UNCHANGED failed

(* An error ends the program if there was one before without a line of     *)
(* input being waited for.                                                 *)
Catch ==
  /\ IF flag.exit_on_error THEN pc' = "ended" /\ failed' = TRUE
     ELSE pc' = "start" /\ UNCHANGED failed
  /\ flag' = [flag EXCEPT !.exit_on_error = TRUE]
  /\ todo' = <<>>

command_reinit ==
  [flag EXCEPT !.reinit_requested = ~flag.command_line \/ ~flag.reinited_on_start]

command_quit(rest) == [flag EXCEPT !.quit = rest = <<>> \/ rest[1] = "yes"]

command_single(rest) == [flag EXCEPT !.will_eval_commands = rest # <<>> /\ rest[1] # "yes"]

(* The size is changed for the next time that memory is allocated.         *)
command_size_param(rest) ==
  IF Len(rest) > 1 /\ rest[1] \in DOMAIN size_init /\ rest[2] \in DOMAIN Numbers
  THEN [size_init EXCEPT ![rest[1]] = Numbers[rest[2]]]
  ELSE size_init

(* The flags after a command.                                              *)
run_command(c, rest) ==
  CASE c = "reinit" -> command_reinit
    [] c = "quit" -> command_quit(rest)
    [] c = "single" -> command_single(rest)
    [] OTHER -> flag

(* Which of the operands o are opened: load_file() refuses a file if there *)
(* is no room for it.  A file that is missing counts like one that is read.*)
Opened(o) == {k \in DOMAIN o : files_held + k <= size.files}

command_load(o) ==
  /\ loaded' = loaded \cup {o[k] : k \in Opened(o)}
  /\ refused' = refused \cup {o[k] : k \in DOMAIN o \ Opened(o)}
  /\ files_held' = IF files_held + Len(o) <= size.files THEN files_held + Len(o) ELSE size.files

Runs(l, c) == l.cmd # "" /\ flag.eval_commands /\ CommandOf(l.cmd) = c

(* The opened operands of load, and those that an expression starts with,  *)
(* that end in an error.                                                   *)
Faults(l) ==
  {k \in IF Runs(l, "load") THEN Opened(l.operands)
         ELSE IF l.cmd = "" THEN DOMAIN l.operands \cap {1} ELSE {} : l.operands[k] = "bad"}

Throws(l) == Faults(l) # {}

(* An error while line l is run: the files it has opened stay open.        *)
Thrown(l) ==
  /\ Catch
  /\ \E first \in Faults(l) :
       /\ \A k \in Faults(l) : first <= k
       /\ files_held' = IF Runs(l, "load") THEN files_held + first ELSE files_held
  /\ UNCHANGED <<size_init, loaded, refused>>

(* Line l leaves the flags fs.                                             *)
eval_command(l, fs) ==
  /\ fs = IF l.cmd # "" /\ flag.eval_commands THEN run_command(CommandOf(l.cmd), l.operands) ELSE flag
  /\ size_init' = IF Runs(l, "size_param") THEN command_size_param(l.operands) ELSE size_init
  /\ IF Runs(l, "load") THEN command_load(l.operands) ELSE UNCHANGED open_files

(* run_eval_minimal() stops after a line.                                  *)
Stops(fs) == fs.quit \/ ~fs.eval_commands \/ fs.reinit_requested

load_rc ==
  /\ pc = "rc" /\ todo # <<>>
  /\ IF Throws(Head(todo)) THEN Thrown(Head(todo))
     ELSE /\ eval_command(Head(todo), flag')
          /\ todo' = IF Stops(flag') THEN <<>> ELSE Tail(todo)
          /\ UNCHANGED <<pc, failed>>
  /\ UNCHANGED <<argv, rc, input, leave, storage>>

LexArguments ==
  /\ pc = "rc" /\ todo = <<>>
  /\ pc' = "args" /\ todo' = arguments(argv)
  /\ leave' = FALSE
  /\ flag' = [flag EXCEPT !.command_line = TRUE]
  /\ UNCHANGED <<argv, rc, input, size_init, storage, open_files, failed>>

RunArgument ==
  /\ pc = "args" /\ todo # <<>> /\ ~flag.reinit_requested
  /\ IF Throws(Head(todo))
     THEN Thrown(Head(todo)) /\ UNCHANGED leave
     ELSE /\ eval_command(Head(todo), flag')
          /\ leave' = (flag'.quit \/ leave)
          /\ todo' = Tail(todo)
          /\ UNCHANGED <<pc, failed>>
  /\ UNCHANGED <<argv, rc, input, storage>>

ReinitOnStart ==
  /\ pc = "args" /\ flag.reinit_requested
  /\ flag' = [flag EXCEPT !.reinited_on_start = TRUE]
  /\ pc' = "start" /\ todo' = <<>>
  /\ UNCHANGED <<argv, rc, input, leave, size_init, storage, open_files, failed>>

ReadInput ==
  /\ pc = "args" /\ todo = <<>> /\ ~flag.reinit_requested
  /\ flag' = [flag EXCEPT !.eval_commands = flag.will_eval_commands,
                          !.exit_on_error = FALSE, !.command_line = FALSE]
  /\ pc' = IF leave THEN "ended" ELSE "input"
  /\ UNCHANGED <<argv, rc, input, todo, leave, size_init, storage, open_files, failed>>

run_eval_minimal ==
  /\ pc = "input"
  /\ IF input = <<>> THEN pc' = "ended" /\ UNCHANGED <<input, flag, size_init, open_files, todo, failed>>
     ELSE /\ input' = Tail(input)
          /\ IF Throws(Head(input))
             THEN Thrown(Head(input))
             ELSE /\ eval_command(Head(input), flag')
                  /\ pc' = IF Stops(flag') THEN "ended" ELSE "input"
                  /\ UNCHANGED <<todo, failed>>
  /\ UNCHANGED <<argv, rc, leave, storage>>

LoopNext ==
  \/ Start \/ load_rc \/ LexArguments \/ RunArgument \/ ReinitOnStart \/ ReadInput
  \/ run_eval_minimal

(* The program does not stop on its own.                                   *)
LoopFairness == WF_mainloop(LoopNext)

LoopSpec == LoopInit /\ [][LoopNext]_mainloop /\ LoopFairness

-----------------------------------------------------------------------------
(* Properties.                                                             *)

(* The arguments with a dash that mean command c.                          *)
Asking(c) == {i \in DOMAIN argv : argv[i].dash /\ CommandOf(argv[i].name) = c}

(* The words after argument i, up to the next one with a dash.             *)
Given(i) ==
  LET last == CHOOSE n \in i .. Len(argv) : /\ \A j \in i + 1 .. n : ~argv[j].dash
                                            /\ n = Len(argv) \/ argv[n + 1].dash
  IN  [j \in 1 .. last - i |-> argv[i + j].name]

SetsSize(o) == Len(o) > 1 /\ o[1] \in DOMAIN Default /\ o[2] \in DOMAIN Numbers

(* Whatever errors there were, when a line is read everything that the     *)
(* arguments ask to load is loaded, or was refused for lack of room (files *)
(* of earlier starts are still open after an error), and no file is        *)
(* refused while there is room; and if the arguments ask for a reinit,     *)
(* memory has the sizes that they give before it, the last one that is     *)
(* given for each (main()).  None of this if commands are not run any      *)
(* more: after an error those of the arguments are not either (eval.c);    *)
(* and the sizes are not in force if the rc file asks for a reinit, for    *)
(* that of the arguments does nothing then.                                *)
ArgumentsInForce ==
  LET rc_reinits == \E i \in DOMAIN rc : CommandOf(rc[i].cmd) = "reinit"
      Sizes(r) == {i \in Asking("size_param") : i < r /\ SetsSize(Given(i))}
  IN  pc = "input" /\ flag.eval_commands =>
    /\ \A i \in Asking("load") : ToSet(Given(i)) \subseteq loaded \cup refused
    /\ refused # {} => files_held = size.files
    /\ ~rc_reinits =>
         \A r \in Asking("reinit") : (\A q \in Asking("reinit") : r <= q) =>
           \A i \in Sizes(r) : (\A j \in Sizes(r) : Given(j)[1] = Given(i)[1] => j <= i) =>
             size[Given(i)[1]] = Numbers[Given(i)[2]]

(* The program ends when its input does: no error and no command of the    *)
(* arguments or the rc file keeps it starting again (main()).              *)
LoopEnds == <>(pc = "ended")
=============================================================================

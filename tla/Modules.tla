------------------------------- MODULE Modules ------------------------------
(***************************************************************************)
(* Modules and the compilation of the words in them: loading files, names  *)
(* and imports, and a definition that compiles the definitions it needs    *)
(* (module.c, ir/compile.c, eval.c, parse/parse.c).                        *)
(*                                                                         *)
(* A map of a module is identified by where it comes from: <<name>> for a  *)
(* module that was loaded, and the definition for one that was built from  *)
(* a module expression.  A definition is identified by <<module, word>>,   *)
(* and what compiling it gives by the same pair.                           *)
(***************************************************************************)
EXTENDS Integers, Sequences, FiniteSets, TLC, SequencesExt

CONSTANTS
  Files,      \* a function from files to sequences of [name, defs], where
              \* defs is a function from words to bodies
  Inputs,     \* what the user defines: a function from words to bodies
  Paths,      \* the words that the user evaluates
  files_size  \* how many files can be loaded

VARIABLES
  mods,       \* [modules, maps, defs]: names to maps, maps to values
  entries,    \* compiled definitions: the definitions they call
  nesting,     \* the definitions being compiled, the innermost last
  task,       \* what the user asked for, while it is done
  files_cnt   \* files that were loaded

session == <<mods, entries, nesting, task, files_cnt>>

(* A body is [words |-> a sequence of paths] or [of |-> a sequence of      *)
(* modules]; the path <<"!">> stands for more arguments than fit.          *)
IsExpression(body) == "words" \in DOMAIN body

TooMany == <<"!">>

PLACEHOLDER == <<"??">>

NoMap == <<"null">>
Absent == [kind |-> "none", id |-> <<>>]
Stored(kind, id) == [kind |-> kind, id |-> id]
EmptyMap == <<>>

NoModules == [modules |-> EmptyMap, maps |-> EmptyMap, defs |-> EmptyMap]

(* freed counts how often the tokens of a definition were freed; torn is   *)
(* a module expression of which only some tokens were replaced.            *)
Definition(body) ==
  [body |-> body, traced |-> FALSE, alt |-> FALSE, freed |-> 0, torn |-> FALSE]

Stale(m, d) == m.defs[d].freed > 0 \/ m.defs[d].torn

-----------------------------------------------------------------------------
(* Names (module.c).  An operator that may build a module returns m too.   *)

module_get(m, map, w) ==
  IF map # NoMap /\ w \in DOMAIN m.maps[map] THEN m.maps[map][w] ELSE Absent

get_module(m, name) == IF name \in DOMAIN m.modules THEN m.modules[name] ELSE NoMap

(* A module of copies of the maps of modules.  The expression is freed; if *)
(* one of the modules is missing the tokens before it already are.         *)
build_module(m, d) ==
  LET of == m.defs[d].body.of
      missing == {i \in DOMAIN of : of[i] \notin DOMAIN m.modules}
      union == FoldLeft(LAMBDA map, n : m.maps[m.modules[n]] @@ map, EmptyMap, of)
  IN  IF missing = {}
      THEN [m |-> [m EXCEPT !.maps = (d :> union) @@ @, !.defs[d].freed = 1], map |-> d]
      ELSE [m |-> [m EXCEPT !.defs[d].torn = 1 \notin missing], map |-> NoMap]

(* The module that a name of a module stands for.  Reading a definition    *)
(* that was freed is undefined.                                            *)
get_submodule(m, map, s) ==
  LET v == module_get(m, map, s)
      same(id) == [m |-> m, map |-> id, undefined |-> FALSE]
      built == build_module(m, v.id)
  IN  CASE v.kind = "none" -> same(NoMap)
        [] v.kind = "module" -> same(v.id)
        [] v.kind = "entry" -> same(NoMap)
        [] v.kind = "def" ->
             IF Stale(m, v.id) THEN [same(NoMap) EXCEPT !.undefined = TRUE]
             ELSE IF IsExpression(m.defs[v.id].body) THEN same(NoMap)
             ELSE IF built.map = NoMap THEN [same(NoMap) EXCEPT !.m = built.m]
             ELSE [same(built.map) EXCEPT
                     !.m = [built.m EXCEPT !.maps[map][s] = Stored("module", built.map)]]

(* A word of the module, or else of its imports.                           *)
implicit_lookup(m, w, map) ==
  LET own == module_get(m, map, w)
      imports == get_submodule(m, map, "imports")
  IN  IF map = NoMap \/ own # Absent
      THEN [m |-> m, value |-> own, map |-> map, undefined |-> FALSE]
      ELSE [m |-> imports.m, value |-> module_get(imports.m, imports.map, w),
            map |-> map, undefined |-> imports.undefined]

module_lookup(m, path, map) ==
  LET start == [m |-> m, map |-> get_module(m, path[1]), undefined |-> FALSE]
      into(at, s) == LET sub == get_submodule(at.m, at.map, s)
                     IN  [sub EXCEPT !.undefined = @ \/ at.undefined]
      inner == FoldLeft(into, start, SubSeq(path, 2, Len(path) - 1))
      value == module_get(inner.m, inner.map, Last(path))
  IN  IF m.modules = EmptyMap
      THEN [m |-> m, value |-> Absent, map |-> map, undefined |-> FALSE]
      ELSE IF Len(path) = 1 THEN implicit_lookup(m, path[1], map)
      ELSE [m |-> inner.m, value |-> value, undefined |-> inner.undefined,
            map |-> IF value = Absent THEN map ELSE inner.map]

-----------------------------------------------------------------------------
(* Files and the module eval.                                              *)

(* parse_module(): a module whose name is taken is an error.               *)
AddModule(m, mod) ==
  LET map == [w \in DOMAIN mod.defs |-> Stored("def", <<mod.name, w>>)]
      defs == [d \in {<<mod.name, w>> : w \in DOMAIN mod.defs} |->
                 Definition(mod.defs[d[2]])]
  IN  [modules |-> (mod.name :> <<mod.name>>) @@ m.modules,
       maps |-> (<<mod.name>> :> map) @@ m.maps,
       defs |-> defs @@ m.defs]

WithEval(m) ==
  IF "eval" \in DOMAIN m.modules THEN m
  ELSE AddModule(m, [name |-> "eval", defs |-> EmptyMap])

EvalImports == <<"eval", "imports">>

WithEvalImports(m) ==
  LET e == WithEval(m)
  IN  IF EvalImports \in DOMAIN e.maps THEN e
      ELSE [e EXCEPT !.maps = (EvalImports :> EmptyMap) @@
              [@ EXCEPT ![<<"eval">>] = ("imports" :> Stored("module", EvalImports)) @@ @]]

(* What a later module has replaces what an earlier one had.               *)
merge_into_module(m, a, b) == [m EXCEPT !.maps[a] = m.maps[b] @@ @]

-----------------------------------------------------------------------------
(* A task: the words that are still to be compiled, and the module they are*)
(* in; failing is set while what needs a word that failed fails too.       *)
Task(kind, todo, map) == [kind |-> kind, todo |-> todo, map |-> map, failing |-> FALSE]

Idle == Task("idle", <<>>, NoMap)

ModulesInit ==
  /\ mods = NoModules
  /\ entries = EmptyMap
  /\ nesting = <<>>
  /\ task = Idle
  /\ files_cnt = 0

(* The error handler of main(): modules and cells are set up again, files  *)
(* stay open.                                                              *)
Restart ==
  /\ mods' = NoModules
  /\ entries' = EmptyMap
  /\ nesting' = <<>>
  /\ task' = Idle

load_file(f) ==
  /\ task = Idle
  /\ files_cnt < files_size
  /\ files_cnt' = files_cnt + 1
  /\ IF {Files[f][i].name : i \in DOMAIN Files[f]} \cap DOMAIN mods.modules # {}
     THEN Restart
     ELSE mods' = FoldLeft(AddModule, mods, Files[f]) /\ UNCHANGED <<entries, nesting, task>>

(* :import of one module.                                                  *)
Import(name) ==
  /\ task = Idle
  /\ name # "eval"
  /\ mods' = merge_into_module(WithEvalImports(mods), EvalImports, mods.modules[name])
  /\ UNCHANGED <<entries, nesting, task, files_cnt>>

Frame(d, map) == [d |-> d, map |-> map, pass |-> "arity", next |-> 1, calls |-> <<>>]

\* mutant: a definition is compiled with the names of the module that uses it.
EnterDefUser(m, d, map) ==
  /\ mods' = [m EXCEPT !.defs[d].traced = TRUE]
  /\ nesting' = Append(nesting, Frame(d, map))

(* compile_def(): start to compile a definition, found in a map, with the  *)
(* names of the module that it is from.                                    *)
EnterDef(m, d, map) ==
  /\ mods' = [m EXCEPT !.defs[d].traced = TRUE]
  /\ nesting' = Append(nesting, Frame(d, <<d[1]>>))

IsNew(m, v) == v.kind = "def" /\ ~m.defs[v.id].traced

(* Is there something that can be parsed?                                  *)
Readable(m, v) == m.defs[v.id].freed = 0 /\ IsExpression(m.defs[v.id].body)

(* Is memory read that was freed?                                          *)
Undefined(found) ==
  found.undefined \/ (IsNew(found.m, found.value) /\ Stale(found.m, found.value.id))

(* The user evaluates a word in the module eval; a definition that it      *)
(* finds is compiled first.                                                *)
Use(path) ==
  /\ task = Idle
  /\ UNCHANGED files_cnt
  /\ \E found \in {module_lookup(mods, path, get_module(mods, "eval"))} :
       \/ Undefined(found) /\ Restart
       \/ /\ ~(IsNew(found.m, found.value) /\ Readable(found.m, found.value))
          /\ mods' = found.m
          /\ UNCHANGED <<entries, nesting, task>>
       \/ /\ IsNew(found.m, found.value)
          /\ Readable(found.m, found.value)
          /\ EnterDef(found.m, found.value.id, found.map)
          /\ task' = Task("use", <<>>, NoMap)
          /\ UNCHANGED entries

(* :define, which replaces a definition of the same word.                  *)
parse_eval_def(w) ==
  LET m == WithEval(mods)
      d == <<"eval", w>>
      defined == [m EXCEPT !.maps = [@ EXCEPT ![<<"eval">>] = (w :> Stored("def", d)) @@ @],
                           !.defs = (d :> Definition(Inputs[w])) @@ @]
  IN  /\ task = Idle
      /\ EnterDef(defined, d, <<"eval">>)
      /\ task' = Task("define", <<>>, d)
      /\ UNCHANGED <<entries, files_cnt>>

(* :bc prints the bytecode of the words of all modules in the order of     *)
(* their names; here of one module, in some order.                         *)
print_module_bytecode(name) ==
  /\ task = Idle
  /\ task' = Task("bytecode", SetToSeq(DOMAIN mods.maps[<<name>>] \ {"imports"}), <<name>>)
  /\ UNCHANGED <<mods, entries, nesting, files_cnt>>

NextBytecode ==
  /\ nesting = <<>>
  /\ task.todo # <<>>
  /\ LET v == module_get(mods, task.map, task.todo[1])
     IN  IF IsNew(mods, v) /\ Readable(mods, v) THEN EnterDef(mods, v.id, task.map)
         ELSE UNCHANGED <<mods, nesting>>
  /\ task' = [task EXCEPT !.todo = Tail(@)]
  /\ UNCHANGED <<entries, files_cnt>>

(* A command is done; the tokens of its line are freed.                    *)
Done ==
  /\ nesting = <<>>
  /\ task # Idle
  /\ task.todo = <<>>
  /\ mods' = IF task.kind = "define" THEN [mods EXCEPT !.defs[task.map].freed = @ + 1]
             ELSE mods
  /\ task' = Idle
  /\ UNCHANGED <<entries, nesting, files_cnt>>

-----------------------------------------------------------------------------
(* Compiling.  The tokens are parsed twice: for the arity, which compiles  *)
(* what the definition needs, and for the entry.                           *)

Top == Last(nesting)
Words == mods.defs[Top.d].body.words
Compiling == nesting # <<>> /\ ~task.failing
ReadsWord == Compiling /\ Top.next <= Len(Words)

SetTop(frame) == nesting' = Front(nesting) \o <<frame>>

(* compile_def() of a word that was compiled, or is being compiled: a      *)
(* placeholder stands for it until its entry is started.                   *)
Callee(m, v) ==
  IF v.kind = "entry" \/ m.defs[v.id].alt THEN v.id ELSE PLACEHOLDER

(* A word that is known, or has to be compiled first.                      *)
parse_module_word(found) ==
  /\ ~found.undefined
  /\ IF IsNew(found.m, found.value)
     THEN /\ Readable(found.m, found.value)
          /\ EnterDef(found.m, found.value.id, found.map)
     ELSE /\ found.value.kind \in {"def", "entry"}
          /\ mods' = found.m
          /\ SetTop([Top EXCEPT !.next = @ + 1,
                       !.calls = Append(@, Callee(found.m, found.value))])
  /\ UNCHANGED <<entries, task>>

\* mutant: a failure is not passed on to what needs the definition.
GiveUpSilent(m) ==
  /\ mods' = [m EXCEPT !.defs[Top.d].traced = FALSE]
  /\ nesting' = Front(nesting)
  /\ UNCHANGED <<task, entries>>

(* A definition that fails can be compiled again when it is needed; those  *)
(* that need it fail too.                                                  *)
GiveUp(m) ==
  /\ mods' = [m EXCEPT !.defs[Top.d].traced = FALSE]
  /\ nesting' = Front(nesting)
  /\ task' = [task EXCEPT !.failing = Len(nesting) > 1]
  /\ UNCHANGED entries

(* A word that is not there, or cannot be read.                            *)
Missing(found) ==
  \/ found.undefined
  \/ found.value.kind \in {"none", "module"}
  \/ IsNew(found.m, found.value) /\ ~Readable(found.m, found.value)

(* A limit of the parser, or reading what was freed.  While bytecode is    *)
(* printed the error is caught, and the next word is compiled.             *)
Throw ==
  IF task.kind = "bytecode" THEN nesting' = <<>> /\ UNCHANGED <<mods, entries, task>>
  ELSE Restart

ReadWord ==
  /\ ReadsWord
  /\ LET word == Words[Top.next] IN
     \E found \in {module_lookup(mods, word, Top.map)} :
       \/ word # TooMany /\ parse_module_word(found)
       \/ word # TooMany /\ Missing(found) /\ GiveUp(found.m)
       \/ word = TooMany /\ Throw
       \/ word # TooMany /\ Undefined(found) /\ Throw
  /\ UNCHANGED files_cnt

FailToo == task.failing /\ GiveUp(mods) /\ UNCHANGED files_cnt

EndOfPass(pass) == Compiling /\ Top.next > Len(Words) /\ Top.pass = pass

(* The entry is started, so that the definition finds itself in it.        *)
StartEntry ==
  /\ EndOfPass("arity")
  /\ mods' = [mods EXCEPT !.defs[Top.d].alt = TRUE]
  /\ SetTop([Top EXCEPT !.pass = "entry", !.next = 1, !.calls = <<>>])
  /\ UNCHANGED <<entries, task, files_cnt>>

(* The entry replaces the definition in the module that it is from; the    *)
(* tokens of a definition in eval are freed.                               *)
store_entries ==
  /\ EndOfPass("entry")
  /\ mods' = [mods EXCEPT
                !.maps = [@ EXCEPT ![<<Top.d[1]>>] = (Top.d[2] :> Stored("entry", Top.d)) @@ @],
                !.defs[Top.d].freed = IF Top.d[1] = "eval" THEN @ + 1 ELSE @]
  /\ entries' = (Top.d :> Top.calls) @@ entries
  /\ nesting' = Front(nesting)
  /\ UNCHANGED <<task, files_cnt>>

(* One step of what the user asked for.                                    *)
Step ==
  \/ NextBytecode
  \/ ReadWord
  \/ FailToo
  \/ StartEntry
  \/ store_entries
  \/ Done

ModulesNext ==
  \/ \E f \in DOMAIN Files : load_file(f)
  \/ \E name \in DOMAIN mods.modules : Import(name)
  \/ \E path \in Paths : Use(path)
  \/ \E w \in DOMAIN Inputs : parse_eval_def(w)
  \/ \E name \in DOMAIN mods.modules : print_module_bytecode(name)
  \/ Step

(* What the user asked for is done without interruption: weak fairness of  *)
(* Step, which can be taken as long as there is a task.                    *)
Uninterrupted == []<>(task = Idle) \/ []<><<Step>>_session

ModulesSpec == ModulesInit /\ [][ModulesNext]_session /\ Uninterrupted

-----------------------------------------------------------------------------
(* What names mean in the text of the files: a scope is a function from    *)
(* words to definitions.                                                   *)

SourceOf(name) ==
  LET f == CHOOSE f \in DOMAIN Files : \E i \in DOMAIN Files[f] : Files[f][i].name = name
  IN  Files[f][CHOOSE i \in DOMAIN Files[f] : Files[f][i].name = name].defs

Scope(name) == [w \in DOMAIN SourceOf(name) |-> <<name, w>>]

(* The scope of a module expression: a later module hides an earlier one.  *)
ScopeOf(scope, s) ==
  IF s \notin DOMAIN scope THEN EmptyMap
  ELSE LET body == SourceOf(scope[s][1])[scope[s][2]]
       IN  IF IsExpression(body) THEN EmptyMap
           ELSE FoldLeft(LAMBDA a, n : Scope(n) @@ a, EmptyMap, body.of)

(* The definition that a path in the text of a module stands for.          *)
Means(name, path) ==
  LET visible == Scope(name) @@ ScopeOf(Scope(name), "imports")
      inner == FoldLeft(ScopeOf, Scope(path[1]), SubSeq(path, 2, Len(path) - 1))
  IN  IF Len(path) = 1 THEN visible[path[1]] ELSE inner[Last(path)]

RECURSIVE Needs(_, _)
Needs(d, seen) ==
  LET body == SourceOf(d[1])[d[2]]
      known == {i \in DOMAIN body.words : body.words[i] \notin {TooMany, <<"nosuch">>}}
      next == {Means(d[1], body.words[i]) : i \in known}
  IN  next \cup UNION {Needs(n, seen \cup next) : n \in next \ seen}

Compiled == {d \in DOMAIN entries : d[1] # "eval"}

-----------------------------------------------------------------------------
(* Properties.                                                             *)

(* A word of a compiled definition calls what it means in the text of the  *)
(* module that the definition is from, whichever module the definition was *)
(* found through and whatever was compiled before (ir/compile.c:592).  In  *)
(* two cases, and no other, it may call a placeholder, ??, instead, which  *)
(* is never replaced: what it means needs the definition in turn (in the   *)
(* middle of its own compilation there is no entry of it yet,              *)
(* ir/compile.c:540), or it was cut short by an error while bytecode was   *)
(* printed, and still counts as traced (module.c:537).                     *)
CallsWhatItMeans ==
  \A d \in Compiled : \A i \in DOMAIN entries[d] :
    LET callee == Means(d[1], SourceOf(d[1])[d[2]].words[i])
        mutual == callee # d /\ d \in Needs(callee, {})
        cut_short == mods.defs[callee].traced /\ ~mods.defs[callee].alt
    IN  \/ entries[d][i] = callee
        \/ entries[d][i] = PLACEHOLDER /\ (mutual \/ cut_short)

(* Compiling ends, whatever the definitions need of each other.            *)
CompilingEnds == (task # Idle) ~> (task = Idle)
=============================================================================

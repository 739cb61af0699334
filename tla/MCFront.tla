------------------------------ MODULE MCFront -------------------------------
(***************************************************************************)
(* The main loop, the lexer, the parser, and the modules, on small inputs. *)
(* A behaviour uses one of them.                                           *)
(***************************************************************************)
EXTENDS Lexer, Parser, Modules, MainLoop

CONSTANTS
  Vocabulary, \* the tokens of the programs
  Characters, \* the characters of the texts
  MaxProgram, \* a bound: the longest program
  MaxWords,   \* a bound: the most words of a text with comments
  MaxMixed,   \* a bound: the longest other text
  MaxArgv     \* a bound: the most arguments

VARIABLE part \* which of them

Over(S, max) == UNION {[1 .. n -> S] : n \in 0 .. max}

(* A quote cannot be written in a configuration.                           *)
Quoted == {"a", "\"", "+", "_", "?", ":", " ", "["}

(* Words with underscores at their ends, inside them, or alone.            *)
Marked ==
  {<<"a", "b">>, <<"_", "a", "b">>, <<"a", "b", "_">>, <<"_", "a", "b", "_">>,
   <<"_">>, <<"_", "a", "_">>, <<"a", "_", "b">>}

MCTexts ==
  {FlattenSeq([i \in DOMAIN ws |-> ws[i] \o <<" ">>]) : ws \in Over(Marked, MaxWords)}
  \cup Over(Characters \cup {"_"}, MaxMixed) \cup Over(Quoted, MaxMixed)

MCPrograms == Over(Vocabulary, MaxProgram)

(* Words that take and leave from none to two cells.                       *)
MCArity ==
  [id |-> [in |-> 0, out |-> 1],
   inc |-> [in |-> 1, out |-> 1],
   add |-> [in |-> 2, out |-> 1],
   swap |-> [in |-> 2, out |-> 2]]

-----------------------------------------------------------------------------
(* Two files.  h of q calls itself, x and y of p call each other, p has a  *)
(* word that q and r have too and that calls the one of r, which is beyond *)
(* a limit of the parser, s reaches the words of p through a module        *)
(* expression, and f needs what no module has.                             *)
Calls(words) == [words |-> words]
ModulesOf(of) == [of |-> of]

Base ==
  << [name |-> "q", defs |-> [g |-> Calls(<<>>), h |-> Calls(<< <<"g">>, <<"h">> >>)]],
     [name |-> "r", defs |-> [g |-> Calls(<<TooMany>>)]] >>

App ==
  << [name |-> "p", defs |->
       [imports |-> ModulesOf(<<"r", "q">>),
        g |-> Calls(<< <<"h">>, <<"r", "g">> >>),
        x |-> Calls(<< <<"y">>, <<"h">> >>),
        y |-> Calls(<< <<"x">> >>)]],
     [name |-> "s", defs |->
       [q |-> ModulesOf(<<"p">>),
        f |-> Calls(<< <<"s", "q", "x">>, <<"nosuch">> >>)]] >>

MCFiles == [base |-> Base, app |-> App]

MCInputs == [d |-> Calls(<< <<"x">>, <<"s", "f">> >>)]

MCPaths == {<<"s", "q", "x">>}

-----------------------------------------------------------------------------
(* Arguments that load and reinit in every order, with words that throw    *)
(* and an abbreviation that means single; and some that change a size.     *)
Dash(name) == [dash |-> TRUE, name |-> name]
Operand(name) == [dash |-> FALSE, name |-> name]

MCArgvs ==
  Over({Dash("load"), Dash("reinit"), Dash("s"), Operand("a"), Operand("bad")}, MaxArgv)
  \cup {<<Dash("l"), Operand("a"), Dash("reinit"), Dash("l"), Operand("bad")>>,
        <<Dash("size_param"), Operand("cells"), Operand("3"), Dash("reinit"), Dash("load"),
          Operand("a")>>,
        <<Dash("size_param"), Operand("cells"), Operand("1"), Dash("size_param"), Operand("cells"),
          Operand("3"), Dash("reinit"), Dash("size_param"), Operand("cells"), Operand("1")>>,
        <<Dash("load"), Operand("a"), Dash("size_param"), Operand("cells"), Operand("1"),
          Dash("quit"), Dash("reinit")>>,
        <<Dash("size_param"), Operand("files"), Operand("1"), Dash("reinit"), Dash("load"),
          Operand("a"), Operand("bad"), Operand("b")>>}

MCRcFiles ==
  {<<>>, <<Line("reinit", <<>>)>>, <<Expression(<<"bad">>)>>,
   <<Line("load", <<"b">>)>>, <<Line("s", <<"yes">>)>>}

Good == Expression(<<"1">>)
Bad == Expression(<<"bad">>)

MCTyped ==
  {<<>>, <<Good, Bad, Good>>, <<Bad, Bad>>, <<Line("reinit", <<>>), Good>>,
   <<Line("size_param", <<"cells", "1">>), Bad, Good>>, <<Line("quit", <<>>), Good>>}

MCAbbreviates ==
  {<<c, c>> : c \in ToSet(Commands)} \cup {<<"l", "load">>, <<"s", "single">>, <<"s", "size_param">>}

MCNumbers == [n \in {"1", "3"} |-> IF n = "1" THEN 1 ELSE 3]

MCItems ==
  <<[of |-> "cells", width |-> 3, align |-> 2], [of |-> "cells", width |-> 1, align |-> 1],
    [of |-> "files", width |-> 6, align |-> 4], [of |-> "trace", width |-> 5, align |-> 8]>>

MCDefault == [cells |-> 2, files |-> 3, trace |-> 1]

-----------------------------------------------------------------------------
LexIdle == text = <<>> /\ at = 1 /\ line = 1 /\ toks = <<>> /\ reading = "done"

ParseIdle == prog = <<>> /\ ParseStart

LoopIdle == LoopStart(<<>>, <<>>, <<>>) /\ pc = "ended"

FrontInit ==
  /\ part \in {"loop", "lexer", "parser", "modules"}
  /\ IF part = "lexer" THEN LexInit ELSE LexIdle
  /\ IF part = "parser" THEN ParseInit ELSE ParseIdle
  /\ IF part = "loop" THEN LoopInit ELSE LoopIdle
  /\ ModulesInit

(* All the variables. *)
front == <<part, mainloop, lexer, parser, session>>

LoopStep == part = "loop" /\ LoopNext /\ UNCHANGED <<part, lexer, parser, session>>

LexStep == part = "lexer" /\ LexNext /\ UNCHANGED <<part, mainloop, parser, session>>

ParseStep == part = "parser" /\ ParseNext /\ UNCHANGED <<part, mainloop, lexer, session>>

ModulesStep == part = "modules" /\ ModulesNext /\ UNCHANGED <<part, mainloop, lexer, parser>>

FrontNext == LoopStep \/ LexStep \/ ParseStep \/ ModulesStep

FrontSpec == FrontInit /\ [][FrontNext]_front /\ Uninterrupted /\ WF_front(LoopStep)
=============================================================================

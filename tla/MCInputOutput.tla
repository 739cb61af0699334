--------------------------- MODULE MCInputOutput ---------------------------
(***************************************************************************)
(* What programs read and write: text files over a ring buffer, arrays,    *)
(* the IRC client, and the log.  A behaviour uses one of them.             *)
(***************************************************************************)
EXTENDS TextFile, Arrays, Irc, Log

VARIABLE part \* which of them

MCFileFlags == [rw |-> {"in", "out"}, r |-> {"in"}]

(* Parts of a file, in bytes and in words, some of which overlap.          *)
MCParts ==
  {[offset |-> 2, size |-> 2, width |-> 0], [offset |-> 0, size |-> 4, width |-> 2],
   [offset |-> 0, size |-> 2, width |-> 2]}

MCTable == <<"#a", "#b">>

MCStartsWith == {<<"#a", "#a">>, <<"#b", "#b">>, <<"#bb", "#b">>}

IoInit ==
  /\ part \in {"file", "arrays", "irc", "log"}
  /\ FileInit /\ (part # "file" => kind = "file")
  /\ ArraysInit
  /\ IrcInit
  /\ LogInit

IoNext ==
  /\ UNCHANGED part
  /\ \/ part = "file" /\ FileNext /\ UNCHANGED <<memory, client, logger>>
     \/ part = "arrays" /\ ArraysNext /\ UNCHANGED <<file, client, logger>>
     \/ part = "irc" /\ IrcNext /\ UNCHANGED <<file, memory, logger>>
     \/ part = "log" /\ LogNext /\ UNCHANGED <<file, memory, client>>

IoSpec == IoInit /\ [][IoNext]_<<part, file, memory, client, logger>>
=============================================================================

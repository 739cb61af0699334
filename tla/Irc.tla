-------------------------------- MODULE Irc ---------------------------------
(***************************************************************************)
(* The IRC client (irc.c): it joins some channels, evaluates what is said  *)
(* to it in them, and replies.  A program can write lines of its own and   *)
(* read what is said to it meanwhile.  Messages are limited to one in      *)
(* every MESSAGE_PERIOD, and MESSAGE_ADVANCE of them more at once.         *)
(*                                                                         *)
(* Three kinds of code write to the server: irc_io_write() knows whether a *)
(* line has been begun, while answers to pings, actions and results are    *)
(* whole lines that are printed without looking.                           *)
(*                                                                         *)
(* A line is a sequence of pieces: the prefix that addresses it to a       *)
(* channel, text, the answer to a ping.  Evaluation is any sequence of     *)
(* writes, reads and push-backs that ends with results, with a failure, or *)
(* with an error.                                                          *)
(***************************************************************************)
EXTENDS Integers, Sequences, FiniteSets, FiniteSetsExt

CONSTANTS
  Table,    \* irc.channel: names, and "" for the places without one
  Targets,  \* what messages are sent to: channels, or the client itself
  StartsWith, \* the pairs of a target and a channel whose name it starts with
  MESSAGE_PERIOD,  \* the time of a message
  MESSAGE_ADVANCE, \* the messages allowed in advance
  MaxTime,  \* a bound: the time at the end
  MaxLine   \* a bound: the pieces of a line

ASSUME IrcAssumption ==
  /\ MESSAGE_PERIOD \in Nat \ {0} /\ MESSAGE_ADVANCE \in Nat
  /\ MaxTime \in Nat /\ MaxTime >= MESSAGE_PERIOD * (MESSAGE_ADVANCE + 1)
  /\ Table \in Seq(STRING) /\ Table # <<>>

VARIABLES
  now, next_message_time,
  new_line,           \* the static of irc_io_write()
  last_read_channel,  \* a place of the table
  pushed,             \* is there text that was pushed back?
  serving,            \* reading a request, evaluating, or reading for a program
  line,               \* what has been written of a line
  sent,               \* the last line that was sent
  torn,               \* ghost: a line was begun when something else was printed
  count               \* ghost: the messages sent up to each time

client == <<now, next_message_time, new_line, last_read_channel, pushed, serving,
            line, sent, torn, count>>

(* An empty name matches everything: SEG_IS() compares no characters.      *)
Matches(target, channel) == channel = "" \/ <<target, channel>> \in StartsWith

(* The first place of the table that matches, or 0.                        *)
match_channel(target) ==
  LET places == {i \in DOMAIN Table : Matches(target, Table[i])}
  IN  IF places = {} THEN 0 ELSE Min(places)

irc_should_wait == now < next_message_time

Later(a, b) == IF a > b THEN a ELSE b

OneMore == count' = [t \in 0 .. MaxTime |-> IF t < now THEN count[t] ELSE count[t] + 1]

(* mutant: what is not used of the allowance is kept.                      *)
SentAccumulates ==
  /\ next_message_time' = next_message_time + MESSAGE_PERIOD
  /\ OneMore

irc_message_sent ==
  /\ next_message_time' = Later(now - MESSAGE_PERIOD * MESSAGE_ADVANCE, next_message_time + MESSAGE_PERIOD)
  /\ OneMore

Prefix == [piece |-> "prefix", to |-> Table[last_read_channel]]

Text == [piece |-> "text", to |-> ""]

Pong == [piece |-> "pong", to |-> ""]

(* Pieces that end the line, printed by code that does not look whether    *)
(* one has been begun.                                                     *)
PrintLine(pieces) ==
  /\ sent' = [pieces |-> line \o pieces, torn |-> torn \/ ~new_line]
  /\ line' = <<>>
  /\ torn' = (torn \/ ~new_line)

-----------------------------------------------------------------------------
IrcInit ==
  /\ now = MESSAGE_PERIOD * (MESSAGE_ADVANCE + 1)
  /\ next_message_time = 0
  /\ new_line = TRUE
  /\ last_read_channel = 1
  /\ pushed = FALSE
  /\ serving = "request"
  /\ line = <<>> /\ sent = [pieces |-> <<>>, torn |-> FALSE]
  /\ torn = FALSE
  /\ count = [t \in 0 .. MaxTime |-> 0]

Tick ==
  /\ now < MaxTime
  /\ now' = now + 1
  /\ UNCHANGED <<next_message_time, new_line, last_read_channel, pushed, serving, line,
                 sent, torn, count>>

(* A request that comes while the client waits is not evaluated.           *)
Answer == serving' = IF serving = "request" /\ irc_should_wait THEN "request" ELSE "evaluating"

(* irc_io_read(), a line from the server at a time.                        *)
Reads == serving \in {"request", "program"}

ReadPushed ==
  /\ Reads /\ pushed
  /\ pushed' = FALSE
  /\ Answer
  /\ UNCHANGED <<now, next_message_time, new_line, last_read_channel, line, sent, torn, count>>

Message(target) ==
  /\ Reads /\ ~pushed
  /\ match_channel(target) # 0
  /\ last_read_channel' = match_channel(target)
  /\ Answer
  /\ UNCHANGED <<now, next_message_time, new_line, pushed, line, sent, torn, count>>

Ping ==
  /\ Reads /\ ~pushed
  /\ PrintLine(<<Pong>>)
  /\ UNCHANGED <<now, next_message_time, new_line, last_read_channel, pushed, serving, count>>

-----------------------------------------------------------------------------
(* Evaluation.                                                             *)

Evaluating == serving = "evaluating"

(* CATCH: the error is reported, and the next request read.                *)
Throw ==
  /\ PrintLine(<<Prefix, Text>>)
  /\ serving' = "request"
  /\ UNCHANGED <<now, next_message_time, new_line, last_read_channel, pushed, count>>

(* Whether irc_prefix() throws: the message would come too early.          *)
TooEarly == new_line /\ irc_should_wait

Begin == IF new_line THEN <<Prefix>> ELSE <<>>

WriteText ==
  /\ Evaluating /\ ~TooEarly
  /\ Len(line) < MaxLine
  /\ line' = line \o Begin \o <<Text>>
  /\ new_line' = FALSE
  /\ UNCHANGED <<now, next_message_time, last_read_channel, pushed, serving, sent, torn, count>>

(* The end of a line; nothing if none was begun.                           *)
EndLine ==
  /\ sent' = [pieces |-> line, torn |-> torn]
  /\ line' = <<>>
  /\ new_line' = TRUE
  /\ torn' = FALSE
  /\ irc_message_sent

WriteNewline ==
  /\ Evaluating /\ ~new_line
  /\ EndLine
  /\ UNCHANGED <<now, last_read_channel, pushed, serving>>

(* irc_io_read_with_prompt()                                               *)
Prompt ==
  /\ Evaluating
  /\ PrintLine(<<Prefix, Text>>)
  /\ serving' = "program"
  /\ UNCHANGED <<now, next_message_time, new_line, last_read_channel, pushed, count>>

irc_io_unread ==
  /\ Evaluating
  /\ pushed' = TRUE
  /\ UNCHANGED <<now, next_message_time, new_line, last_read_channel, serving, line, sent,
                 torn, count>>

(* Any error, or a prefix that comes too early.                            *)
Error == Evaluating /\ Throw

(* The line that was begun is ended; results come, each on a line.         *)
Succeed ==
  /\ Evaluating /\ new_line /\ ~irc_should_wait
  /\ sent' = [pieces |-> line \o <<Prefix, Text>>, torn |-> torn]
  /\ line' = <<>>
  /\ serving' = "request"
  /\ UNCHANGED <<now, next_message_time, new_line, last_read_channel, pushed, torn, count>>

(* What failed is appended to the line that was begun, or is a new line.   *)
Fail ==
  /\ Evaluating /\ ~TooEarly
  /\ sent' = [pieces |-> line \o Begin \o <<Text>>, torn |-> torn]
  /\ line' = <<>>
  /\ new_line' = TRUE
  /\ torn' = FALSE
  /\ irc_message_sent
  /\ serving' = "request"
  /\ UNCHANGED <<now, last_read_channel, pushed>>

IrcNext ==
  \/ Tick
  \/ ReadPushed \/ Ping \/ \E t \in Targets : Message(t)
  \/ WriteText \/ WriteNewline \/ Prompt \/ irc_io_unread
  \/ Error \/ Succeed \/ Fail

IrcSpec == IrcInit /\ [][IrcNext]_client

-----------------------------------------------------------------------------
(* Properties.                                                             *)

IsAPrefix(p) == p.piece = "prefix"

(* A line that the server can make sense of: it is addressed, once and at  *)
(* its beginning, or the answer to a ping.                                 *)
WellFormed(l) ==
  \/ l = <<>>
  \/ l = <<Pong>>
  \/ IsAPrefix(l[1]) /\ \A i \in 2 .. Len(l) : l[i].piece = "text"

(* What the server is sent.  Every line begins with the prefix, and has    *)
(* one only (irc_io_write()), however what programs write, results,        *)
(* failures and errors follow each other, unless a line is begun when      *)
(* something else is printed; and however long the client was silent, and  *)
(* whatever it waited for, programs end no more lines in a time than the   *)
(* periods in that time and the advance allow (irc_should_wait(),          *)
(* irc_message_sent()).                                                    *)
LinesAllowed ==
  /\ sent.torn \/ WellFormed(sent.pieces)
  /\ \A a \in 1 .. MaxTime : \A b \in a .. MaxTime :
       MESSAGE_PERIOD * (count[b] - count[a - 1] - MESSAGE_ADVANCE - 2) <= b - a
=============================================================================

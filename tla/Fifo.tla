-------------------------------- MODULE Fifo --------------------------------
(***************************************************************************)
(* What the ring buffer of support.c promises: a queue of at most Limit    *)
(* characters.  A write appends as much of the text as there is room for   *)
(* and drops the rest; a read takes from the front, as much as is asked    *)
(* for and there.                                                          *)
(***************************************************************************)
EXTENDS Naturals, Sequences

CONSTANTS
  Limit,  \* the most characters the queue holds
  Texts   \* the texts that are written

VARIABLES
  queue,  \* the characters written and not yet read
  out     \* what the last read returned

Lesser(a, b) == IF a <= b THEN a ELSE b

Init == queue = <<>> /\ out = <<>>

Write(text) ==
  /\ queue' = queue \o SubSeq(text, 1, Lesser(Len(text), Limit - Len(queue)))
  /\ UNCHANGED out

Read(count) ==
  LET n == Lesser(count, Len(queue)) IN
  /\ out' = SubSeq(queue, 1, n)
  /\ queue' = SubSeq(queue, n + 1, Len(queue))

Clear ==
  /\ queue' = <<>>
  /\ UNCHANGED out

Next ==
  \/ \E text \in Texts : Write(text)
  \/ \E count \in 0 .. Limit + 1 : Read(count)
  \/ Clear

Spec == Init /\ [][Next]_<<queue, out>>
=============================================================================

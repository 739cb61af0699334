----------------------------- MODULE RingBuffer -----------------------------
(***************************************************************************)
(* The ring buffer of the support library (startle/support.c), which keeps *)
(* text that was read from a file and pushed back.                         *)
(*                                                                         *)
(* One place of the data is never filled, to tell a full buffer from an   *)
(* empty one.  head and tail are not kept below its size: an operation     *)
(* that ends exactly at the end of data leaves them AT RingSize, and the   *)
(* next one wraps.  So there are two positions for the same place, and     *)
(* every length that is computed from them has to allow for both.          *)
(***************************************************************************)
EXTENDS Naturals, Sequences

CONSTANTS
  RingSize, \* rb->size
  Chars,    \* the characters
  MaxText   \* the length of the longest text that is written

ASSUME RingSizeAssumption == RingSize \in Nat \ {0}
ASSUME MaxTextAssumption == MaxText \in Nat

VARIABLES
  head,  \* where the next character is written
  tail,  \* where the next character is read
  data,  \* the characters
  out    \* what the last read copied to its destination

ring == <<head, tail, data, out>>

RingPlaces == 0 .. RingSize - 1

RingTexts == UNION {[1 .. n -> Chars] : n \in 0 .. MaxText}

Lesser(a, b) == IF a <= b THEN a ELSE b

rb_available == (RingSize + head - tail) % RingSize

rb_capacity == RingSize - rb_available - 1

\* The place n places after position p.
Place(p, n) == IF p + n < RingSize THEN p + n ELSE p + n - RingSize

\* mutant: one short
AdvanceShort(p, n) == IF n <= RingSize - p THEN p + n ELSE n - (RingSize - p) - 1

\* The position after n characters from p on: at the end of data, not wrapped.
Advance(p, n) == IF n <= RingSize - p THEN p + n ELSE n - (RingSize - p)

\* The first n characters, as they are copied out in one or two pieces.
Oldest(n) == [k \in 1 .. n |-> data[Place(tail, k - 1)]]

Filled(text, n) ==
  [p \in RingPlaces |->
     LET right == RingSize - head
     IN  IF p >= head /\ p - head < n THEN text[p - head + 1]
         ELSE IF p + right < n THEN text[p + right + 1]
         ELSE data[p]]

-----------------------------------------------------------------------------
\* rb_init() on memory whose characters are whatever was there.
RingInit ==
  /\ head = 0
  /\ tail = 0
  /\ data \in [RingPlaces -> Chars]
  /\ out = <<>>

rb_write(text) ==
  LET n == Lesser(Len(text), rb_capacity) IN
  /\ data' = Filled(text, n)
  /\ head' = Advance(head, n)
  /\ UNCHANGED <<tail, out>>

rb_read(count) ==
  LET n == Lesser(count, rb_available) IN
  /\ out' = Oldest(n)
  /\ tail' = Advance(tail, n)
  /\ UNCHANGED <<head, data>>

rb_clear ==
  /\ tail' = head
  /\ UNCHANGED <<head, data, out>>

RingNext ==
  \/ \E text \in RingTexts : rb_write(text)
  \/ \E count \in 0 .. RingSize : rb_read(count)
  \/ rb_clear

RingSpec == RingInit /\ [][RingNext]_ring

-----------------------------------------------------------------------------
(* Properties.                                                             *)

\* No position is outside data, and head is at the end of data only when the
\* place at its start is free: there rb_available would take a full buffer
\* for an empty one.
RingTypeOK ==
  /\ head \in 0 .. RingSize
  /\ tail \in 0 .. RingSize
  /\ ~(head = RingSize /\ tail = 0)
  /\ data \in [RingPlaces -> Chars]
  /\ out \in Seq(Chars)

\* The characters in the buffer, in the order they will be read.
Contents == Oldest(rb_available)

\* The buffer is a queue of RingSize - 1 characters, wherever head and tail are.
Queue == INSTANCE Fifo WITH queue <- Contents, Texts <- RingTexts, Limit <- RingSize - 1

IsQueue == Queue!Spec

\* Each call does to the queue what it is named for, with the same argument:
\* a write appends the text that it is given, a read takes the characters at
\* the front, and neither disturbs the others.
CallsAsQueue ==
  [][/\ \A text \in RingTexts : rb_write(text) => Queue!Write(text)
     /\ \A count \in 0 .. RingSize : rb_read(count) => Queue!Read(count)
     /\ rb_clear => Queue!Clear]_ring
=============================================================================

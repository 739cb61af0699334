------------------------------ MODULE TextFile ------------------------------
(***************************************************************************)
(* Text input with push-back (io.c and the reader of irc.c) over the ring  *)
(* buffer.                                                                 *)
(*                                                                         *)
(* A program reads a text, keeps the part that it wants and pushes the     *)
(* rest back with io_unread(), or pushes back more than one part; the next *)
(* read returns what was pushed back before anything new.  The n-th        *)
(* character of the input is the number n; 0 stands for any character that *)
(* is not of the input.                                                    *)
(*                                                                         *)
(* A file has a ring buffer of its own from open to close.  The streams    *)
(* stdin and irc have one that lives as long as the process: opening and   *)
(* closing them does nothing, and neither does seeking.  malloc() does not *)
(* set the positions in the buffer of a file: only those within its data   *)
(* are modelled, with others the first call leaves the buffer.             *)
(***************************************************************************)
EXTENDS Integers, Sequences

CONSTANTS
  RingSize, \* INPUT_BUFFER_SIZE, the size of every ring buffer: 1024
  InputBuf, \* static_sizeof(input_buf), and of line_buffer: 1024 too
  InputLen, \* a bound: the length of the input
  Junk,     \* the values malloc() leaves in head and tail
  MaxParts  \* a bound: texts that are pushed back between two reads

ASSUME InputBufAssumption == InputBuf \in Nat /\ InputBuf >= 2 /\ RingSize = InputBuf
ASSUME InputLenAssumption == InputLen \in Nat
ASSUME JunkAssumption == Junk \subseteq 0 .. RingSize
ASSUME MaxPartsAssumption == MaxParts \in Nat

VARIABLES
  head, tail, data, out,  \* the ring buffer
  kind,    \* what is read: file, stdin or irc
  opened,  \* is it open?
  pos,     \* how much of the input was read from the descriptor
  text,    \* the text that the program got last
  due,     \* ghost: what was pushed back since, whether it fitted or not
  given,   \* ghost: in how many parts
  junk     \* ghost: was the buffer not empty when it was allocated, and has
           \* nothing cleared it yet?

buffer == <<head, tail, data, out>>
ghosts == <<due, given, junk>>
file   == <<head, tail, data, out, kind, opened, pos, text, due, given, junk>>

Buffer == INSTANCE RingBuffer WITH Chars <- 0 .. InputLen, MaxText <- RingSize

Lesser(a, b) == IF a <= b THEN a ELSE b

\* n characters of the input, from the next one on.
Fresh(n) == [i \in 1 .. n |-> pos + i]

-----------------------------------------------------------------------------
FileInit ==
  /\ kind \in {"file", "stdin", "irc"}
  /\ opened = FALSE
  /\ head = 0 /\ tail = 0
  /\ data = [p \in 0 .. RingSize - 1 |-> 0]
  /\ out = <<>>
  /\ pos = 0
  /\ text = <<>>
  /\ due = <<>> /\ given = 0 /\ junk = FALSE

\* The buffer is empty, or all of it was read.
Nothing(isJunk) == due' = <<>> /\ given' = 0 /\ junk' = isJunk

\* A new file is at its start, and alloc_ring_buffer() sets size only.
io_open ==
  /\ ~opened
  /\ opened' = TRUE
  /\ IF kind = "file"
     THEN /\ head' \in Junk /\ tail' \in Junk
          /\ data' = [p \in 0 .. RingSize - 1 |-> 0]
          /\ pos' = 0
          /\ Nothing(Buffer!rb_available' # 0)
          /\ UNCHANGED <<out, kind, text>>
     ELSE UNCHANGED <<buffer, kind, pos, text, ghosts>>

\* A stream keeps its buffer, and the program the text it has read.
io_close ==
  /\ opened
  /\ opened' = FALSE
  /\ UNCHANGED <<buffer, kind, pos, text, ghosts>>

ReadSizeFull == Lesser(RingSize, InputBuf)  \* mutant: no room for the final NUL

ReadSize == Lesser(RingSize, InputBuf - 1)

\* How many new characters are asked for after old ones from the buffer.
Room(old) == ReadSize - old

\* What was pushed back, then what the descriptor has: any part of what is
\* asked for, or nothing at the end of the input and after an error.
io_read ==
  /\ opened
  /\ kind # "irc"
  /\ Buffer!rb_read(ReadSize)
  /\ \E n \in 0 .. Lesser(Room(Len(out')), InputLen - pos) :
       /\ text' = out' \o Fresh(n)
       /\ pos' = pos + n
  /\ Nothing(FALSE)
  /\ UNCHANGED <<kind, opened>>

\* What was pushed back, or else a message from the server.
irc_io_read ==
  /\ opened
  /\ kind = "irc"
  /\ IF Buffer!rb_available # 0
     THEN /\ Buffer!rb_read(InputBuf)
          /\ text' = out'
          /\ UNCHANGED pos
     ELSE \E n \in 0 .. Lesser(InputBuf - 2, InputLen - pos) :
            /\ text' = Fresh(n)
            /\ pos' = pos + n
            /\ UNCHANGED buffer
  /\ Nothing(FALSE)
  /\ UNCHANGED <<kind, opened>>

\* The last n characters of the text are pushed back; how many fit is not
\* looked at.
io_unread(n) ==
  /\ opened
  /\ Buffer!rb_write(SubSeq(text, Len(text) - n + 1, Len(text)))
  /\ given < MaxParts
  /\ due' = due \o SubSeq(text, Len(text) - n + 1, Len(text))
  /\ given' = given + 1
  /\ UNCHANGED <<kind, opened, pos, text, junk>>

SeekBuffer == Buffer!rb_clear

\* Bound: a text from before it is not pushed back after a seek.

io_seek(offset) ==
  /\ opened
  /\ kind = "file"
  /\ SeekBuffer
  /\ pos' = offset
  /\ text' = <<>>
  /\ Nothing(FALSE)
  /\ UNCHANGED <<kind, opened>>

-----------------------------------------------------------------------------
\* The words of programs, each of which uses the table of operations (io).
open == io_open

close == io_close

read == io_read \/ irc_io_read

unread == \E n \in 1 .. Len(text) : io_unread(n)

seek == \E offset \in 0 .. InputLen : io_seek(offset)

FileNext == open \/ close \/ read \/ unread \/ seek

FileSpec == FileInit /\ [][FileNext]_file

-----------------------------------------------------------------------------
(* Properties.                                                             *)

\* What a program that pushes back one part of each text is owed is all of
\* it; of several parts, what the buffer takes (io.c:121).
Owed == IF given <= 1 THEN due ELSE SubSeq(due, 1, Lesser(Len(due), RingSize - 1))

\* Every read gives what was pushed back since the last one, in that order,
\* and then what follows on the descriptor, whatever was sought, closed and
\* opened in between: a program that pushes back one part of each text gets the
\* input with no character missing, twice or from somewhere else.  Of several
\* parts those characters are lost that do not fit in the buffer; and the first
\* read of a file whose buffer was not empty when it was allocated (io.c:75)
\* gives what was there too, unless it is sought before.
ReadInOrder ==
  [][read /\ ~junk => \E n \in 0 .. InputLen - pos :
                        text' = Owed \o Fresh(n) /\ pos' = pos + n]_file
=============================================================================

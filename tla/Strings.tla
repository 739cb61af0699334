------------------------------ MODULE Strings -------------------------------
(***************************************************************************)
(* Strings as they are printed, and as they are read (startle/support.c).  *)
(* A string value is printed between quotes, escaped a few characters at a *)
(* time through a buffer of fixed size; the text between the quotes of a   *)
(* string literal is unescaped.                                            *)
(*                                                                         *)
(* A character is a number from -128 to 127: char is signed.  In the code  *)
(* Chunk is 16 and Room is 64: as here, a chunk of characters that are all *)
(* written in hexadecimal just fills the buffer.                           *)
(*                                                                         *)
(* A number of a message is shown as a tag (startle/log.c), which the      *)
(* commands that stop at a message read.                                   *)
(***************************************************************************)
EXTENDS Integers, Sequences, SequencesExt

CONSTANTS
  Strs,   \* the strings to be printed
  Chunk,  \* how many characters are escaped at a time
  Room,   \* the size of the buffer
  Stray,  \* what follows the buffer in memory
  Tagged  \* the numbers that tags are written for

ASSUME ChunkAssumption == Chunk \in Nat \ {0} /\ Room \in Nat \ {0}

VARIABLES
  str,   \* the string
  rest,  \* what of it has still to be printed
  shown, \* what has been printed
  read,  \* the string that was read from it
  stage  \* printing, reading or done

strings == <<str, rest, shown, read, stage>>

NUL == 0

Quote == 34

Apostrophe == 39

Backslash == 92

LetterX == 120

Printable(c) == c \in 32 .. 126

(* The letters for the characters that have one, in escape_string().       *)
Escapes ==
  [c \in {0, 7, 8, 9, 10, 11, 12, 13, Backslash} |->
     CASE c = 0 -> 48 [] c = 7 -> 97 [] c = 8 -> 98 [] c = 9 -> 116 [] c = 10 -> 110
       [] c = 11 -> 118 [] c = 12 -> 102 [] c = 13 -> 114 [] OTHER -> Backslash]

(* What the letters stand for in unescape_string().                        *)
Unescapes ==
  [l \in {Escapes[c] : c \in DOMAIN Escapes} \cup {Apostrophe, Quote, 63} |->
     IF l \in {Apostrophe, Quote, 63} THEN l
     ELSE CHOOSE c \in DOMAIN Escapes : Escapes[c] = l]

digit(n) ==
  CASE n \in 0 .. 9 -> 48 + n
    [] n \in 10 .. 35 -> 97 + n - 10
    [] OTHER -> 63

digit_value(c) ==
  CASE c \in 48 .. 57 -> c - 48
    [] c \in 65 .. 90 -> c - 65 + 10
    [] c \in 97 .. 122 -> c - 97 + 10
    [] OTHER -> -1

(* -1 if there is a digit that is not of the base.                         *)
strnum(s, base) ==
  LET add(v, c) ==
        IF v.ended \/ c = NUL THEN [v EXCEPT !.ended = TRUE]
        ELSE IF digit_value(c) \in 0 .. base - 1 /\ v.num >= 0
             THEN [v EXCEPT !.num = @ * base + digit_value(c)]
             ELSE [num |-> -1, ended |-> TRUE]
  IN  FoldLeft(add, [num |-> 0, ended |-> FALSE], s).num

Char(v) == IF v > 127 THEN v - 256 ELSE v

(* mutant: the digits of a character are written the wrong way round.      *)
HexSwapped(c) == <<Backslash, LetterX, digit(c % 16), digit(c \div 16)>>

(* c >> 4 is negative if c is, and has no digit.                           *)
Hex(c) == <<Backslash, LetterX, digit(c \div 16), digit(c % 16)>>

(* The string escaped into n places, without the entities that are used in *)
(* graphs.  A character that does not fit ends it, except that one with    *)
(* too little room for its digits is written itself after the backslash.   *)
escape_string(n, s) ==
  LET put(d, c) ==
        LET used == Len(d.out)
        IN  CASE d.full \/ used >= n -> [d EXCEPT !.full = TRUE]
              [] Printable(c) /\ c # Backslash /\ ~d.full /\ used < n ->
                   [d EXCEPT !.out = Append(@, c)]
              [] used + 1 >= n -> [d EXCEPT !.full = TRUE]
              [] c \in DOMAIN Escapes -> [d EXCEPT !.out = @ \o <<Backslash, Escapes[c]>>]
              [] used + 3 >= n -> [d EXCEPT !.out = @ \o <<Backslash, c>>]
              [] OTHER -> [d EXCEPT !.out = @ \o Hex(c)]
  IN  FoldLeft(put, [out |-> <<>>, full |-> FALSE], s).out

(* The string up to its end or a NUL.                                      *)
unescape_string(s) ==
  LET follows(i, l) == i < Len(s) /\ s[i] = Backslash /\ s[i + 1] \in l
      from[i \in 1 .. Len(s) + 1] ==
        IF i > Len(s) THEN <<>>
        ELSE IF s[i] = NUL THEN <<>>
        ELSE IF follows(i, DOMAIN Unescapes) THEN <<Unescapes[s[i + 1]]>> \o from[i + 2]
        ELSE IF follows(i, {LetterX}) /\ i + 3 <= Len(s) /\ strnum(SubSeq(s, i + 2, i + 3), 16) >= 0
             THEN <<Char(strnum(SubSeq(s, i + 2, i + 3), 16))>> \o from[i + 4]
        ELSE <<s[i]>> \o from[i + 1]
  IN  from[1]

StringsInit ==
  /\ str \in Strs
  /\ rest = str
  /\ shown = <<>> /\ read = <<>>
  /\ stage = "printing"

(* A part after the other.  fprintf() takes the buffer for a string: if it *)
(* is full, nothing ends it and what is in memory after it is printed too. *)
fprintf_escaped_string ==
  /\ stage = "printing"
  /\ LET n   == IF Len(rest) > Chunk THEN Chunk ELSE Len(rest)
         out == escape_string(Room, SubSeq(rest, 1, n))
     IN  /\ shown' = shown \o IF Len(out) < Room THEN out ELSE out \o Stray
         /\ rest' = SubSeq(rest, n + 1, Len(rest))
         /\ stage' = IF Len(rest) > Chunk THEN "printing" ELSE "reading"
  /\ UNCHANGED <<str, read>>

(* The literal, between its quotes.                                        *)
make_unescaped_string ==
  /\ stage = "reading"
  /\ read' = unescape_string(shown)
  /\ stage' = "done"
  /\ UNCHANGED <<str, rest, shown>>

StringsNext == fprintf_escaped_string \/ make_unescaped_string

-----------------------------------------------------------------------------
(* Tags.                                                                   *)

TagLength == 5

TagRange == 2 ^ 24 \* tag_mask + 1

tag_factor == 13999267

tag_factor_inverse == 10221323

(* a * b in TagRange, by halves.                                           *)
TagProduct(a, b) ==
  LET Half == 2 ^ 12
      cross == (a \div Half) * (b % Half) + (a % Half) * (b \div Half)
  IN  ((cross % Half) * Half + (a % Half) * (b % Half)) % TagRange

to_tag_char(x) == IF x % 32 < 24 THEN 97 + (x % 32) ELSE 50 + (x % 32) - 24

from_tag_char(c) ==
  CASE c \in 97 .. 120 -> c - 97
    [] c \in 48 .. 96  -> c - 50 + 24
    [] OTHER           -> -1

write_tag(val) ==
  LET n == TagProduct((val + 1) % TagRange, tag_factor)
  IN  [i \in 1 .. TagLength |-> to_tag_char(n \div 32 ^ (TagLength - i))]

read_tag(tag) ==
  LET digits == [i \in DOMAIN tag |-> from_tag_char(tag[i])]
      n == FoldLeft(LAMBDA v, x : v * 32 + x, 0, digits)
  IN  IF \E i \in DOMAIN digits : digits[i] < 0 THEN -1
      ELSE TagProduct(n % TagRange, tag_factor_inverse) - 1

-----------------------------------------------------------------------------
(* Properties.                                                             *)

(* Is a part of the string that is escaped at once too long for the room?  *)
Overfull ==
  \E i \in 0 .. (Len(str) - 1) \div Chunk :
    Len(escape_string(5 * Chunk, SubSeq(str, i * Chunk + 1,
      IF (i + 1) * Chunk < Len(str) THEN (i + 1) * Chunk ELSE Len(str)))) >= Room

(* A string of ASCII characters that is printed and read again is the same *)
(* (print_escaped_string(), unescape_string()), as long as no chunk of it  *)
(* fills the buffer.  Characters from 128 on have a negative char, and are *)
(* not written so that they can be read.  A tag is read as the number that *)
(* it was written for, but the greatest as none.                           *)
StringsReadBack ==
  stage = "done" =>
    /\ (\A i \in DOMAIN str : str[i] >= 0) /\ ~Overfull => read = str
    /\ \A v \in Tagged : read_tag(write_tag(v)) = IF v = TagRange - 1 THEN -1 ELSE v
=============================================================================

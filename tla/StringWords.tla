---------------------------- MODULE StringWords -----------------------------
(***************************************************************************)
(* The words on strings (primitive/string.c), applied one after the other  *)
(* to the values of a stack, over the memory of a string (cells.c): whole  *)
(* pointers, the last byte of which tells how many bytes are not used.     *)
(* Some words take the size from there, others the functions of C, which   *)
(* read up to a NUL wherever it is.  The values are known: there are no    *)
(* variables, and all of them are asked for.                               *)
(***************************************************************************)
EXTENDS Strings

CONSTANTS
  Literals, \* strings of a program: their text, and its length before unescaping
  Ints,     \* integers of a program
  Unit,     \* bytes of a pointer
  IntBytes, \* bytes of an int: 4 in the code
  Beyond,   \* what follows a string in memory
  MaxLen,   \* a bound: the longest string
  MaxWords  \* a bound: the words of a program

ASSUME UnitAssumption == Unit \in Nat \ {0} /\ IntBytes \in Nat \ {0}

VARIABLES
  values, \* the stack, with its top last
  word,   \* the last word
  taken,  \* what it was taken
  words   \* how many words there were

strwords == <<values, word, taken, words>>

Symbols == [F |-> <<70>>, T |-> <<84>>]

Number(n) == [t |-> "int", v |-> n]

Symbol(s) == [t |-> "symbol", v |-> s]

Fail == [t |-> "fail"]

Bytes(n) == Unit * ((n + Unit) \div Unit)

(* The memory for n characters, the first of which are those of s.  Space  *)
(* for a NUL is counted, but the last byte is used twice: there are no     *)
(* bytes left if n + 1 is a multiple of Unit.                              *)
alloc_string(n, s) ==
  LET size == Bytes(n)
  IN  [i \in 1 .. size |->
         IF i = size THEN Char(size - n) ELSE IF i <= Len(s) THEN s[i] ELSE NUL]

(* The size of string m becomes n; what is behind it does not matter.      *)
set_string_size(m, n) ==
  [m EXCEPT ![n + 1] = NUL, ![Len(m)] = Char(Len(m) - n)]

string_size(m) == Len(m) - m[Len(m)]

(* The string as the functions of C see it.                                *)
c_str(m) ==
  LET all == m \o Beyond
      end == CHOOSE i \in DOMAIN all : all[i] = NUL /\ \A j \in 1 .. i - 1 : all[j] # NUL
  IN  SubSeq(all, 1, end - 1)

value_seg(m) == SubSeq(m \o Beyond, 1, string_size(m))

String(m) == [t |-> "string", v |-> m]

make_string(s) == String(alloc_string(Len(s), s))

make_strcat(s1, s2) == String(alloc_string(Len(s1) + Len(s2), s1 \o s2))

(* A literal is as long as its text before unescaping.                     *)
literal(l) ==
  String(set_string_size(alloc_string(l.raw, l.text), Len(l.text)))

is_whitespace(c) == c \in {32, 10, 13, 9}

(* What is not whitespace at the front, then at the back.                  *)
seg_trim(s) ==
  LET kept == {i \in DOMAIN s : ~is_whitespace(s[i])}
  IN  IF kept = {} THEN <<>> ELSE SubSeq(s, Min(kept), Max(kept))

int_to_string(n) ==
  LET digits[i \in Nat] ==
        IF i < 10 THEN <<digit(i)>> ELSE Append(digits[i \div 10], digit(i % 10))
  IN  IF n < 0 THEN <<45>> \o digits[-n] ELSE digits[n]

(* External: an integer after space and a sign, in the base that it says,  *)
(* and what is left; all of it if there is no digit.                       *)
strtoll(s) ==
  LET space == {i \in DOMAIN s : \A j \in 1 .. i : s[j] \in 9 .. 13 \cup {32}}
      t     == SubSeq(s, Cardinality(space) + 1, Len(s))
      signed == t # <<>> /\ t[1] \in {43, 45}
      u     == IF signed THEN Tail(t) ELSE t
      hex   == Len(u) > 2 /\ u[1] = 48 /\ u[2] \in {88, 120} /\ digit_value(u[3]) \in 0 .. 15
      base  == IF hex THEN 16 ELSE IF u # <<>> /\ u[1] = 48 THEN 8 ELSE 10
      v     == IF hex THEN SubSeq(u, 3, Len(u)) ELSE u
      n     == Cardinality({i \in DOMAIN v :
                 \A j \in 1 .. i : digit_value(v[j]) \in 0 .. base - 1})
      sum   == FoldLeft(LAMBDA a, c : a * base + digit_value(c), 0, SubSeq(v, 1, n))
  IN  IF n = 0 THEN [v |-> 0, left |-> s]
      ELSE [v    |-> IF signed /\ t[1] = 45 THEN -sum ELSE sum,
            left |-> SubSeq(v, n + 1, Len(v))]

(* Where needle starts in s: the places, of which strstr() finds the first. *)
Occurs(s, needle) ==
  {i \in 1 .. Len(s) - Len(needle) + 1 : SubSeq(s, i, i + Len(needle) - 1) = needle}

(* The low bytes of an integer, the lowest first.                          *)
LowBytes(n) == [i \in 1 .. IntBytes |-> Char((n \div 256 ^ (i - 1)) % 256)]

-----------------------------------------------------------------------------
(* The words: the values that they leave, or a failure.                    *)
strcat(p, q) == <<make_strcat(value_seg(p.v), value_seg(q.v))>>

eq_str(p, q) == <<Symbol(IF value_seg(p.v) = value_seg(q.v) THEN "T" ELSE "F")>>

to_string(p) ==
  CASE p.t = "int" -> <<make_string(int_to_string(p.v))>>
    [] p.t = "symbol" -> <<make_string(Symbols[p.v])>>
    [] OTHER -> <<Fail>>

to_string_bin(p) == <<make_string(LowBytes(p.v))>>

from_string(p) ==
  LET x == strtoll(c_str(p.v))
  IN  <<IF x.left = <<>> THEN Number(x.v) ELSE Fail>>

(* The rest of the integer is zero: it is not negative.                    *)
from_string_bin(p) ==
  LET s == value_seg(p.v)
      n == IF Len(s) < IntBytes THEN Len(s) ELSE IntBytes
  IN  <<Number(FoldLeft(LAMBDA a, i : a + (s[i] % 256) * 256 ^ (i - 1), 0,
                     [i \in 1 .. n |-> i]))>>

(* mutant: splits where the separator is found last.                       *)
SplitLast(p, q) ==
  LET s == c_str(p.v)
      o == Occurs(s, c_str(q.v))
      behind == Max(o) + Len(c_str(q.v))
  IN  IF o = {} THEN <<Fail>>
      ELSE <<make_string(SubSeq(s, 1, Max(o) - 1)), make_string(SubSeq(s, behind, Len(s)))>>

strsplit(p, q) ==
  LET s == c_str(p.v)
      o == Occurs(s, c_str(q.v))
      behind == Min(o) + Len(c_str(q.v))
  IN  IF o = {} THEN <<Fail>>
      ELSE <<make_string(SubSeq(s, 1, Min(o) - 1)), make_string(SubSeq(s, behind, Len(s)))>>

strtrim(p) == <<make_string(seg_trim(c_str(p.v)))>>

-----------------------------------------------------------------------------
(* The arguments that a word reduces, and their types.                     *)
Takes ==
  [strcat |-> <<"string", "string">>, eq_str |-> <<"string", "string">>,
   to_string |-> <<"any">>, to_string_bin |-> <<"int">>, from_string |-> <<"string">>,
   from_string_bin |-> <<"string">>, strsplit |-> <<"string", "string">>,
   strtrim |-> <<"string">>]

Apply(w, a) ==
  CASE w = "strcat" -> strcat(a[1], a[2])
    [] w = "eq_str" -> eq_str(a[1], a[2])
    [] w = "to_string" -> to_string(a[1])
    [] w = "to_string_bin" -> to_string_bin(a[1])
    [] w = "from_string" -> from_string(a[1])
    [] w = "from_string_bin" -> from_string_bin(a[1])
    [] w = "strsplit" -> strsplit(a[1], a[2])
    [] w = "strtrim" -> strtrim(a[1])

WordsInit ==
  values = <<>> /\ word = "none" /\ taken = <<>> /\ words = 0

Push(v) ==
  /\ values' = Append(values, v)
  /\ word' = "literal" /\ taken' = <<v>>

(* An argument of another type fails, and the word with it.                *)
Reduce(w) ==
  LET n == Len(Takes[w])
      a == SubSeq(values, Len(values) - n + 1, Len(values))
      fits == \A i \in 1 .. n : Takes[w][i] \in {"any", a[i].t}
  IN  /\ Len(values) >= n
      /\ values' = SubSeq(values, 1, Len(values) - n) \o IF fits THEN Apply(w, a) ELSE <<Fail>>
      /\ word' = w /\ taken' = a

Length(v) == IF v.t = "string" THEN string_size(v.v) ELSE 0

WordsNext ==
  /\ words < MaxWords /\ words' = words + 1
  /\ \A i \in DOMAIN values : values[i].t # "fail"
  /\ \/ \E l \in Literals : Push(literal(l))
     \/ \E n \in Ints : Push(Number(n))
     \/ \E w \in DOMAIN Takes : Reduce(w)
  /\ \A i \in DOMAIN values' : Length(values'[i]) <= MaxLen

WordsSpec == WordsInit /\ [][WordsNext]_strwords

-----------------------------------------------------------------------------
(* Properties.                                                             *)

(* A value as it is printed.                                               *)
Shown(v) == IF v.t = "string" THEN value_seg(v.v) ELSE <<>>

(* The part of a text before its first NUL.                                *)
Before(s) ==
  LET nul == {i \in DOMAIN s : s[i] = NUL}
  IN  IF nul = {} THEN s ELSE SubSeq(s, 1, Min(nul) - 1)

(* Does sep follow the first i characters of s?                            *)
Follows(s, i, sep) == i + Len(sep) <= Len(s) /\ \A j \in DOMAIN sep : s[i + j] = sep[j]

(* Each word gives what it promises of the strings as they are printed:    *)
(* the parts of a split string and the separator between them are the      *)
(* string, and the separator is nowhere before; a trimmed string only lost *)
(* space and has none left; an integer that was written as a string or in  *)
(* binary is read back (primitive/string.c).                               *)
WordsMean ==
  LET n == Len(values)
      s == Shown(taken[1])
      failed == values[n].t = "fail"
      r == Shown(values[n])
  IN  CASE word = "strcat" /\ ~failed -> r = s \o Shown(taken[2])
        [] word = "strsplit" /\ ~failed ->
             LET first == Shown(values[n - 1])
                 sep   == Before(Shown(taken[2]))
             IN  /\ first \o sep \o r = Before(s)
                 /\ \A i \in 0 .. Len(first) - 1 : ~Follows(Before(s), i, sep)
        [] word = "strsplit" /\ failed /\ taken[1].t = "string" /\ taken[2].t = "string" ->
             \A i \in 0 .. Len(s) : ~Follows(Before(s), i, Before(Shown(taken[2])))
        [] word = "strtrim" /\ ~failed ->
             /\ r # <<>> => ~is_whitespace(r[1]) /\ ~is_whitespace(r[Len(r)])
             /\ \E i, j \in 0 .. Len(Before(s)) :
                  /\ i + j <= Len(Before(s))
                  /\ SubSeq(Before(s), i + 1, Len(Before(s)) - j) = r
                  /\ \A k \in DOMAIN Before(s) :
                       k <= i \/ k > Len(Before(s)) - j => is_whitespace(s[k])
        [] word = "to_string" /\ ~failed /\ taken[1].t = "int" ->
             from_string(values[n]) = <<taken[1]>>
        [] word = "to_string_bin" /\ ~failed ->
             from_string_bin(values[n]) = <<Number(taken[1].v % 256 ^ IntBytes)>>
        [] word = "from_string" /\ ~failed /\ s = int_to_string(values[n].v) ->
             to_string(values[n])[1] = make_string(s)
        [] OTHER -> TRUE

(* The functions of C see the string that was made, up to its first NUL:   *)
(* alloc_string() says that it has space for one behind the string         *)
(* (cells.c).                                                              *)
StringsTerminated ==
  \A i \in DOMAIN values :
    values[i].t = "string" => c_str(values[i].v) = Before(Shown(values[i]))
=============================================================================

------------------------------- MODULE Lexer --------------------------------
(***************************************************************************)
(* Reading text into tokens (parse/tok.c, parse/lex.c).  A text is a       *)
(* sequence of characters; Chars gives the class of each character that    *)
(* occurs.  One step is one call of tok(): it skips spaces and comments    *)
(* and takes the token after them.                                         *)
(***************************************************************************)
EXTENDS Integers, Sequences, FiniteSets

CONSTANTS
  Texts,   \* the texts that are read
  MaxText  \* a bound: the longest of them

VARIABLES
  text,    \* the text
  at,      \* how far it is read (s)
  line,    \* where the line of the last token starts
  toks,    \* the tokens
  reading  \* "reading", "done", or "error"

lexer == <<text, at, line, toks, reading>>

char_class(c) ==
  CASE c \in {" ", "\n", "nul"} -> "none"
    [] c \in {"0", "1"} -> "numeric"
    [] c \in {"a", "b", "e", "x"} -> "alpha"
    [] c = "?" -> "var"
    [] c = "." -> "dot"
    [] c = "_" -> "comment"
    [] c = "\"" -> "string"
    [] c = "," -> "comma"
    [] c \in {"[", "]", "(", ")"} -> "bracket"
    [] c \in {"+", "-", ":", "\\"} -> "symbol"

TextEnd(t) == Len(t) + 1

(* The text is followed by a zero.                                         *)
Char(t, i) == IF i \in 1 .. Len(t) THEN t[i] ELSE "nul"

Class(t, i) == char_class(Char(t, i))

(* The first place from i on where P holds, or the end.                    *)
First(t, i, P(_)) ==
  LET places == {j \in i .. Len(t) : P(j)}
  IN  IF places = {} THEN (IF i > TextEnd(t) THEN i ELSE TextEnd(t))
      ELSE CHOOSE j \in places : \A k \in places : j <= k

-----------------------------------------------------------------------------
(* Comments.                                                               *)

\* mutant: a closing underscore ends the comment, whatever the level.
SkipFlat(t, s) ==
  LET IsComment(j) == Class(t, j) = "comment"
      NoComment(j) == ~IsComment(j)
      after == First(t, s + 1, NoComment)
  IN  IF Class(t, after) = "none" THEN s
      ELSE First(t, First(t, after + 2, IsComment) + 1, NoComment)

(* Where the comment that starts at s ends; s if there is none.  An        *)
(* underscore after a space opens a level, one before a space closes one;  *)
(* the character after the one that follows the underscore is passed over. *)
skip_comment(t, s) ==
  LET IsComment(j) == Class(t, j) = "comment"
      NoComment(j) == ~IsComment(j)
      Newline(j) == t[j] = "\n"
      from[ptr \in 1 .. MaxText + 1, level \in 0 .. MaxText, spaced \in BOOLEAN] ==
        LET after == First(t, ptr + 1, NoComment)
            closed == Class(t, after) = "none"
            next == First(t, after + 2, IsComment)
            previous == IF next = after + 2 THEN after ELSE next - 1
            deeper == IF spaced /\ ~closed THEN level + 1
                      ELSE IF ~spaced /\ closed THEN level - 1
                      ELSE level
        IN  IF after >= TextEnd(t) THEN TextEnd(t)
            ELSE IF spaced /\ closed /\ level = 0
            THEN IF after - ptr > 1 THEN First(t, after, Newline) ELSE s
            ELSE IF ~spaced /\ closed /\ deeper <= 0 THEN after
            ELSE IF next >= TextEnd(t) THEN next
            ELSE from[next, deeper, Class(t, previous) = "none"]
  IN  from[s, 0, TRUE]

-----------------------------------------------------------------------------
(* Tokens.                                                                 *)

(* The first place that is neither in a space nor in a comment.            *)
SkipSpace(t, s) ==
  LET from[p \in 1 .. MaxText + 2] ==
        CASE p >= TextEnd(t) -> TextEnd(t)
          [] p < TextEnd(t) /\ Class(t, p) = "none" -> from[p + 1]
          [] p < TextEnd(t) /\ Class(t, p) = "comment" ->
               IF skip_comment(t, p) = p THEN p ELSE from[skip_comment(t, p)]
          [] OTHER -> p
  IN  from[s]

(* The place after the string that starts at s, or 0 if it does not end.   *)
string_literal_end(t, s) ==
  LET from[p \in 1 .. MaxText + 2] ==
        IF p >= TextEnd(t) THEN 0
        ELSE IF t[p] = "\"" THEN p + 1
        ELSE IF t[p] = "\\" THEN from[p + 2]
        ELSE from[p + 1]
  IN  from[s + 1]

Exponent(c) == c = "e"

(* May the character at p follow a token of class cc that started at s?    *)
(* The class of the token with it, or "stop".                              *)
Joined(t, s, p, cc, hex) ==
  LET i == p - s
      c == t[p]
      ncc == char_class(c)
      before == t[p - 1]
      zero_x == /\ cc = "numeric" /\ c = "x" /\ before = "0"
                /\ i = 1 \/ (i = 2 /\ t[p - 2] = "-")
  IN  CASE cc = ncc \/ cc = "none" -> ncc
        [] ncc = "numeric" /\ cc = "float" -> cc
        [] ncc = "numeric" /\ cc # "float" /\ i = 1 /\ before = "-" -> "numeric"
        [] ncc = "numeric" /\ cc = "alpha" -> cc
        [] ncc = "comment" /\ cc \in {"alpha", "symbol"} -> cc
        [] ncc = "dot" /\ cc = "alpha" /\ Char(t, p + 1) # "." -> "none"
        [] ncc = "dot" /\ cc = "numeric" /\ Char(t, p + 1) # "." -> "float"
        [] ncc = "alpha" /\ zero_x -> cc
        [] ncc = "alpha" /\ cc = "numeric" /\ hex /\ c \in {"a", "b", "e"} -> cc
        [] ncc = "alpha" /\ cc \in {"numeric", "float"} /\ ~hex /\ Exponent(c) -> "float"
        [] ncc = "alpha" /\ cc = "symbol" /\ before # ":" -> "alpha"
        [] ncc = "symbol" /\ cc = "float" /\ Exponent(before) -> cc
        [] OTHER -> "stop"

(* The end and the class of the token that starts at s.                    *)
Extent(t, s) ==
  LET from[p \in 1 .. MaxText + 1,
           cc \in {"none", "numeric", "float", "alpha", "symbol", "bracket",
                   "var", "dot", "string", "comma", "comment"},
           hex \in BOOLEAN] ==
        LET joined == Joined(t, s, p, cc, hex)
            in_hex == hex \/ (cc = "numeric" /\ t[p] = "x")
        IN  IF p >= TextEnd(t) THEN [end |-> TextEnd(t), class |-> cc]
            ELSE IF joined = "stop" THEN [end |-> p, class |-> cc]
            ELSE from[p + 1, joined, in_hex]
  IN  from[s + 1, Class(t, s), FALSE]

(* The token at s, without a colon that ends it.                           *)
Token(t, s) ==
  LET cc == Class(t, s)
      long == Extent(t, s)
      whole == IF cc = "string" THEN [end |-> string_literal_end(t, s), class |-> cc]
               ELSE IF cc \in {"bracket", "comment", "comma"}
               THEN [end |-> s + 1, class |-> cc]
               ELSE long
      colon == whole.end - s > 1 /\ t[whole.end - 1] = ":"
  IN  [start |-> s,
       end |-> IF colon THEN whole.end - 1 ELSE whole.end,
       class |-> IF whole.class = "dot" THEN "symbol" ELSE whole.class]

-----------------------------------------------------------------------------
(* The last newline of the places read in this call starts the line.       *)
update_line(t, from, end, old) ==
  LET newlines == {j \in from .. end - 1 : Char(t, j) = "\n"}
  IN  IF newlines = {} THEN old
      ELSE (CHOOSE j \in newlines : \A k \in newlines : k <= j) + 1

LexInit ==
  /\ text \in Texts
  /\ at = 1
  /\ line = 1
  /\ toks = <<>>
  /\ reading = "reading"

NextStart == SkipSpace(text, at)

(* tok() has found a token, and lex() puts it in the list.                 *)
Tok ==
  LET t == Token(text, NextStart)
      new_line == update_line(text, at, t.end, line)
  IN  /\ reading = "reading"
      /\ NextStart < TextEnd(text)
      /\ t.end > 0
      /\ toks' = Append(toks, [start |-> t.start, end |-> t.end,
                               class |-> t.class, line |-> new_line])
      /\ at' = t.end
      /\ line' = new_line
      /\ UNCHANGED <<text, reading>>

(* A string that does not end is an error.                                 *)
TokError ==
  /\ reading = "reading"
  /\ NextStart < TextEnd(text)
  /\ Token(text, NextStart).end <= 0
  /\ reading' = "error"
  /\ UNCHANGED <<text, at, line, toks>>

TokEnd ==
  /\ reading = "reading"
  /\ NextStart >= TextEnd(text)
  /\ reading' = "done"
  /\ UNCHANGED <<text, at, line, toks>>

LexNext == Tok \/ TokError \/ TokEnd

LexSpec == LexInit /\ [][LexNext]_lexer

-----------------------------------------------------------------------------
(* Properties.                                                             *)

Within(tk) == tk.start .. tk.end - 1

(* The rules for comments (org/lang_spec.org:28): one starts with an       *)
(* underscore before a character that is neither a space nor an underscore,*)
(* and ends with one after such a character.                               *)
Underscore(t, i) == Char(t, i) = "_"
Solid(t, i) == Class(t, i) \notin {"none", "comment"}
Starts(t, i) == Underscore(t, i) /\ Solid(t, i + 1)
Ends(t, i) == Underscore(t, i) /\ Solid(t, i - 1)

(* A text in which the same underscores may do both has several readings.  *)
Ambiguous(t) ==
  \E i \in 1 .. Len(t) : Underscore(t, i) /\ (Underscore(t, i + 1) \/ (Starts(t, i) /\ Ends(t, i)))

(* The place after the end that matches the start at s.                    *)
SpecifiedEnd(t, s) ==
  LET level(k) == Cardinality({j \in s .. k : Starts(t, j)}) - Cardinality({j \in s .. k : Ends(t, j)})
      ends == {k \in s .. Len(t) : Ends(t, k) /\ level(k) = 0}
  IN  IF ends = {} THEN TextEnd(t)
      ELSE (CHOOSE k \in ends : \A j \in ends : k <= j) + 1

(* Is there an underscore so soon after another that skip_comment() passes *)
(* over it, or over the character before it?                               *)
Crowded(t) ==
  \E i \in 1 .. Len(t) :
    /\ Underscore(t, i) /\ ~Underscore(t, i + 1)
    /\ \/ Underscore(t, i + 2)
       \/ /\ Underscore(t, i + 3)
          /\ (Class(t, i + 1) = "none") # (Class(t, i + 2) = "none")

(* A comment is skipped up to the end that matches its start, over the     *)
(* comments inside it (skip_comment()), in every text that the rules for   *)
(* comments read in one way and that is not crowded: in _a_ b, or where a  *)
(* comment starts right after another one ends, the code does not see the  *)
(* second underscore (parse/tok.c:87) and skips more, or less, than this.  *)
CommentsAsSpecified ==
  reading = "reading" /\ Starts(text, at) /\ ~Ambiguous(text) /\ ~Crowded(text) =>
    LET e == skip_comment(text, at)  \* it may be behind the end of the text
    IN  (IF e > TextEnd(text) THEN TextEnd(text) ELSE e) = SpecifiedEnd(text, at)
=============================================================================

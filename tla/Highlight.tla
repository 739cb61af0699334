----------------------------- MODULE Highlight ------------------------------
(***************************************************************************)
(* Where an expression failed (rt.c), and how that is shown (eval.c,       *)
(* irc.c): the places are noted while it is reduced, as parts of texts     *)
(* that may overlap, repeat or lie in another text; then the source is     *)
(* printed, and what of it is in one of the places underlined.             *)
(*                                                                         *)
(* An address is a number and a text is a record of its start and length.  *)
(***************************************************************************)
EXTENDS Integers, Sequences, SequencesExt

CONSTANTS
  Memory,    \* a bound: texts are at addresses below it
  MaxFails   \* fail_location_size: places after that many are not noted

ASSUME FailsAssumption == MaxFails \in Nat

VARIABLES
  src,     \* the text that is evaluated
  noted,   \* ghost: the places where it failed
  fails,   \* fail_location
  marked,  \* what has been printed: characters, by their addresses, with or
           \* without a line under them
  showing  \* evaluating, or done

highlighter == <<src, noted, fails, marked, showing>>

Seg(s, n) == [s |-> s, n |-> n]

Texts == {t \in [s : 0 .. Memory - 1, n : 0 .. Memory] : t.s + t.n <= Memory}

seg_end(t) == t.s + t.n

clamp(l, h, v) == IF v > h THEN h ELSE IF v < l THEN l ELSE v

Sorted(ns) == SortSeq(ns, <)

(* The ranges that start at ls and end at rs as ranges that do not meet.   *)
(* A start and an end at the same place cancel each other.  The loop goes  *)
(* on after the last end, where it changes nothing that counts.            *)
flatten_ranges(ls, rs) ==
  LET l == Sorted(ls)
      r == Sorted(rs)
      event(f) ==
        IF f.l > Len(l) \/ l[f.l] > r[f.r]
        THEN [f EXCEPT !.r = @ + 1, !.depth = @ - 1,
                       !.out = IF f.depth = 1 THEN Append(@, <<f.first, r[f.r]>>) ELSE @]
        ELSE IF l[f.l] < r[f.r]
        THEN [f EXCEPT !.l = @ + 1, !.depth = @ + 1,
                       !.first = IF f.depth = 0 THEN l[f.l] ELSE @]
        ELSE [f EXCEPT !.l = @ + 1, !.r = @ + 1]
  IN  FoldLeft(LAMBDA f, k : IF f.r > Len(r) THEN f ELSE event(f),
               [l |-> 1, r |-> 1, depth |-> 0, first |-> 0, out |-> <<>>],
               [k \in 1 .. 2 * Len(l) |-> k]).out

(* mutant: a place may end after the source.                               *)
RangesUnclamped ==
  LET start(f) == clamp(0, src.n, f.s - src.s)
      ls == [i \in DOMAIN fails |-> start(fails[i])]
      rs == [i \in DOMAIN fails |-> start(fails[i]) + fails[i].n]
  IN  IF src.n = 0 THEN <<>> ELSE flatten_ranges(ls, rs)

(* The end of a place is taken from its start after that has been moved    *)
(* into the source.                                                        *)
get_flattened_error_ranges ==
  LET start(f) == clamp(0, src.n, f.s - src.s)
      ls == [i \in DOMAIN fails |-> start(fails[i])]
      rs == [i \in DOMAIN fails |-> clamp(0, src.n, start(fails[i]) + fails[i].n)]
  IN  IF src.n = 0 THEN <<>> ELSE flatten_ranges(ls, rs)

Characters(from, to, under) ==
  [i \in 1 .. to - from |-> [at |-> src.s + from + i - 1, under |-> under]]

-----------------------------------------------------------------------------
HighlightInit ==
  /\ src \in Texts
  /\ noted = {} /\ fails = <<>>
  /\ marked = <<>>
  /\ showing = "evaluating"

log_fail ==
  /\ showing = "evaluating"
  /\ Len(fails) < MaxFails
  /\ \E t \in Texts : fails' = Append(fails, t) /\ noted' = noted \cup {t}
  /\ UNCHANGED <<src, marked, showing>>

highlight_errors ==
  /\ showing = "evaluating"
  /\ LET add(m, r) ==
           [last |-> r[2],
            out  |-> m.out \o Characters(m.last, r[1], FALSE) \o Characters(r[1], r[2], TRUE)]
         all == FoldLeft(add, [last |-> 0, out |-> <<>>], get_flattened_error_ranges)
     IN  marked' = all.out \o Characters(all.last, src.n, FALSE)
  /\ showing' = "done"
  /\ UNCHANGED <<src, noted, fails>>

HighlightNext == log_fail \/ highlight_errors

-----------------------------------------------------------------------------
(* Properties.                                                             *)

(* The source is printed, each character once and in order, and those that *)
(* are in one of the places are underlined and no others (                 *)
(* get_flattened_error_ranges(), flatten_ranges(), highlight_errors()): as *)
(* long as no place starts before the source.                              *)
FailuresUnderlined ==
  showing = "done" /\ (\A f \in noted : f.s >= src.s) =>
    marked = [i \in 1 .. src.n |->
                LET p == src.s + i - 1
                IN  [at |-> p, under |-> \E f \in noted : f.s <= p /\ p < seg_end(f)]]
=============================================================================

----------------------------- MODULE MergeRuns -----------------------------
(***************************************************************************)
(* Merging two neighbouring sorted runs of an array of pairs               *)
(* (startle/map.c), in place and with a buffer, one iteration of the loop  *)
(* per step.                                                               *)
(*                                                                         *)
(* In place: smaller entries of the second run are swapped with entries of *)
(* the first.  The displaced ones wait in a queue between what is left of  *)
(* the two runs; it is a ring, that starts at h.                           *)
(*                                                                         *)
(*     |== output ==|== a ==|== q ==|== b ==|                              *)
(*                              ^h                                         *)
(*                                                                         *)
(* With a buffer, the displaced entries wait there, in a ring as well.     *)
(***************************************************************************)
EXTENDS Runs

CONSTANTS
  Rebalance,  \* more swaps than this in a step sort out the queue (1 << 7)
  Inputs      \* a bound: the pairs of sorted lists of keys that are merged

ASSUME RebalanceAssumption == Rebalance \in Nat
ASSUME InputsAssumption ==
  \A in \in Inputs : /\ Len(in) = 2
                    /\ \A i \in 1 .. 2 : in[i] \in Seq(Nat) \ {<<>>} /\ KeysSorted(in[i])

VARIABLES
  array,  \* the array
  calls,  \* the calls of merge functions, the innermost first
  unmerged,  \* ghost: the array at first
  cut,    \* ghost: where its second run starts
  how     \* ghost: which function was called, and if it sorted out a queue

merger == <<array, calls, unmerged, cut, how>>

-----------------------------------------------------------------------------
(* merge(): in place.                                                      *)

MergeCall(a, b, end) ==
  [kind |-> "merge", a |-> a, b |-> b, q |-> b, h |-> b, end |-> end]

Top == Head(calls)

InPlace == calls # <<>> /\ Top.kind = "merge" /\ Top.a < Top.b

\* mutant: the queue is taken over as it lies, from its start and not its head.
SettledAsIs(e, f) ==
  IF f.a >= f.q
  THEN [e |-> e, f |-> [f EXCEPT !.a = f.q, !.q = f.b, !.h = f.b]]
  ELSE [e |-> e, f |-> f]

\* At the end of an iteration: if a runs into the queue, a takes it over.
Settled(e, f) ==
  IF f.a >= f.q
  THEN [e |-> rotate(e, f.q, f.h, f.b),
        f |-> [f EXCEPT !.a = f.q, !.q = f.b, !.h = f.b]]
  ELSE [e |-> e, f |-> f]

EndIteration(e, f, inner) ==
  LET s == Settled(e, f) IN
  /\ array' = s.e
  /\ calls' = inner \o <<s.f>> \o Tail(calls)

\* How many pairs of b come before the head of the queue; no more than are
\* left of a.
RunOf(e, f) ==
  scan(e, f.b, Shorter(f.b + (f.q - f.a), f.end), e[f.h])

\* The run of n pairs is swapped into the output.  The pairs of a that it
\* displaced are behind the queue, whose end is before h: move one of the two
\* parts, or both.
Queued(f, n) ==
  LET e     == swap_block(array, f.a, f.b, n)
      left  == f.h - f.q
      right == f.b - f.h
  IN  IF n >= Shorter(left, right)
      THEN [e |-> rotate(e, f.q, f.h, f.b), h |-> f.q, swaps |-> f.b - f.q]
      ELSE IF right < left
      THEN [e |-> rotate(e, f.h, f.b, f.b + n), h |-> f.h + n, swaps |-> n + right]
      ELSE [e |-> rotate(swap_block(e, f.q, f.b, n), f.q, f.q + n, f.h),
            h |-> f.h, swaps |-> n + left]

TooManySwaps(swaps, queued) == swaps > Rebalance /\ swaps > isqrt(queued) \div 2

\* A run of b is next.  When that took many swaps, the queue is merged with b.
merge_run ==
  /\ InPlace
  /\ LET f == Top
         n == RunOf(array, f)
     IN  /\ f.q < f.b
         /\ n > 0
         /\ LET r == Queued(f, n)
                g == [f EXCEPT !.a = f.a + n, !.b = f.b + n, !.h = r.h]
            IN  IF TooManySwaps(r.swaps, g.b - g.q)
                THEN EndIteration(rotate(r.e, g.q, g.h, g.b),
                                  [g EXCEPT !.b = g.q, !.h = g.q],
                                  <<MergeCall(g.q, g.b, g.end)>>)
                ELSE EndIteration(r.e, g, <<>>)

\* The queue is a ring.
NextHead(f) == IF f.h + 1 >= f.b THEN f.q ELSE f.h + 1

\* The head of the queue is next.
merge_queue ==
  /\ InPlace
  /\ LET f == Top IN
       /\ f.q < f.b
       /\ RunOf(array, f) = 0
       /\ EndIteration(Exchange(array, f.a, f.h),
                       [f EXCEPT !.a = f.a + 1,
                                 !.h = NextHead(f)],
                       <<>>)

\* The queue is empty: a pair of a or of b is next.
merge_plain ==
  /\ InPlace
  /\ LET f == Top IN
       /\ f.q = f.b
       /\ IF f.b < f.end /\ Less(array[f.b], array[f.a])
          THEN EndIteration(Exchange(array, f.a, f.b),
                            [f EXCEPT !.a = f.a + 1, !.b = f.b + 1], <<>>)
          ELSE EndIteration(array, [f EXCEPT !.a = f.a + 1], <<>>)

merge_return ==
  /\ calls # <<>> /\ Top.kind = "merge" /\ Top.a >= Top.b
  /\ calls' = Tail(calls)
  /\ UNCHANGED array

-----------------------------------------------------------------------------
(* merge_with_buffer_fast().  buf is the ring, h where it is written and t *)
(* where it is read; it is taken for empty when they meet.                 *)

BufferCall(a, b, end) ==
  [kind |-> "buffer", a |-> a, b |-> b, aEnd |-> b, end |-> end, h |-> 1, t |-> 1,
   buf |-> [i \in 1 .. Shorter(b - a, end - b) |-> array[a]]]

\* NEXT
After(f, i) == IF i < Len(f.buf) THEN i + 1 ELSE 1

PushCall(f, p) == [f EXCEPT !.buf[f.h] = p, !.h = After(f, f.h)]

Pop(f) == [f EXCEPT !.t = After(f, f.t)]

Waiting(f) == f.h # f.t

WithBuffer == calls # <<>> /\ Top.kind = "buffer"

EndBuffered(e, f) ==
  /\ array' = e
  /\ calls' = <<[f EXCEPT !.a = f.a + 1]>> \o Tail(calls)

\* While there are pairs in both runs.  b never runs out here: its last place
\* takes a pair of a.
buffer_both ==
  /\ WithBuffer
  /\ LET f == Top
         x == array[f.a]
         y == array[f.b]
     IN  /\ f.a < f.aEnd
         /\ IF ~Waiting(f) \/ Less(y, f.buf[f.t])
            THEN IF ~Less(y, x)
                 THEN EndBuffered(array, f)
                 ELSE IF f.b < f.end - 1
                 THEN EndBuffered([array EXCEPT ![f.a] = y],
                                  [PushCall(f, x) EXCEPT !.b = f.b + 1])
                 ELSE EndBuffered(Exchange(array, f.a, f.b), f)
            ELSE IF ~Less(x, f.buf[f.t])
                 THEN EndBuffered([array EXCEPT ![f.a] = f.buf[f.t]], Pop(PushCall(f, x)))
                 ELSE EndBuffered(array, f)

\* The first run is filled: what is in the buffer and the rest of b.
buffer_second ==
  /\ WithBuffer
  /\ LET f == Top IN
       /\ f.a >= f.aEnd /\ f.b < f.end
       /\ IF Waiting(f) /\ ~Less(array[f.b], f.buf[f.t])
          THEN EndBuffered([array EXCEPT ![f.a] = f.buf[f.t]], Pop(f))
          ELSE EndBuffered([array EXCEPT ![f.a] = array[f.b]], [f EXCEPT !.b = f.b + 1])

\* What is left in the buffer.
buffer_flush ==
  /\ WithBuffer
  /\ LET f == Top IN
       /\ f.a >= f.aEnd /\ f.b = f.end /\ Waiting(f)
       /\ EndBuffered([array EXCEPT ![f.a] = f.buf[f.t]], Pop(f))

buffer_return ==
  /\ WithBuffer
  /\ Top.a >= Top.aEnd /\ Top.b = Top.end /\ ~Waiting(Top)
  /\ calls' = Tail(calls)
  /\ UNCHANGED array

-----------------------------------------------------------------------------
\* Any two runs.
TwoRuns ==
  \E in \in Inputs :
    /\ cut = Len(in[1]) + 1
    /\ array = [i \in 1 .. Len(in[1]) + Len(in[2]) |->
                 Pair(IF i < cut THEN in[1][i] ELSE in[2][i - cut + 1], i)]
    /\ unmerged = array

End == Len(array) + 1

\* Callers pass a buffer for the shorter run, the second.
MergeInit ==
  /\ TwoRuns
  /\ \/ how = "merge" /\ calls = <<MergeCall(1, cut, End)>>
     \/ how = "buffer" /\ End - cut < cut /\ calls = <<BufferCall(1, cut, End)>>

Step ==
  \/ merge_run \/ merge_queue \/ merge_plain \/ merge_return
  \/ buffer_both \/ buffer_second \/ buffer_flush \/ buffer_return

\* Then nothing happens any more.
Returned == calls = <<>> /\ UNCHANGED <<array, calls>>

\* merge() has called itself.
Calling == how' = IF Len(calls') > Len(calls) THEN "rebalanced" ELSE how

MergeNext == (Step \/ Returned) /\ Calling /\ UNCHANGED <<unmerged, cut>>

MergeSpec == MergeInit /\ [][MergeNext]_merger

-----------------------------------------------------------------------------
(* Properties.                                                             *)

\* No call looks outside the array, nor for the head of a queue outside it.
WithinArray ==
  /\ DOMAIN array = DOMAIN unmerged
  /\ \A c \in {calls[i] : i \in DOMAIN calls} :
       /\ 1 <= c.a /\ c.end <= Len(unmerged) + 1
       /\ c.kind = "merge" => c.a <= c.q /\ c.q <= c.h /\ c.h <= c.b /\ c.b <= c.end
       /\ c.kind = "merge" /\ c.q < c.b => c.h < c.b
       /\ c.kind = "buffer" => {c.h, c.t} \subseteq DOMAIN c.buf

\* What the code asserts of merge() at the start of an iteration (when DEBUG
\* is set): what is left of a is sorted, and b, and the queue from its head on
\* round to the head again.
QueueSorted ==
  calls # <<>> /\ Top.kind = "merge" =>
    /\ is_ordered(array, Top.a, Top.q)
    /\ is_ordered(rotate(array, Top.q, Top.h, Top.b), Top.q, Top.b)
    /\ is_ordered(array, Top.b, Top.end)

\* In place without a merge of the queue, or with a buffer for runs of the same
\* length.  A merge of the queue makes pairs of the first run ones of b, and
\* those with the same key that are left of a come before them.
Stable == how = "merge" \/ (how = "buffer" /\ End - cut = cut - 1)

\* The result is sorted and has the pairs that were given; in place, no pair
\* is lost or doubled at any time; and if the function is stable, pairs with
\* the same key stay in order (their values are their first places).
MergesRuns ==
  /\ calls = <<>> => is_ordered(array, 1, End)
  /\ calls = <<>> \/ Top.kind # "buffer" =>
       {array[i] : i \in DOMAIN array} = {unmerged[i] : i \in DOMAIN unmerged}
  /\ calls = <<>> /\ Stable =>
       \A i, j \in DOMAIN array :
         i < j /\ array[i].first = array[j].first => array[i].second < array[j].second
=============================================================================

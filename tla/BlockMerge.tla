----------------------------- MODULE BlockMerge -----------------------------
(***************************************************************************)
(* merge_huang88() of startle/map.c: merging two neighbouring runs in      *)
(* place after Huang and Langston, and the functions that it calls.        *)
(*                                                                         *)
(* The array is cut into blocks of as many pairs as there are blocks.  The *)
(* largest pairs of both runs are collected in one block, the buffer,      *)
(* which is moved to the front; the other blocks are put in the order of   *)
(* their last pairs; then each is merged with what is left of those before *)
(* it, through the buffer, which ends up behind them.                      *)
(*                                                                         *)
(*     |= offset =|= buffer =|= block 1 =| ... |= block =|= tail =|        *)
(*                                                                         *)
(* A part of the function is a step, and so is a round of its two long     *)
(* loops.  Stability is no aim of this function.                           *)
(***************************************************************************)
EXTENDS MergeRuns

LOCAL INSTANCE SequencesExt

Times(n, f(_), x) == FoldLeft(LAMBDA y, i : f(y), x, [i \in 1 .. n |-> i])

\* a is moved behind the pairs of b that come before it.
merge_left_short(e, lo, mid, hi) ==
  LET round(s) ==
        LET n == scan(s.e, s.b, hi, s.e[s.a])
        IN  IF s.a < s.b /\ s.b < hi
            THEN [e |-> rotate(s.e, s.a, s.b, s.b + n), a |-> s.a + n + 1, b |-> s.b + n]
            ELSE s
  IN  Times(hi - lo, round, [e |-> e, a |-> lo, b |-> mid]).e

\* The last pair of b is moved behind the pairs of a that come after it.
merge_right_short(e, lo, mid, hi) ==
  LET after(s) == Cardinality({i \in lo .. s.b - 1 :
                                 \A j \in i .. s.b - 1 : Less(s.e[s.end - 1], s.e[j])})
      round(s) ==
        IF lo < s.b /\ s.b < s.end
        THEN [e   |-> rotate(s.e, s.b - after(s), s.b, s.end),
              b   |-> s.b - after(s),
              end |-> s.end - after(s) - 1]
        ELSE s
  IN  IF hi - lo <= 1 THEN e ELSE Times(hi - lo, round, [e |-> e, b |-> mid, end |-> hi]).e

\* merge_with_buffer(): the pairs of the buffer, which starts at buf, change
\* places with those that wait in it.  Each round gives a its pair.
merge_with_buffer(e, lo, mid, hi, buf) ==
  LET size  == Shorter(mid - lo, hi - mid)
      next(i) == IF i + 1 < buf + size THEN i + 1 ELSE buf
      wait(s) == [s EXCEPT !.e = Exchange(s.e, s.b, s.h), !.b = s.b + 1,
                           !.h = next(s.h), !.n = s.n + 1]
      \* a takes the pair that has waited longest, and its own pair waits.
      queue(s) == [s EXCEPT !.e = Exchange(Exchange(s.e, s.a, s.t), s.h, s.t),
                            !.h = next(s.h), !.t = next(s.t)]
      take(s) == [s EXCEPT !.e = Exchange(s.e, s.a, s.t), !.t = next(s.t), !.n = s.n - 1]
      smaller(s) == s.n = 0 \/ Less(s.e[s.b], s.e[s.t])
      round(s) ==
        CASE s.a < mid /\ s.b < hi /\ smaller(s) /\ Less(s.e[s.b], s.e[s.a]) ->
               LET x == [s EXCEPT !.e = Exchange(s.e, s.a, s.b)]
               IN  IF s.b < hi - 1 THEN wait(x) ELSE x
          [] s.a < mid /\ s.b < hi /\ ~smaller(s) /\ ~Less(s.e[s.a], s.e[s.t]) -> queue(s)
          [] s.a >= mid /\ s.b < hi /\ smaller(s) ->
               [s EXCEPT !.e = Exchange(s.e, s.a, s.b), !.b = s.b + 1]
          [] s.a >= mid /\ s.b < hi /\ ~smaller(s) -> take(s)
          [] s.a >= mid /\ s.b >= hi /\ s.n > 0 -> take(s)
          [] OTHER -> s
      rounds(s) == [round(s) EXCEPT !.a = s.a + 1]
  IN  Times(hi - lo, rounds, [e |-> e, a |-> lo, b |-> mid, h |-> buf, t |-> buf, n |-> 0]).e

\* The pairs from a on are merged with those from b on into the buffer in
\* front of them, until a is used up; the buffer goes where they were.
merge_into_buffer(e, buffer, a, b, hi) ==
  LET round(s) ==
        CASE s.a < b /\ s.b < hi /\ Less(s.e[s.b], s.e[s.a]) ->
               [s EXCEPT !.e = Exchange(s.e, s.at, s.b), !.at = s.at + 1, !.b = s.b + 1]
          [] s.a < b /\ ~(s.b < hi /\ Less(s.e[s.b], s.e[s.a])) ->
               [s EXCEPT !.e = Exchange(s.e, s.at, s.a), !.at = s.at + 1, !.a = s.a + 1]
          [] OTHER -> s
  IN  Times(hi - a, round, [e |-> e, at |-> buffer, a |-> a, b |-> b])

bubble_sort(e, lo, n) ==
  LET pass(f, i) ==
        FoldLeft(LAMBDA g, j : IF Less(g[lo + j], g[lo + j - 1])
                               THEN Exchange(g, lo + j, lo + j - 1) ELSE g,
                 f, [j \in 1 .. n - i |-> j])
  IN  FoldLeft(pass, e, [i \in 1 .. n - 1 |-> i])

-----------------------------------------------------------------------------
(* merge_huang88().                                                        *)

N == Len(unmerged)

bs == isqrt(N)

offset == (cut - 1) % bs

n_blocks == (N - offset) \div bs

tail_len == N - bs * n_blocks - offset

\* The first place of block i of the array, and its last.
BLOCK(i) == 1 + offset + Shorter(N, bs * i)

BLOCK_LAST(i) == BLOCK(i + 1) - 1

BlocksCall(phase, i, buffer, p) ==
  [kind |-> "blocks", phase |-> phase, i |-> i, buffer |-> buffer, p |-> p,
   a |-> 1, end |-> End]

Phase(phase) == calls # <<>> /\ Top.kind = "blocks" /\ Top.phase = phase

Start == Phase("start")

huang88_left ==
  /\ Start
  /\ cut - 1 < bs + offset
  /\ array' = merge_left_short(array, 1, cut, End)
  /\ calls' = <<>>

huang88_right ==
  /\ Start
  /\ cut - 1 >= bs + offset /\ End - cut < bs
  /\ array' = merge_right_short(array, 1, cut, End)
  /\ calls' = <<>>

\* Where the bs largest pairs of each run start: those of the first run from
\* the first component on, those of the second from the second on.
Largest ==
  LET take(t) == IF Less(array[t.a - 1], array[t.b - 1])
                 THEN [t EXCEPT !.b = @ - 1] ELSE [t EXCEPT !.a = @ - 1]
  IN  Times(bs, take, [a |-> cut, b |-> End])

\* The last block of the first run becomes the buffer.  The last block of the
\* second, with the tail, is made whole again.
huang88_buffer ==
  /\ Start
  /\ cut - 1 >= bs + offset /\ End - cut >= bs
  /\ LET top_b  == Largest.b
         buffer == cut - bs
     IN  /\ array' = merge_with_buffer(swap_block(array, buffer, top_b, End - top_b),
                                       End - bs - tail_len, top_b, End, buffer)
         /\ calls' = <<BlocksCall("first", 0, buffer, 0)>>

\* The pairs before the first block are merged with the first block of the
\* second run, which follows the buffer; then the buffer goes to the front.
huang88_first ==
  /\ Phase("first")
  /\ LET buffer == Top.buffer
         p      == buffer + bs - offset
         swapped == swap_block(array, 1, p, offset)
         merged == merge_with_buffer(swapped, p, cut, cut + bs, 1)
         e      == IF offset > 0 THEN swap_block(merged, 1, p, offset) ELSE array
     IN  /\ array' = IF buffer = BLOCK(0) THEN e ELSE swap_block(e, BLOCK(0), buffer, bs)
         /\ calls' = <<BlocksCall("select", 1, BLOCK(0), BLOCK(1))>>

\* The block that ends with the least pair comes next.
huang88_select ==
  /\ Phase("select") /\ Top.i < n_blocks
  /\ LET least == CHOOSE j \in Top.i .. n_blocks - 1 :
                    /\ \A k \in Top.i .. j - 1 : Less(array[BLOCK_LAST(j)], array[BLOCK_LAST(k)])
                    /\ \A k \in j .. n_blocks - 1 : ~Less(array[BLOCK_LAST(k)], array[BLOCK_LAST(j)])
     IN  array' = IF least = Top.i THEN array
                  ELSE swap_block(array, BLOCK(Top.i), BLOCK(least), bs)
  /\ calls' = <<[Top EXCEPT !.i = @ + 1]>>

huang88_selected ==
  /\ Phase("select") /\ Top.i >= n_blocks
  /\ calls' = <<[Top EXCEPT !.phase = "merge", !.i = 2]>>
  /\ UNCHANGED array

Blocks == n_blocks + IF tail_len > 0 THEN 1 ELSE 0

huang88_merge ==
  /\ Phase("merge") /\ Top.i < Blocks
  /\ LET b == BLOCK(Top.i)
         m == merge_into_buffer(array, Top.buffer, Top.p, b, b + Shorter(bs, End - b))
     IN  IF Less(array[b], array[b - 1])
         THEN /\ array' = m.e
              /\ calls' = <<[Top EXCEPT !.i = @ + 1, !.buffer = m.at, !.p = m.b]>>
         ELSE /\ calls' = <<[Top EXCEPT !.i = @ + 1]>>
              /\ UNCHANGED array

huang88_return ==
  /\ Phase("merge") /\ Top.i >= Blocks
  /\ array' = rotate(bubble_sort(array, Top.buffer, bs), Top.buffer, Top.p, End)
  /\ calls' = <<>>

BlocksInit ==
  \/ MergeInit
  \/ TwoRuns /\ how = "huang88" /\ calls = <<BlocksCall("start", 0, 1, 1)>>

BlocksStep ==
  \/ huang88_left \/ huang88_right \/ huang88_buffer \/ huang88_first
  \/ huang88_select \/ huang88_selected \/ huang88_merge \/ huang88_return

BlocksNext == (Step \/ BlocksStep \/ Returned) /\ Calling /\ UNCHANGED <<unmerged, cut>>

-----------------------------------------------------------------------------
(* Properties.                                                             *)

\* What the code asserts of the buffer when a block is merged: it has room for
\* the shorter of what is left of the blocks before and the block.
BufferSuffices ==
  Phase("merge") /\ Top.i < Blocks =>
    LET b == BLOCK(Top.i)
    IN  Less(array[b], array[b - 1]) =>
          Top.p - Top.buffer >= Shorter(b - Top.p, Shorter(bs, End - b))

\* What the functions that merge assert of their arrays.
AssertionsHold == WithinArray /\ QueueSorted /\ BufferSuffices
=============================================================================

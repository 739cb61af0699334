--------------------------------- MODULE Log --------------------------------
(***************************************************************************)
(* The log of startle/log.c and the errors of startle/error.c.             *)
(*                                                                         *)
(* The log is a ring of words.  An entry is a word that points to a format *)
(* string, whose first character says how many arguments follow; the       *)
(* oldest entries are given up as the ring fills, and to read the log is   *)
(* to hop from format to format.  CONTEXT() keeps a record in the frame of *)
(* the C function and links it to the one before; it is written only when  *)
(* something is logged inside, innermost first, and once it was written,   *)
(* its end is too.  An error leaves all frames at once, without their      *)
(* ends, for the innermost CATCH.                                          *)
(*                                                                         *)
(* Each context has a number of its own, so that one that is gone is not   *)
(* taken for one that is there.                                            *)
(***************************************************************************)
EXTENDS Integers, Sequences, FiniteSets, SequencesExt

CONSTANTS
    LogSize,     \* words in the ring (log_data_size)
    Handlers,    \* the places besides the main loop that catch errors
    MaxFrames,   \* a bound: frames with a context or a CATCH
    MaxArgs,     \* a bound: arguments of an entry
    ContextSize  \* how many contexts print_context() is asked for

VARIABLES
    log,           \* the words from log_start to log_end, and whether an entry was given up
    frames,        \* the frames of C functions, innermost last
    __log_context  \* the last context that was entered, 0 if none

logger == <<log, frames, __log_context>>

Word(k, id, len) == [k |-> k, id |-> id, len |-> len]

Entry(k, id, len) == <<Word(k, id, len)>> \o [i \in 1..len |-> Word("arg", 0, 0)]

-----------------------------------------------------------------------------
(* The ring                                                                *)

log_entry_len(w) == IF w.k \in {"message", "start", "reverse"} THEN w.len ELSE 0

(* mutant: one word more fits before the oldest entry goes                  *)
AddLate(l, w) ==
    LET d == l.data
        over == IF Len(d) >= LogSize THEN [d EXCEPT ![Len(d) - LogSize + 1] = w] ELSE d
        now == Append(over, w)
    IN  IF Len(now) > LogSize THEN [data |-> SubSeq(now, log_entry_len(now[1]) + 2, Len(now)), dropped |-> TRUE]
        ELSE [l EXCEPT !.data = now]

(* A word takes the next place, which is that of the oldest word when the   *)
(* ring is full; when it gets full, the oldest entry goes.                  *)
log_add(l, w) ==
    LET d == l.data
        over == IF Len(d) >= LogSize THEN [d EXCEPT ![Len(d) - LogSize + 1] = w] ELSE d
        now == Append(over, w)
    IN  IF Len(now) >= LogSize THEN [data |-> SubSeq(now, log_entry_len(now[1]) + 2, Len(now)), dropped |-> TRUE]
        ELSE [l EXCEPT !.data = now]

Adds(l, ws) == FoldLeft(log_add, l, ws)

-----------------------------------------------------------------------------
(* Frames                                                                  *)

Frame(kind, id, len, next) == [kind |-> kind, id |-> id, len |-> len, next |-> next, logged |-> FALSE]

At(fs, id) == {i \in DOMAIN fs : fs[i].id = id /\ id # 0}

RECURSIVE log_add_context(_, _, _)
log_add_context(l, fs, p) ==
    IF At(fs, p) = {} THEN [l |-> l, fs |-> fs]
    ELSE LET i == CHOOSE j \in At(fs, p) : TRUE
         IN  IF fs[i].logged THEN [l |-> l, fs |-> fs]
             ELSE log_add_context(Adds(l, Entry("reverse", p, fs[i].len)),
                                  [fs EXCEPT ![i].logged = TRUE], fs[i].next)

(* The words that are in neither the log nor a frame may be used again.     *)
FreshId ==
    LET used == {log.data[i].id : i \in DOMAIN log.data} \union {frames[i].id : i \in DOMAIN frames}
                  \union {frames[i].next : i \in DOMAIN frames} \union {__log_context}
    IN  CHOOSE k \in 1..(Cardinality(used) + 1) : k \notin used /\ \A j \in 1..(k - 1) : j \in used

-----------------------------------------------------------------------------
(* Contexts and messages                                                   *)

CONTEXT(len) ==
    /\ Len(frames) < MaxFrames
    /\ frames' = Append(frames, Frame("context", FreshId, len, __log_context))
    /\ __log_context' = FreshId
    /\ UNCHANGED <<log>>

(* One that is always logged: its frame has only the end to write.          *)
CONTEXT_LOG(len) ==
    /\ Len(frames) < MaxFrames
    /\ LET r == log_add_context(log, frames, __log_context)
       IN  /\ log' = Adds(r.l, Entry("start", FreshId, len))
           /\ frames' = Append(r.fs, Frame("always", FreshId, len, 0))
    /\ UNCHANGED __log_context

LOG(len) ==
    LET r == log_add_context(log, frames, __log_context)
    IN  /\ log' = Adds(r.l, Entry("message", 0, len))
        /\ frames' = r.fs
        /\ UNCHANGED __log_context

EndOf(f) == IF f.kind = "always" \/ f.logged THEN <<Word("end", 0, 0)>> ELSE <<>>

log_cleanup_context ==
    /\ Last(frames).kind \in {"context", "always"}
    /\ log' = Adds(log, EndOf(Last(frames)))
    /\ frames' = Front(frames)
    /\ __log_context' = IF Last(frames).kind = "context" THEN Last(frames).next ELSE __log_context

-----------------------------------------------------------------------------
(* Errors                                                                  *)

CATCH(handler) ==
    /\ Len(frames) < MaxFrames
    /\ frames' = Append(frames, Frame(handler, 0, 0, 0))
    /\ UNCHANGED <<log, __log_context>>

CatchEnds ==
    /\ Len(frames) > 1
    /\ Last(frames).kind \in Handlers
    /\ frames' = Front(frames)
    /\ UNCHANGED <<log, __log_context>>

log_soft_init(l, p) ==
    [l |-> IF l.data = <<>> THEN l ELSE log_add(l, Word("break", 0, 0)), p |-> 0]

(* What the handlers do: the main loop and the printing of bytecode start   *)
(* the contexts afresh, the IRC client goes on with the next line.          *)
Handled(handler, l, p) == IF handler = "irc" THEN [l |-> l, p |-> p] ELSE log_soft_init(l, p)

throw_error(len) ==
    LET r == log_add_context(log, frames, __log_context)
        l == Adds(r.l, Entry("message", 0, len))
        at == SelectLastInSeq(frames, LAMBDA f : f.kind \in Handlers \union {"main"})
        h == Handled(frames[at].kind, l, __log_context)
    IN  /\ log' = h.l
        /\ __log_context' = h.p
        /\ frames' = SubSeq(r.fs, 1, IF at = 1 THEN 1 ELSE at - 1)

LogInit ==
    /\ log = [data |-> <<>>, dropped |-> FALSE]
    /\ frames = <<Frame("main", 0, 0, 0)>>
    /\ __log_context = 0

LogNext ==
    \/ \E len \in 0..MaxArgs : CONTEXT(len) \/ CONTEXT_LOG(len) \/ LOG(len) \/ throw_error(len)
    \/ \E h \in Handlers : CATCH(h)
    \/ log_cleanup_context
    \/ CatchEnds

LogSpec == LogInit /\ [][LogNext]_logger

-----------------------------------------------------------------------------
(* Reading the log                                                         *)

Step(depth, w) ==
    CASE w.k = "break" -> 0
      [] w.k = "end" -> IF depth > 0 THEN depth - 1 ELSE 0
      [] w.k \in {"start", "reverse"} -> depth + 1
      [] OTHER -> depth

RECURSIVE log_depth(_, _, _)
log_depth(l, i, depth) ==
    IF i > Len(l) THEN depth
    ELSE log_depth(l, i + log_entry_len(l[i]) + 1, Step(depth, l[i]))

(* The entries from i on that have the mark for reversed order, which the   *)
(* ends have as well.                                                       *)
RECURSIVE count_reversed(_, _)
count_reversed(l, i) ==
    IF i > Len(l) \/ l[i].k \notin {"reverse", "end", "break"} THEN <<>>
    ELSE <<i>> \o count_reversed(l, i + log_entry_len(l[i]) + 1)

RECURSIVE FindFrom(_, _, _, _, _)
FindFrom(l, i, depth, ca, low) ==
    LET Put(c, d, id) == IF d \in low..(low + ContextSize - 1) THEN [c EXCEPT ![d - low] = id] ELSE c
        Next(j) == j + log_entry_len(l[j]) + 1
    IN  IF i > Len(l) THEN ca
        ELSE IF l[i].k = "reverse"
             THEN LET group == count_reversed(l, i)
                      n == Len(group)
                      put == FoldLeft(LAMBDA c, j : Put(c, depth + n - j, l[group[j]].id),
                                      ca, [j \in 1..n |-> j])
                  IN  FindFrom(l, Next(group[n]), depth + n, put, low)
        ELSE IF l[i].k = "start"
             THEN FindFrom(l, Next(i), depth + 1, Put(ca, depth, l[i].id), low)
        ELSE FindFrom(l, Next(i), Step(depth, l[i]), ca, low)

log_find_context ==
    LET depth == log_depth(log.data, 1, 0)
        low == IF depth > ContextSize THEN depth - ContextSize ELSE 0
        ca == FindFrom(log.data, 1, 0, [d \in 0..(ContextSize - 1) |-> 0], low)
    IN  [d \in 1..(IF depth < ContextSize THEN depth ELSE ContextSize) |-> ca[d - 1]]

-----------------------------------------------------------------------------
(* Properties                                                              *)

RECURSIVE EntriesFrom(_, _)
EntriesFrom(l, i) ==
    IF i > Len(l) THEN <<i>> ELSE <<i>> \o EntriesFrom(l, i + log_entry_len(l[i]) + 1)

(* Whoever reads the log from its oldest entry finds formats, never one of  *)
(* their arguments, and comes out at the end.                               *)
EntriesWhole ==
    LET starts == EntriesFrom(log.data, 1)
    IN  /\ Last(starts) = Len(log.data) + 1
        /\ \A i \in Range(Front(starts)) : log.data[i].k # "arg"

Contexts(fs) == SelectSeq(fs, LAMBDA f : f.kind \in {"context", "always"})

Numbers(fs) == [i \in DOMAIN fs |-> fs[i].id]

(* The contexts that are open and that the log has since it last started    *)
(* afresh.                                                                  *)
OpenInLog ==
    LET break == SelectLastInSeq(log.data, LAMBDA w : w.k = "break")
        here == {log.data[i].id : i \in (break + 1)..Len(log.data)}
    IN  Numbers(SelectSeq(Contexts(frames), LAMBDA f : f.id \in here))

Innermost(s, n) == SubSeq(s, IF Len(s) > n THEN Len(s) - n + 1 ELSE 1, Len(s))

(* The contexts that are shown with an error are open, in the order in      *)
(* which they were entered, whatever the ring has given up; and as long as  *)
(* it has given up nothing they are the innermost ones.                     *)
ContextsFound ==
    /\ EntriesWhole
    /\ log_find_context = SelectSeq(Numbers(Contexts(frames)), LAMBDA c : c \in Range(log_find_context))
    /\ ~log.dropped => log_find_context = Innermost(OpenInLog, ContextSize)

RECURSIVE ChainOf(_)
ChainOf(p) ==
    IF At(frames, p) = {} THEN <<p>>
    ELSE <<p>> \o ChainOf(frames[CHOOSE i \in At(frames, p) : TRUE].next)

(* "Context is logged if a message is logged within the context's scope":   *)
(* the contexts that the next message takes along are all in frames that    *)
(* have not been left.                                                      *)
ContextsInScope == Last(ChainOf(__log_context)) = 0
=============================================================================

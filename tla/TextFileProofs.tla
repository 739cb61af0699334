--------------------------- MODULE TextFileProofs ---------------------------
(***************************************************************************)
(* Proofs about text input with push-back: every read gives what was       *)
(* pushed back and then what is new, for every length of the buffers and   *)
(* of the input, and whatever malloc() leaves in a new buffer.             *)
(*                                                                         *)
(* The argument: the buffer holds as much of what was pushed back since    *)
(* the last read as fits (unless there was something else in it from the   *)
(* start), and a read takes all there is.  The second half needs the size  *)
(* of the ring buffer to be that of input_buf.  A new buffer may also be   *)
(* Lapped: its head at the end of data and its tail at the start, where no *)
(* sequence of calls leads; it is empty then, and the first write puts     *)
(* head where it belongs.                                                  *)
(***************************************************************************)
EXTENDS TextFile, TLAPS

Ring == INSTANCE RingBufferProofs WITH Chars <- 0 .. InputLen, MaxText <- RingSize

Held == Buffer!Contents

\* The sizes that the lemmas about the ring buffer ask for.
LEMMA Sizes == RingSize \in Nat \ {0} /\ RingSize >= 2 /\ InputBuf = RingSize /\ ReadSize = RingSize - 1
  BY InputBufAssumption DEF ReadSize, Lesser

\* The type of the buffer, and what it holds.
HeldOK ==
  /\ Held \in Seq(0 .. InputLen)
  /\ Len(Held) = Buffer!rb_available
  /\ Buffer!rb_available \in 0 .. RingSize - 1
  /\ head = tail => Held = <<>>

\* What a buffer in a good state holds.
LEMMA HeldIsSeq == Buffer!RingTypeOK => HeldOK
<1> SUFFICES ASSUME Buffer!RingTypeOK PROVE HeldOK
  OBVIOUS
<1>1. Ring!RingTypeOK
  BY DEF Ring!RingTypeOK, Buffer!RingTypeOK, Ring!RingPlaces, Buffer!RingPlaces
<1>2. Ring!AvailableOK /\ Ring!ContentsOK
  BY <1>1, Sizes, Ring!Available, Ring!ContentsIsSeq
<1>3. Held = Ring!Contents /\ Buffer!rb_available = Ring!rb_available
  BY DEF Held, Ring!Contents, Buffer!Contents, Ring!Oldest, Buffer!Oldest,
         Ring!Place, Buffer!Place, Ring!rb_available, Buffer!rb_available
<1>4. Held \in Seq(0 .. InputLen) /\ Len(Held) = Buffer!rb_available
  BY <1>2, <1>3 DEF Ring!ContentsOK
<1>5. Buffer!rb_available \in 0 .. RingSize - 1 /\ (head = tail => Buffer!rb_available = 0)
  BY <1>1, <1>2, <1>3 DEF Ring!AvailableOK, Ring!RingTypeOK
<1> QED BY <1>4, <1>5 DEF HeldOK

\* rb_write() appends to what the buffer holds.
LEMMA WriteAppends ==
  ASSUME Buffer!RingTypeOK, NEW t \in Buffer!RingTexts, Buffer!rb_write(t)
  PROVE  /\ Buffer!RingTypeOK'
         /\ Held' = Held \o SubSeq(t, 1, Lesser(Len(t), RingSize - 1 - Len(Held)))
<1>1. Ring!RingTypeOK /\ t \in Ring!RingTexts
  BY DEF Ring!RingTypeOK, Buffer!RingTypeOK, Ring!RingPlaces, Buffer!RingPlaces,
         Ring!RingTexts, Buffer!RingTexts
<1>2. Ring!rb_write(t)
  BY DEF Ring!rb_write, Buffer!rb_write, Ring!Filled, Buffer!Filled, Ring!Lesser, Buffer!Lesser,
         Ring!Advance, Buffer!Advance, Ring!rb_capacity, Buffer!rb_capacity,
         Ring!rb_available, Buffer!rb_available, Ring!RingPlaces, Buffer!RingPlaces
<1>3. Ring!RingTypeOK' /\ Ring!Queue!Write(t)
  BY <1>1, <1>2, Sizes, Ring!WriteType, Ring!WriteAppends
<1>4. Held = Ring!Contents /\ Held' = Ring!Contents'
  BY DEF Held, Ring!Contents, Buffer!Contents, Ring!Oldest, Buffer!Oldest,
         Ring!Place, Buffer!Place, Ring!rb_available, Buffer!rb_available
<1> QED
  BY <1>3, <1>4 DEF Ring!Queue!Write, Ring!Queue!Lesser, Lesser,
                    Ring!RingTypeOK, Buffer!RingTypeOK, Ring!RingPlaces, Buffer!RingPlaces

\* rb_read() takes from the front of what the buffer holds.
LEMMA ReadTakes ==
  ASSUME Buffer!RingTypeOK, NEW n \in Nat, Buffer!rb_read(n)
  PROVE  /\ Buffer!RingTypeOK'
         /\ out' = SubSeq(Held, 1, Lesser(n, Len(Held)))
         /\ Held' = SubSeq(Held, Lesser(n, Len(Held)) + 1, Len(Held))
<1>1. Ring!RingTypeOK
  BY DEF Ring!RingTypeOK, Buffer!RingTypeOK, Ring!RingPlaces, Buffer!RingPlaces
<1>2. Ring!rb_read(n)
  BY DEF Ring!rb_read, Buffer!rb_read, Ring!Oldest, Buffer!Oldest, Ring!Lesser, Buffer!Lesser,
         Ring!Place, Buffer!Place, Ring!Advance, Buffer!Advance,
         Ring!rb_available, Buffer!rb_available
<1>3. Ring!RingTypeOK' /\ Ring!Queue!Read(n)
  BY <1>1, <1>2, Sizes, Ring!ReadType, Ring!ReadTakes
<1>4. Held = Ring!Contents /\ Held' = Ring!Contents'
  BY DEF Held, Ring!Contents, Buffer!Contents, Ring!Oldest, Buffer!Oldest,
         Ring!Place, Buffer!Place, Ring!rb_available, Buffer!rb_available
<1> QED
  BY <1>3, <1>4 DEF Ring!Queue!Read, Ring!Queue!Lesser, Lesser,
                    Ring!RingTypeOK, Buffer!RingTypeOK, Ring!RingPlaces, Buffer!RingPlaces

\* A read of all that the buffer may hold leaves nothing in it.
LEMMA ReadEmpties ==
  ASSUME Buffer!RingTypeOK, NEW n \in Nat, n >= RingSize - 1, Buffer!rb_read(n)
  PROVE  Buffer!RingTypeOK' /\ out' = Held /\ Held' = <<>>
<1>1. HeldOK
  BY HeldIsSeq
<1>2. Lesser(n, Len(Held)) = Len(Held)
  BY <1>1, Sizes DEF HeldOK, Lesser
<1> QED BY <1>1, <1>2, ReadTakes DEF HeldOK

-----------------------------------------------------------------------------
Texts == Seq(0 .. InputLen)

\* As much of a text as the buffer takes.
Fits(t) == SubSeq(t, 1, Lesser(Len(t), RingSize - 1))

\* malloc() may leave the positions like this.
Lapped ==
  /\ head = RingSize /\ tail = 0
  /\ data \in [0 .. RingSize - 1 -> 0 .. InputLen]
  /\ out \in Seq(0 .. InputLen)

\* The inductive invariant.  One part of a text fits in the buffer, and the
\* buffer holds as much as fits of what was pushed back.
FileInv ==
  /\ Buffer!RingTypeOK \/ (Lapped /\ given = 0)
  /\ pos \in 0 .. InputLen
  /\ text \in Texts /\ Len(text) <= RingSize - 1
  /\ due \in Texts
  /\ given \in Nat
  /\ given = 0 => due = <<>>
  /\ given <= 1 => Len(due) <= RingSize - 1
  /\ ~junk => Held = Fits(due)

\* The elements of a concatenation.
LEMMA ConcatElements ==
  ASSUME NEW S, NEW s \in Seq(S), NEW t \in Seq(S)
  PROVE  /\ s \o t \in Seq(S) /\ Len(s \o t) = Len(s) + Len(t)
         /\ \A i \in 1 .. Len(s) : (s \o t)[i] = s[i]
         /\ \A i \in Len(s) + 1 .. Len(s) + Len(t) : (s \o t)[i] = t[i - Len(s)]
  OBVIOUS

\* The last elements of a sequence.
LEMMA LastElements ==
  ASSUME NEW S, NEW s \in Seq(S), NEW n \in 1 .. Len(s)
  PROVE  /\ SubSeq(s, Len(s) - n + 1, Len(s)) \in Seq(S)
         /\ Len(SubSeq(s, Len(s) - n + 1, Len(s))) = n
  OBVIOUS

\* The first elements of a sequence.
LEMMA FirstElements ==
  ASSUME NEW S, NEW s \in Seq(S), NEW n \in 0 .. Len(s)
  PROVE  /\ SubSeq(s, 1, n) \in Seq(S) /\ Len(SubSeq(s, 1, n)) = n
         /\ \A k \in 1 .. n : SubSeq(s, 1, n)[k] = s[k]
  OBVIOUS

\* Sequences with the same elements are the same.
LEMMA SameElements ==
  ASSUME NEW S, NEW s \in Seq(S), NEW t \in Seq(S), Len(s) = Len(t),
         \A k \in 1 .. Len(s) : s[k] = t[k]
  PROVE  s = t
  OBVIOUS

\* A sequence is a function, and the whole of it is itself.
LEMMA SeqIsFunction ==
  ASSUME NEW S, NEW s \in Seq(S)
  PROVE  /\ s \in [1 .. Len(s) -> S] /\ Len(s) \in Nat
         /\ SubSeq(s, 1, Len(s)) = s /\ <<>> \o s = s /\ s \o <<>> = s
  OBVIOUS

\* The empty text.
LEMMA EmptyText == <<>> \in Texts /\ Len(<<>>) = 0 /\ Fits(<<>>) = <<>>
<1>1. <<>> \in Texts /\ Len(<<>>) = 0
  BY DEF Texts
<1>2. Lesser(0, RingSize - 1) = 0
  BY Sizes DEF Lesser
<1>3. SubSeq(<<>>, 1, 0) = <<>>
  OBVIOUS
<1> QED BY <1>1, <1>2, <1>3 DEF Fits

\* What is new from the descriptor.
LEMMA FreshIsNext ==
  ASSUME pos \in 0 .. InputLen, NEW n \in 0 .. InputLen - pos
  PROVE  Fresh(n) \in Texts /\ Len(Fresh(n)) = n
  BY InputLenAssumption DEF Fresh, Texts

\* How much of a text fits.
LEMMA FitsIs ==
  ASSUME NEW t \in Texts
  PROVE  /\ Fits(t) \in Texts
         /\ Len(Fits(t)) = (IF Len(t) <= RingSize - 1 THEN Len(t) ELSE RingSize - 1)
         /\ \A k \in 1 .. Len(Fits(t)) : Fits(t)[k] = t[k]
         /\ Len(t) <= RingSize - 1 => Fits(t) = t
<1> DEFINE n == Lesser(Len(t), RingSize - 1)
<1>1. Len(t) \in Nat
  BY DEF Texts
<1>2. n \in 0 .. Len(t) /\ n = IF Len(t) <= RingSize - 1 THEN Len(t) ELSE RingSize - 1
  BY <1>1, Sizes DEF Lesser
<1> HIDE DEF n
<1>3. SubSeq(t, 1, n) \in Texts /\ Len(SubSeq(t, 1, n)) = n
      /\ \A k \in 1 .. n : SubSeq(t, 1, n)[k] = t[k]
  BY <1>2, FirstElements DEF Texts
<1>4. Fits(t) = SubSeq(t, 1, n)
  BY DEF Fits, n
<1>5. Len(t) <= RingSize - 1 => SubSeq(t, 1, n) = t
  BY <1>2, SeqIsFunction DEF Texts
<1> QED BY <1>2, <1>3, <1>4, <1>5

\* More is pushed back: of both texts as much as fits.
LEMMA FitsMore ==
  ASSUME NEW s \in Texts, NEW t \in Texts
  PROVE  Fits(s \o t) = Fits(s) \o SubSeq(t, 1, Lesser(Len(t), RingSize - 1 - Len(Fits(s))))
<1> DEFINE f == Fits(s)
           n == Lesser(Len(t), RingSize - 1 - Len(f))
           u == SubSeq(t, 1, n)
<1>1. /\ f \in Texts /\ Len(f) = (IF Len(s) <= RingSize - 1 THEN Len(s) ELSE RingSize - 1)
      /\ \A k \in 1 .. Len(f) : f[k] = s[k]
  BY FitsIs
<1>2. Len(s) \in Nat /\ Len(t) \in Nat
  BY DEF Texts
<1> HIDE DEF f
<1>3. n \in 0 .. Len(t) /\ n = IF Len(t) <= RingSize - 1 - Len(f) THEN Len(t) ELSE RingSize - 1 - Len(f)
  BY <1>1, <1>2, Sizes DEF Lesser
<1> HIDE DEF n
<1>4. u \in Texts /\ Len(u) = n /\ \A k \in 1 .. n : u[k] = t[k]
  BY <1>3, FirstElements DEF Texts
<1> HIDE DEF u
<1>5. /\ f \o u \in Texts /\ Len(f \o u) = Len(f) + n
      /\ \A k \in 1 .. Len(f) : (f \o u)[k] = f[k]
      /\ \A k \in Len(f) + 1 .. Len(f) + n : (f \o u)[k] = u[k - Len(f)]
  <2>1. /\ f \o u \in Texts /\ Len(f \o u) = Len(f) + Len(u)
        /\ \A k \in 1 .. Len(f) : (f \o u)[k] = f[k]
        /\ \A k \in Len(f) + 1 .. Len(f) + Len(u) : (f \o u)[k] = u[k - Len(f)]
    <3>1. f \in Seq(0 .. InputLen) /\ u \in Seq(0 .. InputLen)
      BY <1>1, <1>4 DEF Texts
    <3> QED BY <3>1, ConcatElements DEF Texts
  <2> QED BY <1>4, <2>1
<1>6. /\ s \o t \in Texts /\ Len(s \o t) = Len(s) + Len(t)
      /\ \A k \in 1 .. Len(s) : (s \o t)[k] = s[k]
      /\ \A k \in Len(s) + 1 .. Len(s) + Len(t) : (s \o t)[k] = t[k - Len(s)]
  BY ConcatElements DEF Texts
<1> DEFINE g == Fits(s \o t)
<1>7. /\ g \in Texts /\ \A k \in 1 .. Len(g) : g[k] = (s \o t)[k]
      /\ Len(g) = (IF Len(s) + Len(t) <= RingSize - 1 THEN Len(s) + Len(t) ELSE RingSize - 1)
  BY <1>6, FitsIs
<1> HIDE DEF g
<1>8. Len(g) = Len(f) + n
  <2> DEFINE a == Len(s)
             b == Len(t)
             c == Len(f)
             e == Len(g)
  <2>1. a \in Nat /\ b \in Nat /\ c = (IF a <= RingSize - 1 THEN a ELSE RingSize - 1)
    BY <1>1, <1>2
  <2>2. n = IF b <= RingSize - 1 - c THEN b ELSE RingSize - 1 - c
    BY <1>3
  <2>3. e = IF a + b <= RingSize - 1 THEN a + b ELSE RingSize - 1
    BY <1>7
  <2> HIDE DEF a, b, c, e
  <2>4. e = c + n
    BY <2>1, <2>2, <2>3, Sizes
  <2> QED BY <2>4 DEF c, e
<1>9. ASSUME NEW k \in 1 .. Len(g) PROVE g[k] = (f \o u)[k]
  <2>1. CASE k <= Len(f)
    <3>1. Len(f) \in Nat /\ k \in 1 .. Len(f) /\ k \in 1 .. Len(s)
      BY <1>1, <1>2, <1>9, <2>1, Sizes
    <3>2. g[k] = (s \o t)[k] /\ (s \o t)[k] = s[k]
      BY <1>6, <1>7, <1>9, <3>1
    <3>3. (f \o u)[k] = f[k] /\ f[k] = s[k]
      BY <1>1, <1>5, <3>1
    <3> QED BY <3>2, <3>3
  <2>2. CASE ~(k <= Len(f))
    <3>1. n > 0 /\ Len(f) = Len(s) /\ k \in Len(f) + 1 .. Len(f) + n /\ k - Len(f) \in 1 .. n
      <4> DEFINE a == Len(s)
                 b == Len(t)
                 c == Len(f)
                 e == Len(g)
      <4>1. a \in Nat /\ b \in Nat /\ c = (IF a <= RingSize - 1 THEN a ELSE RingSize - 1)
        BY <1>1, <1>2
      <4>2. n = IF b <= RingSize - 1 - c THEN b ELSE RingSize - 1 - c
        BY <1>3
      <4>3. e = c + n /\ k \in 1 .. e /\ ~(k <= c)
        BY <1>8, <1>9, <2>2
      <4> HIDE DEF a, b, c, e, n
      <4>4. n > 0 /\ c = a /\ k \in c + 1 .. c + n /\ k - c \in 1 .. n
        BY <4>1, <4>2, <4>3, Sizes
      <4> QED BY <4>4 DEF a, c
    <3>2. k \in Len(s) + 1 .. Len(s) + Len(t)
      BY <1>2, <1>3, <3>1
    <3> QED BY <1>4, <1>5, <1>6, <1>7, <1>9, <3>1, <3>2
  <2> QED BY <1>1, <1>2, <2>1, <2>2
<1>10. g = f \o u
  BY <1>5, <1>7, <1>8, <1>9, SameElements DEF Texts
<1> QED BY <1>10 DEF f, g, u, n

-----------------------------------------------------------------------------
(* Buffers that are lapped.                                                *)

\* A buffer without characters holds nothing.
LEMMA NothingHeld ==
  ASSUME Buffer!rb_available = 0
  PROVE  Held = <<>>
  BY DEF Held, Buffer!Contents, Buffer!Oldest

\* A lapped one has none.
LEMMA LappedEmpty == Lapped => Buffer!rb_available = 0 /\ Held = <<>>
<1> SUFFICES ASSUME Lapped PROVE Buffer!rb_available = 0
  BY NothingHeld
<1>1. (RingSize + RingSize - 0) % RingSize = 0
  BY Sizes
<1> QED BY <1>1 DEF Lapped, Buffer!rb_available

\* A read takes nothing from it and leaves it as it is.
LEMMA LappedRead ==
  ASSUME Lapped, NEW n \in Nat, Buffer!rb_read(n)
  PROVE  Lapped' /\ out' = <<>> /\ Held' = <<>>
<1>1. Buffer!rb_available = 0 /\ Buffer!Lesser(n, 0) = 0
  BY LappedEmpty DEF Buffer!Lesser
<1>2. out' = Buffer!Oldest(0) /\ tail' = Buffer!Advance(tail, 0) /\ head' = head /\ data' = data
  BY <1>1 DEF Buffer!rb_read
<1>3. out' = <<>> /\ tail' = 0
  BY <1>2, Sizes DEF Buffer!Oldest, Buffer!Advance, Lapped
<1>4. Lapped'
  BY <1>2, <1>3, EmptyText DEF Lapped, Texts
<1>5. Buffer!rb_available' = 0
  <2>1. (RingSize + RingSize - 0) % RingSize = 0
    BY Sizes
  <2> QED BY <1>4, <2>1 DEF Lapped, Buffer!rb_available
<1>6. Held' = <<>>
  BY <1>5 DEF Held, Buffer!Contents, Buffer!Oldest
<1> QED BY <1>3, <1>4, <1>6

\* A write starts at the start.
LEMMA LappedWrite ==
  ASSUME Lapped, NEW t \in Texts, Len(t) \in 1 .. RingSize - 1, Buffer!rb_write(t)
  PROVE  Buffer!RingTypeOK' /\ Held' = t
<1> DEFINE n == Len(t)
<1>1. n \in 1 .. RingSize - 1 /\ t \in [1 .. n -> 0 .. InputLen]
  BY SeqIsFunction DEF Texts
<1>2. Buffer!Lesser(n, Buffer!rb_capacity) = n
  BY <1>1, LappedEmpty, Sizes DEF Buffer!Lesser, Buffer!rb_capacity
<1>3. head' = Buffer!Advance(head, n) /\ data' = Buffer!Filled(t, n) /\ tail' = tail /\ out' = out
  BY <1>2 DEF Buffer!rb_write
<1> HIDE DEF n
<1>4. head' = n /\ tail' = 0
  BY <1>1, <1>3, Sizes DEF Lapped, Buffer!Advance
<1>5. data' = [p \in 0 .. RingSize - 1 |-> IF p < n THEN t[p + 1] ELSE data[p]]
  BY <1>1, <1>3, Sizes DEF Lapped, Buffer!Filled, Buffer!RingPlaces
<1>6. data' \in [0 .. RingSize - 1 -> 0 .. InputLen]
  <2> SUFFICES ASSUME NEW p \in 0 .. RingSize - 1
               PROVE  (IF p < n THEN t[p + 1] ELSE data[p]) \in 0 .. InputLen
    BY <1>5
  <2>1. p < n => p + 1 \in 1 .. n
    BY <1>1, Sizes
  <2> QED BY <1>1, <2>1 DEF Lapped
<1>7. Buffer!RingTypeOK'
  BY <1>1, <1>3, <1>4, <1>6, Sizes DEF Buffer!RingTypeOK, Buffer!RingPlaces, Lapped
<1>8. Buffer!rb_available' = n
  <2>1. (RingSize + n - 0) % RingSize = n
    BY <1>1, Sizes
  <2> QED BY <1>4, <2>1 DEF Buffer!rb_available
<1>9. Held' = [k \in 1 .. n |-> data'[Buffer!Place(0, k - 1)]]
  BY <1>4, <1>8 DEF Held, Buffer!Contents, Buffer!Oldest, Buffer!Place
<1>10. ASSUME NEW k \in 1 .. n PROVE data'[Buffer!Place(0, k - 1)] = t[k]
  <2>1. Buffer!Place(0, k - 1) = k - 1 /\ k - 1 \in 0 .. RingSize - 1 /\ k - 1 < n /\ k - 1 + 1 = k
    BY <1>1, Sizes DEF Buffer!Place
  <2> QED BY <1>5, <2>1
<1>11. Held' = [k \in 1 .. n |-> t[k]]
  BY <1>9, <1>10
<1> QED BY <1>1, <1>7, <1>11

-----------------------------------------------------------------------------
(* The steps keep the invariant.                                           *)

\* A buffer that nobody touches holds what it held.
LEMMA BufferKept ==
  ASSUME UNCHANGED buffer
  PROVE  /\ Held' = Held
         /\ Buffer!RingTypeOK => Buffer!RingTypeOK'
         /\ Lapped => Lapped'
  BY DEF buffer, Held, Buffer!Contents, Buffer!Oldest, Buffer!Place, Buffer!rb_available,
         Buffer!RingTypeOK, Buffer!RingPlaces, Lapped

\* A state in which nothing is in the buffer, and nothing was pushed back.
LEMMA Settled ==
  ASSUME Buffer!RingTypeOK' \/ Lapped', NEW p \in 0 .. InputLen, NEW t \in Texts,
         Len(t) <= RingSize - 1, pos' = p, text' = t, due' = <<>>, given' = 0,
         ~junk' => Held' = <<>>
  PROVE  FileInv'
<1>1. Len(<<>>) <= RingSize - 1
  BY Sizes, EmptyText
<1>2. Fits(<<>>) = <<>> /\ <<>> \in Texts
  BY EmptyText
<1>3. Fits(due)' = Fits(<<>>)
  BY DEF Fits, Lesser
<1> QED BY <1>1, <1>2, <1>3 DEF FileInv

\* Nothing is read yet.
LEMMA FileInvInit == FileInit => FileInv
<1> SUFFICES ASSUME FileInit PROVE FileInv
  OBVIOUS
<1>1. Buffer!RingTypeOK /\ head = tail
  BY Sizes, InputLenAssumption DEF FileInit, Buffer!RingTypeOK, Buffer!RingPlaces
<1>2. Held = <<>>
  BY <1>1, HeldIsSeq DEF HeldOK
<1>3. Len(<<>>) <= RingSize - 1
  BY Sizes, EmptyText
<1> QED
  BY <1>1, <1>2, <1>3, EmptyText, InputLenAssumption DEF FileInit, FileInv

\* What rb_read() copies when it is asked for all that the buffer may hold.
LEMMA TakesAll ==
  ASSUME FileInv, NEW n \in Nat, n >= RingSize - 1, Buffer!rb_read(n)
  PROVE  /\ Buffer!RingTypeOK' \/ Lapped'
         /\ Held' = <<>> /\ out' = Held /\ out' \in Texts /\ Len(out') <= RingSize - 1
<1>1. CASE Buffer!RingTypeOK
  <2>1. Buffer!RingTypeOK' /\ out' = Held /\ Held' = <<>>
    BY <1>1, ReadEmpties
  <2>2. HeldOK
    BY <1>1, HeldIsSeq
  <2> QED BY <2>1, <2>2, Sizes DEF HeldOK, Texts
<1>2. CASE Lapped
  <2>1. Lapped' /\ out' = <<>> /\ Held' = <<>> /\ Held = <<>>
    BY <1>2, LappedRead, LappedEmpty
  <2> QED BY <2>1, EmptyText, Sizes
<1> QED BY <1>1, <1>2 DEF FileInv

\* What io_read() gives, and that it leaves nothing.
LEMMA IoReadKeeps ==
  ASSUME FileInv, io_read
  PROVE  /\ FileInv'
         /\ \E n \in 0 .. InputLen - pos : text' = Held \o Fresh(n) /\ pos' = pos + n
<1>1. Buffer!rb_read(RingSize - 1) /\ RingSize - 1 \in Nat
  BY Sizes DEF io_read
<1>2. /\ Buffer!RingTypeOK' \/ Lapped'
      /\ Held' = <<>> /\ out' = Held /\ out' \in Texts /\ Len(out') <= RingSize - 1
  BY <1>1, TakesAll
<1>3. PICK n \in 0 .. Lesser(Room(Len(out')), InputLen - pos) :
        text' = out' \o Fresh(n) /\ pos' = pos + n
  BY DEF io_read
<1> DEFINE o == out'
<1>4. o \in Texts /\ Len(o) \in Nat /\ Len(o) <= RingSize - 1
  BY <1>2 DEF Texts
<1> HIDE DEF o
<1>5. pos \in 0 .. InputLen /\ n \in 0 .. InputLen - pos /\ Len(o) + n <= RingSize - 1
  BY <1>3, <1>4, Sizes, InputLenAssumption DEF Lesser, Room, FileInv, o
<1>6. Fresh(n) \in Texts /\ Len(Fresh(n)) = n
  BY <1>5, FreshIsNext
<1>7. o \o Fresh(n) \in Texts /\ Len(o \o Fresh(n)) <= RingSize - 1
  BY <1>4, <1>5, <1>6, ConcatElements DEF Texts
<1>8. pos + n \in 0 .. InputLen
  BY <1>5, InputLenAssumption
<1>9. due' = <<>> /\ given' = 0 /\ junk' = FALSE
  BY DEF io_read, Nothing
<1>10. FileInv'
  BY <1>2, <1>3, <1>7, <1>8, <1>9, Settled DEF o
<1> QED BY <1>2, <1>3, <1>5, <1>10 DEF o

\* irc_io_read()
LEMMA IrcReadKeeps ==
  ASSUME FileInv, irc_io_read
  PROVE  /\ FileInv'
         /\ \E n \in 0 .. InputLen - pos : text' = Held \o Fresh(n) /\ pos' = pos + n
<1>0. due' = <<>> /\ given' = 0 /\ junk' = FALSE /\ pos \in 0 .. InputLen
  BY DEF irc_io_read, Nothing, FileInv
<1>1. CASE Buffer!rb_available # 0
  <2>1. Buffer!rb_read(RingSize) /\ text' = out' /\ pos' = pos
    BY <1>1, Sizes DEF irc_io_read
  <2>2. /\ Buffer!RingTypeOK' \/ Lapped'
        /\ Held' = <<>> /\ out' = Held /\ out' \in Texts /\ Len(out') <= RingSize - 1
    BY <2>1, Sizes, TakesAll
  <2>3. FileInv'
    BY <1>0, <2>1, <2>2, Settled
  <2>4. 0 \in 0 .. InputLen - pos /\ pos + 0 = pos
    BY <1>0, InputLenAssumption
  <2>5. Fresh(0) = <<>>
    BY DEF Fresh
  <2>6. Held \in Texts => Held \o <<>> = Held
    BY SeqIsFunction DEF Texts
  <2> QED BY <2>1, <2>2, <2>3, <2>4, <2>5, <2>6
<1>2. CASE Buffer!rb_available = 0
  <2>1. PICK n \in 0 .. Lesser(InputBuf - 2, InputLen - pos) :
          text' = Fresh(n) /\ pos' = pos + n /\ UNCHANGED buffer
    BY <1>2 DEF irc_io_read
  <2>2. Held = <<>>
    BY <1>2, NothingHeld
  <2>3. n \in 0 .. InputLen - pos /\ n <= RingSize - 1 /\ pos + n \in 0 .. InputLen
    BY <1>0, <2>1, Sizes, InputLenAssumption DEF Lesser
  <2>4. (Buffer!RingTypeOK' \/ Lapped') /\ Held' = <<>>
    BY <2>1, <2>2, BufferKept DEF FileInv
  <2>5. Fresh(n) \in Texts /\ Len(Fresh(n)) = n /\ Held \o Fresh(n) = Fresh(n)
    BY <1>0, <2>2, <2>3, FreshIsNext, SeqIsFunction DEF Texts
  <2>6. FileInv'
    BY <1>0, <2>1, <2>3, <2>4, <2>5, Settled
  <2> QED BY <2>1, <2>3, <2>5, <2>6
<1> QED BY <1>1, <1>2

\* io_unread()
LEMMA UnreadKeeps ==
  ASSUME FileInv, NEW n \in 1 .. Len(text), io_unread(n)
  PROVE  FileInv'
<1> DEFINE t == SubSeq(text, Len(text) - n + 1, Len(text))
<1>1. /\ text \in Texts /\ Len(text) \in Nat /\ n \in 1 .. RingSize - 1
      /\ due \in Texts /\ given \in Nat
  BY Sizes DEF FileInv, Texts
<1>2. t \in Texts /\ Len(t) = n
  BY <1>1, LastElements DEF Texts
<1>3. t \in Buffer!RingTexts
  <2>1. t \in [1 .. n -> 0 .. InputLen]
    BY <1>2, SeqIsFunction DEF Texts
  <2>2. n \in 0 .. RingSize
    BY <1>1, Sizes
  <2> QED BY <2>1, <2>2 DEF Buffer!RingTexts
<1>4. /\ Buffer!rb_write(t) /\ due' = due \o t /\ given' = given + 1
      /\ text' = text /\ pos' = pos /\ junk' = junk
  BY DEF io_unread
<1> HIDE DEF t
<1>5. due \o t \in Texts /\ Len(due \o t) = Len(due) + n
  BY <1>1, <1>2, ConcatElements DEF Texts
<1>6. given + 1 <= 1 => Len(due \o t) <= RingSize - 1
  BY <1>1, <1>5, EmptyText DEF FileInv
<1>7. Buffer!RingTypeOK' /\ (~junk => Held' = Fits(due \o t))
  <2>1. CASE Buffer!RingTypeOK
    <3>1. /\ Buffer!RingTypeOK'
          /\ Held' = Held \o SubSeq(t, 1, Lesser(Len(t), RingSize - 1 - Len(Held)))
      BY <1>3, <1>4, <2>1, WriteAppends
    <3>2. ASSUME ~junk PROVE Held = Fits(due)
      BY <3>2 DEF FileInv
    <3> QED BY <1>1, <1>2, <3>1, <3>2, FitsMore
  <2>2. CASE Lapped /\ given = 0
    <3>1. Buffer!RingTypeOK' /\ Held' = t
      BY <1>1, <1>2, <1>4, <2>2, LappedWrite
    <3>2. due = <<>> /\ due \o t = t
      BY <1>2, <2>2, SeqIsFunction DEF FileInv, Texts
    <3>3. Fits(t) = t
      BY <1>1, <1>2, FitsIs
    <3> QED BY <3>1, <3>2, <3>3
  <2> QED BY <2>1, <2>2 DEF FileInv
<1>8. Fits(due)' = Fits(due \o t)
  BY <1>4 DEF Fits, Lesser
<1>9. given' \in Nat /\ given' # 0
  BY <1>1, <1>4
<1> QED BY <1>1, <1>4, <1>5, <1>6, <1>7, <1>8, <1>9 DEF FileInv

\* io_open()
LEMMA OpenKeeps ==
  ASSUME FileInv, io_open
  PROVE  FileInv'
<1>1. CASE kind = "file"
  <2>1. /\ head' \in 0 .. RingSize /\ tail' \in 0 .. RingSize /\ out' = out
        /\ data' = [p \in 0 .. RingSize - 1 |-> 0]
        /\ pos' = 0 /\ text' = text
        /\ due' = <<>> /\ given' = 0 /\ junk' = (Buffer!rb_available' # 0)
    BY <1>1, JunkAssumption DEF io_open, Nothing
  <2>2. out \in Seq(0 .. InputLen)
    BY DEF FileInv, Buffer!RingTypeOK, Lapped
  <2>3. Buffer!RingTypeOK' \/ Lapped'
    BY <2>1, <2>2, Sizes, InputLenAssumption DEF Buffer!RingTypeOK, Buffer!RingPlaces, Lapped
  <2>4. ~junk' => Held' = <<>>
    <3>1. Buffer!rb_available' = 0 => Held' = <<>>
      BY DEF Held, Buffer!Contents, Buffer!Oldest
    <3> QED BY <2>1, <3>1
  <2>5. 0 \in 0 .. InputLen /\ text \in Texts /\ Len(text) <= RingSize - 1
    BY InputLenAssumption DEF FileInv
  <2> QED BY <2>1, <2>3, <2>4, <2>5, Settled
<1>2. CASE kind # "file"
  BY <1>2, BufferKept DEF io_open, FileInv, ghosts, Fits, Lesser
<1> QED BY <1>1, <1>2

\* io_seek()
LEMMA SeekKeeps ==
  ASSUME FileInv, NEW offset \in 0 .. InputLen, io_seek(offset)
  PROVE  FileInv'
<1>1. /\ tail' = head /\ head' = head /\ data' = data /\ out' = out
      /\ pos' = offset /\ text' = <<>> /\ due' = <<>> /\ given' = 0
  BY DEF io_seek, SeekBuffer, Buffer!rb_clear, Nothing
<1>2. Buffer!RingTypeOK'
  BY <1>1, Sizes DEF FileInv, Buffer!RingTypeOK, Buffer!RingPlaces, Lapped
<1>3. Held' = <<>>
  <2>1. HeldOK'
    BY <1>2, HeldIsSeq, PTL
  <2> QED BY <1>1, <2>1 DEF HeldOK
<1>4. Len(<<>>) <= RingSize - 1
  BY Sizes, EmptyText
<1> QED BY <1>1, <1>2, <1>3, <1>4, EmptyText, Settled

\* FileInv is inductive.
LEMMA FileInvNext == FileInv /\ [FileNext]_file => FileInv'
<1> SUFFICES ASSUME FileInv, [FileNext]_file PROVE FileInv'
  OBVIOUS
<1>1. CASE close
  BY <1>1, BufferKept DEF close, io_close, ghosts, FileInv, Fits, Lesser
<1>2. CASE UNCHANGED file
  <2>1. UNCHANGED buffer /\ UNCHANGED ghosts /\ pos' = pos /\ text' = text
    BY <1>2 DEF file, buffer, ghosts
  <2> QED BY <2>1, BufferKept DEF ghosts, FileInv, Fits, Lesser
<1> QED
  BY <1>1, <1>2, OpenKeeps, IoReadKeeps, IrcReadKeeps, UnreadKeeps, SeekKeeps
  DEF FileNext, open, read, unread, seek

\* However files are opened, read, pushed back to, sought and closed, and
\* however little a read returns, a read gives all that was pushed back since
\* the last one, if in one part, and else as much as the buffer takes, and then
\* what is next on the descriptor; but for the first read of a file whose
\* buffer malloc() has not left empty.
THEOREM InputInOrder == FileSpec => ReadInOrder
<1> DEFINE InOrder == read /\ ~junk => \E n \in 0 .. InputLen - pos :
                                         text' = Owed \o Fresh(n) /\ pos' = pos + n
<1>1. FileInit => FileInv
  BY FileInvInit
<1>2. FileInv /\ [FileNext]_file => FileInv'
  BY FileInvNext
<1>3. FileInv => InOrder
  <2> SUFFICES ASSUME FileInv, read, ~junk
               PROVE  \E n \in 0 .. InputLen - pos : text' = Owed \o Fresh(n) /\ pos' = pos + n
    OBVIOUS
  <2>1. Held = Fits(due) /\ due \in Texts /\ given \in Nat
        /\ (given <= 1 => Len(due) <= RingSize - 1)
    BY DEF FileInv
  <2>2. Owed = Held
    BY <2>1, FitsIs DEF Owed, Fits
  <2> QED BY <2>2, IoReadKeeps, IrcReadKeeps DEF read
<1>4. FileInv /\ [FileNext]_file => [InOrder]_file
  BY <1>3
<1> QED BY <1>1, <1>2, <1>4, PTL DEF FileSpec, ReadInOrder
=============================================================================

-------------------------- MODULE RingBufferProofs --------------------------
(***************************************************************************)
(* Proofs about the ring buffer: its positions stay in range, and it       *)
(* implements the queue of module Fifo, for every size.                    *)
(*                                                                         *)
(* All the arithmetic is in the lemma Available, which does away with the  *)
(* remainder in rb_available().  What is left is the place of the k-th     *)
(* character before and after an operation.                                *)
(***************************************************************************)
EXTENDS RingBuffer, TLAPS

\* The remainder of a number below twice the divisor.
LEMMA SmallMod ==
  ASSUME NEW n \in Nat \ {0}, NEW d \in 0 .. n - 1
  PROVE  d % n = d /\ (n + d) % n = d
  OBVIOUS

\* What it takes to be a concatenation.
LEMMA ConcatIs ==
  ASSUME NEW S, NEW s \in Seq(S), NEW t \in Seq(S), NEW u \in Seq(S),
         Len(u) = Len(s) + Len(t),
         \A k \in 1 .. Len(s) : u[k] = s[k],
         \A k \in 1 .. Len(t) : u[Len(s) + k] = t[k]
  PROVE  u = s \o t
  <1>1. s \o t \in Seq(S) /\ Len(s \o t) = Len(s) + Len(t)
    OBVIOUS
  <1>2. ASSUME NEW k \in 1 .. Len(u) PROVE u[k] = (s \o t)[k]
    <2>1. CASE k <= Len(s)
      BY <2>1
    <2>2. CASE ~(k <= Len(s))
      <3>1. k - Len(s) \in 1 .. Len(t) /\ Len(s) + (k - Len(s)) = k
        BY <2>2
      <3>2. u[k] = t[k - Len(s)]
        BY <3>1
      <3> QED BY <2>2, <3>2
    <2> QED BY <2>1, <2>2
  <1> QED BY <1>1, <1>2

\* What it takes to be the rest of a sequence after its first n elements.
LEMMA RestIs ==
  ASSUME NEW S, NEW s \in Seq(S), NEW u \in Seq(S), NEW n \in 0 .. Len(s),
         Len(u) = Len(s) - n,
         \A k \in 1 .. Len(u) : u[k] = s[n + k]
  PROVE  u = SubSeq(s, n + 1, Len(s))
  <1>1. SubSeq(s, n + 1, Len(s)) \in Seq(S) /\ Len(SubSeq(s, n + 1, Len(s))) = Len(s) - n
    OBVIOUS
  <1>2. ASSUME NEW k \in 1 .. Len(u) PROVE u[k] = SubSeq(s, n + 1, Len(s))[k]
    OBVIOUS
  <1> QED BY <1>1, <1>2

\* How many characters the buffer holds: never RingSize.
AvailableOK ==
  /\ rb_available = IF head >= tail THEN head - tail ELSE RingSize + head - tail
  /\ rb_available \in 0 .. RingSize - 1

\* rb_available() without the remainder.
LEMMA Available == RingTypeOK => AvailableOK
  <1> SUFFICES ASSUME RingTypeOK PROVE AvailableOK
    OBVIOUS
  <1> USE RingSizeAssumption DEF RingTypeOK
  <1>1. CASE head >= tail
    <2>1. head - tail \in 0 .. RingSize - 1
      BY <1>1
    <2>2. (RingSize + (head - tail)) % RingSize = head - tail
      BY <2>1, SmallMod
    <2>3. RingSize + (head - tail) = RingSize + head - tail
      OBVIOUS
    <2> QED BY <1>1, <2>1, <2>2, <2>3 DEF rb_available, AvailableOK
  <1>2. CASE ~(head >= tail)
    <2>1. RingSize + head - tail \in 0 .. RingSize - 1
      BY <1>2
    <2>2. (RingSize + head - tail) % RingSize = RingSize + head - tail
      BY <2>1, SmallMod
    <2> QED BY <1>2, <2>1, <2>2 DEF rb_available, AvailableOK
  <1> QED BY <1>1, <1>2

\* A text is a sequence of characters.
LEMMA TextIsSeq ==
  ASSUME NEW text \in RingTexts
  PROVE  text \in Seq(Chars) /\ Len(text) \in Nat
  <1>1. PICK n \in 0 .. MaxText : text \in [1 .. n -> Chars]
    BY DEF RingTexts
  <1> QED BY <1>1, MaxTextAssumption

\* The characters at the front are a sequence of that length.
LEMMA FrontIsSeq ==
  ASSUME RingTypeOK, NEW n \in 0 .. rb_available
  PROVE  /\ Oldest(n) \in Seq(Chars)
         /\ Len(Oldest(n)) = n
         /\ DOMAIN Oldest(n) = 1 .. n
         /\ \A k \in 1 .. n : Oldest(n)[k] = data[Place(tail, k - 1)]
  <1>1. rb_available \in 0 .. RingSize - 1
    BY Available DEF AvailableOK
  <1>2. ASSUME NEW k \in 1 .. n PROVE Place(tail, k - 1) \in RingPlaces
    BY <1>1, RingSizeAssumption DEF RingTypeOK, Place, RingPlaces
  <1>3. Oldest(n) \in [1 .. n -> Chars]
    BY <1>2 DEF Oldest, RingTypeOK
  <1>4. n \in Nat
    BY <1>1
  <1> QED BY <1>3, <1>4 DEF Oldest

-----------------------------------------------------------------------------
\* A write leaves the positions in range: it never fills the last place.
LEMMA WriteType ==
  ASSUME RingTypeOK, NEW text \in RingTexts, rb_write(text)
  PROVE  RingTypeOK'
  <1> DEFINE n == Lesser(Len(text), rb_capacity)
  <1>1. /\ rb_available = IF head >= tail THEN head - tail ELSE RingSize + head - tail
        /\ rb_available \in 0 .. RingSize - 1
    BY Available DEF AvailableOK
  <1>2. Len(text) \in Nat /\ text \in Seq(Chars)
    BY TextIsSeq
  <1>3. n \in 0 .. RingSize - 1 - rb_available /\ n <= Len(text)
    BY <1>1, <1>2, RingSizeAssumption DEF Lesser, rb_capacity
  <1>4. head' = Advance(head, n) /\ data' = Filled(text, n) /\ tail' = tail /\ out' = out
    BY DEF rb_write
  <1> HIDE DEF n
  <1>5. head' \in 0 .. RingSize /\ ~(head' = RingSize /\ tail' = 0)
    BY <1>1, <1>3, <1>4, RingSizeAssumption DEF Advance, RingTypeOK
  <1>6. Filled(text, n) \in [RingPlaces -> Chars]
    <2>1. ASSUME NEW p \in RingPlaces PROVE Filled(text, n)[p] \in Chars
      <3> DEFINE right == RingSize - head
      <3>1. right \in Nat /\ head \in Nat /\ p \in Nat /\ RingSize \in Nat /\ head + right = RingSize
        BY RingSizeAssumption DEF RingTypeOK, RingPlaces
      <3>2. CASE p >= head /\ p - head < n
        <4>1. p - head + 1 \in 1 .. Len(text)
          BY <1>2, <1>3, <3>1, <3>2
        <4> QED BY <1>2, <3>2, <4>1 DEF Filled
      <3>3. CASE ~(p >= head /\ p - head < n) /\ p + right < n
        <4>1. p + right + 1 \in 1 .. Len(text)
          BY <1>2, <1>3, <3>1, <3>3
        <4> QED BY <1>2, <3>3, <4>1 DEF Filled
      <3>4. CASE ~(p >= head /\ p - head < n) /\ ~(p + right < n)
        BY <3>4 DEF Filled, RingTypeOK
      <3> QED BY <3>2, <3>3, <3>4
    <2> QED BY <2>1 DEF Filled
  <1> QED BY <1>4, <1>5, <1>6 DEF RingTypeOK

\* A read leaves the positions in range: tail stops at head.
LEMMA ReadType ==
  ASSUME RingTypeOK, NEW count \in Nat, rb_read(count)
  PROVE  RingTypeOK'
  <1> DEFINE n == Lesser(count, rb_available)
  <1>1. /\ rb_available = IF head >= tail THEN head - tail ELSE RingSize + head - tail
        /\ rb_available \in 0 .. RingSize - 1
    BY Available DEF AvailableOK
  <1>2. n \in 0 .. rb_available
    BY <1>1 DEF Lesser
  <1>3. tail' = Advance(tail, n) /\ out' = Oldest(n) /\ head' = head /\ data' = data
    BY DEF rb_read
  <1> HIDE DEF n
  <1>4. tail' \in 0 .. RingSize /\ ~(head' = RingSize /\ tail' = 0)
    BY <1>1, <1>2, <1>3, RingSizeAssumption DEF Advance, RingTypeOK
  <1>5. out' \in Seq(Chars)
    BY <1>2, <1>3, FrontIsSeq
  <1> QED BY <1>3, <1>4, <1>5 DEF RingTypeOK

\* No step takes a position out of data.
LEMMA NextType == RingTypeOK /\ [RingNext]_ring => RingTypeOK'
  <1> SUFFICES ASSUME RingTypeOK, [RingNext]_ring PROVE RingTypeOK'
    OBVIOUS
  <1>1. ASSUME NEW text \in RingTexts, rb_write(text) PROVE RingTypeOK'
    BY <1>1, WriteType
  <1>2. ASSUME NEW count \in 0 .. RingSize, rb_read(count) PROVE RingTypeOK'
    BY <1>2, ReadType, RingSizeAssumption
  <1>3. CASE rb_clear
    BY <1>3, RingSizeAssumption DEF rb_clear, RingTypeOK
  <1>4. CASE UNCHANGED ring
    BY <1>4 DEF ring, RingTypeOK
  <1> QED BY <1>1, <1>2, <1>3, <1>4 DEF RingNext

\* The first state is well typed.
LEMMA InitType == RingInit => RingTypeOK
  BY RingSizeAssumption DEF RingInit, RingTypeOK

\* The positions are always in range, and head is never at the end of data
\* while tail is at its start.
THEOREM TypeCorrect == RingSpec => []RingTypeOK
  BY InitType, NextType, PTL DEF RingSpec

-----------------------------------------------------------------------------
\* Contents is a sequence, and these are its characters.
ContentsOK ==
  /\ Contents \in Seq(Chars)
  /\ Len(Contents) = rb_available
  /\ \A k \in 1 .. rb_available : Contents[k] = data[Place(tail, k - 1)]

\* In a state of the right type the contents are well defined.
LEMMA ContentsIsSeq == RingTypeOK => ContentsOK
  <1> SUFFICES ASSUME RingTypeOK PROVE ContentsOK
    OBVIOUS
  <1>1. rb_available \in 0 .. rb_available
    BY Available, RingSizeAssumption DEF AvailableOK
  <1> QED BY <1>1, FrontIsSeq DEF Contents, ContentsOK

\* A write appends what it has room for.
LEMMA WriteAppends ==
  ASSUME RingTypeOK, NEW text \in RingTexts, rb_write(text)
  PROVE  Queue!Write(text)
  <1> DEFINE n == Lesser(Len(text), rb_capacity)
             part == SubSeq(text, 1, n)
  <1>1. /\ rb_available = IF head >= tail THEN head - tail ELSE RingSize + head - tail
        /\ rb_available \in 0 .. RingSize - 1
    BY Available DEF AvailableOK
  <1>2. Len(text) \in Nat /\ text \in Seq(Chars)
    BY TextIsSeq
  <1>3. n \in 0 .. RingSize - 1 - rb_available /\ n <= Len(text)
    BY <1>1, <1>2, RingSizeAssumption DEF Lesser, rb_capacity
  <1>4. head' = Advance(head, n) /\ data' = Filled(text, n) /\ tail' = tail /\ out' = out
    BY DEF rb_write
  <1>5. RingTypeOK'
    BY WriteType
  <1>6. /\ rb_available' = IF head' >= tail' THEN head' - tail' ELSE RingSize + head' - tail'
        /\ rb_available' \in 0 .. RingSize - 1
    <2>1. AvailableOK'
      BY <1>5, Available, PTL
    <2> QED BY <2>1 DEF AvailableOK
  <1>7. /\ Contents \in Seq(Chars) /\ Len(Contents) = rb_available
        /\ \A k \in 1 .. rb_available : Contents[k] = data[Place(tail, k - 1)]
    BY ContentsIsSeq DEF ContentsOK
  <1>8. /\ Contents' \in Seq(Chars) /\ Len(Contents') = rb_available'
        /\ \A k \in 1 .. rb_available' : Contents'[k] = data'[Place(tail', k - 1)]
    <2>1. ContentsOK'
      BY <1>5, ContentsIsSeq, PTL
    <2> QED BY <2>1 DEF ContentsOK
  <1>n. Lesser(Len(text), RingSize - 1 - Len(Contents)) = n
    BY <1>1, <1>7, RingSizeAssumption DEF Lesser, rb_capacity
  <1> HIDE DEF n
  <1>9. rb_available' = rb_available + n
    BY <1>1, <1>3, <1>4, <1>6, RingSizeAssumption DEF Advance, RingTypeOK
  <1>10. /\ part \in Seq(Chars) /\ Len(part) = n
         /\ \A k \in 1 .. n : part[k] = text[k]
    BY <1>2, <1>3
  <1>11. ASSUME NEW k \in 1 .. rb_available
         PROVE  data'[Place(tail', k - 1)] = data[Place(tail, k - 1)]
    <2> DEFINE p == Place(tail, k - 1)
    <2>1. p \in RingPlaces /\ ~(p >= head /\ p - head < n) /\ ~(p + (RingSize - head) < n)
      BY <1>1, <1>3, RingSizeAssumption DEF Place, RingPlaces, RingTypeOK
    <2> QED BY <1>4, <2>1 DEF Filled
  <1>12. ASSUME NEW k \in rb_available + 1 .. rb_available + n
         PROVE  data'[Place(tail', k - 1)] = text[k - rb_available]
    <2> DEFINE p == Place(tail, k - 1)
    <2>1. p \in RingPlaces
      BY <1>1, <1>3, RingSizeAssumption DEF Place, RingPlaces, RingTypeOK
    <2>2. \/ p >= head /\ p - head < n /\ p - head + 1 = k - rb_available
          \/ ~(p >= head) /\ p + (RingSize - head) < n /\ p + (RingSize - head) + 1 = k - rb_available
      BY <1>1, <1>3, RingSizeAssumption DEF Place, RingPlaces, RingTypeOK
    <2> HIDE DEF p
    <2>3. data'[p] = text[k - rb_available]
      BY <1>4, <2>1, <2>2 DEF Filled
    <2> QED BY <1>4, <2>3 DEF p
  <1>13. Contents' = Contents \o part
    <2>1. \A k \in 1 .. rb_available : Contents'[k] = Contents[k]
      BY <1>1, <1>3, <1>7, <1>8, <1>9, <1>11
    <2>2. \A k \in 1 .. n : Contents'[rb_available + k] = part[k]
      <3>1. SUFFICES ASSUME NEW k \in 1 .. n
                     PROVE  Contents'[rb_available + k] = part[k]
        OBVIOUS
      <3> DEFINE j == rb_available + k
      <3>2. j \in rb_available + 1 .. rb_available + n /\ j - rb_available = k
        BY <1>1, <1>3
      <3>3. j \in 1 .. rb_available'
        BY <1>1, <1>3, <1>9
      <3> HIDE DEF j
      <3>4. data'[Place(tail', j - 1)] = text[k]
        BY <1>12, <3>2
      <3>5. Contents'[j] = text[k]
        BY <1>8, <3>3, <3>4
      <3> QED BY <1>10, <3>5 DEF j
    <2> HIDE DEF part
    <2>3. Len(Contents') = Len(Contents) + Len(part)
      BY <1>7, <1>8, <1>9, <1>10
    <2>4. /\ \A k \in 1 .. Len(Contents) : Contents'[k] = Contents[k]
          /\ \A k \in 1 .. Len(part) : Contents'[Len(Contents) + k] = part[k]
      BY <1>7, <1>10, <2>1, <2>2
    <2> QED BY <1>7, <1>8, <1>10, <2>3, <2>4, ConcatIs
  <1> QED BY <1>4, <1>13, <1>n DEF Queue!Write, Queue!Lesser, Lesser

\* A read takes from the front.
LEMMA ReadTakes ==
  ASSUME RingTypeOK, NEW count \in Nat, rb_read(count)
  PROVE  Queue!Read(count)
  <1> DEFINE n == Lesser(count, rb_available)
  <1>1. /\ rb_available = IF head >= tail THEN head - tail ELSE RingSize + head - tail
        /\ rb_available \in 0 .. RingSize - 1
    BY Available DEF AvailableOK
  <1>2. n \in 0 .. rb_available
    BY <1>1 DEF Lesser
  <1>3. tail' = Advance(tail, n) /\ out' = Oldest(n) /\ head' = head /\ data' = data
    BY DEF rb_read
  <1>4. RingTypeOK'
    BY ReadType
  <1>5. /\ rb_available' = IF head' >= tail' THEN head' - tail' ELSE RingSize + head' - tail'
        /\ rb_available' \in 0 .. RingSize - 1
    <2>1. AvailableOK'
      BY <1>4, Available, PTL
    <2> QED BY <2>1 DEF AvailableOK
  <1>6. /\ Contents \in Seq(Chars) /\ Len(Contents) = rb_available
        /\ \A k \in 1 .. rb_available : Contents[k] = data[Place(tail, k - 1)]
    BY ContentsIsSeq DEF ContentsOK
  <1>7. /\ Contents' \in Seq(Chars) /\ Len(Contents') = rb_available'
        /\ \A k \in 1 .. rb_available' : Contents'[k] = data'[Place(tail', k - 1)]
    <2>1. ContentsOK'
      BY <1>4, ContentsIsSeq, PTL
    <2> QED BY <2>1 DEF ContentsOK
  <1>8. /\ Oldest(n) \in Seq(Chars) /\ Len(Oldest(n)) = n /\ DOMAIN Oldest(n) = 1 .. n
        /\ \A k \in 1 .. n : Oldest(n)[k] = data[Place(tail, k - 1)]
    BY <1>2, FrontIsSeq
  <1>n. Lesser(count, Len(Contents)) = n
    BY <1>6
  <1> HIDE DEF n
  <1>9. rb_available' = rb_available - n
    BY <1>1, <1>2, <1>3, <1>5, RingSizeAssumption DEF Advance, RingTypeOK
  <1>10. out' = SubSeq(Contents, 1, n)
    BY <1>1, <1>2, <1>3, <1>6, <1>8
  <1>11. ASSUME NEW k \in 1 .. rb_available - n
         PROVE  Place(tail', k - 1) = Place(tail, n + k - 1)
    BY <1>1, <1>2, <1>3, RingSizeAssumption DEF Place, Advance, RingTypeOK
  <1>12. Contents' = SubSeq(Contents, n + 1, Len(Contents))
    <2>1. ASSUME NEW k \in 1 .. Len(Contents')
          PROVE  Contents'[k] = Contents[n + k]
      <3>1. n + k \in 1 .. rb_available /\ k \in 1 .. rb_available - n /\ (n + k) - 1 = n + k - 1
        BY <1>1, <1>2, <1>7, <1>9
      <3>2. Contents'[k] = data[Place(tail, n + k - 1)]
        BY <1>3, <1>7, <1>11, <3>1
      <3> QED BY <1>6, <3>1, <3>2
    <2>2. n \in 0 .. Len(Contents) /\ Len(Contents') = Len(Contents) - n
      BY <1>2, <1>6, <1>7, <1>9
    <2> QED BY <1>6, <1>7, <2>1, <2>2, RestIs
  <1> QED BY <1>6, <1>10, <1>12, <1>n DEF Queue!Read, Queue!Lesser, Lesser

\* Clearing leaves nothing to read.
LEMMA ClearEmpties ==
  ASSUME RingTypeOK, rb_clear
  PROVE  Queue!Clear
  <1>1. RingTypeOK'
    BY RingSizeAssumption DEF rb_clear, RingTypeOK
  <1>2. rb_available' = 0
    <2>1. AvailableOK'
      BY <1>1, Available, PTL
    <2> QED BY <1>1, <2>1 DEF AvailableOK, rb_clear, RingTypeOK
  <1>3. ContentsOK'
    BY <1>1, ContentsIsSeq, PTL
  <1> QED BY <1>2, <1>3 DEF ContentsOK, Queue!Clear, rb_clear

\* Every step of the buffer is a step of the queue, or leaves it alone.
LEMMA StepSimulates ==
  RingTypeOK /\ [RingNext]_ring => [Queue!Next]_<<Contents, out>>
  <1> SUFFICES ASSUME RingTypeOK, [RingNext]_ring PROVE [Queue!Next]_<<Contents, out>>
    OBVIOUS
  <1>1. ASSUME NEW text \in RingTexts, rb_write(text) PROVE Queue!Next
    BY <1>1, WriteAppends DEF Queue!Next
  <1>2. ASSUME NEW count \in 0 .. RingSize, rb_read(count) PROVE Queue!Next
    <2>1. Queue!Read(count)
      BY <1>2, ReadTakes, RingSizeAssumption
    <2>2. count \in 0 .. (RingSize - 1) + 1
      BY RingSizeAssumption
    <2> QED BY <2>1, <2>2 DEF Queue!Next
  <1>3. CASE rb_clear
    BY <1>3, ClearEmpties DEF Queue!Next
  <1>4. CASE UNCHANGED ring
    BY <1>4 DEF ring, Contents, Oldest, rb_available, Place
  <1> QED BY <1>1, <1>2, <1>3, <1>4 DEF RingNext

\* The buffer starts as the empty queue.
LEMMA InitSimulates == RingInit => Queue!Init
  <1> SUFFICES ASSUME RingInit PROVE Queue!Init
    OBVIOUS
  <1>1. RingTypeOK
    BY InitType
  <1>2. rb_available = 0
    BY <1>1, Available DEF AvailableOK, RingInit
  <1> QED BY <1>1, <1>2, ContentsIsSeq DEF ContentsOK, RingInit, Queue!Init

\* The ring buffer is a queue of RingSize - 1 characters, of whatever size it is
\* and however head and tail lie.
THEOREM ImplementsQueue == RingSpec => IsQueue
  <1>1. RingSpec => []RingTypeOK
    BY TypeCorrect
  <1> QED BY <1>1, InitSimulates, StepSimulates, PTL DEF RingSpec, IsQueue, Queue!Spec
\* Every call does to the queue what it is named for.
THEOREM CallsImplement == RingSpec => CallsAsQueue
  <1> DEFINE Agree == /\ \A text \in RingTexts : rb_write(text) => Queue!Write(text)
                      /\ \A count \in 0 .. RingSize : rb_read(count) => Queue!Read(count)
                      /\ rb_clear => Queue!Clear
  <1>1. RingTypeOK => Agree
    BY WriteAppends, ReadTakes, ClearEmpties, RingSizeAssumption
  <1>2. RingTypeOK /\ [RingNext]_ring => [Agree]_ring
    BY <1>1
  <1>3. RingSpec => []RingTypeOK
    BY TypeCorrect
  <1> QED BY <1>2, <1>3, PTL DEF RingSpec, CallsAsQueue
=============================================================================

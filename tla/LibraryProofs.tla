--------------------------- MODULE LibraryProofs ----------------------------
(***************************************************************************)
(* Proofs about quicksort and the searches, for all arrays of rows, and    *)
(* about reading lists, for all chains of lists.                           *)
(***************************************************************************)
EXTENDS Sorting, Lists, TLAPS, WellFoundedInduction

Rows == [key : Int, tag : Nat]

-----------------------------------------------------------------------------
\* A set of naturals has a least member.
LEMMA LeastMember ==
  ASSUME NEW T \in SUBSET Nat, T # {}
  PROVE  \E m \in T : \A y \in T : m <= y
<1> DEFINE R == OpToRel(<, Nat)
<1>1. IsWellFoundedOn(R, Nat)
  BY NatLessThanWellFounded
<1>2. \A x, y \in Nat : x < y => <<x, y>> \in R
  BY DEF OpToRel
<1> HIDE DEF R
<1>3. PICK m \in T : \A y \in T : ~(<<y, m>> \in R)
  BY <1>1, WFMin
<1>4. ASSUME NEW y \in T
      PROVE  m <= y
  <2>1. m \in Nat /\ y \in Nat
    OBVIOUS
  <2>2. ~(y < m)
    BY <1>2, <1>3, <2>1, Zenon
  <2> QED BY <2>1, <2>2, SMT
<1> QED BY <1>4

-----------------------------------------------------------------------------
\* The state of the loop of quicksort() before row i, from the one before.
MovedTo(g, a, p, l, h, i) ==
  IF i = l THEN [array |-> [a EXCEPT ![p] = a[h]], at |-> l]
  ELSE Move(g[i - 1], i - 1, a[p])

\* There is such a sequence of states, and the loop ends in its last.
LEMMA MovedUnfolds ==
  ASSUME NEW a, NEW p, NEW l \in Nat, NEW h \in Nat, l <= h
  PROVE  \E g : /\ g = [i \in l .. h |-> MovedTo(g, a, p, l, h, i)]
                /\ MoveAll(a, p, l, h) = g[h]
<1> DEFINE Upto(n) == \E g : g = [i \in l .. n |-> MovedTo(g, a, p, l, h, i)]
           T == {n \in Nat : n >= l /\ ~Upto(n)}
<1>1. Upto(l)
  <2> DEFINE s == [array |-> [a EXCEPT ![p] = a[h]], at |-> l]
             g == [i \in l .. l |-> s]
  <2>1. g = [i \in l .. l |-> MovedTo(g, a, p, l, h, i)]
    BY DEF MovedTo
  <2> HIDE DEF g
  <2> QED BY <2>1
<1>2. ASSUME NEW n \in Nat, n >= l, Upto(n)
      PROVE  Upto(n + 1)
  <2>1. PICK g : g = [i \in l .. n |-> MovedTo(g, a, p, l, h, i)]
    BY <1>2
  <2> DEFINE f == [i \in l .. n + 1 |-> IF i = n + 1 THEN Move(g[n], n, a[p]) ELSE g[i]]
  <2>2. ASSUME NEW i \in l .. n + 1
        PROVE  f[i] = MovedTo(f, a, p, l, h, i)
    <3>1. i \in Nat /\ n \in l .. n /\ (i # n + 1 => i \in l .. n) /\ (i # l => i - 1 \in l .. n)
      BY <1>2
    <3>2. f[i] = IF i = n + 1 THEN Move(g[n], n, a[p]) ELSE g[i]
      OBVIOUS
    <3>3. i # l => f[i - 1] = g[i - 1]
      BY <3>1
    <3> HIDE DEF f
    <3>4. CASE i = n + 1
      <4>1. i # l /\ i - 1 = n
        BY <1>2, <3>4
      <4> QED BY <3>2, <3>3, <3>4, <4>1 DEF MovedTo
    <3>5. CASE i # n + 1
      <4>1. f[i] = MovedTo(g, a, p, l, h, i)
        BY <2>1, <3>1, <3>2, <3>5
      <4> QED BY <3>3, <4>1 DEF MovedTo
    <3> QED BY <3>4, <3>5
  <2>3. f = [i \in l .. n + 1 |-> f[i]]
    OBVIOUS
  <2> HIDE DEF f
  <2>4. f = [i \in l .. n + 1 |-> MovedTo(f, a, p, l, h, i)]
    BY <2>2, <2>3
  <2> QED BY <2>4
<1> HIDE DEF Upto
<1>3. T = {}
  <2> SUFFICES ASSUME T # {} PROVE FALSE
    OBVIOUS
  <2>1. PICK n \in T : \A y \in T : n <= y
    BY LeastMember
  <2>2. n # l /\ n - 1 \in Nat /\ n - 1 >= l
    BY <1>1, <2>1
  <2>3. Upto(n - 1)
    BY <2>1, <2>2
  <2> QED BY <1>2, <2>1, <2>2, <2>3
<1>4. Upto(h)
  BY <1>3
<1>5. \E g : g = [i \in l .. h |-> MovedTo(g, a, p, l, h, i)]
  BY <1>4 DEF Upto
<1> DEFINE c == CHOOSE g : g = [i \in l .. h |-> MovedTo(g, a, p, l, h, i)]
<1>6. c = [i \in l .. h |-> MovedTo(c, a, p, l, h, i)]
  BY <1>5
<1>7. MoveAll(a, p, l, h) = c[h]
  BY DEF MoveAll, MovedTo
<1> QED BY <1>6, <1>7

-----------------------------------------------------------------------------
\* What the loop of quicksort() keeps: before row i, the rows up to at have keys
\* below the pivot's, and the rest of those that were looked at have not.  All
\* rows are there but the pivot, whose place is h.
Scanned(a, p, l, h, i, s) ==
  /\ s.array \in [DOMAIN a -> Rows] /\ s.at \in l .. i
  /\ \A x \in l .. s.at - 1 : s.array[x].key < a[p].key
  /\ \A x \in s.at .. i - 1 : a[p].key <= s.array[x].key
  /\ \A x \in DOMAIN a \ (l .. h) : s.array[x] = a[x]
  /\ \A x \in l .. h - 1 : \E y \in l .. h : s.array[x] = a[y]
  /\ \A x \in l .. h : a[x] = a[p] \/ \E y \in l .. h - 1 : a[x] = s.array[y]

LEMMA ScannedFirst ==
  ASSUME NEW n \in Nat, NEW a \in [1 .. n -> Rows],
         NEW l \in 1 .. n, NEW h \in 1 .. n, l < h, NEW p \in l .. h
  PROVE  Scanned(a, p, l, h, l, [array |-> [a EXCEPT ![p] = a[h]], at |-> l])
<1> DEFINE b == [a EXCEPT ![p] = a[h]]
<1>1. /\ l .. h \subseteq 1 .. n /\ p \in 1 .. n /\ DOMAIN a = 1 .. n
      /\ b \in [1 .. n -> Rows] /\ b[p] = a[h] /\ \A x \in 1 .. n : x # p => b[x] = a[x]
  OBVIOUS
<1> HIDE DEF b
<1>2. ASSUME NEW x \in l .. h - 1
      PROVE  \E y \in l .. h : b[x] = a[y]
  <2>1. x \in l .. h /\ x \in 1 .. n /\ h \in l .. h
    BY <1>1
  <2> QED BY <1>1, <2>1
<1>3. ASSUME NEW x \in l .. h
      PROVE  a[x] = a[p] \/ \E y \in l .. h - 1 : a[x] = b[y]
  <2>1. x \in 1 .. n
    BY <1>1
  <2>2. CASE x = p
    BY <2>2
  <2>3. CASE x # p /\ x # h
    <3>1. x \in l .. h - 1
      BY <2>3
    <3> QED BY <1>1, <2>1, <2>3, <3>1
  <2>4. CASE x # p /\ x = h
    <3>1. p \in l .. h - 1
      BY <2>4
    <3> QED BY <1>1, <2>4, <3>1
  <2> QED BY <2>2, <2>3, <2>4
<1>4. \A x \in (1 .. n) \ (l .. h) : b[x] = a[x]
  BY <1>1
<1> QED BY <1>1, <1>2, <1>3, <1>4 DEF Scanned, b

\* Two rows change places.
LEMMA Swapped ==
  ASSUME NEW n \in Nat, NEW c \in [1 .. n -> Rows], NEW i \in 1 .. n, NEW j \in 1 .. n
  PROVE  LET d == [c EXCEPT ![i] = c[j], ![j] = c[i]]
         IN  /\ d \in [1 .. n -> Rows]
             /\ d[i] = c[j] /\ d[j] = c[i]
             /\ \A x \in 1 .. n : x # i /\ x # j => d[x] = c[x]
  OBVIOUS

LEMMA ScannedNext ==
  ASSUME NEW n \in Nat, NEW a \in [1 .. n -> Rows],
         NEW l \in 1 .. n, NEW h \in 1 .. n, l < h, NEW p \in l .. h,
         NEW i \in l .. h - 1, NEW s, Scanned(a, p, l, h, i, s)
  PROVE  Scanned(a, p, l, h, i + 1, Move(s, i, a[p]))
<1> DEFINE c == s.array  k == s.at  d == [c EXCEPT ![i] = c[k], ![k] = c[i]]
<1>1. /\ DOMAIN a = 1 .. n /\ c \in [1 .. n -> Rows] /\ k \in l .. i
      /\ l .. h \subseteq 1 .. n /\ i \in 1 .. n /\ k \in 1 .. n /\ i \in l .. h - 1 /\ k \in l .. h - 1
  BY DEF Scanned
<1>2. /\ \A x \in l .. k - 1 : c[x].key < a[p].key
      /\ \A x \in k .. i - 1 : a[p].key <= c[x].key
      /\ \A x \in (1 .. n) \ (l .. h) : c[x] = a[x]
      /\ \A x \in l .. h - 1 : \E y \in l .. h : c[x] = a[y]
      /\ \A x \in l .. h : a[x] = a[p] \/ \E y \in l .. h - 1 : a[x] = c[y]
  BY <1>1 DEF Scanned
<1>3. CASE c[i].key < a[p].key
  <2>1. Move(s, i, a[p]) = [array |-> d, at |-> k + 1]
    BY <1>3 DEF Move
  <2>2. /\ d \in [1 .. n -> Rows] /\ d[i] = c[k] /\ d[k] = c[i]
        /\ \A x \in 1 .. n : x # i /\ x # k => d[x] = c[x]
    <3> HIDE DEF c, k
    <3>1. n \in Nat /\ c \in [1 .. n -> Rows] /\ i \in 1 .. n /\ k \in 1 .. n
      BY <1>1
    <3> QED BY <3>1, SMTT(30)
  <2> HIDE DEF c, k, d
  <2>3. k + 1 \in l .. i + 1
    BY <1>1
  <2>4. ASSUME NEW x \in l .. k
        PROVE  d[x].key < a[p].key
    <3>1. CASE x = k
      BY <1>3, <2>2, <3>1
    <3>2. CASE x # k
      <4>1. x \in l .. k - 1 /\ x # i /\ x \in 1 .. n
        BY <1>1, <3>2
      <4> QED BY <1>2, <2>2, <3>2, <4>1
    <3> QED BY <3>1, <3>2
  <2>5. ASSUME NEW x \in k + 1 .. i
        PROVE  a[p].key <= d[x].key
    <3>1. CASE x = i
      <4>1. k \in k .. i - 1
        BY <1>1, <3>1
      <4> QED BY <1>2, <2>2, <3>1, <4>1
    <3>2. CASE x # i
      <4>1. x \in k .. i - 1 /\ x # k /\ x \in 1 .. n
        BY <1>1, <3>2
      <4> QED BY <1>2, <2>2, <3>2, <4>1
    <3> QED BY <3>1, <3>2
  <2>6. \A x \in (1 .. n) \ (l .. h) : d[x] = a[x]
    <3> TAKE x \in (1 .. n) \ (l .. h)
    <3>1. x # i /\ x # k
      BY <1>1
    <3> QED BY <1>2, <2>2, <3>1
  <2>7. \A x \in l .. h - 1 : \E y \in l .. h : d[x] = a[y]
    <3> TAKE x \in l .. h - 1
    <3>1. d[x] = c[i] \/ d[x] = c[k] \/ d[x] = c[x]
      BY <1>1, <2>2
    <3> QED BY <1>1, <1>2, <3>1
  <2>8. \A x \in l .. h : a[x] = a[p] \/ \E y \in l .. h - 1 : a[x] = d[y]
    <3> TAKE x \in l .. h
    <3>1. ASSUME NEW y \in l .. h - 1
          PROVE  \E z \in l .. h - 1 : c[y] = d[z]
      <4>1. y \in 1 .. n
        BY <1>1
      <4>2. c[y] = d[i] \/ c[y] = d[k] \/ c[y] = d[y]
        BY <2>2, <4>1
      <4>3. i \in l .. h - 1 /\ k \in l .. h - 1
        BY <1>1
      <4> QED BY <4>2, <4>3
    <3>2. a[x] = a[p] \/ \E y \in l .. h - 1 : a[x] = c[y]
      BY <1>2
    <3> QED BY <3>1, <3>2, Zenon
  <2>9. k + 1 - 1 = k /\ i + 1 - 1 = i
    BY <1>1
  <2> QED BY <1>1, <2>1, <2>2, <2>3, <2>4, <2>5, <2>6, <2>7, <2>8, <2>9 DEF Scanned
<1>4. CASE ~(c[i].key < a[p].key)
  <2>1. Move(s, i, a[p]) = s
    BY <1>4 DEF Move
  <2>2. \A x \in k .. i : a[p].key <= c[x].key
    <3> TAKE x \in k .. i
    <3>1. CASE x = i
      <4>1. c[i].key \in Int /\ a[p].key \in Int
        BY <1>1 DEF Rows
      <4> QED BY <1>4, <3>1, <4>1
    <3>2. CASE x # i
      <4>1. x \in k .. i - 1
        BY <1>1, <3>2
      <4> QED BY <1>2, <4>1
    <3> QED BY <3>1, <3>2
  <2>3. k \in l .. i + 1 /\ i + 1 - 1 = i
    BY <1>1
  <2> QED BY <1>1, <1>2, <2>1, <2>2, <2>3 DEF Scanned
<1> QED BY <1>3, <1>4

-----------------------------------------------------------------------------
\* The loop of quicksort(), to the end.
LEMMA ScannedLast ==
  ASSUME NEW n \in Nat, NEW a \in [1 .. n -> Rows],
         NEW l \in 1 .. n, NEW h \in 1 .. n, l < h, NEW p \in l .. h
  PROVE  Scanned(a, p, l, h, h, MoveAll(a, p, l, h))
<1>1. l \in Nat /\ h \in Nat /\ l <= h
  OBVIOUS
<1>2. PICK g : /\ g = [i \in l .. h |-> MovedTo(g, a, p, l, h, i)]
               /\ MoveAll(a, p, l, h) = g[h]
  BY <1>1, MovedUnfolds
<1> DEFINE T == {i \in Nat : i \in l .. h /\ ~Scanned(a, p, l, h, i, g[i])}
<1>3. ASSUME NEW i \in l .. h
      PROVE  g[i] = MovedTo(g, a, p, l, h, i)
  BY <1>2, <1>3
<1>4. T = {}
  <2> SUFFICES ASSUME T # {} PROVE FALSE
    OBVIOUS
  <2>1. PICK i \in T : \A j \in T : i <= j
    BY LeastMember
  <2>2. i \in l .. h /\ i \in Nat /\ ~Scanned(a, p, l, h, i, g[i])
    BY <2>1
  <2>3. CASE i = l
    <3>1. g[i] = [array |-> [a EXCEPT ![p] = a[h]], at |-> l]
      BY <1>3, <2>2, <2>3 DEF MovedTo
    <3> QED BY <2>2, <2>3, <3>1, ScannedFirst
  <2>4. CASE i # l
    <3>1. i - 1 \in l .. h - 1 /\ i - 1 \in Nat /\ i - 1 \in l .. h /\ i - 1 + 1 = i /\ ~(i <= i - 1)
      BY <1>1, <2>2, <2>4
    <3>2. g[i] = Move(g[i - 1], i - 1, a[p])
      BY <1>3, <2>2, <2>4 DEF MovedTo
    <3>3. Scanned(a, p, l, h, i - 1, g[i - 1])
      BY <2>1, <3>1
    <3>4. Scanned(a, p, l, h, i - 1 + 1, Move(g[i - 1], i - 1, a[p]))
      BY <3>1, <3>3, ScannedNext
    <3> QED BY <2>2, <3>1, <3>2, <3>4
  <2> QED BY <2>3, <2>4
<1>5. h \in l .. h /\ h \in Nat
  BY <1>1
<1> QED BY <1>2, <1>4, <1>5

LEMMA MedianInPart ==
  ASSUME NEW n \in Nat, NEW a \in [1 .. n -> Rows],
         NEW l \in 1 .. n, NEW h \in 1 .. n, l < h
  PROVE  median3(a, l, h) \in l .. h
<1>1. l \in Int /\ h \in Int /\ l + (h - l) \div 2 \in l .. h /\ l \in l .. h /\ h \in l .. h
  OBVIOUS
<1> DEFINE m == l + (h - l) \div 2
<1> HIDE DEF m
<1> QED BY <1>1 DEF median3, m

\* What is done to the part: the rows with keys below the pivot's come before
\* it, and the others after it.
Parted(a, l, h, b, at) ==
  /\ b \in [DOMAIN a -> Rows] /\ at \in l .. h
  /\ \A x \in l .. at - 1 : b[x].key <= b[at].key
  /\ \A x \in at + 1 .. h : b[at].key <= b[x].key
  /\ \A x \in DOMAIN a \ (l .. h) : b[x] = a[x]
  /\ \A x \in l .. h : \E y \in l .. h : b[x] = a[y]
  /\ \A x \in l .. h : \E y \in l .. h : a[x] = b[y]

LEMMA PartitionParts ==
  ASSUME NEW n \in Nat, NEW a \in [1 .. n -> Rows],
         NEW l \in 1 .. n, NEW h \in 1 .. n, l < h
  PROVE  Parted(a, l, h, Partition(a, l, h).array, Partition(a, l, h).at)
<1> DEFINE p == median3(a, l, h)
           s == MoveAll(a, p, l, h)
           c == s.array
           k == s.at
           b == [c EXCEPT ![h] = c[k], ![k] = a[p]]
<1>1. Partition(a, l, h) = [array |-> b, at |-> k]
  BY DEF Partition
<1>2. p \in l .. h
  BY MedianInPart
<1> HIDE DEF p
<1>3. Scanned(a, p, l, h, h, s)
  BY <1>2, ScannedLast
<1>4. /\ DOMAIN a = 1 .. n /\ c \in [1 .. n -> Rows] /\ k \in l .. h
      /\ l .. h \subseteq 1 .. n /\ h \in 1 .. n /\ k \in 1 .. n /\ p \in 1 .. n
      /\ \A x \in l .. k - 1 : c[x].key < a[p].key
      /\ \A x \in k .. h - 1 : a[p].key <= c[x].key
      /\ \A x \in (1 .. n) \ (l .. h) : c[x] = a[x]
      /\ \A x \in l .. h - 1 : \E y \in l .. h : c[x] = a[y]
      /\ \A x \in l .. h : a[x] = a[p] \/ \E y \in l .. h - 1 : a[x] = c[y]
  <2> HIDE DEF s
  <2>1. DOMAIN a = 1 .. n /\ l .. h \subseteq 1 .. n /\ h \in 1 .. n
    OBVIOUS
  <2>2. /\ c \in [1 .. n -> Rows] /\ k \in l .. h
        /\ \A x \in l .. k - 1 : c[x].key < a[p].key
        /\ \A x \in k .. h - 1 : a[p].key <= c[x].key
        /\ \A x \in (1 .. n) \ (l .. h) : c[x] = a[x]
        /\ \A x \in l .. h - 1 : \E y \in l .. h : c[x] = a[y]
        /\ \A x \in l .. h : a[x] = a[p] \/ \E y \in l .. h - 1 : a[x] = c[y]
    BY <1>3, <2>1 DEF Scanned
  <2> QED BY <1>2, <2>1, <2>2
<1> HIDE DEF c, k, s
<1>5. /\ b \in [1 .. n -> Rows] /\ b[k] = a[p] /\ (h # k => b[h] = c[k])
      /\ \A x \in 1 .. n : x # h /\ x # k => b[x] = c[x]
  BY <1>4
<1> HIDE DEF b
<1>6. ASSUME NEW x \in l .. k - 1
      PROVE  b[x].key <= b[k].key
  <2>1. x \in 1 .. n /\ x # h /\ x # k
    BY <1>4
  <2>2. c[x].key \in Int /\ a[p].key \in Int
    BY <1>4, <2>1 DEF Rows
  <2> QED BY <1>4, <1>5, <2>1, <2>2
<1>7. ASSUME NEW x \in k + 1 .. h
      PROVE  b[k].key <= b[x].key
  <2>1. CASE x = h
    <3>1. k \in k .. h - 1 /\ h # k
      BY <1>4, <2>1
    <3> QED BY <1>4, <1>5, <2>1, <3>1
  <2>2. CASE x # h
    <3>1. x \in k .. h - 1 /\ x # k /\ x \in 1 .. n
      BY <1>4, <2>2
    <3> QED BY <1>4, <1>5, <2>2, <3>1
  <2> QED BY <2>1, <2>2
<1>8. \A x \in (1 .. n) \ (l .. h) : b[x] = a[x]
  <2> TAKE x \in (1 .. n) \ (l .. h)
  <2>1. x # h /\ x # k
    BY <1>4
  <2> QED BY <1>4, <1>5, <2>1
<1>9. ASSUME NEW x \in l .. h
      PROVE  \E y \in l .. h : b[x] = a[y]
  <2>1. CASE x = k
    BY <1>2, <1>5, <2>1
  <2>2. CASE x # k /\ x = h
    <3>1. k \in l .. h - 1 /\ b[x] = c[k]
      BY <1>4, <1>5, <2>2
    <3> QED BY <1>4, <3>1
  <2>3. CASE x # k /\ x # h
    <3>1. x \in l .. h - 1 /\ x \in 1 .. n
      BY <1>4, <2>3
    <3>2. b[x] = c[x]
      BY <1>5, <2>3, <3>1
    <3> QED BY <1>4, <3>1, <3>2
  <2> QED BY <2>1, <2>2, <2>3
<1>10. ASSUME NEW x \in l .. h
       PROVE  \E y \in l .. h : a[x] = b[y]
  <2>1. CASE a[x] = a[p]
    BY <1>4, <1>5, <2>1
  <2>2. CASE a[x] # a[p]
    <3>1. PICK y \in l .. h - 1 : a[x] = c[y]
      BY <1>4, <2>2
    <3>2. y \in l .. h /\ y \in 1 .. n /\ y # h /\ h \in l .. h
      BY <1>4, <3>1
    <3>3. CASE y = k
      <4>1. b[h] = c[k]
        BY <1>5, <3>2, <3>3
      <4> QED BY <3>1, <3>2, <3>3, <4>1
    <3>4. CASE y # k
      BY <1>5, <3>1, <3>2, <3>4
    <3> QED BY <3>3, <3>4
  <2> QED BY <2>1, <2>2
<1>11. Parted(a, l, h, b, k)
  BY <1>4, <1>5, <1>6, <1>7, <1>8, <1>9, <1>10 DEF Parted
<1> QED BY <1>1, <1>11

-----------------------------------------------------------------------------
\* How many rows there are.
Size == Len(unsorted)

Part == [lo : Int, hi : Int]

\* Whether there is still a part to be sorted that has both i and j.
Together(i, j) ==
  \/ sorting = "loop" /\ lo <= i /\ j <= hi
  \/ \E k \in 1 .. Len(stack) : stack[k].lo <= i /\ j <= stack[k].hi

SortTypeOK ==
  /\ Size \in Nat /\ Size >= 1
  /\ unsorted \in [1 .. Size -> Rows] /\ rows \in [1 .. Size -> Rows]
  /\ sorting \in {"loop", "done"} /\ lo \in Int /\ hi \in Int
  /\ stack \in Seq(Part)

\* The parts lie one before the other, the last of the stack first, and have
\* more than a row each.
PartsApart ==
  /\ sorting = "loop" =>
       /\ 1 <= lo /\ lo < hi /\ hi <= Size
       /\ \A k \in 1 .. Len(stack) : hi < stack[k].lo
  /\ \A k \in 1 .. Len(stack) :
       1 <= stack[k].lo /\ stack[k].lo < stack[k].hi /\ stack[k].hi <= Size - (k - 1)
  /\ \A j \in 1 .. Len(stack) : \A k \in j + 1 .. Len(stack) : stack[k].hi < stack[j].lo
  /\ sorting = "done" => stack = <<>>

\* Any two rows are in order, or in one part.
InOrder ==
  \A i \in 1 .. Size : \A j \in i + 1 .. Size : rows[i].key <= rows[j].key \/ Together(i, j)

\* No row is lost.
RowsKept == {rows[n] : n \in 1 .. Size} = {unsorted[n] : n \in 1 .. Size}

SortInv == SortTypeOK /\ PartsApart /\ InOrder /\ RowsKept

LEMMA FunctionIsSeq ==
  ASSUME NEW S, NEW n \in Nat, NEW f \in [1 .. n -> S]
  PROVE  f \in Seq(S) /\ Len(f) = n
  OBVIOUS

LEMMA SortInvInit == SortInit => SortInv
<1> SUFFICES ASSUME SortInit PROVE SortInv
  OBVIOUS
<1>1. PICK ks \in SortInputs : unsorted = [n \in 1 .. Len(ks) |-> Row(ks[n], n)]
  BY DEF SortInit
<1>2. ks \in Seq(Int) /\ ks # <<>> /\ Len(ks) \in Nat /\ Len(ks) >= 1
  BY SortAssumption
<1>3. unsorted \in [1 .. Len(ks) -> Rows]
  <2>1. \A n \in 1 .. Len(ks) : Row(ks[n], n) \in Rows
    BY <1>2 DEF Row, Rows
  <2> QED BY <1>1, <2>1
<1>4. Size = Len(ks)
  BY <1>2, <1>3, FunctionIsSeq DEF Size
<1>5. rows = unsorted /\ lo = 1 /\ hi = Size /\ stack = <<>> /\ Len(stack) = 0 /\ stack \in Seq(Part)
      /\ sorting = IF Size <= 1 THEN "done" ELSE "loop"
  BY DEF SortInit, Size
<1>6. SortTypeOK
  BY <1>2, <1>3, <1>4, <1>5 DEF SortTypeOK
<1>7. PartsApart
  BY <1>2, <1>4, <1>5 DEF PartsApart
<1>8. InOrder
  BY <1>2, <1>4, <1>5 DEF InOrder, Together
<1>9. RowsKept
  BY <1>5 DEF RowsKept
<1> QED BY <1>6, <1>7, <1>8, <1>9 DEF SortInv

-----------------------------------------------------------------------------
\* What an iteration makes of the array, and the stack with the right part on it.
Split == Partition(rows, lo, hi)

Pushed ==
  IF Remembers(Split.at, hi) THEN Append(stack, [lo |-> Split.at + 1, hi |-> hi]) ELSE stack

LEMMA SplitParts ==
  ASSUME SortInv, sorting = "loop"
  PROVE  /\ Parted(rows, lo, hi, Split.array, Split.at)
         /\ Split.array \in [1 .. Size -> Rows] /\ Split.at \in Int
         /\ lo <= Split.at /\ Split.at <= hi /\ DOMAIN rows = 1 .. Size
<1>1. /\ Size \in Nat /\ rows \in [1 .. Size -> Rows] /\ lo \in 1 .. Size /\ hi \in 1 .. Size
      /\ lo < hi
  BY DEF SortInv, SortTypeOK, PartsApart
<1>2. Parted(rows, lo, hi, Split.array, Split.at)
  BY <1>1, PartitionParts DEF Split
<1>3. DOMAIN rows = 1 .. Size /\ lo \in Int /\ hi \in Int
  BY <1>1
<1>4. Split.array \in [1 .. Size -> Rows] /\ Split.at \in lo .. hi
  BY <1>2, <1>3 DEF Parted
<1> QED BY <1>2, <1>3, <1>4

LEMMA RowsKeptNext ==
  ASSUME SortInv, sorting = "loop"
  PROVE  {Split.array[n] : n \in 1 .. Size} = {unsorted[n] : n \in 1 .. Size}
<1> DEFINE b == Split.array
<1>1. /\ \A x \in (1 .. Size) \ (lo .. hi) : b[x] = rows[x]
      /\ \A x \in lo .. hi : \E y \in lo .. hi : b[x] = rows[y]
      /\ \A x \in lo .. hi : \E y \in lo .. hi : rows[x] = b[y]
  BY SplitParts DEF Parted
<1>2. lo .. hi \subseteq 1 .. Size
  BY DEF SortInv, SortTypeOK, PartsApart
<1> HIDE DEF b
<1>3. {b[n] : n \in 1 .. Size} = {rows[n] : n \in 1 .. Size}
  <2>1. \A x \in 1 .. Size : \E y \in 1 .. Size : b[x] = rows[y]
    BY <1>1, <1>2
  <2>2. \A x \in 1 .. Size : \E y \in 1 .. Size : rows[x] = b[y]
    BY <1>1, <1>2
  <2> QED BY <2>1, <2>2
<1> QED BY <1>3 DEF SortInv, RowsKept, b

\* The parts on the stack.
LEMMA SeqElements ==
  ASSUME NEW S, NEW s \in Seq(S)
  PROVE  Len(s) \in Nat /\ \A k \in 1 .. Len(s) : s[k] \in S
  OBVIOUS

LEMMA StackParts ==
  ASSUME SortTypeOK
  PROVE  /\ stack \in Seq(Part) /\ Len(stack) \in Nat
         /\ \A k \in 1 .. Len(stack) : stack[k].lo \in Int /\ stack[k].hi \in Int
<1>1. stack \in Seq(Part)
  BY DEF SortTypeOK
<1>2. Len(stack) \in Nat /\ \A k \in 1 .. Len(stack) : stack[k] \in Part
  BY <1>1, SeqElements
<1> QED BY <1>1, <1>2 DEF Part

\* What an appended element is.
LEMMA Appended ==
  ASSUME NEW S, NEW s \in Seq(S), NEW e \in S
  PROVE  /\ Append(s, e) \in Seq(S) /\ Len(Append(s, e)) = Len(s) + 1 /\ Len(s) \in Nat
         /\ \A k \in 1 .. Len(s) : Append(s, e)[k] = s[k]
         /\ Append(s, e)[Len(s) + 1] = e
  OBVIOUS

\* The parts on the stack then.
LEMMA PushedApart ==
  ASSUME SortInv, sorting = "loop"
  PROVE  /\ Pushed \in Seq(Part)
         /\ \A k \in 1 .. Len(Pushed) :
              /\ Pushed[k].lo < Pushed[k].hi /\ Pushed[k].hi <= Size - (k - 1)
              /\ Split.at < Pushed[k].lo
         /\ \A j \in 1 .. Len(Pushed) : \A k \in j + 1 .. Len(Pushed) : Pushed[k].hi < Pushed[j].lo
<1> DEFINE at == Split.at  e == [lo |-> at + 1, hi |-> hi]
<1>1. /\ at \in Int /\ lo <= at /\ at <= hi
      /\ stack \in Seq(Part) /\ Len(stack) \in Nat /\ Size \in Nat /\ lo \in Int /\ hi \in Int
      /\ \A k \in 1 .. Len(stack) : stack[k].lo \in Int /\ stack[k].hi \in Int
  BY SplitParts, StackParts DEF SortInv, SortTypeOK
<1>2. /\ hi <= Size /\ \A k \in 1 .. Len(stack) : hi < stack[k].lo
      /\ \A k \in 1 .. Len(stack) :
           stack[k].lo < stack[k].hi /\ stack[k].hi <= Size - (k - 1)
      /\ \A j \in 1 .. Len(stack) : \A k \in j + 1 .. Len(stack) : stack[k].hi < stack[j].lo
  BY DEF SortInv, PartsApart
<1> HIDE DEF at
<1>3. CASE Remembers(at, hi)
  <2>0. hi > at + 1
    BY <1>3 DEF Remembers
  <2>1. e \in Part /\ e.lo = at + 1 /\ e.hi = hi
    BY <1>1 DEF Part
  <2> HIDE DEF e
  <2>2. Pushed = Append(stack, e)
    BY <1>3 DEF Pushed, at, e
  <2> DEFINE m == Len(stack)
  <2>3. /\ Pushed \in Seq(Part) /\ Len(Pushed) = m + 1 /\ Pushed[m + 1] = e
        /\ \A k \in 1 .. m : Pushed[k] = stack[k]
    BY <1>1, <2>1, <2>2, Appended
  <2>4. hi <= Size - m
    <3>1. CASE m = 0
      BY <1>1, <1>2, <3>1
    <3>2. CASE m # 0
      <4>1. m \in 1 .. m
        BY <1>1, <3>2
      <4>2. hi < stack[m].lo /\ stack[m].lo < stack[m].hi /\ stack[m].hi <= Size - (m - 1)
        BY <1>2, <4>1
      <4>3. stack[m].lo \in Int /\ stack[m].hi \in Int
        BY <1>1, <4>1
      <4> QED BY <1>1, <4>2, <4>3
    <3> QED BY <3>1, <3>2
  <2> HIDE DEF m
  <2>5. m \in Nat
    BY <1>1 DEF m
  <2>6. ASSUME NEW k \in 1 .. m + 1
        PROVE  /\ Pushed[k].lo < Pushed[k].hi /\ Pushed[k].hi <= Size - (k - 1)
               /\ at < Pushed[k].lo
    <3>1. CASE k = m + 1
      BY <1>1, <2>0, <2>1, <2>3, <2>4, <2>5, <3>1
    <3>2. CASE k # m + 1
      <4>1. k \in 1 .. m
        BY <2>5, <3>2
      <4>2. Pushed[k] = stack[k] /\ k \in 1 .. Len(stack)
        BY <2>3, <4>1 DEF m
      <4>3. /\ stack[k].lo < stack[k].hi /\ stack[k].hi <= Size - (k - 1)
            /\ hi < stack[k].lo /\ stack[k].lo \in Int
        BY <1>1, <1>2, <4>2
      <4>4. at < stack[k].lo
        BY <1>1, <4>3
      <4> QED BY <4>2, <4>3, <4>4
    <3> QED BY <3>1, <3>2
  <2>7. ASSUME NEW j \in 1 .. m + 1, NEW k \in j + 1 .. m + 1
        PROVE  Pushed[k].hi < Pushed[j].lo
    <3>0. j \in 1 .. m
      BY <2>5
    <3>1. CASE k = m + 1
      BY <1>2, <2>1, <2>3, <3>0, <3>1 DEF m
    <3>2. CASE k # m + 1
      <4>1. k \in 1 .. m /\ k \in j + 1 .. m
        BY <2>5, <3>2
      <4> QED BY <1>2, <2>3, <3>0, <4>1 DEF m
    <3> QED BY <3>1, <3>2
  <2> QED BY <2>3, <2>6, <2>7 DEF at
<1>4. CASE ~Remembers(at, hi)
  <2>1. Pushed = stack
    BY <1>4 DEF Pushed, at
  <2> QED BY <1>1, <1>2, <2>1 DEF at
<1> QED BY <1>3, <1>4

\* Two rows are then in order, or in the left part, or in one on the stack.
LEMMA OrderNext ==
  ASSUME SortInv, sorting = "loop", NEW i \in 1 .. Size, NEW j \in i + 1 .. Size
  PROVE  \/ Split.array[i].key <= Split.array[j].key
         \/ Split.at > lo + 1 /\ lo <= i /\ j <= Split.at - 1
         \/ \E k \in 1 .. Len(Pushed) : Pushed[k].lo <= i /\ j <= Pushed[k].hi
<1> DEFINE b == Split.array  at == Split.at
<1>1. /\ b \in [1 .. Size -> Rows] /\ rows \in [1 .. Size -> Rows] /\ at \in Int /\ lo <= at /\ at <= hi
      /\ stack \in Seq(Part) /\ Len(stack) \in Nat /\ Size \in Nat /\ lo \in Int /\ hi \in Int
      /\ \A k \in 1 .. Len(stack) : stack[k].lo \in Int /\ stack[k].hi \in Int
      /\ 1 <= lo /\ hi <= Size
  BY SplitParts, StackParts DEF SortInv, SortTypeOK, PartsApart
<1>2. /\ \A x \in lo .. at - 1 : b[x].key <= b[at].key
      /\ \A x \in at + 1 .. hi : b[at].key <= b[x].key
      /\ \A x \in (1 .. Size) \ (lo .. hi) : b[x] = rows[x]
      /\ \A x \in lo .. hi : \E y \in lo .. hi : b[x] = rows[y]
  BY SplitParts DEF Parted
<1>3. \A k \in 1 .. Len(stack) : hi < stack[k].lo
  BY DEF SortInv, PartsApart
<1>4. \A x \in 1 .. Size : b[x].key \in Int /\ rows[x].key \in Int
  BY <1>1 DEF Rows
<1>5. i \in Int /\ j \in 1 .. Size /\ i < j /\ j \in Int
  BY <1>1
<1>6. ASSUME NEW x \in 1 .. Size, NEW y \in 1 .. Size, x < y
      PROVE  \/ rows[x].key <= rows[y].key
             \/ lo <= x /\ y <= hi
             \/ \E k \in 1 .. Len(stack) : stack[k].lo <= x /\ y <= stack[k].hi
  <2>1. y \in x + 1 .. Size
    BY <1>1, <1>6
  <2>2. rows[x].key <= rows[y].key \/ Together(x, y)
    BY <2>1 DEF SortInv, InOrder
  <2> QED BY <2>2 DEF Together
<1>7. ASSUME NEW k \in 1 .. Len(stack), stack[k].lo <= i, j <= stack[k].hi
      PROVE  \E m \in 1 .. Len(Pushed) : Pushed[m].lo <= i /\ j <= Pushed[m].hi
  <2>1. CASE Remembers(Split.at, hi)
    <3>1. [lo |-> Split.at + 1, hi |-> hi] \in Part
      BY <1>1 DEF Part
    <3>2. Len(Pushed) = Len(stack) + 1 /\ Pushed[k] = stack[k]
      BY <1>1, <2>1, <3>1, Appended DEF Pushed
    <3> QED BY <1>1, <1>7, <3>2
  <2>2. CASE ~Remembers(Split.at, hi)
    BY <1>7, <2>2 DEF Pushed
  <2> QED BY <2>1, <2>2
<1>8. ASSUME at + 1 <= i, j <= hi
      PROVE  \E m \in 1 .. Len(Pushed) : Pushed[m].lo <= i /\ j <= Pushed[m].hi
  <2>1. Remembers(Split.at, hi)
    BY <1>1, <1>5, <1>8 DEF Remembers
  <2>2. [lo |-> Split.at + 1, hi |-> hi] \in Part
    BY <1>1 DEF Part
  <2>3. Len(Pushed) = Len(stack) + 1 /\ Pushed[Len(stack) + 1] = [lo |-> Split.at + 1, hi |-> hi]
    BY <1>1, <2>1, <2>2, Appended DEF Pushed
  <2>4. Len(stack) + 1 \in 1 .. Len(Pushed)
    BY <1>1, <2>3
  <2> QED BY <1>8, <2>3, <2>4
<1> HIDE DEF b, at
<1>9. CASE lo <= i /\ j <= hi
  <2>1. CASE j < at
    BY <1>1, <1>5, <1>9, <2>1 DEF at
  <2>2. CASE i > at
    BY <1>1, <1>5, <1>8, <1>9, <2>2
  <2>3. CASE i <= at /\ at <= j
    <3>1. i = at \/ i \in lo .. at - 1
      BY <1>1, <1>5, <1>9, <2>3
    <3>2. j = at \/ j \in at + 1 .. hi
      BY <1>1, <1>5, <1>9, <2>3
    <3>3. at \in 1 .. Size
      BY <1>1
    <3>4. b[i].key <= b[at].key /\ b[at].key <= b[j].key
      BY <1>2, <1>4, <1>5, <3>1, <3>2, <3>3
    <3>5. b[i].key <= b[j].key
      BY <1>4, <1>5, <3>3, <3>4
    <3> QED BY <3>5 DEF b
  <2> QED BY <1>1, <1>5, <2>1, <2>2, <2>3
<1>10. CASE i < lo /\ j \in lo .. hi
  <2>1. PICK y \in lo .. hi : b[j] = rows[y]
    BY <1>2, <1>10
  <2>2. y \in 1 .. Size /\ i < y /\ y <= hi /\ b[i] = rows[i]
    BY <1>1, <1>2, <1>5, <1>10, <2>1, SMTT(30)
  <2>3. rows[i].key <= rows[y].key
    BY <1>1, <1>3, <1>5, <1>6, <1>10, <2>2, SMTT(30)
  <2> QED BY <2>1, <2>2, <2>3 DEF b
<1>11. CASE i \in lo .. hi /\ j > hi
  <2>1. PICK y \in lo .. hi : b[i] = rows[y]
    BY <1>2, <1>11
  <2>2. y \in 1 .. Size /\ y < j /\ y <= hi /\ b[j] = rows[j]
    BY <1>1, <1>2, <1>5, <1>11, <2>1, SMTT(30)
  <2>3. ~(lo <= y /\ j <= hi) /\ \A k \in 1 .. Len(stack) : ~(stack[k].lo <= y)
    BY <1>1, <1>3, <1>5, <1>11, <2>2, SMTT(30)
  <2>4. rows[y].key <= rows[j].key
    BY <1>5, <1>6, <2>2, <2>3, SMTT(30)
  <2> QED BY <2>1, <2>2, <2>4 DEF b
<1>12. CASE i \notin lo .. hi /\ j \notin lo .. hi
  <2>1. b[i] = rows[i] /\ b[j] = rows[j]
    BY <1>2, <1>5, <1>12
  <2>2. ~(lo <= i /\ j <= hi)
    BY <1>1, <1>5, <1>12
  <2>3. \/ rows[i].key <= rows[j].key
        \/ \E k \in 1 .. Len(stack) : stack[k].lo <= i /\ j <= stack[k].hi
    BY <1>5, <1>6, <2>2
  <2> QED BY <1>7, <2>1, <2>3 DEF b
<1> QED BY <1>1, <1>5, <1>9, <1>10, <1>11, <1>12

\* The first n elements of a sequence.
LEMMA Beginning ==
  ASSUME NEW S, NEW s \in Seq(S), NEW n \in Nat, n <= Len(s)
  PROVE  /\ SubSeq(s, 1, n) \in Seq(S) /\ Len(SubSeq(s, 1, n)) = n
         /\ \A k \in 1 .. n : SubSeq(s, 1, n)[k] = s[k]
OBVIOUS

\* What is left when the last element is taken.
LEMMA Taken ==
  ASSUME NEW S, NEW s \in Seq(S), s # <<>>
  PROVE  /\ Front(s) \in Seq(S) /\ Len(Front(s)) = Len(s) - 1 /\ Len(s) \in Nat /\ Len(s) >= 1
         /\ \A k \in 1 .. Len(s) - 1 : Front(s)[k] = s[k]
         /\ Last(s) = s[Len(s)] /\ Last(s) \in S
<1>1. Len(s) \in Nat /\ Len(s) >= 1
  OBVIOUS
<1>2. Last(s) = s[Len(s)]
  BY DEF Last
<1>3. Front(s) = SubSeq(s, 1, Len(s) - 1)
  BY Zenon DEF Front
<1>4. /\ SubSeq(s, 1, Len(s) - 1) \in Seq(S) /\ Len(SubSeq(s, 1, Len(s) - 1)) = Len(s) - 1
      /\ \A k \in 1 .. Len(s) - 1 : SubSeq(s, 1, Len(s) - 1)[k] = s[k]
  <2> DEFINE n == Len(s) - 1
  <2>1. n \in Nat /\ n <= Len(s)
    BY <1>1
  <2> HIDE DEF n
  <2> QED BY <2>1, Beginning DEF n
<1>5. s[Len(s)] \in S
  BY <1>1
<1> HIDE DEF Front, Last
<1> QED BY <1>1, <1>2, <1>3, <1>4, <1>5, Zenon

LEMMA SortInvNext == SortInv /\ [quicksort]_sorter => SortInv'
<1> SUFFICES ASSUME SortInv, [quicksort]_sorter PROVE SortInv'
  OBVIOUS
<1>1. CASE UNCHANGED sorter
  <2>1. /\ unsorted' = unsorted /\ rows' = rows /\ lo' = lo /\ hi' = hi
        /\ stack' = stack /\ sorting' = sorting
    BY <1>1 DEF sorter
  <2>2. Size' = Size
    BY <2>1 DEF Size
  <2>3. SortTypeOK'
    BY <2>1, <2>2 DEF SortInv, SortTypeOK
  <2>4. PartsApart'
    BY <2>1, <2>2 DEF SortInv, PartsApart
  <2>5. InOrder'
    BY <2>1, <2>2 DEF SortInv, InOrder, Together
  <2>6. RowsKept'
    BY <2>1, <2>2 DEF SortInv, RowsKept
  <2> QED BY <2>3, <2>4, <2>5, <2>6 DEF SortInv
<1>2. CASE quicksort
  <2>1. sorting = "loop" /\ rows' = Split.array /\ unsorted' = unsorted /\ Size' = Size
    BY <1>2 DEF quicksort, Split, Size
  <2>2. /\ Size \in Nat /\ Size >= 1 /\ unsorted \in [1 .. Size -> Rows]
        /\ lo \in Int /\ hi \in Int /\ 1 <= lo /\ hi <= Size
    BY <2>1 DEF SortInv, SortTypeOK, PartsApart
  <2>3. Split.array \in [1 .. Size -> Rows] /\ Split.at \in Int /\ lo <= Split.at /\ Split.at <= hi
    BY <2>1, SplitParts
  <2>4. /\ Pushed \in Seq(Part)
        /\ \A k \in 1 .. Len(Pushed) :
             /\ Pushed[k].lo < Pushed[k].hi /\ Pushed[k].hi <= Size - (k - 1)
             /\ Split.at < Pushed[k].lo
        /\ \A j \in 1 .. Len(Pushed) : \A k \in j + 1 .. Len(Pushed) : Pushed[k].hi < Pushed[j].lo
    BY <2>1, PushedApart
  <2>5. Len(Pushed) \in Nat /\ \A k \in 1 .. Len(Pushed) : Pushed[k].lo \in Int /\ Pushed[k].hi \in Int
    <3>1. Len(Pushed) \in Nat /\ \A k \in 1 .. Len(Pushed) : Pushed[k] \in Part
      BY <2>4, SeqElements
    <3> QED BY <3>1 DEF Part
  <2>6. RowsKept'
    <3>1. {Split.array[n] : n \in 1 .. Size} = {unsorted[n] : n \in 1 .. Size}
      BY <2>1, RowsKeptNext
    <3> QED BY <2>1, <3>1 DEF RowsKept
  <2>7. \A i \in 1 .. Size : \A j \in i + 1 .. Size :
          \/ rows'[i].key <= rows'[j].key
          \/ Split.at > lo + 1 /\ lo <= i /\ j <= Split.at - 1
          \/ \E k \in 1 .. Len(Pushed) : Pushed[k].lo <= i /\ j <= Pushed[k].hi
    BY <2>1, OrderNext
  <2>8. CASE /\ Split.at > lo + 1 /\ hi' = Split.at - 1 /\ stack' = Pushed
             /\ UNCHANGED <<lo, sorting>>
    <3>1. SortTypeOK'
      BY <2>1, <2>2, <2>3, <2>4, <2>8 DEF SortTypeOK
    <3>2. PartsApart'
      <4>1. 1 <= lo /\ lo < Split.at - 1 /\ Split.at - 1 <= Size
        BY <2>2, <2>3, <2>8
      <4>2. \A k \in 1 .. Len(Pushed) : Split.at - 1 < Pushed[k].lo /\ 1 <= Pushed[k].lo
        BY <2>2, <2>3, <2>4, <2>5
      <4> QED BY <2>1, <2>4, <2>8, <4>1, <4>2 DEF PartsApart
    <3>3. InOrder'
      BY <2>1, <2>7, <2>8 DEF InOrder, Together
    <3> QED BY <2>6, <3>1, <3>2, <3>3 DEF SortInv
  <2>9. CASE /\ Split.at <= lo + 1 /\ Pushed # <<>>
             /\ lo' = Last(Pushed).lo /\ hi' = Last(Pushed).hi /\ stack' = Front(Pushed)
             /\ UNCHANGED sorting
    <3> DEFINE m == Len(Pushed)
    <3>1. /\ stack' \in Seq(Part) /\ Len(stack') = m - 1 /\ m \in Nat /\ m >= 1
          /\ \A k \in 1 .. m - 1 : stack'[k] = Pushed[k]
          /\ lo' = Pushed[m].lo /\ hi' = Pushed[m].hi
      BY <2>4, <2>9, Taken
    <3> HIDE DEF m
    <3>2. m \in 1 .. m /\ \A k \in 1 .. m - 1 : k \in 1 .. m /\ m \in k + 1 .. m
      BY <3>1
    <3>3. SortTypeOK'
      BY <2>1, <2>2, <2>3, <2>5, <2>9, <3>1, <3>2 DEF SortTypeOK, m
    <3>4. PartsApart'
      <4>1. 1 <= Pushed[m].lo /\ Pushed[m].lo < Pushed[m].hi /\ Pushed[m].hi <= Size
        BY <2>2, <2>3, <2>4, <2>5, <3>1, <3>2 DEF m
      <4>2. \A k \in 1 .. m - 1 : Pushed[m].hi < Pushed[k].lo
        BY <2>4, <3>2 DEF m
      <4>3. \A k \in 1 .. m - 1 :
              1 <= Pushed[k].lo /\ Pushed[k].lo < Pushed[k].hi /\ Pushed[k].hi <= Size - (k - 1)
        BY <2>2, <2>3, <2>4, <2>5, <3>2 DEF m
      <4>4. \A j \in 1 .. m - 1 : \A k \in j + 1 .. m - 1 :
              Pushed[k].hi < Pushed[j].lo /\ k \in 1 .. m - 1
        BY <2>4, <3>1, <3>2, SMTT(30) DEF m
      <4> QED BY <2>1, <2>9, <3>1, <4>1, <4>2, <4>3, <4>4 DEF PartsApart
    <3>5. InOrder'
      <4> SUFFICES ASSUME NEW i \in 1 .. Size, NEW j \in i + 1 .. Size, ~(rows'[i].key <= rows'[j].key)
                   PROVE  Together(i, j)'
        BY <2>1 DEF InOrder
      <4>1. ~(Split.at > lo + 1)
        BY <2>2, <2>3, <2>9
      <4>2. PICK k \in 1 .. m : Pushed[k].lo <= i /\ j <= Pushed[k].hi
        BY <2>7, <4>1 DEF m
      <4>3. CASE k = m
        BY <2>1, <2>9, <3>1, <4>2, <4>3 DEF Together
      <4>4. CASE k # m
        <5>1. k \in 1 .. m - 1
          BY <3>1, <4>4
        <5> QED BY <3>1, <4>2, <5>1 DEF Together
      <4> QED BY <4>3, <4>4
    <3> QED BY <2>6, <3>3, <3>4, <3>5 DEF SortInv
  <2>10. CASE /\ Split.at <= lo + 1 /\ Pushed = <<>>
              /\ sorting' = "done" /\ UNCHANGED <<lo, hi, stack>>
    <3>1. Len(Pushed) = 0
      BY <2>10
    <3>2. stack = <<>> /\ Len(stack) = 0
      <4>1. Remembers(Split.at, hi) => Len(Pushed) = Len(stack) + 1 /\ Len(stack) \in Nat
        <5>1. [lo |-> Split.at + 1, hi |-> hi] \in Part
          BY <2>2, <2>3 DEF Part
        <5> QED BY <5>1, Appended DEF Pushed, SortInv, SortTypeOK
      <4> QED BY <2>10, <3>1, <4>1 DEF Pushed
    <3>3. SortTypeOK'
      BY <2>1, <2>2, <2>3, <2>10 DEF SortTypeOK, SortInv
    <3>4. PartsApart'
      BY <2>10, <3>2 DEF PartsApart
    <3>5. InOrder'
      <4>1. ~(Split.at > lo + 1)
        BY <2>2, <2>3, <2>10
      <4> QED BY <2>1, <2>7, <3>1, <4>1 DEF InOrder
    <3> QED BY <2>6, <3>3, <3>4, <3>5 DEF SortInv
  <2> QED BY <1>2, <2>8, <2>9, <2>10 DEF quicksort, Split, Pushed
<1> QED BY <1>1, <1>2

-----------------------------------------------------------------------------
(* Searching.  A search is a loop: T are the states in which it ends, with   *)
(* the answer ans, and next goes from one of the others to the next.        *)

IsOver(g, S) == g = [s \in S |-> g[s]]

Loop(g, S, T, ans, next) == \A s \in S : g[s] = IF s \in T THEN ans[s] ELSE g[next[s]]

\* The loop stays in S, and the measure mu gets smaller.
Descends(S, T, next, mu, B) ==
  /\ mu \in [S -> Nat] /\ B \in Nat
  /\ \A s \in S : mu[s] <= B
  /\ \A s \in S \ T : next[s] \in S /\ mu[next[s]] < mu[s]

\* Such a loop has one meaning at least.
LEMMA LoopExists ==
  ASSUME NEW S, NEW T, NEW ans, NEW next, NEW mu, NEW B, Descends(S, T, next, mu, B)
  PROVE  \E g : IsOver(g, S) /\ Loop(g, S, T, ans, next)
<1> USE DEF Descends
<1> DEFINE Holds(g, s) == g[s] = IF s \in T THEN ans[s] ELSE g[next[s]]
           Upto(n) == \E g : g = [s \in S |-> g[s]] /\ \A s \in S : mu[s] < n => Holds(g, s)
           U == {n \in Nat : ~Upto(n)}
<1>1. Upto(0)
  <2> DEFINE g == [s \in S |-> 0]
  <2>1. g = [s \in S |-> g[s]] /\ \A s \in S : ~(mu[s] < 0)
    OBVIOUS
  <2> HIDE DEF g
  <2> QED BY <2>1
<1>2. ASSUME NEW n \in Nat, Upto(n)
      PROVE  Upto(n + 1)
  <2>1. PICK g : g = [s \in S |-> g[s]] /\ \A s \in S : mu[s] < n => Holds(g, s)
    BY <1>2
  <2> DEFINE f == [s \in S |-> IF mu[s] = n THEN IF s \in T THEN ans[s] ELSE g[next[s]] ELSE g[s]]
  <2>2. f = [s \in S |-> f[s]]
    OBVIOUS
  <2>3. ASSUME NEW s \in S, mu[s] < n + 1
        PROVE  Holds(f, s)
    <3>1. mu[s] \in Nat /\ (mu[s] = n \/ mu[s] < n)
      BY <2>3
    <3>2. f[s] = IF s \in T THEN ans[s] ELSE g[next[s]]
      BY <2>1, <3>1
    <3>3. s \notin T => next[s] \in S /\ mu[next[s]] \in Nat /\ mu[next[s]] < n
      BY <3>1
    <3>4. s \notin T => f[next[s]] = g[next[s]]
      BY <3>3
    <3> HIDE DEF f
    <3> QED BY <3>2, <3>4
  <2> HIDE DEF f, Holds
  <2> QED BY <2>2, <2>3
<1> HIDE DEF Upto
<1>3. U = {}
  <2> SUFFICES ASSUME U # {} PROVE FALSE
    OBVIOUS
  <2>1. PICK n \in U : \A y \in U : n <= y
    BY LeastMember
  <2>2. n # 0 /\ n - 1 \in Nat
    BY <1>1, <2>1
  <2>3. Upto(n - 1)
    BY <2>1, <2>2
  <2> QED BY <1>2, <2>1, <2>2, <2>3
<1>4. Upto(B + 1)
  BY <1>3
<1>5. PICK g : g = [s \in S |-> g[s]] /\ \A s \in S : mu[s] < B + 1 => Holds(g, s)
  BY <1>4 DEF Upto
<1>6. \A s \in S : mu[s] < B + 1
  OBVIOUS
<1>7. \A s \in S : g[s] = IF s \in T THEN ans[s] ELSE g[next[s]]
  BY <1>5, <1>6
<1> QED BY <1>5, <1>7 DEF IsOver, Loop

\* The loop stays in I, and what it answers there is in Q.
Keeps(I, S, T, ans, next, Q) ==
  /\ I \subseteq S
  /\ \A s \in I \cap T : ans[s] \in Q
  /\ \A s \in I \ T : next[s] \in I

\* What holds of the answer in all states that the loop comes through.
LEMMA LoopAnswers ==
  ASSUME NEW S, NEW T, NEW ans, NEW next, NEW mu, NEW B, NEW g, NEW I, NEW Q,
         Descends(S, T, next, mu, B), Loop(g, S, T, ans, next), Keeps(I, S, T, ans, next, Q)
  PROVE  \A s \in I : g[s] \in Q
<1> DEFINE Bad == {s \in I : g[s] \notin Q}
           U == {mu[s] : s \in Bad}
<1> SUFFICES ASSUME Bad # {} PROVE FALSE
  OBVIOUS
<1>1. U \in SUBSET Nat /\ U # {}
  <2>1. \A s \in Bad : mu[s] \in Nat
    BY DEF Descends, Keeps
  <2>2. PICK s \in Bad : TRUE
    OBVIOUS
  <2>3. mu[s] \in U
    BY <2>2
  <2> HIDE DEF Bad
  <2> QED BY <2>1, <2>3
<1>2. PICK n \in U : \A y \in U : n <= y
  BY <1>1, LeastMember
<1>3. PICK s \in Bad : n = mu[s]
  BY <1>2
<1>4. s \in I /\ s \in S /\ g[s] \notin Q
  BY <1>3 DEF Keeps
<1>5. g[s] = IF s \in T THEN ans[s] ELSE g[next[s]]
  BY <1>4 DEF Loop
<1>6. s \notin T
  BY <1>4, <1>5 DEF Keeps
<1>7. next[s] \in I /\ mu[next[s]] < mu[s] /\ g[next[s]] \notin Q
  BY <1>4, <1>5, <1>6 DEF Keeps, Descends
<1>8. mu[next[s]] \in U /\ mu[next[s]] \in Nat /\ mu[s] \in Nat
  BY <1>4, <1>7 DEF Keeps, Descends
<1>9. n <= mu[next[s]]
  BY <1>2, <1>8
<1> QED BY <1>3, <1>7, <1>8, <1>9

-----------------------------------------------------------------------------
\* The rows are in the order of their keys.
Sorted(a) == \A i \in 1 .. Len(a) : \A j \in i .. Len(a) : a[i].key <= a[j].key

HasKey(a, key) == {n \in 1 .. Len(a) : a[n].key = key}

Middle(s) == s[1] + (s[2] - s[1]) \div 2

Width(a) == [s \in Spans(a) |-> IF s[1] < s[2] THEN s[2] - s[1] ELSE 0]

LEMMA WidthInNat ==
  ASSUME NEW a \in Seq(Rows)
  PROVE  /\ Width(a) \in [Spans(a) -> Nat] /\ Len(a) \in Nat
         /\ \A s \in Spans(a) : Width(a)[s] <= Len(a)
<1>1. Len(a) \in Nat
  OBVIOUS
<1>2. ASSUME NEW s \in Spans(a)
      PROVE  /\ (IF s[1] < s[2] THEN s[2] - s[1] ELSE 0) \in Nat
             /\ (IF s[1] < s[2] THEN s[2] - s[1] ELSE 0) <= Len(a)
  <2>1. s[1] \in 1 .. Len(a) + 1 /\ s[2] \in 1 .. Len(a) + 1
    BY DEF Spans
  <2> QED BY <1>1, <2>1
<1> QED BY <1>1, <1>2 DEF Width

\* The middle of a span is a row of it.
LEMMA MiddleInside ==
  ASSUME NEW a \in Seq(Rows), NEW s \in Spans(a), s[1] < s[2]
  PROVE  /\ Middle(s) \in 1 .. Len(a) /\ s[1] <= Middle(s) /\ Middle(s) < s[2]
         /\ s[1] \in Int /\ s[2] \in Int /\ a[Middle(s)].key \in Int
         /\ <<Middle(s) + 1, s[2]>> \in Spans(a) /\ <<s[1], Middle(s)>> \in Spans(a)
         /\ Width(a)[<<Middle(s) + 1, s[2]>>] < Width(a)[s]
         /\ Width(a)[<<s[1], Middle(s)>>] < Width(a)[s]
<1>1. s[1] \in 1 .. Len(a) + 1 /\ s[2] \in 1 .. Len(a) + 1 /\ Len(a) \in Nat
  BY DEF Spans
<1>2. /\ Middle(s) \in Int /\ s[1] <= Middle(s) /\ Middle(s) < s[2]
  <2> DEFINE w == s[2] - s[1]
  <2>1. w \in Int /\ w > 0
    BY <1>1
  <2> HIDE DEF w
  <2>2. w \div 2 \in Int /\ 0 <= w \div 2 /\ w \div 2 < w
    BY <2>1
  <2>3. Middle(s) = s[1] + w \div 2 /\ s[2] = s[1] + w
    BY <1>1 DEF Middle, w
  <2> QED BY <1>1, <2>1, <2>2, <2>3
<1> DEFINE m == Middle(s)
<1>3. m \in 1 .. Len(a) /\ m \in 1 .. Len(a) + 1 /\ m + 1 \in 1 .. Len(a) + 1
  BY <1>1, <1>2
<1>4. <<m + 1, s[2]>> \in Spans(a) /\ <<s[1], m>> \in Spans(a)
  BY <1>1, <1>3 DEF Spans
<1>5. a[m].key \in Int
  <2>1. a[m] \in Rows
    BY <1>3
  <2> QED BY <2>1 DEF Rows
<1>6. /\ Width(a)[s] = s[2] - s[1]
      /\ Width(a)[<<m + 1, s[2]>>] = IF m + 1 < s[2] THEN s[2] - (m + 1) ELSE 0
      /\ Width(a)[<<s[1], m>>] = IF s[1] < m THEN m - s[1] ELSE 0
  BY <1>4 DEF Width
<1> HIDE DEF m
<1>7. m \in Int /\ s[1] <= m /\ m < s[2]
  BY <1>2 DEF m
<1>8. /\ Width(a)[<<m + 1, s[2]>>] < Width(a)[s]
      /\ Width(a)[<<s[1], m>>] < Width(a)[s]
  BY <1>1, <1>6, <1>7
<1> QED BY <1>1, <1>2, <1>3, <1>4, <1>5, <1>8 DEF m

-----------------------------------------------------------------------------
(* find()                                                                  *)

FindStep(g, a, key, s) ==
  LET l == s[1]  h == s[2]  m == l + (h - l) \div 2
  IN  IF h <= l THEN None
      ELSE IF a[m].key = key THEN m
      ELSE IF a[m].key < key THEN g[<<m + 1, h>>]
      ELSE g[<<l, m>>]

FindEnds(a, key) == {s \in Spans(a) : s[2] <= s[1] \/ a[Middle(s)].key = key}

FindAnswer(a) == [s \in Spans(a) |-> IF s[2] <= s[1] THEN None ELSE Middle(s)]

FindNext(a, key) ==
  [s \in Spans(a) |-> IF a[Middle(s)].key < key THEN <<Middle(s) + 1, s[2]>>
                      ELSE <<s[1], Middle(s)>>]

LEMMA FindUnfolds ==
  ASSUME NEW a \in Seq(Rows), NEW key \in Int
  PROVE  /\ Descends(Spans(a), FindEnds(a, key), FindNext(a, key), Width(a), Len(a))
         /\ \E g : /\ Loop(g, Spans(a), FindEnds(a, key), FindAnswer(a), FindNext(a, key))
                   /\ find(a, key) = g[<<1, Len(a) + 1>>]
<1> DEFINE S == Spans(a)
           T == FindEnds(a, key)
           ans == FindAnswer(a)
           next == FindNext(a, key)
<1>1. ASSUME NEW s \in S \ T
      PROVE  next[s] \in S /\ Width(a)[next[s]] < Width(a)[s]
  <2>1. s \in S /\ ~(s[2] <= s[1])
    BY DEF FindEnds
  <2>2. s[1] < s[2]
    BY <2>1 DEF Spans
  <2>3. next[s] = IF a[Middle(s)].key < key THEN <<Middle(s) + 1, s[2]>> ELSE <<s[1], Middle(s)>>
    BY DEF FindNext
  <2> HIDE DEF next
  <2> QED BY <2>1, <2>2, <2>3, MiddleInside
<1>2. ASSUME NEW g, NEW s \in S
      PROVE  FindStep(g, a, key, s) = IF s \in T THEN ans[s] ELSE g[next[s]]
  BY DEF FindStep, FindEnds, FindAnswer, FindNext, Middle
<1> HIDE DEF S, T, ans, next
<1>3. Descends(S, T, next, Width(a), Len(a))
  BY <1>1, WidthInNat DEF Descends, S
<1>4. PICK g : IsOver(g, S) /\ Loop(g, S, T, ans, next)
  BY <1>3, LoopExists
<1>5. g = [s \in S |-> FindStep(g, a, key, s)]
  <2>1. \A s \in S : g[s] = FindStep(g, a, key, s)
    BY <1>2, <1>4 DEF Loop
  <2> QED BY <1>4, <2>1 DEF IsOver
<1> DEFINE c == CHOOSE f : f = [s \in S |-> FindStep(f, a, key, s)]
<1>6. c = [s \in S |-> FindStep(c, a, key, s)]
  BY <1>5
<1>7. find(a, key) = c[<<1, Len(a) + 1>>]
  BY DEF find, FindStep, S
<1> HIDE DEF c
<1>8. Loop(c, S, T, ans, next)
  BY <1>2, <1>6 DEF Loop
<1> QED BY <1>3, <1>7, <1>8 DEF S, T, ans, next

\* find() answers with a row that has the key, and None if there is none.
LEMMA FindFinds ==
  ASSUME NEW a \in Seq(Rows), Sorted(a), NEW key \in Int
  PROVE  find(a, key) \in IF HasKey(a, key) = {} THEN {None} ELSE HasKey(a, key)
<1> DEFINE S == Spans(a)
           T == FindEnds(a, key)
           ans == FindAnswer(a)
           next == FindNext(a, key)
           I == {s \in S : \A n \in HasKey(a, key) : s[1] <= n /\ n < s[2]}
           Q == IF HasKey(a, key) = {} THEN {None} ELSE HasKey(a, key)
<1>1. /\ Descends(S, T, next, Width(a), Len(a))
      /\ \E g : Loop(g, S, T, ans, next) /\ find(a, key) = g[<<1, Len(a) + 1>>]
  BY FindUnfolds
<1>2. \A n \in HasKey(a, key) : n \in 1 .. Len(a) /\ n \in Int /\ a[n].key = key
  BY DEF HasKey
<1>3. ASSUME NEW s \in I \cap T
      PROVE  ans[s] \in Q
  <2>1. s \in S /\ s[1] \in Int /\ s[2] \in Int /\ \A n \in HasKey(a, key) : s[1] <= n /\ n < s[2]
    BY DEF Spans
  <2>2. ans[s] = IF s[2] <= s[1] THEN None ELSE Middle(s)
    BY <2>1 DEF FindAnswer
  <2>3. CASE s[2] <= s[1]
    <3>1. HasKey(a, key) = {}
      BY <1>2, <2>1, <2>3
    <3> QED BY <2>2, <2>3, <3>1
  <2>4. CASE ~(s[2] <= s[1])
    <3>1. s[1] < s[2]
      BY <2>1, <2>4
    <3>2. Middle(s) \in 1 .. Len(a) /\ a[Middle(s)].key = key
      BY <2>1, <2>4, <3>1, MiddleInside DEF FindEnds
    <3>3. Middle(s) \in HasKey(a, key)
      BY <3>2 DEF HasKey
    <3> QED BY <2>2, <2>4, <3>3
  <2> QED BY <2>3, <2>4
<1>4. ASSUME NEW s \in I \ T
      PROVE  next[s] \in I
  <2>1. s \in S /\ s[1] \in Int /\ s[2] \in Int /\ \A n \in HasKey(a, key) : s[1] <= n /\ n < s[2]
    BY DEF Spans
  <2>2. s[1] < s[2] /\ a[Middle(s)].key # key
    BY <2>1 DEF FindEnds
  <2>3. next[s] = IF a[Middle(s)].key < key THEN <<Middle(s) + 1, s[2]>> ELSE <<s[1], Middle(s)>>
    BY <2>1 DEF FindNext
  <2> DEFINE m == Middle(s)
  <2>4. /\ m \in 1 .. Len(a) /\ s[1] <= m /\ m < s[2] /\ a[m].key \in Int
        /\ <<m + 1, s[2]>> \in S /\ <<s[1], m>> \in S
    BY <2>1, <2>2, MiddleInside
  <2> HIDE DEF next, m
  <2>5. CASE a[m].key < key
    <3>1. \A n \in HasKey(a, key) : m + 1 <= n /\ n < s[2]
      <4> SUFFICES ASSUME NEW n \in HasKey(a, key) PROVE m + 1 <= n
        BY <2>1
      <4>1. n <= m => a[n].key <= a[m].key
        BY <1>2, <2>4 DEF Sorted
      <4> QED BY <1>2, <2>4, <2>5, <4>1
    <3>2. next[s] = <<m + 1, s[2]>>
      BY <2>3, <2>5 DEF m
    <3>3. <<m + 1, s[2]>> \in I
      BY <2>4, <3>1
    <3> QED BY <2>4, <3>2, <3>3
  <2>6. CASE ~(a[m].key < key)
    <3>1. \A n \in HasKey(a, key) : s[1] <= n /\ n < m
      <4> SUFFICES ASSUME NEW n \in HasKey(a, key) PROVE n < m
        BY <2>1
      <4>1. m <= n => a[m].key <= a[n].key
        BY <1>2, <2>4 DEF Sorted
      <4>2. a[m].key # key
        BY <2>2 DEF m
      <4> QED BY <1>2, <2>4, <2>6, <4>1, <4>2
    <3>2. next[s] = <<s[1], m>>
      BY <2>3, <2>6 DEF m
    <3>3. <<s[1], m>> \in I
      BY <2>4, <3>1
    <3> QED BY <2>4, <3>2, <3>3
  <2> QED BY <2>5, <2>6
<1>5. <<1, Len(a) + 1>> \in I
  BY <1>2 DEF Spans
<1>6. Keeps(I, S, T, ans, next, Q)
  BY <1>3, <1>4 DEF Keeps
<1> HIDE DEF S, T, ans, next, I, Q
<1>7. PICK g : Loop(g, S, T, ans, next) /\ find(a, key) = g[<<1, Len(a) + 1>>]
  BY <1>1
<1>8. \A s \in I : g[s] \in Q
  BY <1>1, <1>6, <1>7, LoopAnswers
<1> QED BY <1>5, <1>7, <1>8 DEF Q

-----------------------------------------------------------------------------
(* find_last()                                                             *)

UpperMiddle(s) == s[1] + (s[2] - s[1] + 1) \div 2

FindLastStep(g, a, key, s) ==
  LET l == s[1]  h == s[2]  m == l + (h - l + 1) \div 2
  IN  IF h <= l + 1 THEN l
      ELSE IF a[m].key <= key THEN g[<<m, h>>]
      ELSE g[<<l, m>>]

LastEnds(a) == {s \in Spans(a) : s[2] <= s[1] + 1}

LastAnswer(a) == [s \in Spans(a) |-> s[1]]

LastNext(a, key) ==
  [s \in Spans(a) |-> IF a[UpperMiddle(s)].key <= key THEN <<UpperMiddle(s), s[2]>>
                      ELSE <<s[1], UpperMiddle(s)>>]

LEMMA UpperMiddleInside ==
  ASSUME NEW a \in Seq(Rows), NEW s \in Spans(a), s[1] + 1 < s[2]
  PROVE  /\ UpperMiddle(s) \in 1 .. Len(a) /\ s[1] < UpperMiddle(s) /\ UpperMiddle(s) < s[2]
         /\ s[1] \in Int /\ s[2] \in Int /\ a[UpperMiddle(s)].key \in Int
         /\ <<UpperMiddle(s), s[2]>> \in Spans(a) /\ <<s[1], UpperMiddle(s)>> \in Spans(a)
         /\ Width(a)[<<UpperMiddle(s), s[2]>>] < Width(a)[s]
         /\ Width(a)[<<s[1], UpperMiddle(s)>>] < Width(a)[s]
<1>1. s[1] \in 1 .. Len(a) + 1 /\ s[2] \in 1 .. Len(a) + 1 /\ Len(a) \in Nat
  BY DEF Spans
<1>2. /\ UpperMiddle(s) \in Int /\ s[1] < UpperMiddle(s) /\ UpperMiddle(s) < s[2]
  <2> DEFINE w == s[2] - s[1] + 1
  <2>1. w \in Int /\ w > 2
    BY <1>1
  <2> HIDE DEF w
  <2>2. w \div 2 \in Int /\ 0 < w \div 2 /\ w \div 2 < w - 1
    BY <2>1
  <2>3. UpperMiddle(s) = s[1] + w \div 2 /\ s[2] = s[1] + w - 1
    BY <1>1 DEF UpperMiddle, w
  <2> QED BY <1>1, <2>1, <2>2, <2>3
<1> DEFINE m == UpperMiddle(s)
<1>3. m \in 1 .. Len(a) /\ m \in 1 .. Len(a) + 1
  BY <1>1, <1>2
<1>4. <<m, s[2]>> \in Spans(a) /\ <<s[1], m>> \in Spans(a)
  BY <1>1, <1>3 DEF Spans
<1>5. a[m].key \in Int
  <2>1. a[m] \in Rows
    BY <1>3
  <2> QED BY <2>1 DEF Rows
<1>6. /\ Width(a)[s] = IF s[1] < s[2] THEN s[2] - s[1] ELSE 0
      /\ Width(a)[<<m, s[2]>>] = IF m < s[2] THEN s[2] - m ELSE 0
      /\ Width(a)[<<s[1], m>>] = IF s[1] < m THEN m - s[1] ELSE 0
  BY <1>4 DEF Width
<1> HIDE DEF m
<1>7. m \in Int /\ s[1] < m /\ m < s[2]
  BY <1>2 DEF m
<1>8. /\ Width(a)[<<m, s[2]>>] < Width(a)[s]
      /\ Width(a)[<<s[1], m>>] < Width(a)[s]
  BY <1>1, <1>6, <1>7
<1> QED BY <1>1, <1>2, <1>3, <1>4, <1>5, <1>8 DEF m

LEMMA FindLastUnfolds ==
  ASSUME NEW a \in Seq(Rows), NEW key \in Int
  PROVE  /\ Descends(Spans(a), LastEnds(a), LastNext(a, key), Width(a), Len(a))
         /\ \E g : /\ Loop(g, Spans(a), LastEnds(a), LastAnswer(a), LastNext(a, key))
                   /\ find_last(a, key) = LET p == g[<<1, Len(a) + 1>>]
                                          IN  IF a[p].key = key THEN p ELSE None
<1> DEFINE S == Spans(a)
           T == LastEnds(a)
           ans == LastAnswer(a)
           next == LastNext(a, key)
<1>1. ASSUME NEW s \in S \ T
      PROVE  next[s] \in S /\ Width(a)[next[s]] < Width(a)[s]
  <2>1. s \in S /\ ~(s[2] <= s[1] + 1)
    BY DEF LastEnds
  <2>2. s[1] + 1 < s[2]
    BY <2>1 DEF Spans
  <2>3. next[s] = IF a[UpperMiddle(s)].key <= key THEN <<UpperMiddle(s), s[2]>>
                  ELSE <<s[1], UpperMiddle(s)>>
    BY DEF LastNext
  <2> HIDE DEF next
  <2> QED BY <2>1, <2>2, <2>3, UpperMiddleInside
<1>2. ASSUME NEW g, NEW s \in S
      PROVE  FindLastStep(g, a, key, s) = IF s \in T THEN ans[s] ELSE g[next[s]]
  BY DEF FindLastStep, LastEnds, LastAnswer, LastNext, UpperMiddle
<1> HIDE DEF S, T, ans, next
<1>3. Descends(S, T, next, Width(a), Len(a))
  BY <1>1, WidthInNat DEF Descends, S
<1>4. PICK g : IsOver(g, S) /\ Loop(g, S, T, ans, next)
  BY <1>3, LoopExists
<1>5. g = [s \in S |-> FindLastStep(g, a, key, s)]
  <2>1. \A s \in S : g[s] = FindLastStep(g, a, key, s)
    BY <1>2, <1>4 DEF Loop
  <2> QED BY <1>4, <2>1 DEF IsOver
<1> DEFINE c == CHOOSE f : f = [s \in S |-> FindLastStep(f, a, key, s)]
<1>6. c = [s \in S |-> FindLastStep(c, a, key, s)]
  BY <1>5
<1>7. find_last(a, key) = LET p == c[<<1, Len(a) + 1>>] IN IF a[p].key = key THEN p ELSE None
  BY DEF find_last, FindLastStep, S
<1> HIDE DEF c
<1>8. Loop(c, S, T, ans, next)
  BY <1>2, <1>6 DEF Loop
<1> QED BY <1>3, <1>7, <1>8 DEF S, T, ans, next

\* find_last() answers with the last row that has the key, and None if there
\* is none.
LEMMA FindLastFinds ==
  ASSUME NEW a \in Seq(Rows), Len(a) >= 1, Sorted(a), NEW key \in Int
  PROVE  find_last(a, key) = IF HasKey(a, key) = {} THEN None ELSE Max(HasKey(a, key))
<1> DEFINE S == Spans(a)
           T == LastEnds(a)
           ans == LastAnswer(a)
           next == LastNext(a, key)
           I == {s \in S : /\ s[1] < s[2]
                           /\ s[1] = 1 \/ a[s[1]].key <= key
                           /\ \A n \in 1 .. Len(a) : n >= s[2] => key < a[n].key}
           Q == {p \in 1 .. Len(a) : /\ p = 1 \/ a[p].key <= key
                                     /\ \A n \in 1 .. Len(a) : n > p => key < a[n].key}
<1>1. /\ Descends(S, T, next, Width(a), Len(a))
      /\ \E g : /\ Loop(g, S, T, ans, next)
                /\ find_last(a, key) = LET p == g[<<1, Len(a) + 1>>]
                                       IN  IF a[p].key = key THEN p ELSE None
  BY FindLastUnfolds
<1>2. /\ \A n \in 1 .. Len(a) : a[n].key \in Int /\ n \in Int
      /\ \A n \in HasKey(a, key) : n \in 1 .. Len(a) /\ n \in Int /\ a[n].key = key
      /\ Len(a) \in Nat
  <2>1. \A n \in 1 .. Len(a) : a[n] \in Rows
    OBVIOUS
  <2> QED BY <2>1 DEF HasKey, Rows
<1>3. ASSUME NEW s \in I \cap T
      PROVE  ans[s] \in Q
  <2>1. s \in S /\ s[1] \in 1 .. Len(a) + 1 /\ s[2] \in 1 .. Len(a) + 1 /\ s[2] <= s[1] + 1
    BY DEF Spans, LastEnds
  <2>2. ans[s] = s[1]
    BY <2>1 DEF LastAnswer
  <2>3. s[1] \in 1 .. Len(a) /\ \A n \in 1 .. Len(a) : n > s[1] => n >= s[2]
    BY <1>2, <2>1
  <2> QED BY <2>1, <2>2, <2>3
<1>4. ASSUME NEW s \in I \ T
      PROVE  next[s] \in I
  <2>1. s \in S /\ s[1] \in Int /\ s[2] \in Int
    BY DEF Spans
  <2>2. s[1] + 1 < s[2]
    BY <2>1 DEF LastEnds
  <2>3. next[s] = IF a[UpperMiddle(s)].key <= key THEN <<UpperMiddle(s), s[2]>>
                  ELSE <<s[1], UpperMiddle(s)>>
    BY <2>1 DEF LastNext
  <2> DEFINE m == UpperMiddle(s)
  <2>4. /\ m \in 1 .. Len(a) /\ s[1] < m /\ m < s[2] /\ a[m].key \in Int
        /\ <<m, s[2]>> \in S /\ <<s[1], m>> \in S
    BY <2>1, <2>2, UpperMiddleInside
  <2> HIDE DEF next, m
  <2>5. CASE a[m].key <= key
    <3>1. next[s] = <<m, s[2]>>
      BY <2>3, <2>5 DEF m
    <3>2. <<m, s[2]>> \in I
      BY <2>4, <2>5
    <3> QED BY <3>1, <3>2
  <2>6. CASE ~(a[m].key <= key)
    <3>1. next[s] = <<s[1], m>>
      BY <2>3, <2>6 DEF m
    <3>2. \A n \in 1 .. Len(a) : n >= m => key < a[n].key
      <4> SUFFICES ASSUME NEW n \in 1 .. Len(a), n >= m PROVE key < a[n].key
        OBVIOUS
      <4>1. a[m].key <= a[n].key
        BY <1>2, <2>4 DEF Sorted
      <4> QED BY <1>2, <2>4, <2>6, <4>1
    <3>3. <<s[1], m>> \in I
      BY <2>4, <3>2
    <3> QED BY <3>1, <3>3
  <2> QED BY <2>5, <2>6
<1>5. <<1, Len(a) + 1>> \in I
  BY <1>2 DEF Spans
<1>6. Keeps(I, S, T, ans, next, Q)
  BY <1>3, <1>4 DEF Keeps
<1> HIDE DEF S, T, ans, next, I
<1>7. PICK g : /\ Loop(g, S, T, ans, next)
               /\ find_last(a, key) = LET p == g[<<1, Len(a) + 1>>]
                                      IN  IF a[p].key = key THEN p ELSE None
  BY <1>1
<1>8. \A s \in I : g[s] \in Q
  BY <1>1, <1>6, <1>7, LoopAnswers
<1> DEFINE p == g[<<1, Len(a) + 1>>]
<1>9. p \in 1 .. Len(a) /\ (p = 1 \/ a[p].key <= key)
      /\ \A n \in 1 .. Len(a) : n > p => key < a[n].key
  BY <1>5, <1>8
<1>10. find_last(a, key) = IF a[p].key = key THEN p ELSE None
  BY <1>7
<1> HIDE DEF p, Q
<1>11. \A n \in HasKey(a, key) : n <= p
  BY <1>2, <1>9
<1>12. CASE HasKey(a, key) = {}
  <2>1. a[p].key # key
    BY <1>9, <1>12 DEF HasKey
  <2> QED BY <1>10, <1>12, <2>1
<1>13. CASE HasKey(a, key) # {}
  <2>1. PICK n \in HasKey(a, key) : TRUE
    BY <1>13
  <2>2. n \in 1 .. Len(a) /\ n <= p /\ a[n].key = key
    BY <1>2, <1>11, <2>1
  <2>3. a[n].key <= a[p].key
    BY <1>2, <1>9, <2>2 DEF Sorted
  <2>4. a[p].key = key
    <3>1. CASE p = 1
      BY <1>2, <1>9, <2>2, <3>1
    <3>2. CASE a[p].key <= key
      BY <1>2, <1>9, <2>2, <2>3, <3>2
    <3> QED BY <1>9, <3>1, <3>2
  <2>5. p \in HasKey(a, key)
    BY <1>9, <2>4 DEF HasKey
  <2>6. \A x \in HasKey(a, key) : (\A y \in HasKey(a, key) : x >= y) => x = p
    BY <1>2, <1>11, <2>5
  <2>7. \A y \in HasKey(a, key) : p >= y
    BY <1>2, <1>9, <1>11
  <2>8. Max(HasKey(a, key)) = p
    BY <2>5, <2>6, <2>7 DEF Max
  <2> QED BY <1>10, <1>13, <2>4, <2>8
<1> QED BY <1>12, <1>13

-----------------------------------------------------------------------------
(* lookup()                                                                *)

LookupStates(a) == Spans(a) \X (0 .. Len(a))

LookupStep(g, a, class, key, s) ==
  LET l == s[1][1]  h == s[1][2]  best == s[2]  m == l + (h - l) \div 2
  IN  IF h <= l THEN best
      ELSE IF class[a[m].key] = key THEN g[<< <<l, m>>, m >>]
      ELSE IF class[a[m].key] < key THEN g[<< <<m + 1, h>>, best >>]
      ELSE g[<< <<l, m>>, best >>]

LookupEnds(a) == {s \in LookupStates(a) : s[1][2] <= s[1][1]}

LookupAnswer(a) == [s \in LookupStates(a) |-> s[2]]

LookupNext(a, class, key) ==
  [s \in LookupStates(a) |->
     LET m == Middle(s[1])
     IN  IF class[a[m].key] = key THEN << <<s[1][1], m>>, m >>
         ELSE IF class[a[m].key] < key THEN << <<m + 1, s[1][2]>>, s[2] >>
         ELSE << <<s[1][1], m>>, s[2] >>]

LookupWidth(a) == [s \in LookupStates(a) |-> Width(a)[s[1]]]

LEMMA LookupUnfolds ==
  ASSUME NEW a \in Seq(Rows), NEW key \in Int, NEW class
  PROVE  /\ Descends(LookupStates(a), LookupEnds(a), LookupNext(a, class, key), LookupWidth(a), Len(a))
         /\ \E g : /\ Loop(g, LookupStates(a), LookupEnds(a), LookupAnswer(a), LookupNext(a, class, key))
                   /\ lookup(a, class, key) = g[<< <<1, Len(a) + 1>>, None >>]
<1> DEFINE S == LookupStates(a)
           T == LookupEnds(a)
           ans == LookupAnswer(a)
           next == LookupNext(a, class, key)
           mu == LookupWidth(a)
<1>1. ASSUME NEW s \in S \ T
      PROVE  next[s] \in S /\ mu[next[s]] < mu[s]
  <2>1. s \in S /\ ~(s[1][2] <= s[1][1])
    BY DEF LookupEnds
  <2>2. s[1] \in Spans(a) /\ s[2] \in 0 .. Len(a)
    BY <2>1 DEF LookupStates
  <2>3. s[1][1] < s[1][2]
    BY <2>1, <2>2 DEF Spans
  <2> DEFINE m == Middle(s[1])
             left == <<s[1][1], m>>
             right == <<m + 1, s[1][2]>>
  <2>4. next[s] = IF class[a[m].key] = key THEN << left, m >>
                  ELSE IF class[a[m].key] < key THEN << right, s[2] >>
                  ELSE << left, s[2] >>
    BY <2>1 DEF LookupNext
  <2>5. /\ left \in Spans(a) /\ right \in Spans(a) /\ m \in 1 .. Len(a)
        /\ Width(a)[left] < Width(a)[s[1]] /\ Width(a)[right] < Width(a)[s[1]]
    BY <2>2, <2>3, MiddleInside
  <2> HIDE DEF m, left, right, next
  <2>6. m \in 0 .. Len(a)
    BY <2>5
  <2>7. << left, m >> \in S /\ << right, s[2] >> \in S /\ << left, s[2] >> \in S
    BY <2>2, <2>5, <2>6 DEF LookupStates
  <2>8. /\ mu[s] = Width(a)[s[1]]
        /\ mu[<< left, m >>] = Width(a)[left] /\ mu[<< right, s[2] >>] = Width(a)[right]
        /\ mu[<< left, s[2] >>] = Width(a)[left]
    BY <2>1, <2>7 DEF LookupWidth
  <2> QED BY <2>4, <2>5, <2>7, <2>8
<1>2. ASSUME NEW g, NEW s \in S
      PROVE  LookupStep(g, a, class, key, s) = IF s \in T THEN ans[s] ELSE g[next[s]]
  BY DEF LookupStep, LookupEnds, LookupAnswer, LookupNext, Middle
<1>3. mu \in [S -> Nat] /\ Len(a) \in Nat /\ \A s \in S : mu[s] <= Len(a)
  <2>1. \A s \in S : s[1] \in Spans(a)
    BY DEF LookupStates
  <2>2. \A s \in S : Width(a)[s[1]] \in Nat /\ Width(a)[s[1]] <= Len(a)
    BY <2>1, WidthInNat
  <2> QED BY <2>2, WidthInNat DEF LookupWidth
<1> HIDE DEF S, T, ans, next, mu
<1>4. Descends(S, T, next, mu, Len(a))
  BY <1>1, <1>3 DEF Descends
<1>5. PICK g : IsOver(g, S) /\ Loop(g, S, T, ans, next)
  BY <1>4, LoopExists
<1>6. g = [s \in S |-> LookupStep(g, a, class, key, s)]
  <2>1. \A s \in S : g[s] = LookupStep(g, a, class, key, s)
    BY <1>2, <1>5 DEF Loop
  <2> QED BY <1>5, <2>1 DEF IsOver
<1> DEFINE c == CHOOSE f : f = [s \in S |-> LookupStep(f, a, class, key, s)]
<1>7. c = [s \in S |-> LookupStep(c, a, class, key, s)]
  BY <1>6
<1>8. lookup(a, class, key) = c[<< <<1, Len(a) + 1>>, None >>]
  BY DEF lookup, LookupStep, LookupStates, S
<1> HIDE DEF c
<1>9. Loop(c, S, T, ans, next)
  BY <1>2, <1>7 DEF Loop
<1> QED BY <1>4, <1>8, <1>9 DEF S, T, ans, next, mu

StartsWith(a, class, key) == {n \in 1 .. Len(a) : class[a[n].key] = key}

LEMMA SpanEnds ==
  ASSUME NEW a \in Seq(Rows), NEW s \in Spans(a)
  PROVE  s[1] \in Int /\ s[2] \in Int
  BY DEF Spans

\* lookup() answers with the first row whose name starts with the key, and
\* None if there is none, if names that start with the same key lie together.
LEMMA LookupFinds ==
  ASSUME NEW a \in Seq(Rows), Sorted(a), NEW key \in Int, NEW class \in [Int -> Int],
         \A x, y \in Int : x <= y => class[x] <= class[y]
  PROVE  lookup(a, class, key) =
           IF StartsWith(a, class, key) = {} THEN None ELSE Min(StartsWith(a, class, key))
<1> DEFINE S == LookupStates(a)
           T == LookupEnds(a)
           ans == LookupAnswer(a)
           next == LookupNext(a, class, key)
           P == StartsWith(a, class, key)
           Within(l, h, best) == /\ \A n \in P : l <= n
                                 /\ \/ best = None /\ \A n \in P : n < h
                                    \/ best \in P /\ best = h
           First(b) == \/ b = None /\ P = {}
                       \/ b \in P /\ \A n \in P : b <= n
           I == {s \in S : Within(s[1][1], s[1][2], s[2])}
           Q == {b \in 0 .. Len(a) : First(b)}
<1>1. /\ Descends(S, T, next, LookupWidth(a), Len(a))
      /\ \E g : /\ Loop(g, S, T, ans, next)
                /\ lookup(a, class, key) = g[<< <<1, Len(a) + 1>>, None >>]
  BY LookupUnfolds
<1>2. /\ \A n \in 1 .. Len(a) : a[n].key \in Int /\ class[a[n].key] \in Int /\ n \in Int
      /\ \A n \in P : n \in 1 .. Len(a) /\ n \in Int /\ class[a[n].key] = key
      /\ Len(a) \in Nat
  <2>1. \A n \in 1 .. Len(a) : a[n] \in Rows
    OBVIOUS
  <2>2. \A n \in 1 .. Len(a) : a[n].key \in Int
    BY <2>1 DEF Rows
  <2>3. \A n \in P : n \in 1 .. Len(a) /\ class[a[n].key] = key
    BY DEF StartsWith
  <2>4. Len(a) \in Nat
    OBVIOUS
  <2>5. \A n \in 1 .. Len(a) : n \in Int
    OBVIOUS
  <2> HIDE DEF P
  <2>6. \A n \in 1 .. Len(a) : class[a[n].key] \in Int
    BY <2>2
  <2> QED BY <2>2, <2>3, <2>4, <2>5, <2>6, Zenon
<1>3. ASSUME NEW i \in 1 .. Len(a), NEW j \in 1 .. Len(a), i <= j
      PROVE  class[a[i].key] <= class[a[j].key]
  <2>1. j \in i .. Len(a)
    BY <1>3
  <2>2. a[i].key <= a[j].key
    BY <2>1 DEF Sorted
  <2> QED BY <1>2, <2>2
<1>4. ASSUME NEW n \in 1 .. Len(a)
      PROVE  class[a[n].key] = key => n \in P
  BY DEF StartsWith
<1> HIDE DEF P, S, T, ans, next
<1>5. ASSUME NEW s \in I \cap T
      PROVE  ans[s] \in Q
  <2>1. /\ s \in S /\ s[1] \in Spans(a) /\ s[2] \in 0 .. Len(a) /\ s[1][2] <= s[1][1]
    BY DEF LookupStates, LookupEnds, S, T
  <2> DEFINE l == s[1][1]
             h == s[1][2]
             b == s[2]
  <2>2. l \in Int /\ h \in Int /\ h <= l
    BY <2>1, SpanEnds
  <2>3. ans[s] = b /\ Within(l, h, b)
    BY <2>1 DEF LookupAnswer, S, ans
  <2> HIDE DEF l, h, b
  <2>4. First(b)
    BY <1>2, <2>2, <2>3
  <2> HIDE DEF First
  <2> QED BY <2>1, <2>3, <2>4 DEF b
<1>6. ASSUME NEW s \in I \ T
      PROVE  next[s] \in I
  <2> DEFINE m == Middle(s[1])
             l == s[1][1]
             h == s[1][2]
             best == s[2]
             c == class[a[m].key]
  <2>1. /\ s \in S /\ s[1] \in Spans(a) /\ s[2] \in 0 .. Len(a)
        /\ l \in Int /\ h \in Int /\ l < h
    <3>1. s \in S /\ s[1] \in Spans(a) /\ s[2] \in 0 .. Len(a) /\ ~(h <= l)
      BY DEF LookupStates, LookupEnds, S, T
    <3>2. l \in Int /\ h \in Int
      BY <3>1, SpanEnds
    <3> HIDE DEF l, h
    <3>3. l < h
      BY <3>1, <3>2
    <3> QED BY <3>1, <3>2, <3>3
  <2>2. next[s] = IF c = key THEN << <<l, m>>, m >>
                  ELSE IF c < key THEN << <<m + 1, h>>, best >>
                  ELSE << <<l, m>>, best >>
    BY <2>1 DEF LookupNext, S, next
  <2>3. /\ m \in 1 .. Len(a) /\ l <= m /\ m < h
        /\ <<m + 1, h>> \in Spans(a) /\ <<l, m>> \in Spans(a)
    BY <2>1, MiddleInside
  <2>4. c \in Int
    BY <1>2, <2>3
  <2>5. Within(l, h, best)
    OBVIOUS
  <2>6. c < key => \A n \in P : m + 1 <= n
    <3> SUFFICES ASSUME c < key, NEW n \in P PROVE m + 1 <= n
      OBVIOUS
    <3>1. n \in 1 .. Len(a) /\ n \in Int /\ class[a[n].key] = key
      BY <1>2
    <3>2. n <= m => class[a[n].key] <= c
      BY <1>3, <2>3, <3>1
    <3>3. m \in Int
      BY <2>3
    <3> HIDE DEF c, m
    <3> QED BY <2>4, <3>1, <3>2, <3>3
  <2>7. c > key => \A n \in P : n < m
    <3> SUFFICES ASSUME c > key, NEW n \in P PROVE n < m
      OBVIOUS
    <3>1. n \in 1 .. Len(a) /\ n \in Int /\ class[a[n].key] = key
      BY <1>2
    <3>2. m <= n => c <= class[a[n].key]
      BY <1>3, <2>3, <3>1
    <3>3. m \in Int
      BY <2>3
    <3> HIDE DEF c, m
    <3> QED BY <2>4, <3>1, <3>2, <3>3
  <2>8. c = key => m \in P
    BY <1>4, <2>3
  <2> DEFINE left == <<l, m>>
             right == <<m + 1, h>>
  <2>9. /\ left \in Spans(a) /\ right \in Spans(a)
        /\ left[1] = l /\ left[2] = m /\ right[1] = m + 1 /\ right[2] = h
    BY <2>3
  <2>10. next[s] = IF c = key THEN << left, m >>
                   ELSE IF c < key THEN << right, best >>
                   ELSE << left, best >>
    BY <2>2
  <2>11. m \in Int /\ m \in 0 .. Len(a) /\ best \in 0 .. Len(a)
    BY <2>1, <2>3
  <2> HIDE DEF m, l, h, best, c, left, right
  <2>12. << left, m >> \in S /\ << right, best >> \in S /\ << left, best >> \in S
    BY <2>9, <2>11 DEF LookupStates, S
  <2>13. CASE c = key
    <3>1. Within(left[1], left[2], m)
      BY <2>5, <2>8, <2>9, <2>13
    <3> QED BY <2>10, <2>12, <2>13, <3>1
  <2>14. CASE c < key
    <3>1. Within(right[1], right[2], best)
      BY <2>5, <2>6, <2>9, <2>14
    <3>2. c # key
      BY <2>4, <2>14
    <3> QED BY <2>10, <2>12, <2>14, <3>1, <3>2
  <2>15. CASE c > key
    <3>1. \A n \in P : n < m
      BY <2>7, <2>15
    <3>2. ~(best \in P /\ best = h)
      BY <2>1, <2>3, <2>11, <3>1
    <3>3. Within(left[1], left[2], best)
      BY <2>5, <2>9, <3>1, <3>2
    <3>4. c # key /\ ~(c < key)
      BY <2>4, <2>15
    <3> QED BY <2>10, <2>12, <3>3, <3>4
  <2> QED BY <2>4, <2>13, <2>14, <2>15
<1>7. << <<1, Len(a) + 1>>, None >> \in I
  <2>1. << <<1, Len(a) + 1>>, None >> \in S
    <3>1. <<1, Len(a) + 1>> \in Spans(a)
      <4>1. Len(a) \in Nat
        OBVIOUS
      <4>2. 1 \in 1 .. Len(a) + 1 /\ Len(a) + 1 \in 1 .. Len(a) + 1
        BY <4>1
      <4> QED BY <4>2 DEF Spans
    <3>2. None \in 0 .. Len(a)
      BY <1>2 DEF None
    <3> QED BY <3>1, <3>2 DEF LookupStates, S
  <2>2. Within(1, Len(a) + 1, None)
    BY <1>2
  <2> QED BY <2>1, <2>2
<1>8. Keeps(I, S, T, ans, next, Q)
  BY <1>5, <1>6 DEF Keeps
<1> HIDE DEF I, Q
<1>9. PICK g : Loop(g, S, T, ans, next) /\ lookup(a, class, key) = g[<< <<1, Len(a) + 1>>, None >>]
  BY <1>1
<1>10. \A s \in I : g[s] \in Q
  BY <1>1, <1>8, <1>9, LoopAnswers
<1>11. lookup(a, class, key) \in Q
  BY <1>7, <1>9, <1>10
<1> DEFINE b == lookup(a, class, key)
<1>12. First(b)
  BY <1>11 DEF Q
<1> HIDE DEF b
<1>13. CASE b = None /\ P = {}
  BY <1>13 DEF b, P
<1>14. CASE b \in P /\ \A n \in P : b <= n
  <2>1. \A x \in P : (\A y \in P : x <= y) => x = b
    BY <1>2, <1>14
  <2>2. Min(P) = b
    BY <1>14, <2>1 DEF Min
  <2> QED BY <1>14, <2>2 DEF b, P
<1> QED BY <1>12, <1>13, <1>14

-----------------------------------------------------------------------------
\* What the invariant says of the array when quicksort() has ended.
LEMMA SortedWhenDone ==
  ASSUME SortInv
  PROVE  SortsInPlace
<1>1. /\ Size \in Nat /\ Size >= 1 /\ unsorted \in [1 .. Size -> Rows] /\ rows \in [1 .. Size -> Rows]
      /\ stack \in Seq(Part) /\ Len(stack) \in Nat
  BY DEF SortInv, SortTypeOK
<1>2. /\ rows \in Seq(Rows) /\ Len(rows) = Size /\ DOMAIN rows = 1 .. Size
      /\ DOMAIN unsorted = 1 .. Size
  BY <1>1, FunctionIsSeq
<1>3. \A n \in 1 .. Size : rows[n].key \in Int
  <2>1. \A n \in 1 .. Size : rows[n] \in Rows
    BY <1>1
  <2> QED BY <2>1 DEF Rows
<1>4. Len(stack) <= Len(rows) - 1
  <2>1. CASE stack = <<>>
    <3>1. Len(stack) = 0
      BY <2>1
    <3> QED BY <1>1, <1>2, <3>1
  <2>2. CASE stack # <<>>
    <3> DEFINE k == Len(stack)
    <3>1. k \in 1 .. Len(stack) /\ stack[k] \in Part
      BY <1>1, <2>2
    <3>2. stack[k].lo \in Int /\ stack[k].hi \in Int
      BY <3>1 DEF Part
    <3>3. 1 <= stack[k].lo /\ stack[k].lo < stack[k].hi /\ stack[k].hi <= Size - (k - 1)
      BY <3>1 DEF SortInv, PartsApart
    <3> QED BY <1>1, <1>2, <3>2, <3>3
  <2> QED BY <2>1, <2>2
<1> SUFFICES ASSUME sorting = "done"
             PROVE  /\ \A n \in 1 .. Len(rows) - 1 : rows[n].key <= rows[n + 1].key
                    /\ {rows[n] : n \in DOMAIN rows} = {unsorted[n] : n \in DOMAIN unsorted}
                    /\ \A k \in SearchKeys : SearchesAgree(k)
  BY <1>4 DEF SortsInPlace
<1>5. \A i \in 1 .. Size : \A j \in i + 1 .. Size : rows[i].key <= rows[j].key
  <2>1. Len(stack) = 0
    BY DEF SortInv, PartsApart
  <2>2. \A i, j : ~Together(i, j)
    BY <2>1 DEF Together
  <2> QED BY <2>2 DEF SortInv, InOrder
<1>6. \A n \in 1 .. Len(rows) - 1 : rows[n].key <= rows[n + 1].key
  <2> SUFFICES ASSUME NEW n \in 1 .. Len(rows) - 1 PROVE rows[n].key <= rows[n + 1].key
    OBVIOUS
  <2>1. n \in 1 .. Size /\ n + 1 \in n + 1 .. Size
    BY <1>1, <1>2
  <2> QED BY <1>5, <2>1
<1>7. {rows[n] : n \in DOMAIN rows} = {unsorted[n] : n \in DOMAIN unsorted}
  BY <1>2 DEF SortInv, RowsKept
<1>8. Sorted(rows)
  <2> SUFFICES ASSUME NEW i \in 1 .. Size, NEW j \in i .. Size PROVE rows[i].key <= rows[j].key
    BY <1>2 DEF Sorted
  <2>1. i = j \/ j \in i + 1 .. Size
    BY <1>1
  <2>2. rows[i].key \in Int
    BY <1>3
  <2> QED BY <1>5, <2>1, <2>2
<1>9. ASSUME NEW k \in SearchKeys
      PROVE  SearchesAgree(k)
  <2> DEFINE class == [x \in Int |-> x \div 2]
  <2>1. k \in Int
    BY SortAssumption
  <2>2. class \in [Int -> Int] /\ \A x, y \in Int : x <= y => class[x] <= class[y]
    <3>1. \A x \in Int : x \div 2 \in Int
      OBVIOUS
    <3>2. \A x, y \in Int : x <= y => x \div 2 <= y \div 2
      OBVIOUS
    <3> QED BY <3>1, <3>2
  <2>3. {n \in DOMAIN rows : rows[n].key = k} = HasKey(rows, k)
    BY <1>2 DEF HasKey
  <2> HIDE DEF class
  <2>4. {n \in DOMAIN rows : class[rows[n].key] = k} = StartsWith(rows, class, k)
    BY <1>2 DEF StartsWith
  <2>5. find(rows, k) \in IF HasKey(rows, k) = {} THEN {None} ELSE HasKey(rows, k)
    BY <1>2, <1>8, <2>1, FindFinds
  <2>6. find_last(rows, k) = IF HasKey(rows, k) = {} THEN None ELSE Max(HasKey(rows, k))
    BY <1>1, <1>2, <1>8, <2>1, FindLastFinds
  <2>7. lookup(rows, class, k) = IF StartsWith(rows, class, k) = {} THEN None
                                 ELSE Min(StartsWith(rows, class, k))
    BY <1>2, <1>8, <2>1, <2>2, LookupFinds
  <2> QED BY <2>3, <2>4, <2>5, <2>6, <2>7 DEF SearchesAgree, class
<1> QED BY <1>6, <1>7, <1>9

(* quicksort() sorts any array of rows, no row is lost, and its stack of one  *)
(* entry less than there are rows suffices though it is never checked; then   *)
(* find(), find_last_string() and the lookup of a name find in the array what *)
(* a look at each row would (startle/support.c).                              *)
THEOREM Sorts == SortSpec => []SortsInPlace
<1>1. SortInit => SortInv
  BY SortInvInit
<1>2. SortInv /\ [quicksort]_sorter => SortInv'
  BY SortInvNext
<1>3. SortInv => SortsInPlace
  BY SortedWhenDone
<1> QED BY <1>1, <1>2, <1>3, PTL DEF SortSpec
-----------------------------------------------------------------------------
(* Chains of lists, and what is left of one.                               *)

Elems == [list : Nat, place : Nat]

\* A chain of lists, as ChainsAssumption has it.
IsChain ==
  /\ chain \in Seq([own : Nat, row : {"no", "list", "other"}]) \ {<<>>}
  /\ \A l \in DOMAIN chain : (chain[l].row = "list") = (l < Len(chain))

LEMMA ChainFacts ==
  ASSUME IsChain
  PROVE  /\ Len(chain) \in Nat \ {0} /\ DOMAIN chain = 1 .. Len(chain)
         /\ \A l \in 1 .. Len(chain) : /\ chain[l].own \in Nat
                                       /\ chain[l].row \in {"no", "list", "other"}
                                       /\ chain[l].row = "list" <=> l < Len(chain)
<1> DEFINE S == [own : Nat, row : {"no", "list", "other"}]
<1>1. chain \in Seq(S) /\ chain # <<>>
  BY DEF IsChain
<1>. HIDE DEF S
<1>2. Len(chain) \in Nat \ {0} /\ DOMAIN chain = 1 .. Len(chain)
  BY <1>1
<1>3. \A l \in 1 .. Len(chain) : chain[l] \in S
  BY <1>1
<1>4. \A l \in 1 .. Len(chain) : (chain[l].row = "list") = (l < Len(chain))
  BY <1>2 DEF IsChain
<1>. QED  BY <1>2, <1>3, <1>4 DEF S

\* Two sequences one after the other.
LEMMA OnePlace ==
  ASSUME NEW S, NEW s \in Seq(S), NEW t \in Seq(S)
  PROVE  /\ s \o t \in Seq(S) /\ Len(s \o t) = Len(s) + Len(t)
         /\ \A k \in 1 .. Len(s) : (s \o t)[k] = s[k]
         /\ \A k \in Len(s) + 1 .. Len(s) + Len(t) : (s \o t)[k] = t[k - Len(s)]
  OBVIOUS

LEMMA SameSequence ==
  ASSUME NEW S, NEW s \in Seq(S), NEW t \in Seq(S), Len(s) = Len(t),
         \A k \in 1 .. Len(s) : s[k] = t[k]
  PROVE  s = t
  OBVIOUS

\* How many elements list l has, without the lists it goes on in.
Own(l) == chain[l].own + IF chain[l].row = "other" THEN 1 ELSE 0

\* Those after the n-th.
Left(l, n) == [k \in 1 .. Own(l) - n |-> Elem(l, n + k)]

LEMMA LeftFacts ==
  ASSUME IsChain, NEW l \in 1 .. Len(chain), NEW n \in Nat
  PROVE  /\ Own(l) \in Nat
         /\ Left(l, n) \in Seq(Elems)
         /\ n <= Own(l) => Len(Left(l, n)) = Own(l) - n
         /\ n >= Own(l) => Left(l, n) = <<>>
         /\ n < Own(l) => Left(l, n) = <<Elem(l, n + 1)>> \o Left(l, n + 1)
<1>1. Own(l) \in Nat
  BY ChainFacts DEF Own
<1>a. \A k \in 1 .. Own(l) - n : Elem(l, n + k) \in Elems
  BY <1>1, ChainFacts DEF Elem, Elems
<1>3. n <= Own(l) => Left(l, n) \in Seq(Elems) /\ Len(Left(l, n)) = Own(l) - n
  <2>. HAVE n <= Own(l)
  <2>1. Own(l) - n \in Nat
    BY <1>1
  <2>2. Left(l, n) \in [1 .. Own(l) - n -> Elems]
    BY <1>a DEF Left
  <2>. QED  BY <2>1, <2>2
<1>4. n >= Own(l) => Left(l, n) = <<>>
  BY <1>1 DEF Left
<1>2. Left(l, n) \in Seq(Elems)
  <2>1. <<>> \in Seq(Elems)
    OBVIOUS
  <2>2. CASE n >= Own(l)
    <3>1. Left(l, n) = <<>>
      BY <1>4, <2>2
    <3>. QED  BY <2>1, <3>1, Zenon
  <2>3. CASE ~(n >= Own(l))
    <3>1. n <= Own(l)
      BY <1>1, <2>3
    <3>. QED  BY <1>3, <3>1
  <2>. QED  BY <2>2, <2>3
<1>5. ASSUME n < Own(l) PROVE Left(l, n) = <<Elem(l, n + 1)>> \o Left(l, n + 1)
  <2> DEFINE s == <<Elem(l, n + 1)>>
             t == Left(l, n + 1)
  <2>1. /\ Left(l, n) \in Seq(Elems) /\ t \in Seq(Elems) /\ s \in Seq(Elems)
        /\ Len(Left(l, n)) = Own(l) - n /\ Len(t) = Own(l) - n - 1 /\ Len(s) = 1
    <3>1. Own(l) - n - 1 \in Nat /\ 1 \in 1 .. Own(l) - n
      BY <1>1, <1>5
    <3>2. \A k \in 1 .. Own(l) - n - 1 : Elem(l, n + 1 + k) \in Elems
      BY <1>1, ChainFacts DEF Elem, Elems
    <3>3. t \in [1 .. Own(l) - n - 1 -> Elems]
      <4>1. Own(l) - (n + 1) = Own(l) - n - 1
        BY <1>1
      <4>. QED  BY <3>2, <4>1 DEF Left
    <3>4. Elem(l, n + 1) \in Elems
      BY <1>a, <3>1
    <3>5. t \in Seq(Elems) /\ Len(t) = Own(l) - n - 1
      BY <3>1, <3>3
    <3>6. s \in Seq(Elems) /\ Len(s) = 1
      BY <3>4
    <3>7. Left(l, n) \in Seq(Elems) /\ Len(Left(l, n)) = Own(l) - n
      BY <1>1, <1>3, <1>5
    <3>. QED  BY <3>5, <3>6, <3>7
  <2>2. \A k \in 1 .. Own(l) - n : Left(l, n)[k] = Elem(l, n + k)
    BY DEF Left
  <2>3. \A k \in 1 .. Own(l) - n - 1 : t[k] = Elem(l, n + 1 + k)
    BY <1>1 DEF Left
  <2>. HIDE DEF t, s
  <2>4. \A k \in 1 .. Own(l) - n : (s \o t)[k] = Elem(l, n + k)
    <3>. TAKE k \in 1 .. Own(l) - n
    <3>1. CASE k = 1
      BY <1>1, <1>5, <2>1, <3>1 DEF s
    <3>2. CASE k # 1
      <4>1. k - 1 \in 1 .. Own(l) - n - 1 /\ n + 1 + (k - 1) = n + k
        BY <1>1, <3>2
      <4>2. (s \o t)[k] = t[k - 1]
        <5>1. k \in Len(s) + 1 .. Len(s) + Len(t)
          BY <1>1, <2>1, <3>2
        <5>2. (s \o t)[k] = t[k - Len(s)]
          BY <2>1, <5>1, OnePlace
        <5>. QED  BY <2>1, <5>2
      <4>. QED  BY <2>3, <4>1, <4>2
    <3>. QED  BY <3>1, <3>2
  <2>5. s \o t \in Seq(Elems) /\ Len(s \o t) = Own(l) - n
    <3>1. s \o t \in Seq(Elems) /\ Len(s \o t) = Len(s) + Len(t)
      BY <2>1, OnePlace
    <3>. QED  BY <1>1, <2>1, <3>1
  <2>6. Left(l, n) = s \o t
    <3>1. \A k \in 1 .. Own(l) - n : Left(l, n)[k] = (s \o t)[k]
      BY <2>2, <2>4
    <3>. QED  BY <2>1, <2>5, <3>1, SameSequence
  <2>. QED  BY <2>6 DEF s, t
<1>. QED  BY <1>1, <1>2, <1>3, <1>4, <1>5

\* What f of Elements(l, n) says of list m.
FromList(f, l, n, m) ==
  IF m > Len(chain) THEN <<>> ELSE Left(m, IF m = l THEN n ELSE 0) \o f[m + 1]

\* There is such a function.
LEMMA ElementsUnfold ==
  ASSUME IsChain, NEW l \in 1 .. Len(chain) + 1, NEW n \in Nat
  PROVE  \E f : /\ f = [m \in l .. Len(chain) + 1 |-> FromList(f, l, n, m)]
                /\ Elements(l, n) = f[l]
<1> DEFINE N == Len(chain)
           Down(k) == \E f : f = [m \in k .. N + 1 |-> FromList(f, l, n, m)]
           T == {q \in Nat : q <= N + 1 - l /\ ~Down(N + 1 - q)}
<1>. N \in Nat /\ l \in Nat /\ l <= N + 1
  BY ChainFacts
<1>. HIDE DEF N
<1>1. Down(N + 1)
  <2> DEFINE f == [m \in N + 1 .. N + 1 |-> <<>>]
  <2>1. \A m \in N + 1 .. N + 1 : FromList(f, l, n, m) = <<>>
    BY DEF FromList, N
  <2>2. f = [m \in N + 1 .. N + 1 |-> FromList(f, l, n, m)]
    BY <2>1
  <2>. HIDE DEF f
  <2>. QED  BY <2>2
<1>2. ASSUME NEW k \in Nat, k <= N, Down(k + 1) PROVE Down(k)
  <2>1. PICK g : g = [m \in k + 1 .. N + 1 |-> FromList(g, l, n, m)]
    BY <1>2
  <2> DEFINE f == [m \in k .. N + 1 |-> IF m = k THEN FromList(g, l, n, k) ELSE g[m]]
  <2>2. ASSUME NEW m \in k .. N + 1 PROVE f[m] = FromList(f, l, n, m)
    <3>1. m \in Nat /\ (m # k => m \in k + 1 .. N + 1) /\ (m <= N => m + 1 \in k .. N + 1 /\ m + 1 # k)
      BY <1>2
    <3>2. f[m] = IF m = k THEN FromList(g, l, n, k) ELSE g[m]
      OBVIOUS
    <3>3. m <= N => f[m + 1] = g[m + 1]
      BY <3>1
    <3>. HIDE DEF f
    <3>4. f[m] = FromList(g, l, n, m)
      BY <2>1, <3>1, <3>2
    <3>5. m > N \/ m <= N
      BY <3>1
    <3>. QED  BY <3>3, <3>4, <3>5 DEF FromList, N
  <2>3. f = [m \in k .. N + 1 |-> FromList(f, l, n, m)]
    <3>1. f = [m \in k .. N + 1 |-> f[m]]
      OBVIOUS
    <3>. HIDE DEF f
    <3>. QED  BY <2>2, <3>1
  <2>. HIDE DEF f
  <2>. QED  BY <2>3
<1>. HIDE DEF Down
<1>3. T = {}
  <2>. SUFFICES ASSUME T # {} PROVE FALSE
    OBVIOUS
  <2>1. T \in SUBSET Nat
    OBVIOUS
  <2>2. PICK q \in T : \A y \in T : q <= y
    BY <2>1, LeastMember
  <2>3. q \in Nat /\ q <= N + 1 - l /\ ~Down(N + 1 - q)
    BY <2>2
  <2>4. q # 0
    <3>1. N + 1 - 0 = N + 1
      OBVIOUS
    <3>. QED  BY <1>1, <2>3, <3>1
  <2>5. q - 1 \in Nat /\ q - 1 <= N + 1 - l /\ ~(q <= q - 1)
    BY <2>3, <2>4
  <2>6. Down(N + 1 - (q - 1))
    BY <2>2, <2>5
  <2>7. N + 1 - q \in Nat /\ N + 1 - q <= N /\ N + 1 - (q - 1) = N + 1 - q + 1
    BY <2>3, <2>4
  <2>. QED  BY <1>2, <2>3, <2>6, <2>7
<1>4. Down(l)
  <2>1. N + 1 - l \in Nat /\ N + 1 - (N + 1 - l) = l /\ N + 1 - l <= N + 1 - l
    OBVIOUS
  <2>. QED  BY <1>3, <2>1
<1>5. PICK f : f = [m \in l .. N + 1 |-> FromList(f, l, n, m)]
  BY <1>4 DEF Down
<1> DEFINE h == CHOOSE f_1 : f_1 = [m \in l .. N + 1 |-> FromList(f_1, l, n, m)]
<1>6. h = [m \in l .. N + 1 |-> FromList(h, l, n, m)]
  BY <1>5
<1>7. Elements(l, n) = h[l]
  BY DEF Elements, FromList, Left, Own, N
<1>. HIDE DEF h
<1>. QED  BY <1>6, <1>7 DEF N

\* The elements of a list, and then those of the lists it goes on in.
LEMMA ElementsSplit ==
  ASSUME IsChain, NEW l \in 1 .. Len(chain) + 1, NEW n \in Nat
  PROVE  /\ l > Len(chain) => Elements(l, n) = <<>>
         /\ l <= Len(chain) => Elements(l, n) = Left(l, n) \o Elements(l + 1, 0)
<1> DEFINE N == Len(chain)
<1>. N \in Nat /\ l \in Nat /\ l <= N + 1
  BY ChainFacts
<1>1. PICK f : f = [m \in l .. N + 1 |-> FromList(f, l, n, m)] /\ Elements(l, n) = f[l]
  BY ElementsUnfold
<1>2. ASSUME l > N PROVE Elements(l, n) = <<>>
  <2>1. l \in l .. N + 1
    OBVIOUS
  <2>2. f[l] = FromList(f, l, n, l)
    BY <1>1, <2>1
  <2>. QED  BY <1>1, <1>2, <2>2 DEF FromList
<1>3. ASSUME l <= N PROVE Elements(l, n) = Left(l, n) \o Elements(l + 1, 0)
  <2>1. l + 1 \in 1 .. N + 1 /\ l + 1 \in Nat
    BY <1>3
  <2>2. PICK g : g = [m \in l + 1 .. N + 1 |-> FromList(g, l + 1, 0, m)] /\ Elements(l + 1, 0) = g[l + 1]
    BY <2>1, ElementsUnfold
  <2> DEFINE T == {q \in Nat : q <= N - l /\ f[N + 1 - q] # g[N + 1 - q]}
  <2>3. T = {}
    <3>. SUFFICES ASSUME T # {} PROVE FALSE
      OBVIOUS
    <3>1. T \in SUBSET Nat
      OBVIOUS
    <3>2. PICK q \in T : \A y \in T : q <= y
      BY <3>1, LeastMember
    <3> DEFINE m == N + 1 - q
    <3>3. q \in Nat /\ m \in l + 1 .. N + 1 /\ m \in l .. N + 1 /\ m # l /\ f[m] # g[m]
      BY <1>3, <3>2
    <3>4. f[m] = FromList(f, l, n, m) /\ g[m] = FromList(g, l + 1, 0, m)
      BY <1>1, <2>2, <3>3
    <3>5. CASE m > N
      BY <3>3, <3>4, <3>5 DEF FromList
    <3>6. CASE ~(m > N)
      <4>1. q - 1 \in Nat /\ q - 1 <= N - l /\ N + 1 - (q - 1) = m + 1 /\ ~(q <= q - 1)
        BY <3>3, <3>6
      <4>2. f[m + 1] = g[m + 1]
        BY <3>2, <4>1
      <4>. QED  BY <3>3, <3>4, <3>6, <4>2 DEF FromList
    <3>. QED  BY <3>5, <3>6
  <2>4. f[l + 1] = g[l + 1]
    <3>1. N - l \in Nat /\ N - l <= N - l /\ N + 1 - (N - l) = l + 1
      BY <1>3
    <3>. QED  BY <2>3, <3>1
  <2>5. f[l] = FromList(f, l, n, l) /\ ~(l > N)
    BY <1>1, <1>3
  <2>. QED  BY <1>1, <2>2, <2>4, <2>5 DEF FromList
<1>. QED  BY <1>2, <1>3

\* They are elements.
LEMMA ElementsType ==
  ASSUME IsChain, NEW l \in 1 .. Len(chain) + 1, NEW n \in Nat
  PROVE  Elements(l, n) \in Seq(Elems)
<1> DEFINE N == Len(chain)
           T == {q \in Nat : q <= N /\ ~(Elements(N + 1 - q, 0) \in Seq(Elems))}
<1>. N \in Nat /\ l \in Nat /\ l <= N + 1
  BY ChainFacts
<1>1. T = {}
  <2>. SUFFICES ASSUME T # {} PROVE FALSE
    OBVIOUS
  <2>1. T \in SUBSET Nat
    OBVIOUS
  <2>2. PICK q \in T : \A y \in T : q <= y
    BY <2>1, LeastMember
  <2> DEFINE m == N + 1 - q
  <2>3. q \in Nat /\ m \in 1 .. N + 1 /\ ~(Elements(m, 0) \in Seq(Elems))
    BY <2>2
  <2>4. CASE m > N
    <3>1. Elements(m, 0) = <<>>
      BY <2>3, <2>4, ElementsSplit
    <3>2. <<>> \in Seq(Elems)
      OBVIOUS
    <3>. QED  BY <2>3, <3>1, <3>2, Zenon
  <2>5. CASE ~(m > N)
    <3>1. q - 1 \in Nat /\ q - 1 <= N /\ N + 1 - (q - 1) = m + 1 /\ ~(q <= q - 1) /\ m \in 1 .. N
      BY <2>3, <2>5
    <3>2. Elements(m + 1, 0) \in Seq(Elems)
      BY <2>2, <3>1
    <3>3. Left(m, 0) \in Seq(Elems)
      BY <3>1, LeftFacts
    <3>4. Elements(m, 0) = Left(m, 0) \o Elements(m + 1, 0)
      <4>1. m \in 1 .. Len(chain) + 1 /\ m <= Len(chain) /\ 0 \in Nat
        BY <2>3, <3>1
      <4>. QED  BY <4>1, ElementsSplit, Zenon
    <3>5. Left(m, 0) \o Elements(m + 1, 0) \in Seq(Elems)
      BY <3>2, <3>3, OnePlace
    <3>. QED  BY <2>3, <3>4, <3>5, Zenon
  <2>. QED  BY <2>4, <2>5
<1>2. CASE l > N
  <2>1. Elements(l, n) = <<>>
    BY <1>2, ElementsSplit
  <2>2. <<>> \in Seq(Elems)
    OBVIOUS
  <2>. QED  BY <2>1, <2>2, Zenon
<1>3. CASE ~(l > N)
  <2>1. N - l \in Nat /\ N - l <= N /\ N + 1 - (N - l) = l + 1 /\ l \in 1 .. N
    BY <1>3
  <2>2. Elements(l + 1, 0) \in Seq(Elems)
    BY <1>1, <2>1
  <2>3. Left(l, n) \in Seq(Elems)
    BY <2>1, LeftFacts
  <2>4. Elements(l, n) = Left(l, n) \o Elements(l + 1, 0)
    <3>1. l <= Len(chain)
      BY <2>1
    <3>. QED  BY <3>1, ElementsSplit, Zenon
  <2>5. Left(l, n) \o Elements(l + 1, 0) \in Seq(Elems)
    BY <2>2, <2>3, OnePlace
  <2>. QED  BY <2>4, <2>5, Zenon
<1>. QED  BY <1>2, <1>3

-----------------------------------------------------------------------------
(* The iterator.                                                           *)

\* An iterator in list i.list, of whose elements it has returned i.index.
Position(i) ==
  /\ i \in [list : 1 .. Len(chain), index : Nat, size : Nat, row : BOOLEAN]
  /\ i.size = chain[i.list].own /\ i.row = HasRow(i.list)
  /\ i.index <= Own(i.list)

\* What it has left to return.
Rest(i) == Elements(i.list, i.index)

LEMMA BeginsThere ==
  ASSUME IsChain, NEW l \in 1 .. Len(chain)
  PROVE  Position(list_begin(l)) /\ list_begin(l).list = l /\ list_begin(l).index = 0
<1>1. chain[l].own \in Nat /\ HasRow(l) \in BOOLEAN
  BY ChainFacts DEF HasRow
<1>2. Own(l) \in Nat
  BY LeftFacts
<1>. QED  BY <1>1, <1>2 DEF Position, list_begin

\* Where an iteration from i on starts in list l.
In(i, l) == IF l = i.list THEN i ELSE list_begin(l)

LEMMA StartsThere ==
  ASSUME IsChain, NEW i, Position(i), NEW l \in 1 .. Len(chain)
  PROVE  Position(In(i, l)) /\ In(i, l).list = l
  BY BeginsThere DEF In

\* At a row that is a list, the iterator is at the end of another list.
LEMMA RowLeads ==
  ASSUME IsChain, NEW i, Position(i)
  PROVE  /\ RowIsList(i) <=> i.list < Len(chain) /\ i.index = Own(i.list)
         /\ i.list < Len(chain) => i.row /\ Own(i.list) = i.size
         /\ RowIsOther(i) <=> i.index = i.size /\ Own(i.list) = i.size + 1
         /\ Own(i.list) \in {i.size, i.size + 1}
         /\ Own(i.list) = i.size + 1 => i.row /\ i.list = Len(chain)
<1>1. i.list \in 1 .. Len(chain) /\ i.index \in Nat /\ i.size \in Nat
  BY DEF Position
<1>2. /\ chain[i.list].row \in {"no", "list", "other"}
      /\ chain[i.list].row = "list" <=> i.list < Len(chain)
      /\ chain[i.list].own = i.size
      /\ i.row <=> chain[i.list].row # "no"
  BY <1>1, ChainFacts DEF Position, HasRow
<1>3. Own(i.list) = IF chain[i.list].row = "other" THEN i.size + 1 ELSE i.size
  <2>1. CASE chain[i.list].row = "other"
    BY <1>2, <2>1 DEF Own
  <2>2. CASE chain[i.list].row # "other"
    <3>1. chain[i.list].own = i.size /\ i.size \in Nat
      BY <1>1, <1>2
    <3>. QED  BY <2>2, <3>1 DEF Own
  <2>. QED  BY <2>1, <2>2
<1>4. Len(chain) \in Nat
  BY ChainFacts
<1>. QED  BY <1>1, <1>2, <1>3, <1>4 DEF RowIsList, RowIsOther

\* What list_next() says of list l.
NextFrom(g, i, w, l) ==
  LET k == In(i, l)
  IN  IF RowIsList(k) THEN g[l + 1]
      ELSE IF k.index < k.size \/ (w /\ RowIsOther(k))
      THEN [it |-> [k EXCEPT !.index = @ + 1], elem |-> Elem(l, k.index + 1)]
      ELSE [it |-> k, elem |-> Null]

LEMMA NextUnfold ==
  ASSUME IsChain, NEW i, Position(i), NEW w
  PROVE  \E g : /\ g = [l \in i.list .. Len(chain) |-> NextFrom(g, i, w, l)]
                /\ list_next(i, w) = g[i.list]
<1> DEFINE N == Len(chain)
           b == i.list
           Down(k) == \E g : g = [l \in k .. N |-> NextFrom(g, i, w, l)]
           T == {q \in Nat : q <= N - b /\ ~Down(N - q)}
<1>. N \in Nat /\ b \in Nat /\ b \in 1 .. N
  BY ChainFacts DEF Position
<1>a. \A l \in b .. N : l >= N => ~RowIsList(In(i, l))
  <2>. TAKE l \in b .. N
  <2>. HAVE l >= N
  <2>1. l \in 1 .. N /\ ~(l < N)
    OBVIOUS
  <2>2. Position(In(i, l)) /\ In(i, l).list = l
    BY <2>1, StartsThere
  <2>. QED  BY <2>1, <2>2, RowLeads
<1>. HIDE DEF N, b
<1>1. Down(N)
  <2> DEFINE f == [l \in N .. N |-> NextFrom(<<>>, i, w, l)]
  <2>1. \A l \in N .. N : NextFrom(f, i, w, l) = NextFrom(<<>>, i, w, l)
    <3>. TAKE l \in N .. N
    <3>1. ~RowIsList(In(i, l))
      BY <1>a
    <3>. HIDE DEF f
    <3>. QED  BY <3>1 DEF NextFrom
  <2>2. f = [l \in N .. N |-> NextFrom(f, i, w, l)]
    BY <2>1
  <2>. HIDE DEF f
  <2>. QED  BY <2>2
<1>2. ASSUME NEW k \in Nat, b <= k, k < N, Down(k + 1) PROVE Down(k)
  <2>1. PICK g : g = [l \in k + 1 .. N |-> NextFrom(g, i, w, l)]
    BY <1>2
  <2> DEFINE f == [l \in k .. N |-> IF l = k THEN NextFrom(g, i, w, k) ELSE g[l]]
  <2>2. ASSUME NEW l \in k .. N PROVE f[l] = NextFrom(f, i, w, l)
    <3>1. /\ l \in Nat /\ l \in b .. N /\ (l # k => l \in k + 1 .. N)
          /\ (l < N => l + 1 \in k .. N /\ l + 1 # k)
      BY <1>2
    <3>2. f[l] = IF l = k THEN NextFrom(g, i, w, k) ELSE g[l]
      OBVIOUS
    <3>3. l < N => f[l + 1] = g[l + 1]
      BY <3>1
    <3>. HIDE DEF f
    <3>4. f[l] = NextFrom(g, i, w, l)
      BY <2>1, <3>1, <3>2
    <3>5. l < N \/ ~RowIsList(In(i, l))
      BY <1>a, <3>1
    <3>. QED  BY <3>3, <3>4, <3>5 DEF NextFrom
  <2>3. f = [l \in k .. N |-> NextFrom(f, i, w, l)]
    <3>1. f = [l \in k .. N |-> f[l]]
      OBVIOUS
    <3>. HIDE DEF f
    <3>. QED  BY <2>2, <3>1
  <2>. HIDE DEF f
  <2>. QED  BY <2>3
<1>. HIDE DEF Down
<1>3. T = {}
  <2>. SUFFICES ASSUME T # {} PROVE FALSE
    OBVIOUS
  <2>1. T \in SUBSET Nat
    OBVIOUS
  <2>2. PICK q \in T : \A y \in T : q <= y
    BY <2>1, LeastMember
  <2>3. q \in Nat /\ q <= N - b /\ ~Down(N - q)
    BY <2>2
  <2>4. q # 0
    <3>1. N - 0 = N
      OBVIOUS
    <3>. QED  BY <1>1, <2>3, <3>1
  <2>5. q - 1 \in Nat /\ q - 1 <= N - b /\ ~(q <= q - 1)
    BY <2>3, <2>4
  <2>6. Down(N - (q - 1))
    BY <2>2, <2>5
  <2>7. N - q \in Nat /\ b <= N - q /\ N - q < N /\ N - (q - 1) = N - q + 1
    BY <2>3, <2>4
  <2>. QED  BY <1>2, <2>3, <2>6, <2>7
<1>4. Down(b)
  <2>1. N - b \in Nat /\ N - (N - b) = b /\ N - b <= N - b
    OBVIOUS
  <2>. QED  BY <1>3, <2>1
<1>5. PICK g : g = [l \in b .. N |-> NextFrom(g, i, w, l)]
  BY <1>4 DEF Down
<1> DEFINE h == CHOOSE f_1 : f_1 = [l \in b .. N |-> NextFrom(f_1, i, w, l)]
<1>6. h = [l \in b .. N |-> NextFrom(h, i, w, l)]
  BY <1>5
<1>7. list_next(i, w) = h[b]
  BY DEF list_next, NextFrom, In, N, b
<1>. HIDE DEF h
<1>. QED  BY <1>6, <1>7 DEF N, b

\* What is left to return: nothing, or without the row what a row is that is
\* not a list.
AtEnd(i, w) ==
  /\ i.list = Len(chain) /\ i.index >= i.size
  /\ w => i.index = Own(i.list)

\* n is what list_next() should give at i.
Gives(n, i, w) ==
  /\ Position(n.it)
  /\ \/ n.elem # Null /\ n.elem \in Elems /\ Rest(i) = <<n.elem>> \o Rest(n.it)
     \/ n.elem = Null /\ Rest(i) = Rest(n.it) /\ AtEnd(n.it, w)

\* A sequence in three parts.
LEMMA ThreeParts ==
  ASSUME NEW S, NEW o \in Seq(S), NEW s \in Seq(S), NEW t \in Seq(S)
  PROVE  (o \o s) \o t = o \o (s \o t)
<1> DEFINE x == o \o s
           y == s \o t
           u == x \o t
           v == o \o y
<1>2. /\ x \in Seq(S) /\ Len(x) = Len(o) + Len(s)
      /\ \A k \in 1 .. Len(o) : x[k] = o[k]
      /\ \A k \in Len(o) + 1 .. Len(o) + Len(s) : x[k] = s[k - Len(o)]
  BY OnePlace
<1>3. /\ y \in Seq(S) /\ Len(y) = Len(s) + Len(t)
      /\ \A k \in 1 .. Len(s) : y[k] = s[k]
      /\ \A k \in Len(s) + 1 .. Len(s) + Len(t) : y[k] = t[k - Len(s)]
  BY OnePlace
<1>. HIDE DEF x, y
<1>4. /\ u \in Seq(S) /\ Len(u) = Len(x) + Len(t)
      /\ \A k \in 1 .. Len(x) : u[k] = x[k]
      /\ \A k \in Len(x) + 1 .. Len(x) + Len(t) : u[k] = t[k - Len(x)]
  <2>1. x \in Seq(S)
    BY <1>2
  <2>. QED  BY ONLY <2>1, OnePlace, t \in Seq(S)
<1>5. /\ v \in Seq(S) /\ Len(v) = Len(o) + Len(y)
      /\ \A k \in 1 .. Len(o) : v[k] = o[k]
      /\ \A k \in Len(o) + 1 .. Len(o) + Len(y) : v[k] = y[k - Len(o)]
  <2>1. y \in Seq(S)
    BY <1>3
  <2>. QED  BY ONLY <2>1, OnePlace, o \in Seq(S)
<1>. HIDE DEF u, v
<1>6. Len(o) \in Nat /\ Len(s) \in Nat /\ Len(t) \in Nat
  OBVIOUS
<1>7. /\ Len(x) = Len(o) + Len(s) /\ Len(u) = Len(o) + Len(s) + Len(t)
      /\ Len(v) = Len(o) + Len(s) + Len(t)
  BY <1>2, <1>3, <1>4, <1>5, <1>6
<1>8. ASSUME NEW k \in 1 .. Len(o) + Len(s) + Len(t) PROVE u[k] = v[k]
  <2>1. CASE k <= Len(o)
    <3>1. k \in 1 .. Len(o) /\ k \in 1 .. Len(x)
      BY <1>6, <1>7, <2>1
    <3>. QED  BY <1>2, <1>4, <1>5, <3>1
  <2>2. CASE k > Len(o) /\ k <= Len(o) + Len(s)
    <3>1. k \in Len(o) + 1 .. Len(o) + Len(s) /\ k \in 1 .. Len(x)
          /\ k \in Len(o) + 1 .. Len(o) + Len(y) /\ k - Len(o) \in 1 .. Len(s)
      BY <1>3, <1>6, <1>7, <2>2
    <3>2. u[k] = x[k] /\ x[k] = s[k - Len(o)]
      BY <1>2, <1>4, <3>1
    <3>3. v[k] = y[k - Len(o)] /\ y[k - Len(o)] = s[k - Len(o)]
      BY <1>3, <1>5, <3>1
    <3>. QED  BY <3>2, <3>3
  <2>3. CASE k > Len(o) + Len(s)
    <3>1. k \in Len(x) + 1 .. Len(x) + Len(t)
          /\ k \in Len(o) + 1 .. Len(o) + Len(y)
          /\ k - Len(o) \in Len(s) + 1 .. Len(s) + Len(t)
          /\ k - Len(x) = k - Len(o) - Len(s)
      BY <1>3, <1>6, <1>7, <2>3
    <3>2. u[k] = t[k - Len(x)]
      BY <1>4, <3>1
    <3>3. v[k] = y[k - Len(o)] /\ y[k - Len(o)] = t[k - Len(o) - Len(s)]
      BY <1>3, <1>5, <3>1
    <3>. QED  BY <3>1, <3>2, <3>3
  <2>4. k <= Len(o) \/ (k > Len(o) /\ k <= Len(o) + Len(s)) \/ k > Len(o) + Len(s)
    BY <1>6
  <2>. QED  BY <2>1, <2>2, <2>3, <2>4
<1>9. u = v
  BY <1>4, <1>5, <1>7, <1>8, SameSequence
<1>. QED  BY <1>9 DEF x, y, u, v

\* One step of it, if the lists from the next on do what they should.
LEMMA NextStep ==
  ASSUME IsChain, NEW k, Position(k), NEW w \in BOOLEAN, NEW n,
         RowIsList(k) => Gives(n, list_begin(k.list + 1), w),
         ~RowIsList(k) =>
           n = IF k.index < k.size \/ (w /\ RowIsOther(k))
               THEN [it |-> [k EXCEPT !.index = @ + 1], elem |-> Elem(k.list, k.index + 1)]
               ELSE [it |-> k, elem |-> Null]
  PROVE  Gives(n, k, w)
<1> DEFINE N == Len(chain)
           l == k.list
<1>a. N \in Nat /\ l \in 1 .. N /\ k.index \in Nat /\ k.size \in Nat /\ k.index <= Own(l)
  BY ChainFacts DEF Position
<1>b. l \in 1 .. N + 1 /\ l + 1 \in 1 .. N + 1 /\ l <= N /\ 0 \in Nat
  BY <1>a
<1>c. Own(l) \in Nat
  BY <1>a, LeftFacts
<1>1. N \in Nat /\ l \in 1 .. N /\ l \in 1 .. N + 1 /\ l <= N /\ k.index \in Nat /\ k.size \in Nat
      /\ Own(l) \in Nat /\ k.index <= Own(l)
  BY <1>a, <1>b, <1>c
<1>2. Rest(k) = Left(l, k.index) \o Elements(l + 1, 0)
  BY <1>1, ElementsSplit, Zenon DEF Rest
<1>3. Elements(l + 1, 0) \in Seq(Elems)
  BY <1>b, ElementsType
<1>4. CASE RowIsList(k)
  <2>1. l < N /\ k.index = Own(l)
    BY <1>4, RowLeads
  <2>2. Left(l, k.index) = <<>>
    BY <1>1, <2>1, LeftFacts
  <2>3. Rest(k) = Elements(l + 1, 0)
    BY <1>2, <1>3, <2>2
  <2>4. Rest(list_begin(l + 1)) = Elements(l + 1, 0)
    BY <1>1, <2>1, BeginsThere DEF Rest
  <2>. QED  BY <1>4, <2>3, <2>4 DEF Gives
<1>5. CASE ~RowIsList(k) /\ (k.index < k.size \/ (w /\ RowIsOther(k)))
  <2> DEFINE e == Elem(l, k.index + 1)
             m == [k EXCEPT !.index = @ + 1]
  <2>1. n.it = m /\ n.elem = e
    BY <1>5
  <2>2. k.index < Own(l)
    BY <1>1, <1>5, RowLeads
  <2>3. m.list = l /\ m.index = k.index + 1 /\ Position(m)
    BY <1>1, <2>2 DEF Position
  <2>4. e \in Elems /\ e # Null
    BY <1>1 DEF Elem, Elems, Null
  <2>5. Left(l, k.index) = <<e>> \o Left(l, k.index + 1)
    BY <1>1, <2>2, LeftFacts
  <2>a. k.index + 1 \in Nat
    BY <1>1
  <2>6. k.index + 1 \in Nat /\ Left(l, k.index + 1) \in Seq(Elems)
    BY <1>a, <2>a, LeftFacts
  <2>7. Rest(m) = Left(l, k.index + 1) \o Elements(l + 1, 0)
    BY <1>1, <2>3, <2>6, ElementsSplit, Zenon DEF Rest
  <2>. HIDE DEF e, m
  <2>8. Rest(k) = <<e>> \o Rest(m)
    <3>1. <<e>> \in Seq(Elems)
      BY <2>4
    <3>2. (<<e>> \o Left(l, k.index + 1)) \o Elements(l + 1, 0)
            = <<e>> \o (Left(l, k.index + 1) \o Elements(l + 1, 0))
      BY <1>3, <2>6, <3>1, ThreeParts
    <3>. QED  BY <1>2, <2>5, <2>7, <3>2
  <2>. QED  BY <2>1, <2>3, <2>4, <2>8 DEF Gives
<1>6. CASE ~RowIsList(k) /\ ~(k.index < k.size \/ (w /\ RowIsOther(k)))
  <2>1. n.it = k /\ n.elem = Null
    BY <1>6
  <2>2. k.index >= k.size /\ l = N
    BY <1>1, <1>6, RowLeads
  <2>3. w => k.index = Own(l)
    BY <1>1, <1>6, <2>2, RowLeads
  <2>. QED  BY <2>1, <2>2, <2>3 DEF Gives, AtEnd
<1>. QED  BY <1>4, <1>5, <1>6

\* list_next() gives the first element of what is left to return.
LEMMA NextGives ==
  ASSUME IsChain, NEW i, Position(i), NEW w \in BOOLEAN
  PROVE  Gives(list_next(i, w), i, w)
<1> DEFINE N == Len(chain)
           b == i.list
<1>. N \in Nat /\ b \in Nat /\ b \in 1 .. N
  BY ChainFacts DEF Position
<1>1. PICK g : g = [l \in b .. N |-> NextFrom(g, i, w, l)] /\ list_next(i, w) = g[b]
  BY NextUnfold
<1> DEFINE T == {q \in Nat : q <= N - b /\ ~Gives(g[N - q], In(i, N - q), w)}
<1>2. T = {}
  <2>. SUFFICES ASSUME T # {} PROVE FALSE
    OBVIOUS
  <2>1. T \in SUBSET Nat
    OBVIOUS
  <2>2. PICK q \in T : \A y \in T : q <= y
    BY <2>1, LeastMember
  <2> DEFINE l == N - q
             k == In(i, l)
  <2>3. q \in Nat /\ l \in b .. N /\ l \in 1 .. N /\ ~Gives(g[l], k, w)
    BY <2>2
  <2>4. Position(k) /\ k.list = l
    BY <2>3, StartsThere
  <2>5. g[l] = NextFrom(g, i, w, l)
    BY <1>1, <2>3
  <2>6. ASSUME RowIsList(k) PROVE Gives(g[l], list_begin(k.list + 1), w)
    <3>1. l < N
      BY <2>4, <2>6, RowLeads
    <3>2. q - 1 \in Nat /\ q - 1 <= N - b /\ N - (q - 1) = l + 1 /\ ~(q <= q - 1)
      BY <2>3, <3>1
    <3>3. Gives(g[l + 1], In(i, l + 1), w)
      BY <2>2, <3>2
    <3>4. In(i, l + 1) = list_begin(l + 1)
      <4>1. l + 1 # i.list
        BY <2>3
      <4>. QED  BY <4>1 DEF In
    <3>5. g[l] = g[l + 1]
      BY <2>5, <2>6 DEF NextFrom
    <3>. QED  BY <2>4, <3>3, <3>4, <3>5
  <2>. HIDE DEF k, l
  <2>7. ~RowIsList(k) =>
           g[l] = IF k.index < k.size \/ (w /\ RowIsOther(k))
                  THEN [it |-> [k EXCEPT !.index = @ + 1], elem |-> Elem(k.list, k.index + 1)]
                  ELSE [it |-> k, elem |-> Null]
    BY <2>4, <2>5 DEF NextFrom, k
  <2>8. Gives(g[l], k, w)
    BY <2>4, <2>6, <2>7, NextStep
  <2>. QED  BY <2>3, <2>8
<1>3. Gives(g[b], In(i, b), w)
  <2>1. N - b \in Nat /\ N - (N - b) = b /\ N - b <= N - b
    OBVIOUS
  <2>. QED  BY <1>2, <2>1
<1>. QED  BY <1>1, <1>3 DEF In

\* What list_remaining_size() says of list l.
SizeFrom(g, i, w, l) ==
  LET k == In(i, l)
      n == k.size + IF k.row /\ w THEN 1 ELSE 0
  IN  IF chain[l].row = "list" THEN k.size - k.index + g[l + 1]
      ELSE IF n > k.index THEN n - k.index ELSE 0

LEMMA SizeUnfold ==
  ASSUME IsChain, NEW i, Position(i), NEW w
  PROVE  \E g : /\ g = [l \in i.list .. Len(chain) |-> SizeFrom(g, i, w, l)]
                /\ list_remaining_size(i, w) = IF i.index > i.size THEN 0 ELSE g[i.list]
<1> DEFINE N == Len(chain)
           b == i.list
           Down(k) == \E g : g = [l \in k .. N |-> SizeFrom(g, i, w, l)]
           T == {q \in Nat : q <= N - b /\ ~Down(N - q)}
<1>. N \in Nat /\ b \in Nat /\ b \in 1 .. N
  BY ChainFacts DEF Position
<1>a. \A l \in b .. N : l >= N => chain[l].row # "list"
  BY ChainFacts
<1>. HIDE DEF N, b
<1>1. Down(N)
  <2> DEFINE f == [l \in N .. N |-> SizeFrom(<<>>, i, w, l)]
  <2>1. \A l \in N .. N : SizeFrom(f, i, w, l) = SizeFrom(<<>>, i, w, l)
    <3>. TAKE l \in N .. N
    <3>1. chain[l].row # "list"
      BY <1>a
    <3>. HIDE DEF f
    <3>. QED  BY <3>1 DEF SizeFrom
  <2>2. f = [l \in N .. N |-> SizeFrom(f, i, w, l)]
    BY <2>1
  <2>. HIDE DEF f
  <2>. QED  BY <2>2
<1>2. ASSUME NEW k \in Nat, b <= k, k < N, Down(k + 1) PROVE Down(k)
  <2>1. PICK g : g = [l \in k + 1 .. N |-> SizeFrom(g, i, w, l)]
    BY <1>2
  <2> DEFINE f == [l \in k .. N |-> IF l = k THEN SizeFrom(g, i, w, k) ELSE g[l]]
  <2>2. ASSUME NEW l \in k .. N PROVE f[l] = SizeFrom(f, i, w, l)
    <3>1. /\ l \in Nat /\ l \in b .. N /\ (l # k => l \in k + 1 .. N)
          /\ (l < N => l + 1 \in k .. N /\ l + 1 # k)
      BY <1>2
    <3>2. f[l] = IF l = k THEN SizeFrom(g, i, w, k) ELSE g[l]
      OBVIOUS
    <3>3. l < N => f[l + 1] = g[l + 1]
      BY <3>1
    <3>. HIDE DEF f
    <3>4. f[l] = SizeFrom(g, i, w, l)
      BY <2>1, <3>1, <3>2
    <3>5. l < N \/ chain[l].row # "list"
      BY <1>a, <3>1
    <3>. QED  BY <3>3, <3>4, <3>5 DEF SizeFrom
  <2>3. f = [l \in k .. N |-> SizeFrom(f, i, w, l)]
    <3>1. f = [l \in k .. N |-> f[l]]
      OBVIOUS
    <3>. HIDE DEF f
    <3>. QED  BY <2>2, <3>1
  <2>. HIDE DEF f
  <2>. QED  BY <2>3
<1>. HIDE DEF Down
<1>3. T = {}
  <2>. SUFFICES ASSUME T # {} PROVE FALSE
    OBVIOUS
  <2>1. T \in SUBSET Nat
    OBVIOUS
  <2>2. PICK q \in T : \A y \in T : q <= y
    BY <2>1, LeastMember
  <2>3. q \in Nat /\ q <= N - b /\ ~Down(N - q)
    BY <2>2
  <2>4. q # 0
    <3>1. N - 0 = N
      OBVIOUS
    <3>. QED  BY <1>1, <2>3, <3>1
  <2>5. q - 1 \in Nat /\ q - 1 <= N - b /\ ~(q <= q - 1)
    BY <2>3, <2>4
  <2>6. Down(N - (q - 1))
    BY <2>2, <2>5
  <2>7. N - q \in Nat /\ b <= N - q /\ N - q < N /\ N - (q - 1) = N - q + 1
    BY <2>3, <2>4
  <2>. QED  BY <1>2, <2>3, <2>6, <2>7
<1>4. Down(b)
  <2>1. N - b \in Nat /\ N - (N - b) = b /\ N - b <= N - b
    OBVIOUS
  <2>. QED  BY <1>3, <2>1
<1>5. PICK g : g = [l \in b .. N |-> SizeFrom(g, i, w, l)]
  BY <1>4 DEF Down
<1> DEFINE h == CHOOSE f_1 : f_1 = [l \in b .. N |-> SizeFrom(f_1, i, w, l)]
<1>6. h = [l \in b .. N |-> SizeFrom(h, i, w, l)]
  BY <1>5
<1>7. list_remaining_size(i, w) = IF i.index > i.size THEN 0 ELSE h[b]
  BY DEF list_remaining_size, SizeFrom, In, N, b
<1>. HIDE DEF h
<1>. QED  BY <1>6, <1>7 DEF N, b



\* Does the last list have a row that is not a list?
Ends == chain[Len(chain)].row = "other"

\* n is what list_remaining_size() should give at i.
Counts(n, i, w) ==
  /\ n = Len(Rest(i)) - IF ~w /\ Ends /\ Len(Rest(i)) > 0 THEN 1 ELSE 0
  /\ Ends /\ i.index = 0 => Len(Rest(i)) > 0

\* How many elements are left: those of the list, and those of the next ones.
LEMMA RestLength ==
  ASSUME IsChain, NEW i, Position(i)
  PROVE  /\ Rest(i) \in Seq(Elems) /\ Len(Rest(i)) \in Nat
         /\ i.list < Len(chain) =>
              Len(Rest(i)) = i.size - i.index + Len(Rest(list_begin(i.list + 1)))
         /\ i.list = Len(chain) => Len(Rest(i)) = Own(i.list) - i.index
<1> DEFINE N == Len(chain)
           l == i.list
<1>1. N \in Nat /\ l \in 1 .. N /\ i.index \in Nat /\ i.size \in Nat /\ i.index <= Own(l)
  BY ChainFacts DEF Position
<1>2. l \in 1 .. N + 1 /\ l + 1 \in 1 .. N + 1 /\ l <= N /\ 0 \in Nat
  BY <1>1
<1>3. Rest(i) = Left(l, i.index) \o Elements(l + 1, 0)
  BY <1>1, <1>2, ElementsSplit, Zenon DEF Rest
<1>4. Elements(l + 1, 0) \in Seq(Elems)
  BY <1>2, ElementsType
<1>5. Left(l, i.index) \in Seq(Elems) /\ Len(Left(l, i.index)) = Own(l) - i.index /\ Own(l) \in Nat
  BY <1>1, LeftFacts
<1>6. Len(Rest(i)) = Own(l) - i.index + Len(Elements(l + 1, 0))
  <2>1. Len(Left(l, i.index) \o Elements(l + 1, 0)) = Len(Left(l, i.index)) + Len(Elements(l + 1, 0))
    BY <1>4, <1>5, OnePlace
  <2>. QED  BY <1>3, <1>5, <2>1
<1>7. Rest(i) \in Seq(Elems)
  <2>1. Left(l, i.index) \o Elements(l + 1, 0) \in Seq(Elems)
    BY <1>4, <1>5, OnePlace
  <2>. QED  BY <1>3, <2>1, Zenon
<1>8. Len(Rest(i)) \in Nat
  BY <1>7
<1>9. ASSUME l < N PROVE Len(Rest(i)) = i.size - i.index + Len(Rest(list_begin(l + 1)))
  <2>1. Own(l) = i.size
    BY <1>9, RowLeads
  <2>2. l + 1 \in 1 .. N
    BY <1>1, <1>9
  <2>3. Rest(list_begin(l + 1)) = Elements(l + 1, 0)
    BY <2>2, BeginsThere DEF Rest
  <2>. QED  BY <1>6, <2>1, <2>3
<1>10. ASSUME l = N PROVE Len(Rest(i)) = Own(l) - i.index
  <2>1. l + 1 > N
    BY <1>1, <1>10
  <2>2. Elements(l + 1, 0) = <<>>
    BY <1>2, <2>1, ElementsSplit
  <2>3. Len(Elements(l + 1, 0)) = 0
    BY <2>2
  <2>. QED  BY <1>1, <1>5, <1>6, <2>3
<1>. QED  BY <1>7, <1>8, <1>9, <1>10

LEMMA SizeStep ==
  ASSUME IsChain, NEW k, Position(k), NEW w \in BOOLEAN, NEW n, NEW m,
         chain[k.list].row = "list" =>
           n = k.size - k.index + m /\ Counts(m, list_begin(k.list + 1), w),
         chain[k.list].row # "list" =>
           n = LET c == k.size + IF k.row /\ w THEN 1 ELSE 0
               IN  IF c > k.index THEN c - k.index ELSE 0
  PROVE  Counts(n, k, w)
<1> DEFINE N == Len(chain)
           l == k.list
           next == list_begin(l + 1)
<1>1. N \in Nat /\ l \in 1 .. N /\ k.index \in Nat /\ k.size \in Nat /\ k.index <= Own(l)
      /\ (chain[l].row = "list" <=> l < N)
  BY ChainFacts DEF Position
<1>2. Rest(k) \in Seq(Elems) /\ Len(Rest(k)) \in Nat
  BY RestLength
<1>3. CASE l < N
  <2>1. n = k.size - k.index + m /\ Counts(m, next, w)
    BY <1>1, <1>3
  <2>2. l + 1 \in 1 .. N
    BY <1>1, <1>3
  <2>3. Position(next) /\ next.index = 0
    BY <2>2, BeginsThere
  <2>4. Len(Rest(k)) = k.size - k.index + Len(Rest(next))
    BY <1>3, RestLength
  <2>5. Len(Rest(next)) \in Nat
    BY <2>3, RestLength
  <2>6. k.index <= k.size
    BY <1>1, <1>3, RowLeads
  <2>. HIDE DEF next
  <2>7. CASE Ends
    <3>1. Len(Rest(next)) > 0
      BY <2>1, <2>3, <2>7 DEF Counts
    <3>2. m = Len(Rest(next)) - IF ~w THEN 1 ELSE 0
      BY <2>1, <2>7, <3>1 DEF Counts
    <3>3. Len(Rest(k)) > 0
      BY <1>1, <2>4, <2>5, <2>6, <3>1
    <3>4. n = Len(Rest(k)) - IF ~w THEN 1 ELSE 0
      BY <1>1, <2>1, <2>4, <2>5, <3>2
    <3>. QED  BY <2>7, <3>3, <3>4 DEF Counts
  <2>8. CASE ~Ends
    <3>1. m = Len(Rest(next)) - 0
      BY <2>1, <2>8 DEF Counts
    <3>2. n = Len(Rest(k)) - 0
      BY <1>1, <2>1, <2>4, <2>5, <3>1
    <3>. QED  BY <2>8, <3>2 DEF Counts
  <2>. QED  BY <2>7, <2>8
<1>4. CASE l = N
  <2> DEFINE c == k.size + IF k.row /\ w THEN 1 ELSE 0
  <2>1. n = IF c > k.index THEN c - k.index ELSE 0
    BY <1>1, <1>4
  <2>2. Len(Rest(k)) = Own(l) - k.index
    BY <1>4, RestLength
  <2>3. k.row <=> chain[l].row # "no"
    BY DEF Position, HasRow
  <2>4. chain[l].row = "no" \/ chain[l].row = "other"
    BY <1>1, <1>4, ChainFacts
  <2>5. k.size = chain[l].own
    BY DEF Position
  <2>6. CASE Ends
    <3>1. Own(l) = k.size + 1 /\ k.row
      BY <1>4, <2>3, <2>5, <2>6 DEF Own, Ends
    <3>2. c = k.size + IF w THEN 1 ELSE 0
      BY <3>1
    <3>3. n = (Own(l) - k.index) - IF ~w /\ Own(l) - k.index > 0 THEN 1 ELSE 0
      <4>1. CASE w
        BY <1>1, <2>1, <3>1, <3>2, <4>1
      <4>2. CASE ~w
        BY <1>1, <2>1, <3>1, <3>2, <4>2
      <4>. QED  BY <4>1, <4>2
    <3>4. k.index = 0 => Own(l) - k.index > 0
      BY <1>1, <3>1
    <3>. QED  BY <2>2, <2>6, <3>3, <3>4 DEF Counts
  <2>7. CASE ~Ends
    <3>1. Own(l) = k.size + 0 /\ ~k.row
      BY <1>4, <2>3, <2>4, <2>5, <2>7 DEF Own, Ends
    <3>2. n = (Own(l) - k.index) - 0
      BY <1>1, <2>1, <3>1
    <3>. QED  BY <2>2, <2>7, <3>2 DEF Counts
  <2>. QED  BY <2>6, <2>7
<1>. QED  BY <1>1, <1>3, <1>4

\* list_remaining_size() counts what is left to return.
LEMMA SizeCounts ==
  ASSUME IsChain, NEW i, Position(i), NEW w \in BOOLEAN
  PROVE  Counts(list_remaining_size(i, w), i, w)
<1> DEFINE N == Len(chain)
           b == i.list
<1>. N \in Nat /\ b \in Nat /\ b \in 1 .. N
  BY ChainFacts DEF Position
<1>1. PICK g : /\ g = [l \in b .. N |-> SizeFrom(g, i, w, l)]
               /\ list_remaining_size(i, w) = IF i.index > i.size THEN 0 ELSE g[b]
  BY SizeUnfold
<1> DEFINE T == {q \in Nat : q <= N - b /\ ~Counts(g[N - q], In(i, N - q), w)}
<1>2. T = {}
  <2>. SUFFICES ASSUME T # {} PROVE FALSE
    OBVIOUS
  <2>1. T \in SUBSET Nat
    OBVIOUS
  <2>2. PICK q \in T : \A y \in T : q <= y
    BY <2>1, LeastMember
  <2> DEFINE l == N - q
             k == In(i, l)
  <2>3. q \in Nat /\ l \in b .. N /\ l \in 1 .. N /\ ~Counts(g[l], k, w)
    BY <2>2
  <2>4. Position(k) /\ k.list = l
    BY <2>3, StartsThere
  <2>5. g[l] = SizeFrom(g, i, w, l)
    BY <1>1, <2>3
  <2>6. ASSUME chain[l].row = "list" PROVE Counts(g[l + 1], list_begin(l + 1), w)
    <3>1. l < N
      BY <2>3, <2>6, ChainFacts
    <3>2. q - 1 \in Nat /\ q - 1 <= N - b /\ N - (q - 1) = l + 1 /\ ~(q <= q - 1)
      BY <2>3, <3>1
    <3>3. Counts(g[l + 1], In(i, l + 1), w)
      BY <2>2, <3>2
    <3>4. In(i, l + 1) = list_begin(l + 1)
      <4>1. l + 1 # i.list
        BY <2>3
      <4>. QED  BY <4>1 DEF In
    <3>. QED  BY <3>3, <3>4
  <2>. HIDE DEF k, l
  <2>7. chain[k.list].row = "list" =>
           g[l] = k.size - k.index + g[l + 1] /\ Counts(g[l + 1], list_begin(k.list + 1), w)
    BY <2>4, <2>5, <2>6 DEF SizeFrom, k
  <2>8. chain[k.list].row # "list" =>
           g[l] = LET c == k.size + IF k.row /\ w THEN 1 ELSE 0
                  IN  IF c > k.index THEN c - k.index ELSE 0
    BY <2>4, <2>5 DEF SizeFrom, k
  <2>9. Counts(g[l], k, w)
    BY <2>4, <2>7, <2>8, SizeStep
  <2>. QED  BY <2>3, <2>9
<1>3. Counts(g[b], i, w)
  <2>1. N - b \in Nat /\ N - (N - b) = b /\ N - b <= N - b
    OBVIOUS
  <2>2. Counts(g[b], In(i, b), w)
    BY <1>2, <2>1
  <2>. QED  BY <2>2 DEF In
<1>4. CASE i.index > i.size
  <2>1. i.index = Own(i.list) /\ i.list = N /\ i.index # 0 /\ i.index \in Nat
    BY <1>4, RowLeads DEF Position
  <2>2. Len(Rest(i)) = 0
    BY <2>1, RestLength
  <2>. QED  BY <1>1, <1>4, <2>1, <2>2 DEF Counts
<1>5. CASE ~(i.index > i.size)
  BY <1>1, <1>3, <1>5
<1>. QED  BY <1>4, <1>5

-----------------------------------------------------------------------------
(* The reader.                                                             *)

\* What it has returned and what it has left are the elements of the lists.
ReaderInv ==
  /\ IsChain /\ include_row \in BOOLEAN
  /\ given \in Seq(Elems)
  /\ Position(it)
  /\ given \o Rest(it) = Elements(1, 0)
  /\ ~iterating => AtEnd(it, include_row)

LEMMA ReaderInit == ListsInit => ReaderInv
<1>. SUFFICES ASSUME ListsInit PROVE ReaderInv
  OBVIOUS
<1>1. IsChain
  BY ChainsAssumption DEF ListsInit, IsChain
<1>2. 1 \in 1 .. Len(chain) /\ 1 \in 1 .. Len(chain) + 1
  BY <1>1, ChainFacts
<1>3. Position(it) /\ Rest(it) = Elements(1, 0)
  BY <1>1, <1>2, BeginsThere DEF ListsInit, Rest
<1>4. Elements(1, 0) \in Seq(Elems)
  BY <1>1, <1>2, ElementsType
<1>5. given = <<>> /\ <<>> \in Seq(Elems)
  BY DEF ListsInit
<1>6. given \o Rest(it) = Elements(1, 0)
  <2>1. <<>> \o Elements(1, 0) = Elements(1, 0)
    BY <1>4
  <2>. QED  BY <1>3, <1>5, <2>1
<1>. QED  BY <1>1, <1>3, <1>5, <1>6 DEF ReaderInv, ListsInit

\* One element more is one less that is left.
LEMMA MovesOver ==
  ASSUME NEW g \in Seq(Elems), NEW r \in Seq(Elems), NEW e \in Elems
  PROVE  Append(g, e) \in Seq(Elems) /\ Append(g, e) \o r = g \o (<<e>> \o r)
<1>1. <<e>> \in Seq(Elems)
  OBVIOUS
<1>2. Append(g, e) = g \o <<e>>
  OBVIOUS
<1>3. (g \o <<e>>) \o r = g \o (<<e>> \o r)
  BY <1>1, ThreeParts
<1>4. Append(g, e) \in Seq(Elems)
  OBVIOUS
<1>. QED  BY <1>2, <1>3, <1>4

LEMMA ReaderStep == ReaderInv /\ [flat_copy]_reader => ReaderInv'
<1>. SUFFICES ASSUME ReaderInv, [flat_copy]_reader PROVE ReaderInv'
  OBVIOUS
<1>1. CASE flat_copy
  <2> DEFINE n == list_next(it, include_row)
  <2>1. IsChain /\ include_row \in BOOLEAN /\ Position(it) /\ given \in Seq(Elems)
    BY DEF ReaderInv
  <2>2. Gives(n, it, include_row)
    BY <2>1, NextGives
  <2>. HIDE DEF n
  <2>3. /\ it' = n.it /\ given' = (IF n.elem = Null THEN given ELSE Append(given, n.elem))
        /\ iterating' = (n.elem # Null)
        /\ chain' = chain /\ include_row' = include_row
    BY <1>1 DEF flat_copy, n
  <2>4. /\ Position(it)' <=> Position(n.it)
        /\ AtEnd(it, include_row)' <=> AtEnd(n.it, include_row)
    BY <2>3 DEF Position, AtEnd, Own, HasRow
  <2>5. Rest(it)' = Rest(n.it) /\ Elements(1, 0)' = Elements(1, 0)
    BY <2>3 DEF Rest, Elements
  <2>6. IsChain'
    BY <2>1, <2>3 DEF IsChain
  <2>7. Rest(n.it) \in Seq(Elems)
    BY <2>1, <2>2, RestLength DEF Gives
  <2>8. CASE n.elem # Null /\ n.elem \in Elems /\ Rest(it) = <<n.elem>> \o Rest(n.it)
    <3>1. given' = Append(given, n.elem) /\ iterating'
      BY <2>3, <2>8
    <3>2. /\ Append(given, n.elem) \in Seq(Elems)
          /\ Append(given, n.elem) \o Rest(n.it) = given \o (<<n.elem>> \o Rest(n.it))
      BY <2>1, <2>7, <2>8, MovesOver
    <3>3. given \o Rest(it) = Elements(1, 0)
      BY DEF ReaderInv
    <3>4. given' \o Rest(it)' = Elements(1, 0)'
      BY <2>5, <2>8, <3>1, <3>2, <3>3
    <3>5. given' \in Seq(Elems)
      BY <3>1, <3>2
    <3>. QED  BY <2>1, <2>2, <2>3, <2>4, <2>6, <3>1, <3>4, <3>5 DEF ReaderInv, Gives
  <2>9. CASE n.elem = Null /\ Rest(it) = Rest(n.it) /\ AtEnd(n.it, include_row)
    <3>1. given' = given
      BY <2>3, <2>9
    <3>2. given \o Rest(it) = Elements(1, 0)
      BY DEF ReaderInv
    <3>3. given' \o Rest(it)' = Elements(1, 0)'
      BY <2>5, <2>9, <3>1, <3>2
    <3>. QED  BY <2>1, <2>2, <2>3, <2>4, <2>6, <2>9, <3>1, <3>3 DEF ReaderInv, Gives
  <2>. QED  BY <2>2, <2>8, <2>9 DEF Gives
<1>2. CASE UNCHANGED reader
  <2>1. chain' = chain /\ include_row' = include_row /\ it' = it /\ given' = given /\ iterating' = iterating
    BY <1>2 DEF reader
  <2>2. IsChain' /\ Position(it)' /\ (~iterating' => AtEnd(it, include_row)')
    BY <2>1 DEF ReaderInv, IsChain, Position, AtEnd, Own, HasRow
  <2>3. Rest(it)' = Rest(it) /\ Elements(1, 0)' = Elements(1, 0)
    BY <2>1 DEF Rest, Elements
  <2>. QED  BY <2>1, <2>2, <2>3 DEF ReaderInv
<1>. QED  BY <1>1, <1>2

\* The invariant says that the lists are read through.
LEMMA ReadThrough == ReaderInv => ListsReadThrough
<1>. SUFFICES ASSUME ReaderInv PROVE ListsReadThrough
  OBVIOUS
<1> DEFINE all  == Elements(1, 0)
           rest == list_rest(it)
           left == Len(all) - Len(given)
           last == IF Ends /\ left > 0 THEN 1 ELSE 0
<1>1. /\ IsChain /\ include_row \in BOOLEAN /\ given \in Seq(Elems) /\ Position(it)
      /\ given \o Rest(it) = all
      /\ ~iterating => AtEnd(it, include_row)
  BY DEF ReaderInv
<1>2. Rest(it) \in Seq(Elems) /\ Len(Rest(it)) \in Nat
  BY <1>1, RestLength
<1>3. all \in Seq(Elems) /\ Len(all) = Len(given) + Len(Rest(it)) /\ Len(given) \in Nat
  <2>1. given \in Seq(Elems) /\ Rest(it) \in Seq(Elems)
    BY <1>1, <1>2
  <2>2. /\ given \o Rest(it) \in Seq(Elems)
        /\ Len(given \o Rest(it)) = Len(given) + Len(Rest(it))
    BY ONLY <2>1, OnePlace
  <2>3. given \o Rest(it) = all
    BY <1>1
  <2>4. all \in Seq(Elems) /\ Len(all) = Len(given) + Len(Rest(it))
    BY <2>2, <2>3, Zenon
  <2>. QED  BY <2>1, <2>4
<1>4. left = Len(Rest(it))
  BY <1>2, <1>3
<1>5. given = SubSeq(all, 1, Len(given))
  <2>1. \A k \in 1 .. Len(given) : all[k] = given[k]
    BY <1>1, <1>2, OnePlace
  <2>2. Len(given) <= Len(all)
    BY <1>2, <1>3
  <2> DEFINE p == SubSeq(all, 1, Len(given))
  <2>3. p \in Seq(Elems) /\ Len(p) = Len(given) /\ \A k \in 1 .. Len(given) : p[k] = all[k]
    BY <1>3, <2>2
  <2>. HIDE DEF p
  <2>4. given = p
    BY <1>1, <2>1, <2>3, SameSequence
  <2>. QED  BY <2>4 DEF p
<1>6. /\ list_remaining_size(it, TRUE) = left
      /\ list_remaining_size(it, FALSE) = left - last
  <2>1. Counts(list_remaining_size(it, TRUE), it, TRUE) /\ Counts(list_remaining_size(it, FALSE), it, FALSE)
    BY <1>1, SizeCounts
  <2>2. list_remaining_size(it, TRUE) = Len(Rest(it)) - 0
    BY <2>1 DEF Counts
  <2>3. list_remaining_size(it, FALSE) = Len(Rest(it)) - last
    BY <1>4, <2>1 DEF Counts
  <2>4. list_remaining_size(it, TRUE) = Len(Rest(it))
    <3> DEFINE c == Len(Rest(it))
               r == list_remaining_size(it, TRUE)
    <3>1. c \in Nat
      BY <1>2
    <3>2. r = c - 0
      BY <2>2
    <3>. HIDE DEF c, r
    <3>3. r = c
      BY <3>1, <3>2
    <3>. QED  BY <3>3, Zenon DEF c, r
  <2>. HIDE DEF last, left
  <2>5. list_remaining_size(it, TRUE) = left
    BY <1>4, <2>4
  <2>6. list_remaining_size(it, FALSE) = left - last
    BY <1>4, <2>3
  <2>. QED  BY <2>5, <2>6
<1>7. ~iterating => left = IF include_row THEN 0 ELSE last
  <2>. HAVE ~iterating
  <2>1. it.list = Len(chain) /\ it.index >= it.size /\ (include_row => it.index = Own(it.list))
    BY <1>1 DEF AtEnd
  <2>2. left = Own(it.list) - it.index
    BY <1>1, <1>4, <2>1, RestLength
  <2>3. /\ it.index \in Nat /\ it.size \in Nat /\ it.index <= Own(it.list)
        /\ it.list \in 1 .. Len(chain) /\ it.size = chain[it.list].own
    BY <1>1 DEF Position
  <2>4. Own(it.list) = IF Ends THEN it.size + 1 ELSE it.size
    <3>1. CASE Ends
      BY <2>1, <2>3, <3>1 DEF Own, Ends
    <3>2. CASE ~Ends
      <4>1. Own(it.list) = it.size + 0
        BY <2>1, <2>3, <3>2 DEF Own, Ends
      <4>. QED  BY <2>3, <3>2, <4>1
    <3>. QED  BY <3>1, <3>2
  <2>5. CASE include_row
    BY <2>1, <2>2, <2>3, <2>4, <2>5
  <2>6. CASE ~include_row
    <3>1. CASE Ends
      <4>1. left \in {0, 1}
        BY <2>1, <2>2, <2>3, <2>4, <3>1
      <4>. QED  BY <2>6, <3>1, <4>1
    <3>2. CASE ~Ends
      <4>1. left = 0
        BY <2>1, <2>2, <2>3, <2>4, <3>2
      <4>. QED  BY <2>6, <3>2, <4>1
    <3>. QED  BY <3>1, <3>2
  <2>. QED  BY <2>5, <2>6
<1>8. given \o Elements(rest.list, rest.after) = all /\ rest.row = (chain[rest.list].row # "no")
  <2>1. /\ it.list \in 1 .. Len(chain) /\ it.index \in Nat /\ it.row = HasRow(it.list)
        /\ it.size \in Nat
    BY <1>1 DEF Position
  <2>2. CASE it.index = 0
    <3>1. rest = [list |-> it.list, after |-> 0, row |-> it.row]
      BY <2>2 DEF list_rest
    <3>. QED  BY <1>1, <2>1, <2>2, <3>1 DEF Rest, HasRow
  <2> DEFINE left_here == it.size - it.index + IF it.row THEN 1 ELSE 0
  <2>3. CASE it.index # 0 /\ left_here = 1 /\ RowIsList(it)
    <3>1. rest = [list |-> it.list + 1, after |-> 0, row |-> HasRow(it.list + 1)]
      BY <2>1, <2>3 DEF list_rest
    <3>2. it.list < Len(chain) /\ it.index = Own(it.list)
      BY <1>1, <2>3, RowLeads
    <3>3. Rest(it) = Elements(it.list + 1, 0)
      <4>1. it.list \in 1 .. Len(chain) + 1 /\ it.list + 1 \in 1 .. Len(chain) + 1 /\ it.list <= Len(chain)
        BY <2>1, <3>2, ChainFacts, <1>1
      <4>2. Elements(it.list, it.index) = Left(it.list, it.index) \o Elements(it.list + 1, 0)
        BY <1>1, <2>1, <4>1, ElementsSplit, Zenon
      <4>3. Left(it.list, it.index) = <<>>
        <5>1. it.index >= Own(it.list)
          BY <2>1, <3>2
        <5>. QED  BY <1>1, <2>1, <5>1, LeftFacts
      <4>4. Elements(it.list + 1, 0) \in Seq(Elems)
        BY <1>1, <4>1, ElementsType
      <4>5. <<>> \o Elements(it.list + 1, 0) = Elements(it.list + 1, 0)
        BY <4>4
      <4>. QED  BY <4>2, <4>3, <4>5 DEF Rest
    <3>. QED  BY <1>1, <3>1, <3>3 DEF HasRow
  <2>4. CASE it.index # 0 /\ ~(left_here = 1 /\ RowIsList(it))
    <3>1. rest = [list |-> it.list, after |-> it.index, row |-> it.row]
      BY <2>1, <2>4 DEF list_rest
    <3>. QED  BY <1>1, <2>1, <3>1 DEF Rest, HasRow
  <2>. QED  BY <2>2, <2>3, <2>4
<1>. HIDE DEF rest
<1>. QED  BY <1>5, <1>6, <1>7, <1>8 DEF ListsReadThrough, Ends, rest

\* An iteration returns the elements of a list and of its rows from left to
\* right, each once; at any time the number of elements that are left and the
\* list of them are right (list_next(), list_remaining_size(), list_rest()).
THEOREM ReadsThrough == ListsSpec => []ListsReadThrough
<1>1. ListsInit => ReaderInv
  BY ReaderInit
<1>2. ReaderInv /\ [flat_copy]_reader => ReaderInv'
  BY ReaderStep
<1>3. ReaderInv => ListsReadThrough
  BY ReadThrough
<1>. QED  BY <1>1, <1>2, <1>3, PTL DEF ListsSpec
=============================================================================

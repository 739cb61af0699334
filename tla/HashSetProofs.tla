---------------------------- MODULE HashSetProofs ----------------------------
(***************************************************************************)
(* Proofs about the hash set, for every length of the array and every set  *)
(* of keys.                                                                *)
(*                                                                         *)
(* That no key is lost, and none in two slots that no client asked for     *)
(* twice over a hole, needs Whole: while the array has no holes the keys   *)
(* that one passes on the way from its home are as far from theirs, so an  *)
(* insertion comes to the slot that has its key before it changes one.     *)
(* That a set is only full when it is needs VisitedFilled: the slots       *)
(* behind the loop are filled, and after Size steps those are all slots.   *)
(***************************************************************************)
EXTENDS HashSet, WellFoundedInduction, TLAPS

\* The remainder of a number below twice the divisor.
LEMMA SmallMod ==
  ASSUME NEW n \in Nat \ {0}, NEW r \in 0 .. n - 1
  PROVE  r % n = r /\ (n + r) % n = r
  OBVIOUS

\* A home and a distance are in range.
LEMMA HomeType ==
  ASSUME NEW k \in Nat
  PROVE  Home(k) \in Slots /\ \A s \in Slots : Distance(k, s) \in Slots
  <1>1. \A m \in Nat : m % Size \in Slots
    BY SizeAssumption DEF Slots
  <1>2. Home(k) \in Slots
    BY <1>1 DEF Home
  <1>3. ASSUME NEW s \in Slots PROVE Distance(k, s) \in Slots
    <2>1. Size + s - Home(k) \in Nat
      BY <1>2, SizeAssumption DEF Slots
    <2> QED BY <1>1, <2>1 DEF Distance
  <1> QED BY <1>2, <1>3

\* The slot after slot s.
LEMMA NextSlot ==
  ASSUME NEW s \in Slots
  PROVE  (s + 1) % Size = (IF s + 1 = Size THEN 0 ELSE s + 1) /\ (s + 1) % Size \in Slots
  <1>1. CASE s + 1 = Size
    <2>1. (Size + 0) % Size = 0
      BY SmallMod, SizeAssumption
    <2> QED BY <1>1, <2>1, SizeAssumption DEF Slots
  <1>2. CASE s + 1 # Size
    <2>1. s + 1 \in 0 .. Size - 1
      BY <1>2, SizeAssumption DEF Slots
    <2> QED BY <1>2, <2>1, SmallMod, SizeAssumption DEF Slots
  <1> QED BY <1>1, <1>2

-----------------------------------------------------------------------------
\* A slot that is not empty holds a number, and so does the loop.
LEMMA Numbers ==
  ASSUME TypeOK
  PROVE  /\ j \in Slots /\ d \in Nat /\ i \in Nat
         /\ \A s \in Slots : set[s] \in Nat
         /\ pc = "insert" => x \in Keys /\ x \in Nat /\ x # 0
  <1>1. j \in Slots /\ d \in Nat /\ i \in Nat
    BY SizeAssumption DEF TypeOK
  <1>2. \A s \in Slots : set[s] \in Nat
    <2>1. set \in [Slots -> Keys \cup {0}]
      BY DEF TypeOK
    <2>2. Keys \cup {0} \subseteq Nat
      BY KeysAssumption
    <2> QED BY <2>1, <2>2
  <1>3. pc = "insert" => x \in Keys /\ x \in Nat /\ x # 0
    BY KeysAssumption DEF TypeOK
  <1> QED BY <1>1, <1>2, <1>3

\* Every call keeps the types.
LEMMA NextType == TypeOK /\ [Next]_vars => TypeOK'
  <1> SUFFICES ASSUME TypeOK, [Next]_vars PROVE TypeOK'
    OBVIOUS
  <1> USE SizeAssumption, KeysAssumption
  <1>0. 0 \in Slots
    BY DEF Slots
  <1>1. ASSUME NEW k \in Keys, set_insert(k) PROVE TypeOK'
    <2>1. Home(k) \in Slots
      BY HomeType
    <2> QED BY <1>1, <2>1 DEF set_insert, Ready, TypeOK
  <1>2. CASE InsertHere
    <2>1. set' \in [Slots -> Keys \cup {0}]
      BY <1>2 DEF InsertHere, TypeOK
    <2>2. /\ pc' = "idle" /\ x' = 0 /\ j' = 0 /\ d' = 0 /\ i' = 0 /\ holes' = holes /\ again' = again
          /\ result' \in {"true", "false"} /\ members' = members
      BY <1>2 DEF InsertHere, Return
    <2>3. 0 \in 0 .. Size
      OBVIOUS
    <2> QED BY <1>0, <2>1, <2>2, <2>3 DEF TypeOK
  <1>3. CASE InsertNext
    <2>1. set[j] \in Keys /\ x \in Keys /\ pc = "insert"
      BY <1>3 DEF InsertNext, TypeOK
    <2>2. j' \in Slots
      BY <1>3, NextSlot DEF InsertNext, TypeOK
    <2>3. i' \in 0 .. Size
      BY <1>3 DEF InsertNext, TypeOK
    <2>4. Distance(set[j], j) \in Nat
      <3>1. set[j] \in Nat /\ j \in Slots
        BY <2>1 DEF TypeOK
      <3>2. Distance(set[j], j) \in Slots
        BY <3>1, HomeType
      <3> QED BY <3>2 DEF Slots
    <2>5. /\ set' \in [Slots -> Keys \cup {0}]
          /\ x' \in Keys
          /\ d' \in Nat
      <3>1. CASE Nearer(set[j])
        BY <1>3, <2>1, <2>4, <3>1 DEF InsertNext, Carried, TypeOK
      <3>2. CASE ~Nearer(set[j])
        BY <1>3, <2>1, <3>2 DEF InsertNext, TypeOK
      <3> QED BY <3>1, <3>2
    <2> QED BY <1>3, <2>2, <2>3, <2>5 DEF InsertNext, TypeOK
  <1>4. CASE InsertFull
    <2>1. /\ pc' = "idle" /\ x' = 0 /\ j' = 0 /\ d' = 0 /\ i' = 0 /\ holes' = holes /\ again' = again
          /\ result' = "full" /\ members' \subseteq members /\ set' = set
      BY <1>4 DEF InsertFull, Return
    <2>2. 0 \in 0 .. Size
      OBVIOUS
    <2> QED BY <1>0, <2>1, <2>2 DEF TypeOK
  <1>5. ASSUME NEW k \in Keys, set_remove(k) PROVE TypeOK'
    <2>1. set' \in [Slots -> Keys \cup {0}] /\ holes' \in BOOLEAN /\ again' \subseteq Keys
      BY <1>5 DEF set_remove, Removed, TypeOK
    <2> QED BY <1>5, <2>1 DEF set_remove, TypeOK
  <1>6. ASSUME NEW k \in Keys, set_member(k) PROVE TypeOK'
    BY <1>6 DEF set_member, TypeOK
  <1>7. CASE rt_init
    BY <1>7 DEF rt_init, TypeOK
  <1>8. CASE UNCHANGED vars
    BY <1>8 DEF vars, TypeOK
  <1> QED BY <1>1, <1>2, <1>3, <1>4, <1>5, <1>6, <1>7, <1>8 DEF Next

\* The first state is well typed.
LEMMA InitType == Init => TypeOK
  <1> SUFFICES ASSUME Init PROVE TypeOK
    OBVIOUS
  <1>1. 0 \in Slots
    BY SizeAssumption DEF Slots
  <1>2. set \in [Slots -> Keys \cup {0}]
    BY DEF Init
  <1>3. d \in Nat /\ i \in 0 .. Size
    BY SizeAssumption DEF Init
  <1> QED BY <1>1, <1>2, <1>3 DEF Init, TypeOK

\* The variables keep their types, and the loop stays inside the array.
THEOREM TypeCorrect == Spec => []TypeOK
  BY InitType, NextType, PTL DEF Spec

-----------------------------------------------------------------------------
(* Distances.                                                              *)

\* The distance of a slot, without the remainder.
LEMMA DistanceIs ==
  ASSUME NEW k \in Nat, NEW s \in Slots
  PROVE  Distance(k, s) = IF Home(k) <= s THEN s - Home(k) ELSE Size + s - Home(k)
  <1> DEFINE h == Home(k)
  <1>1. h \in Slots
    BY HomeType
  <1>2. Distance(k, s) = (Size + s - h) % Size
    BY DEF Distance
  <1> HIDE DEF h
  <1> USE SizeAssumption DEF Slots
  <1>3. CASE h <= s
    <2>1. s - h \in 0 .. Size - 1
      BY <1>1, <1>3
    <2>2. (Size + (s - h)) % Size = s - h
      BY <2>1, SmallMod
    <2>3. Size + (s - h) = Size + s - h
      BY <1>1
    <2> QED BY <1>2, <1>3, <2>2, <2>3 DEF h
  <1>4. CASE ~(h <= s)
    <2>1. Size + s - h \in 0 .. Size - 1
      BY <1>1, <1>4
    <2>2. (Size + s - h) % Size = Size + s - h
      BY <2>1, SmallMod
    <2> QED BY <1>2, <1>4, <2>2 DEF h
  <1> QED BY <1>3, <1>4

\* The home of a key is at distance 0, no two slots are at the same, and the
\* next slot is one further.
LEMMA Distances ==
  ASSUME NEW k \in Nat
  PROVE  /\ \A s \in Slots : Distance(k, s) \in Nat /\ Distance(k, s) < Size
         /\ Distance(k, Home(k)) = 0
         /\ \A s, t \in Slots : Distance(k, s) = Distance(k, t) => s = t
         /\ \A s \in Slots : Distance(k, s) + 1 < Size =>
              Distance(k, (s + 1) % Size) = Distance(k, s) + 1
  <1> DEFINE h == Home(k)
             D(s) == Distance(k, s)
  <1>1. h \in Slots
    BY HomeType
  <1>2. \A s \in Slots : D(s) = IF h <= s THEN s - h ELSE Size + s - h
    BY DistanceIs
  <1>3. \A s \in Slots : (s + 1) % Size = (IF s + 1 = Size THEN 0 ELSE s + 1) /\ (s + 1) % Size \in Slots
    BY NextSlot
  <1> HIDE DEF h, D
  <1> USE SizeAssumption DEF Slots
  <1>4. \A s \in Slots : D(s) \in Nat /\ D(s) < Size
    BY <1>1, <1>2
  <1>5. D(h) = 0
    BY <1>1, <1>2
  <1>6. \A s, t \in Slots : D(s) = D(t) => s = t
    BY <1>1, <1>2
  <1>7. ASSUME NEW s \in Slots, D(s) + 1 < Size
        PROVE  D((s + 1) % Size) = D(s) + 1
    <2> DEFINE n == (s + 1) % Size
    <2>0. n = (IF s + 1 = Size THEN 0 ELSE s + 1) /\ n \in Slots
      BY <1>3
    <2> HIDE DEF n
    <2>1. D(n) = IF h <= n THEN n - h ELSE Size + n - h
      BY <1>2, <2>0
    <2>2. CASE s + 1 = Size
      <3>1. n = 0
        BY <2>0, <2>2
      <3>2. h # 0
        BY <1>1, <1>2, <1>7, <2>2
      <3> QED BY <1>1, <1>2, <2>1, <2>2, <3>1, <3>2 DEF n
    <2>3. CASE s + 1 # Size
      <3>1. n = s + 1
        BY <2>0, <2>3
      <3>2. h # s + 1
        BY <1>1, <1>2, <1>7
      <3> QED BY <1>1, <1>2, <2>1, <2>3, <3>1, <3>2 DEF n
    <2> QED BY <2>2, <2>3
  <1> QED BY <1>4, <1>5, <1>6, <1>7 DEF h, D

\* A key that has slots has a first one.
LEMMA FirstIs ==
  ASSUME NEW k \in Nat, Places(k) # {}
  PROVE  FirstPlace(k) \in Places(k)
  <1> DEFINE D == {Distance(k, s) : s \in Places(k)}
             R == OpToRel(<, Nat)
  <1>1. \A s \in Places(k) : Distance(k, s) \in Nat
    BY Distances DEF Places
  <1>2. D \subseteq Nat /\ D # {}
    BY <1>1
  <1>3. \A n, m \in Nat : n < m => <<n, m>> \in R
    BY DEF OpToRel
  <1>4. IsWellFoundedOn(R, Nat)
    BY NatLessThanWellFounded
  <1> HIDE DEF D, R
  <1>5. PICK m \in D : \A n \in D : ~(<<n, m>> \in R)
    BY <1>2, <1>4, WFMin
  <1>6. ASSUME NEW n \in D PROVE m <= n
    <2>1. m \in Nat /\ n \in Nat
      BY <1>2
    <2>2. ~(n < m)
      BY <1>3, <1>5, <2>1
    <2> QED BY <2>1, <2>2
  <1>7. \E s \in Places(k) : Distance(k, s) = m
    BY <1>5 DEF D
  <1>8. \E s \in Places(k) : \A t \in Places(k) : Distance(k, s) <= Distance(k, t)
    BY <1>6, <1>7 DEF D
  <1> QED BY <1>8 DEF FirstPlace

-----------------------------------------------------------------------------
(* No key is lost or doubled.                                              *)

\* The keys that k passes in the n slots from its home on are as far from
\* theirs as k is.
Passes(k, n) ==
  \A t \in Slots : Distance(k, t) < n =>
    set[t] # 0 /\ Distance(set[t], t) >= Distance(k, t)

\* Every key passes such keys on the way to its slot.
Ordered == \A s \in Slots : set[s] # 0 => Passes(set[s], Distance(set[s], s))

\* So does the one that is carried, and it has not passed its own slot.
Arrives ==
  pc = "insert" =>
    /\ Passes(x, d)
    /\ d < Size => d = Distance(x, j)
    /\ \A s \in Slots : set[s] = x => d <= Distance(x, s)

\* While no removal has left a hole.
Whole == ~holes => again = {} /\ Ordered /\ Arrives

\* Otherwise a key that is carried for the first time is in no slot.
CarriedNowhere == pc = "insert" /\ holes /\ x \notin again => Places(x) = {}

\* An insertion is never further from a home than it has gone.
NotFar == pc = "insert" => d <= i

\* The inductive invariant.
Sane == NoKeyLost /\ Whole /\ CarriedNowhere /\ NotFar

\* A client inserts a key.
LEMMA InsertSane ==
  ASSUME TypeOK, Sane, NEW k \in Keys, set_insert(k)
  PROVE  Sane'
  <1>1. /\ pc = "idle" /\ pc' = "insert" /\ x' = k /\ j' = Home(k) /\ d' = 0 /\ i' = 0
        /\ members' = members \cup {k} /\ set' = set /\ holes' = holes
        /\ again' = IF holes /\ k \in members THEN again \cup {k} ELSE again
    BY DEF set_insert, Ready
  <1>2. \A c : Places(c)' = Places(c)
    BY <1>1 DEF Places
  <1>3. Held' = Held \cup {k}
    BY <1>1, <1>2 DEF Held
  <1>4. NoKeyLost'
    BY <1>1, <1>3 DEF Sane, NoKeyLost
  <1>5. Whole'
    <2> SUFFICES ASSUME ~holes' PROVE again' = {} /\ Ordered' /\ Arrives'
      BY DEF Whole
    <2>1. again' = {} /\ Ordered
      BY <1>1 DEF Sane, Whole
    <2>2. \A t \in Slots : Distance(k, t) \in Nat
      BY Distances, KeysAssumption
    <2>3. Ordered'
      BY <1>1, <2>1 DEF Ordered, Passes, Distance, Home
    <2>4. Passes(x, d)'
      BY <1>1, <2>2 DEF Passes, Distance, Home
    <2>5. (d < Size => d = Distance(x, j))'
      <3>1. Distance(k, Home(k)) = 0
        BY Distances, KeysAssumption
      <3> QED BY <1>1, <3>1 DEF Distance, Home
    <2>6. (\A s \in Slots : set[s] = x => d <= Distance(x, s))'
      BY <1>1, <2>2 DEF Distance, Home
    <2> QED BY <2>1, <2>3, <2>4, <2>5, <2>6 DEF Arrives
  <1>6. CarriedNowhere'
    <2> SUFFICES ASSUME holes', x' \notin again' PROVE Places(x)' = {}
      BY DEF CarriedNowhere
    <2>1. k \notin members /\ k \notin again
      BY <1>1
    <2>2. k \notin Held
      BY <2>1 DEF Sane, NoKeyLost
    <2> QED BY <1>1, <1>2, <2>2 DEF Held, Places
  <1>7. NotFar'
    BY <1>1 DEF NotFar
  <1> QED BY <1>4, <1>5, <1>6, <1>7 DEF Sane

\* Where an insertion changes a slot its key has no other, but for those that
\* were inserted again.
LEMMA NowhereElse ==
  ASSUME TypeOK, Sane, pc = "insert", i < Size, x \notin again,
         set[j] = 0 \/ (set[j] # x /\ Nearer(set[j]))
  PROVE  Places(x) = {}
  <1>1. CASE holes
    BY <1>1 DEF Sane, CarriedNowhere
  <1>2. CASE ~holes
    <2> SUFFICES ASSUME NEW s \in Slots, set[s] = x PROVE FALSE
      BY DEF Places
    <2>1. /\ x \in Keys /\ x # 0 /\ x \in Nat /\ j \in Slots /\ d \in Nat /\ i \in Nat
          /\ set[j] \in Nat
      BY Numbers
    <2>2. d < Size
      BY <2>1, SizeAssumption DEF Sane, NotFar
    <2>3. d = Distance(x, j) /\ d <= Distance(x, s) /\ Ordered
      BY <1>2, <2>2 DEF Sane, Whole, Arrives
    <2>4. s # j
      BY <2>1
    <2>5. Distance(x, s) \in Nat /\ Distance(x, s) # Distance(x, j)
      BY <2>1, <2>4, Distances
    <2>6. Distance(x, j) < Distance(x, s)
      BY <2>1, <2>3, <2>5
    <2>7. set[j] # 0 /\ Distance(set[j], j) >= Distance(x, j)
      BY <2>1, <2>3, <2>6 DEF Ordered, Passes
    <2>8. Distance(set[j], j) \in Nat
      BY <2>1, Distances
    <2> QED BY <2>1, <2>3, <2>7, <2>8 DEF Nearer
  <1> QED BY <1>1, <1>2

\* A slot that takes the carried key, which was empty or has one nearer to
\* its home, leaves the order of the others as it is.
LEMMA StaysOrdered ==
  ASSUME TypeOK, Ordered, pc = "insert", Passes(x, d), d = Distance(x, j),
         set' = [set EXCEPT ![j] = x],
         set[j] = 0 \/ Nearer(set[j])
  PROVE  /\ Ordered'
         /\ \A k \in Nat, n \in Nat :
              Passes(k, n) => \A t \in Slots \ {j} : Distance(k, t) < n =>
                set'[t] # 0 /\ Distance(set'[t], t) >= Distance(k, t)
  <1>1. /\ x \in Keys /\ x # 0 /\ x \in Nat /\ j \in Slots /\ d \in Nat
        /\ \A s \in Slots : set[s] \in Nat
    BY Numbers
  <1>2. \A t \in Slots : set'[t] = IF t = j THEN x ELSE set[t]
    BY <1>1 DEF TypeOK
  <1>3. \A k \in Nat, t \in Slots : Distance(k, t) \in Nat
    BY Distances
  <1>4. \A k \in Nat, n \in Nat :
          Passes(k, n) => \A t \in Slots \ {j} : Distance(k, t) < n =>
            set'[t] # 0 /\ Distance(set'[t], t) >= Distance(k, t)
    BY <1>2 DEF Passes
  <1>5. ASSUME NEW s \in Slots, set'[s] # 0, NEW t \in Slots,
               Distance(set'[s], t) < Distance(set'[s], s)
        PROVE  set'[t] # 0 /\ Distance(set'[t], t) >= Distance(set'[s], t)
    <2>1. CASE s = j
      <3>1. set'[s] = x /\ t # j
        BY <1>2, <1>5, <2>1, <1>1, <1>3
      <3> QED BY <1>1, <1>2, <1>5, <2>1, <3>1 DEF Passes
    <2>2. CASE s # j
      <3>1. set'[s] = set[s] /\ set[s] \in Nat
        BY <1>1, <1>2, <2>2
      <3>2. set[t] # 0 /\ Distance(set[t], t) >= Distance(set[s], t)
        BY <1>5, <3>1 DEF Ordered, Passes
      <3>3. CASE t = j
        <4>1. Distance(set[j], j) < d
          BY <3>2, <3>3 DEF Nearer
        <4> QED BY <1>1, <1>2, <1>3, <3>1, <3>2, <3>3, <4>1
      <3>4. CASE t # j
        BY <1>2, <3>1, <3>2, <3>4
      <3> QED BY <3>3, <3>4
    <2> QED BY <2>1, <2>2
  <1>6. Ordered'
    BY <1>5 DEF Ordered, Passes, Distance, Home
  <1> QED BY <1>4, <1>6

\* The carried key comes to rest, in an empty slot or in its own.
LEMMA HereSane ==
  ASSUME TypeOK, Sane, InsertHere
  PROVE  Sane'
  <1>1. /\ pc = "insert" /\ i < Size /\ pc' = "idle" /\ members' = members /\ again' = again
        /\ holes' = holes /\ set[j] \in {0, x} /\ set' = [set EXCEPT ![j] = x]
        /\ j \in Slots /\ x \in Keys /\ x # 0 /\ set \in [Slots -> Keys \cup {0}]
    BY KeysAssumption DEF InsertHere, Return, TypeOK
  <1>2. \A s \in Slots : set'[s] = IF s = j THEN x ELSE set[s]
    BY <1>1
  <1>3. Held' = Held
    <2>1. ASSUME NEW c \in Keys
          PROVE  Places(c)' # {} <=> Places(c) # {} \/ c = x
      <3>1. c # 0
        BY KeysAssumption
      <3>2. CASE c = x
        <4>1. j \in Places(c)'
          BY <1>1, <3>2 DEF Places
        <4> QED BY <3>2, <4>1
      <3>3. CASE c # x
        <4>1. \A s \in Slots : set'[s] = c <=> set[s] = c
          BY <1>1, <1>2, <3>1, <3>3
        <4> QED BY <3>3, <4>1 DEF Places
      <3> QED BY <3>2, <3>3
    <2> QED BY <1>1, <2>1 DEF Held
  <1>4. \A s, t \in Slots : set'[s] = set'[t] /\ set'[s] \notin {0} \cup again => s = t
    <2>1. CASE set[j] = x
      <3>1. set' = set
        BY <1>1, <2>1
      <3> QED BY <3>1 DEF Sane, NoKeyLost
    <2>2. CASE set[j] # x /\ x \in again
      BY <1>1, <1>2, <2>2 DEF Sane, NoKeyLost
    <2>3. CASE set[j] # x /\ x \notin again
      <3>1. set[j] = 0 \/ (set[j] # x /\ Nearer(set[j]))
        BY <1>1, <2>3
      <3>2. Places(x) = {}
        BY <1>1, <2>3, <3>1, NowhereElse
      <3>3. \A s \in Slots : set[s] # x
        BY <3>2 DEF Places
      <3> QED BY <1>1, <1>2, <3>3 DEF Sane, NoKeyLost
    <2> QED BY <2>1, <2>2, <2>3
  <1>5. NoKeyLost'
    BY <1>1, <1>3, <1>4 DEF Sane, NoKeyLost
  <1>6. ASSUME ~holes PROVE Ordered'
    <2>1. Ordered /\ Arrives /\ NotFar
      BY <1>6 DEF Sane, Whole
    <2>2. d < Size /\ Passes(x, d) /\ d = Distance(x, j)
      BY <1>1, <2>1, SizeAssumption DEF Arrives, NotFar, TypeOK
    <2>3. CASE set[j] = 0
      BY <1>1, <2>1, <2>2, <2>3, StaysOrdered
    <2>4. CASE set[j] = x
      <3>1. set' = set
        BY <1>1, <2>4
      <3> QED BY <2>1, <3>1 DEF Ordered, Passes, Distance, Home
    <2> QED BY <1>1, <2>3, <2>4
  <1>7. Whole'
    BY <1>1, <1>6 DEF Sane, Whole, Arrives
  <1> QED BY <1>1, <1>5, <1>7 DEF Sane, CarriedNowhere, NotFar

\* The loop goes on with the same key.
LEMMA PassSane ==
  ASSUME TypeOK, Sane, InsertNext, ~Nearer(set[j])
  PROVE  Sane'
  <1>1. /\ pc = "insert" /\ pc' = "insert" /\ members' = members /\ again' = again
        /\ holes' = holes /\ set' = set /\ x' = x /\ d' = d + 1 /\ i' = i + 1 /\ i < Size
        /\ j' = (j + 1) % Size /\ set[j] # 0 /\ set[j] # x
        /\ j \in Slots /\ x \in Keys /\ x \in Nat /\ d \in Nat /\ i \in Nat /\ set[j] \in Nat
        /\ d <= i
    BY Numbers DEF InsertNext, Sane, NotFar
  <1>2. \A c : Places(c)' = Places(c)
    BY <1>1 DEF Places
  <1>3. NoKeyLost'
    BY <1>1, <1>2 DEF Sane, NoKeyLost, Held
  <1>4. CarriedNowhere'
    BY <1>1, <1>2 DEF Sane, CarriedNowhere
  <1>5. NotFar'
    BY <1>1 DEF NotFar
  <1>6. ASSUME ~holes PROVE Ordered' /\ Arrives'
    <2>1. Ordered /\ d < Size /\ Passes(x, d) /\ d = Distance(x, j)
          /\ \A s \in Slots : set[s] = x => d <= Distance(x, s)
      BY <1>1, <1>6, SizeAssumption DEF Sane, Whole, Arrives
    <2>2. Ordered'
      BY <1>1, <2>1 DEF Ordered, Passes, Distance, Home
    <2>3. /\ \A s \in Slots : Distance(x, s) \in Nat
          /\ Distance(set[j], j) \in Nat
          /\ \A s \in Slots : Distance(x, s) = d => s = j
          /\ d + 1 < Size => Distance(x, (j + 1) % Size) = d + 1
      BY <1>1, <2>1, Distances
    <2>4. Passes(x, d + 1)
      <3> SUFFICES ASSUME NEW t \in Slots, Distance(x, t) < d + 1
                   PROVE  set[t] # 0 /\ Distance(set[t], t) >= Distance(x, t)
        BY DEF Passes
      <3>1. CASE t = j
        BY <1>1, <2>1, <2>3, <3>1 DEF Nearer
      <3>2. CASE t # j
        <4>1. Distance(x, t) < d
          BY <1>1, <2>3, <3>2
        <4> QED BY <2>1, <4>1 DEF Passes
      <3> QED BY <3>1, <3>2
    <2>5. \A s \in Slots : set[s] = x => d + 1 <= Distance(x, s)
      BY <1>1, <2>1, <2>3
    <2>6. Passes(x, d)'
      BY <1>1, <2>4 DEF Passes, Distance, Home
    <2>7. (d < Size => d = Distance(x, j))' /\ (\A s \in Slots : set[s] = x => d <= Distance(x, s))'
      BY <1>1, <2>3, <2>5 DEF Distance, Home
    <2> QED BY <2>2, <2>6, <2>7 DEF Arrives
  <1>7. Whole'
    BY <1>1, <1>6 DEF Sane, Whole
  <1> QED BY <1>3, <1>4, <1>5, <1>7 DEF Sane

\* The loop goes on with the key that it has displaced.
LEMMA SwapSane ==
  ASSUME TypeOK, Sane, InsertNext, Nearer(set[j])
  PROVE  Sane'
  <1> DEFINE p == set[j]
  <1>1. /\ pc = "insert" /\ pc' = "insert" /\ members' = members /\ again' = again
        /\ holes' = holes /\ set' = [set EXCEPT ![j] = x] /\ x' = p
        /\ d' = Distance(p, j) + 1 /\ i' = i + 1 /\ i < Size
        /\ j' = (j + 1) % Size /\ p # 0 /\ p # x
        /\ j \in Slots /\ x \in Keys /\ x \in Nat /\ x # 0 /\ d \in Nat /\ i \in Nat
        /\ p \in Nat /\ set \in [Slots -> Keys \cup {0}] /\ d <= i
    BY Numbers DEF InsertNext, Carried, TypeOK, Sane, NotFar
  <1>2. \A s \in Slots : set'[s] = IF s = j THEN x ELSE set[s]
    BY <1>1
  <1>3. Distance(p, j) \in Nat /\ Distance(p, j) < d
    BY <1>1, Distances DEF Nearer
  <1> HIDE DEF p
  <1>4. p = set[j] /\ p \in Keys
    BY <1>1 DEF p
  <1>5. x \notin again => \A s \in Slots : set[s] # x
    BY <1>1, <1>4, NowhereElse DEF Places
  <1>6. p \notin again => \A s \in Slots : set'[s] # p
    BY <1>1, <1>2, <1>4 DEF Sane, NoKeyLost
  <1>7. Held' = Held
    <2>1. ASSUME NEW c \in Keys
          PROVE  Places(c)' # {} \/ c = p <=> Places(c) # {} \/ c = x
      <3>1. CASE c = x
        <4>1. j \in Places(c)'
          BY <1>1, <3>1 DEF Places
        <4> QED BY <3>1, <4>1
      <3>2. CASE c = p
        <4>1. j \in Places(c)
          BY <1>1, <1>4, <3>2 DEF Places
        <4> QED BY <3>2, <4>1
      <3>3. CASE c # x /\ c # p
        <4>1. \A s \in Slots : set'[s] = c <=> set[s] = c
          BY <1>2, <1>4, <3>3
        <4> QED BY <3>3, <4>1 DEF Places
      <3> QED BY <3>1, <3>2, <3>3
    <2> QED BY <1>1, <1>4, <2>1 DEF Held
  <1>8. \A s, t \in Slots : set'[s] = set'[t] /\ set'[s] \notin {0} \cup again => s = t
    BY <1>2, <1>5 DEF Sane, NoKeyLost
  <1>9. NoKeyLost'
    BY <1>1, <1>7, <1>8 DEF Sane, NoKeyLost
  <1>10. CarriedNowhere'
    BY <1>1, <1>6 DEF CarriedNowhere, Places
  <1>11. NotFar'
    BY <1>1, <1>3 DEF NotFar
  <1>12. ASSUME ~holes PROVE Ordered' /\ Arrives'
    <2>1. /\ again = {} /\ Ordered /\ d < Size /\ Passes(x, d) /\ d = Distance(x, j)
      BY <1>1, <1>12, SizeAssumption DEF Sane, Whole, Arrives
    <2>2. /\ Ordered'
          /\ Passes(p, Distance(p, j)) => \A t \in Slots \ {j} : Distance(p, t) < Distance(p, j) =>
               set'[t] # 0 /\ Distance(set'[t], t) >= Distance(p, t)
      BY <1>1, <1>3, <1>4, <2>1, StaysOrdered
    <2>3. Passes(p, Distance(p, j))
      BY <1>1, <1>4, <2>1 DEF Ordered
    <2>4. /\ \A s \in Slots : Distance(p, s) \in Nat
          /\ \A s \in Slots : Distance(p, s) = Distance(p, j) => s = j
          /\ Distance(p, j) + 1 < Size => Distance(p, (j + 1) % Size) = Distance(p, j) + 1
      BY <1>1, Distances
    <2>5. ASSUME NEW t \in Slots, Distance(p, t) < Distance(p, j) + 1
          PROVE  set'[t] # 0 /\ Distance(set'[t], t) >= Distance(p, t)
      <3>1. CASE t = j
        BY <1>1, <1>2, <1>3, <2>1, <2>4, <3>1
      <3>2. CASE t # j
        <4>1. Distance(p, t) < Distance(p, j)
          BY <1>1, <2>4, <2>5, <3>2
        <4> QED BY <2>2, <2>3, <3>2, <4>1
      <3> QED BY <3>1, <3>2
    <2>6. Passes(x, d)'
      BY <1>1, <2>5 DEF Passes, Distance, Home
    <2>7. (d < Size => d = Distance(x, j))' /\ (\A s \in Slots : set[s] = x => d <= Distance(x, s))'
      BY <1>1, <1>6, <2>1, <2>4 DEF Distance, Home
    <2> QED BY <2>2, <2>6, <2>7 DEF Arrives
  <1>13. Whole'
    BY <1>1, <1>12 DEF Sane, Whole
  <1> QED BY <1>9, <1>10, <1>11, <1>13 DEF Sane

\* A removal takes the key from its first slot.
LEMMA RemoveSane ==
  ASSUME TypeOK, Sane, NEW k \in Keys, set_remove(k)
  PROVE  Sane'
  <1>1. /\ pc = "idle" /\ pc' = "idle" /\ members' = members \ {k}
        /\ again' = {c \in again : \E s \in Slots : set'[s] = c}
        /\ set \in [Slots -> Keys \cup {0}]
        /\ k # 0 /\ k \in Nat
    BY KeysAssumption DEF set_remove, Ready, TypeOK
  <1>2. CASE Places(k) = {}
    <2>1. set' = set /\ holes' = holes
      BY <1>2 DEF set_remove
    <2>2. \A c : Places(c)' = Places(c)
      BY <2>1 DEF Places
    <2>3. Held' = Held /\ k \notin Held
      BY <1>1, <1>2, <2>2 DEF Held
    <2>4. \A s \in Slots : set[s] \in again => set[s] \in again'
      BY <1>1, <2>1
    <2>5. Held \subseteq members' \cup again'
      BY <1>1, <2>1, <2>3 DEF Sane, NoKeyLost, Held, Places
    <2>6. NoKeyLost'
      BY <1>1, <2>1, <2>3, <2>4, <2>5 DEF Sane, NoKeyLost
    <2>7. Whole'
      BY <1>1, <2>1 DEF Sane, Whole, Ordered, Arrives, Passes, Distance, Home
    <2> QED BY <1>1, <2>6, <2>7 DEF Sane, CarriedNowhere, NotFar
  <1>3. CASE Places(k) # {}
    <2>1. PICK s \in Slots : s = FirstPlace(k) /\ set[s] = k
      BY <1>1, <1>3, FirstIs DEF Places
    <2>2. set' = [set EXCEPT ![s] = 0] /\ holes' = (\E t \in Slots : set'[t] # 0)
      BY <1>3, <2>1 DEF set_remove, Removed
    <2>3. \A t \in Slots : set'[t] = IF t = s THEN 0 ELSE set[t]
      BY <1>1, <2>2
    <2>4. k \notin again => \A t \in Slots : set'[t] # k
      BY <1>1, <2>1, <2>3 DEF Sane, NoKeyLost
    <2>5. ASSUME NEW c \in Keys, c # k
          PROVE  Places(c)' = Places(c)
      <3>1. \A t \in Slots : set'[t] = c <=> set[t] = c
        BY <2>1, <2>3, <2>5, KeysAssumption
      <3> QED BY <3>1 DEF Places
    <2>6. Held = {c \in Keys : Places(c) # {}} /\ Held' = {c \in Keys : Places(c)' # {}}
      BY <1>1 DEF Held
    <2>7. members' \subseteq Held'
      BY <1>1, <2>5, <2>6 DEF Sane, NoKeyLost
    <2>8. ASSUME NEW c \in Held' PROVE c \in members' \cup again'
      <3>1. \E t \in Slots : set'[t] = c
        BY <2>6 DEF Places
      <3>2. c \in Keys
        BY <2>6
      <3>3. CASE c = k
        BY <1>1, <2>4, <3>1, <3>3
      <3>4. CASE c # k
        <4>1. c \in members \cup again
          BY <2>5, <2>6, <3>2, <3>4 DEF Sane, NoKeyLost
        <4> QED BY <1>1, <3>1, <3>4, <4>1
      <3> QED BY <3>3, <3>4
    <2>9. \A t, u \in Slots : set'[t] = set'[u] /\ set'[t] \notin {0} \cup again' => t = u
      <3> SUFFICES ASSUME NEW t \in Slots, NEW u \in Slots, set'[t] = set'[u],
                          set'[t] \notin {0} \cup again'
                   PROVE  t = u
        OBVIOUS
      <3>1. set[t] = set[u] /\ set[t] = set'[t]
        BY <2>3
      <3>2. set'[t] \notin again
        BY <1>1
      <3> QED BY <3>1, <3>2 DEF Sane, NoKeyLost
    <2>10. NoKeyLost'
      BY <2>7, <2>8, <2>9 DEF NoKeyLost
    <2>11. Whole'
      <3> SUFFICES ASSUME ~holes' PROVE again' = {} /\ Ordered' /\ Arrives'
        BY DEF Whole
      <3>1. \A t \in Slots : set'[t] = 0
        BY <2>2
      <3>2. 0 \notin again
        BY KeysAssumption DEF TypeOK
      <3> QED BY <1>1, <3>1, <3>2 DEF Ordered, Arrives
    <2> QED BY <1>1, <2>10, <2>11 DEF Sane, CarriedNowhere, NotFar
  <1> QED BY <1>2, <1>3

\* The set that is full drops the key that is carried.
LEMMA FullSane ==
  ASSUME TypeOK, Sane, InsertFull
  PROVE  Sane'
  <1>1. /\ pc = "insert" /\ pc' = "idle" /\ set' = set /\ again' = again /\ holes' = holes
        /\ members' = IF Places(x) = {} THEN members \ {x} ELSE members
    BY DEF InsertFull, Return
  <1>2. \A c : Places(c)' = Places(c)
    BY <1>1 DEF Places
  <1>3. x \in Keys /\ Held = Held' \cup {x} /\ (x \in Held' <=> Places(x) # {})
    BY <1>1, <1>2, Numbers DEF Held
  <1>4. NoKeyLost'
    BY <1>1, <1>3 DEF Sane, NoKeyLost
  <1>5. Whole'
    BY <1>1 DEF Sane, Whole, Ordered, Arrives, Passes, Distance, Home
  <1> QED BY <1>1, <1>4, <1>5 DEF Sane, CarriedNowhere, NotFar

\* Whatever clients insert and remove, every key of the set is found, and in
\* one slot unless it was inserted again over a hole: no key that displaces
\* others, or is displaced, is lost or doubled.
THEOREM KeysKept == Spec => []NoKeyLost
  <1>1. Init => Sane
    <2> SUFFICES ASSUME Init PROVE Sane
      OBVIOUS
    <2>1. \A c \in Keys : Places(c) = {}
      BY KeysAssumption DEF Init, Places
    <2>2. Held = {}
      BY <2>1 DEF Init, Held
    <2>3. NoKeyLost
      BY <2>2 DEF Init, NoKeyLost
    <2> QED BY <2>3 DEF Init, Sane, Whole, Ordered, Arrives, CarriedNowhere, NotFar
  <1>2. TypeOK /\ Sane /\ [Next]_vars => Sane'
    <2> SUFFICES ASSUME TypeOK, Sane, [Next]_vars PROVE Sane'
      OBVIOUS
    <2>1. ASSUME NEW k \in Keys, set_insert(k) PROVE Sane'
      BY <2>1, InsertSane
    <2>2. ASSUME NEW k \in Keys, set_remove(k) PROVE Sane'
      BY <2>2, RemoveSane
    <2>3. ASSUME NEW k \in Keys, set_member(k) PROVE Sane'
      <3>1. UNCHANGED <<set, pc, x, j, d, i, members, holes, again>>
        BY <2>3 DEF set_member
      <3> QED BY <3>1 DEF Sane, NoKeyLost, Held, Places, Whole, Ordered, Arrives, Passes,
                          Distance, Home, CarriedNowhere, NotFar
    <2>4. CASE rt_init
      <3>1. /\ pc = "idle" /\ pc' = pc /\ members' = {} /\ again' = {} /\ holes' = FALSE
            /\ \A s \in Slots : set'[s] = 0
        BY <2>4 DEF rt_init
      <3>2. Held' = {}
        BY <3>1, KeysAssumption DEF Held, Places
      <3>3. NoKeyLost'
        BY <3>1, <3>2 DEF NoKeyLost
      <3> QED BY <3>1, <3>3 DEF Sane, Whole, Ordered, Arrives, CarriedNowhere, NotFar
    <2>5. CASE UNCHANGED vars
      BY <2>5 DEF vars, Sane, NoKeyLost, Held, Places, Whole, Ordered, Arrives, Passes,
                  Distance, Home, CarriedNowhere, NotFar
    <2> QED BY <2>1, <2>2, <2>3, <2>4, <2>5, HereSane, PassSane, SwapSane, FullSane
            DEF Next, InsertNext
  <1>3. Sane => NoKeyLost
    BY DEF Sane
  <1> QED BY <1>1, <1>2, <1>3, TypeCorrect, PTL DEF Spec

-----------------------------------------------------------------------------
(* The set is only full when it is.                                        *)

\* How far the loop is past slot s.
Past(s) == (Size + j - s - 1) % Size

\* The slots that the loop has visited are filled.
VisitedFilled ==
  pc = "insert" => \A s \in Slots : Past(s) < i => set[s] # 0

\* How far the loop is past a slot, without the remainder.
LEMMA PastIs ==
  ASSUME TypeOK, NEW s \in Slots
  PROVE  /\ Past(s) = IF s < j THEN j - s - 1 ELSE Size + j - s - 1
         /\ Past(s) \in Slots
  <1> USE SizeAssumption DEF TypeOK, Slots
  <1>1. CASE s < j
    <2>1. j - s - 1 \in 0 .. Size - 1
      BY <1>1
    <2>2. (Size + (j - s - 1)) % Size = j - s - 1
      BY <2>1, SmallMod
    <2>3. Size + (j - s - 1) = Size + j - s - 1
      OBVIOUS
    <2> QED BY <1>1, <2>1, <2>2, <2>3 DEF Past
  <1>2. CASE ~(s < j)
    <2>1. Size + j - s - 1 \in 0 .. Size - 1
      BY <1>2
    <2>2. (Size + j - s - 1) % Size = Size + j - s - 1
      BY <2>1, SmallMod
    <2> QED BY <1>2, <2>1, <2>2 DEF Past
  <1> QED BY <1>1, <1>2

\* The slot that the loop leaves is filled, and it is the only new one.
LEMMA VisitedNext ==
  ASSUME TypeOK, TypeOK', VisitedFilled, InsertNext
  PROVE  VisitedFilled'
  <1>1. /\ pc = "insert" /\ i' = i + 1 /\ j' = (j + 1) % Size
        /\ set[j] # 0 /\ x # 0 /\ j \in Slots /\ set \in [Slots -> Keys \cup {0}]
    BY KeysAssumption DEF InsertNext, TypeOK
  <1>2. \A s \in Slots : set[s] # 0 => set'[s] # 0
    BY <1>1 DEF InsertNext
  <1>3. j' = IF j + 1 = Size THEN 0 ELSE j + 1
    BY <1>1, NextSlot
  <1>4. SUFFICES ASSUME NEW s \in Slots, Past(s)' < i' PROVE set'[s] # 0
    BY DEF VisitedFilled
  <1>5. CASE s = j
    BY <1>1, <1>2, <1>5
  <1>6. CASE s # j
    <2>1. Past(s) = IF s < j THEN j - s - 1 ELSE Size + j - s - 1
      BY PastIs
    <2>2. Past(s)' = IF s < j' THEN j' - s - 1 ELSE Size + j' - s - 1
      <3> DEFINE r == j'
      <3>1. r \in Slots
        BY DEF TypeOK
      <3>2. (Size + r - s - 1) % Size = IF s < r THEN r - s - 1 ELSE Size + r - s - 1
        <4> HIDE DEF r
        <4>1. CASE s < r
          <5>1. r - s - 1 \in 0 .. Size - 1
            BY <3>1, <4>1, SizeAssumption DEF Slots
          <5>2. (Size + (r - s - 1)) % Size = r - s - 1
            BY <5>1, SmallMod, SizeAssumption
          <5>3. Size + (r - s - 1) = Size + r - s - 1
            BY <3>1, SizeAssumption DEF Slots
          <5> QED BY <4>1, <5>2, <5>3
        <4>2. CASE ~(s < r)
          <5>1. Size + r - s - 1 \in 0 .. Size - 1
            BY <3>1, <4>2, SizeAssumption DEF Slots
          <5> QED BY <4>2, <5>1, SmallMod, SizeAssumption
        <4> QED BY <4>1, <4>2
      <3> QED BY <3>2 DEF Past
    <2>3. Past(s)' = Past(s) + 1
      BY <1>1, <1>3, <1>6, <2>1, <2>2, SizeAssumption DEF Slots
    <2>4. Past(s) < i
      BY <1>1, <1>4, <2>1, <2>3, SizeAssumption DEF TypeOK, Slots
    <2> QED BY <1>1, <1>2, <2>4 DEF VisitedFilled
  <1> QED BY <1>5, <1>6

\* "set is full" is said only when every slot is filled, also by clients that
\* remove keys and insert them again.
THEOREM FullOnlyWhenFull == Spec => FullWhenFull
  <1> DEFINE Filled == result' = "full" /\ result # "full" => \A s \in Slots : set[s] # 0
  <1>1. Init => VisitedFilled
    BY DEF Init, VisitedFilled
  <1>2. TypeOK /\ TypeOK' /\ VisitedFilled /\ [Next]_vars => VisitedFilled'
    <2> SUFFICES ASSUME TypeOK, TypeOK', VisitedFilled, [Next]_vars PROVE VisitedFilled'
      OBVIOUS
    <2>1. ASSUME NEW k \in Keys, set_insert(k) PROVE VisitedFilled'
      <3> DEFINE r == j'
      <3>1. i' = 0 /\ r \in Slots
        BY <2>1 DEF set_insert, TypeOK
      <3>2. \A s \in Slots : (Size + r - s - 1) \in Nat
        <4> HIDE DEF r
        <4> QED BY <3>1, SizeAssumption DEF Slots
      <3>3. \A m \in Nat : m % Size \in Nat
        BY SizeAssumption
      <3>4. \A s \in Slots : ~(Past(s)' < i')
        BY <3>1, <3>2, <3>3 DEF Past
      <3> QED BY <3>4 DEF VisitedFilled
    <2>2. ASSUME NEW k \in Keys, set_remove(k) PROVE VisitedFilled'
      BY <2>2 DEF set_remove, Ready, VisitedFilled
    <2>3. ASSUME NEW k \in Keys, set_member(k) PROVE VisitedFilled'
      BY <2>3 DEF set_member, Ready, VisitedFilled
    <2>4. CASE InsertHere
      BY <2>4 DEF InsertHere, Return, VisitedFilled
    <2>5. CASE InsertFull
      BY <2>5 DEF InsertFull, Return, VisitedFilled
    <2>6. CASE rt_init
      BY <2>6 DEF rt_init, VisitedFilled, TypeOK, Slots
    <2>7. CASE UNCHANGED vars
      BY <2>7 DEF vars, VisitedFilled, Past
    <2> QED BY <2>1, <2>2, <2>3, <2>4, <2>5, <2>6, <2>7, VisitedNext DEF Next
  <1>3. TypeOK /\ VisitedFilled /\ [Next]_vars => [Filled]_vars
    <2> SUFFICES ASSUME TypeOK, VisitedFilled, Next, result' = "full", result # "full"
                 PROVE  \A s \in Slots : set[s] # 0
      OBVIOUS
    <2>1. InsertFull
      BY DEF Next, set_insert, InsertHere, InsertNext, Return, set_remove, set_member, rt_init
    <2>2. pc = "insert" /\ i >= Size /\ i \in Nat
      BY <2>1 DEF InsertFull, VisitedAll, TypeOK
    <2>3. \A s \in Slots : Past(s) < i
      BY <2>2, PastIs, SizeAssumption DEF Slots
    <2> QED BY <2>2, <2>3 DEF VisitedFilled
  <1> QED BY <1>1, <1>2, <1>3, TypeCorrect, PTL DEF Spec, FullWhenFull
=============================================================================

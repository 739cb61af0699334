------------------------------- MODULE HashSet -------------------------------
(***************************************************************************)
(* The hash set of the support library (startle/support.c): open           *)
(* addressing in a fixed array, where an insertion that meets a key nearer *)
(* to its home than the one it carries swaps the two and goes on with the  *)
(* other ("Robin Hood").  The runtime keeps its roots in one, the log its  *)
(* tags, the code generators the values they synchronize.                  *)
(*                                                                         *)
(* A removal empties the slot and moves nothing.  So the insertion of a    *)
(* key that is in the set may come to such a hole first, and put the key   *)
(* into a second slot: a reduction that is aborted leaves its root in the  *)
(* set, to be inserted once more (primitive/core.c:461, 516).              *)
(*                                                                         *)
(* The loop of set_insert() is one iteration per step.                     *)
(***************************************************************************)
EXTENDS Naturals

CONSTANTS
  Size,    \* the length of the array
  Keys     \* the keys that clients use

ASSUME SizeAssumption == Size \in Nat \ {0}
ASSUME KeysAssumption == Keys \subseteq Nat \ {0}

VARIABLES
  set,      \* the array; 0 is an empty slot
  pc,       \* idle, or in the loop of set_insert
  x,        \* the key that the insertion carries
  j, d, i,  \* its slot, how far it is from home, the slots visited
  result,   \* what the last call returned: "true", "false", or "full" if it threw
  members,  \* ghost: the set as the client sees it
  holes,    \* ghost: was a slot emptied since the array was empty?
  again     \* ghost: the keys inserted while the set had them, and holes

vars == <<set, pc, x, j, d, i, result, members, holes, again>>

Slots == 0 .. Size - 1

Home(k) == k % Size

\* How far slot s is from the home of key k.
Distance(k, s) == (Size + s - Home(k)) % Size

\* The slots that hold key k.
Places(k) == {s \in Slots : set[s] = k}

-----------------------------------------------------------------------------
Init ==
  /\ set = [s \in Slots |-> 0]
  /\ pc = "idle"
  /\ x = 0 /\ j = 0 /\ d = 0 /\ i = 0
  /\ result = "none"
  /\ members = {}
  /\ holes = FALSE
  /\ again = {}

Ready == pc = "idle" /\ result # "full"

Return(r) ==
  /\ pc' = "idle"
  /\ result' = r
  /\ x' = 0 /\ j' = 0 /\ d' = 0 /\ i' = 0

\* The call of set_insert(k), up to the loop.
set_insert(k) ==
  /\ Ready
  /\ pc' = "insert"
  /\ x' = k /\ j' = Home(k) /\ d' = 0 /\ i' = 0
  /\ members' = members \cup {k}
  /\ again' = IF holes /\ k \in members THEN again \cup {k} ELSE again
  /\ UNCHANGED <<set, result, holes>>

InsertHere ==
  /\ pc = "insert" /\ i < Size
  /\ set[j] \in {0, x}
  /\ set' = [set EXCEPT ![j] = x]
  /\ Return(IF set[j] = x THEN "true" ELSE "false")
  /\ UNCHANGED <<members, holes, again>>

\* Is key p nearer to its home than the one that is carried to its slot?
Nearer(p) == Distance(p, j) < d

\* The key that goes on when x has taken the slot of p.
Carried(p) == p

InsertNext ==
  LET p == set[j] IN
  /\ pc = "insert" /\ i < Size
  /\ p \notin {0, x}
  /\ IF Nearer(p)
     THEN /\ set' = [set EXCEPT ![j] = x]
          /\ x' = Carried(p)
          /\ d' = Distance(p, j) + 1
     ELSE /\ d' = d + 1
          /\ UNCHANGED <<set, x>>
  /\ j' = (j + 1) % Size
  /\ i' = i + 1
  /\ UNCHANGED <<pc, result, members, holes, again>>

VisitedAll == i >= Size

\* "set is full": the key that is carried is lost, unless it has a slot too.
InsertFull ==
  /\ pc = "insert" /\ VisitedAll
  /\ Return("full")
  /\ members' = IF Places(x) = {} THEN members \ {x} ELSE members
  /\ UNCHANGED <<set, holes, again>>

\* The first slot from home on that holds key k.
FirstPlace(k) ==
  CHOOSE s \in Places(k) : \A t \in Places(k) : Distance(k, s) <= Distance(k, t)

RemovedHome(k) == [set EXCEPT ![Home(k)] = 0]  \* mutant

Removed(k) == [set EXCEPT ![FirstPlace(k)] = 0]

set_remove(k) ==
  /\ Ready
  /\ IF Places(k) # {}
     THEN /\ set' = Removed(k)
          /\ holes' = (\E s \in Slots : set'[s] # 0)
          /\ result' = "true"
     ELSE result' = "false" /\ UNCHANGED <<set, holes>>
  /\ members' = members \ {k}
  /\ again' = {c \in again : \E s \in Slots : set'[s] = c}
  /\ UNCHANGED <<pc, x, j, d, i>>

set_member(k) ==
  /\ Ready
  /\ result' = IF Places(k) # {} THEN "true" ELSE "false"
  /\ UNCHANGED <<set, pc, x, j, d, i, members, holes, again>>

\* After the error the main loop clears the array.
rt_init ==
  /\ pc = "idle" /\ result = "full"
  /\ set' = [s \in Slots |-> 0]
  /\ members' = {}
  /\ holes' = FALSE
  /\ again' = {}
  /\ result' = "none"
  /\ UNCHANGED <<pc, x, j, d, i>>

Next ==
  \/ \E k \in Keys : set_insert(k) \/ set_remove(k) \/ set_member(k)
  \/ InsertHere \/ InsertNext \/ InsertFull
  \/ rt_init

Spec == Init /\ [][Next]_vars

-----------------------------------------------------------------------------
(* Properties.                                                             *)

TypeOK ==
  /\ set \in [Slots -> Keys \cup {0}]
  /\ pc \in {"idle", "insert"}
  /\ x \in Keys \cup {0}
  /\ pc = "insert" => x \in Keys
  /\ j \in Slots
  /\ d \in Nat /\ i \in 0 .. Size
  /\ result \in {"none", "true", "false", "full"}
  /\ members \subseteq Keys
  /\ holes \in BOOLEAN
  /\ again \subseteq Keys

\* The keys in slots, and the one that is carried.
Held == {k \in Keys : Places(k) # {}} \cup (IF pc = "insert" THEN {x} ELSE {})

\* However the keys were moved by later insertions, and whatever was removed
\* or inserted twice between them, every key of the set is found.  A key is in
\* one slot, and in none when it was removed, so one removal removes it; but
\* for those that a client inserted while the set had them and holes, which
\* set_insert() may put behind the hole (support.c:557) into another slot.
NoKeyLost ==
  /\ members \subseteq Held
  /\ Held \subseteq members \cup again
  /\ \A s, t \in Slots : set[s] = set[t] /\ set[s] \notin {0} \cup again => s = t

\* "set is full" is said only when there is no empty slot, wherever the
\* removals have left them.
FullWhenFull ==
  [][result' = "full" /\ result # "full" => \A s \in Slots : set[s] # 0]_vars
=============================================================================

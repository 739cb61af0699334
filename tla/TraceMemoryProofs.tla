------------------------- MODULE TraceMemoryProofs --------------------------
(***************************************************************************)
(* Proofs about the memory of the compiler: whatever is compiled, given up, *)
(* merged and moved, every entry is kept, for every size of the memory and *)
(* its blocks.                                                             *)
(***************************************************************************)
EXTENDS TraceMemory, SequenceTheorems, TLAPS

-----------------------------------------------------------------------------
(* Types.                                                                  *)

PlacesOrNone == Places \union {NoEntry}

Headers ==
  [kind : {"entry"}, id : Nat, n : BOOLEAN, len : Nat, parent : PlacesOrNone, quote : BOOLEAN,
   block : BOOLEAN, complete : BOOLEAN, compact : PlacesOrNone]

CellRecords == [kind : {"cell"}, item : Items, call : PlacesOrNone, callee : Nat]

Records == {Zero, Dropped} \union Headers \union CellRecords

Givens == [item : Items, callee : Nat]

Ghosts == [cells : Seq(Givens), parent : Nat]

Phases == {"reduce", "map", "find", "dedup", "top", "match", "place", "refer", "move"}

TypeOK ==
  /\ trace_cells \in [Places -> Records]
  /\ trace_ptr \in 0 .. TraceSize - 1
  /\ trace_block_map \in [0 .. DivUp(TraceSize) - 1 -> Int]
  /\ active_entries \in Seq(Places)
  /\ word \in PlacesOrNone
  /\ doing \in Phases
  /\ at \in Nat /\ next \in Nat /\ index \in Nat
  /\ started \in Nat
  /\ DOMAIN stored \subseteq 1 .. started
  /\ stored \in [DOMAIN stored -> Ghosts]
  /\ merged \subseteq 1 .. started

-----------------------------------------------------------------------------
(* The inductive invariant.                                                *)

(* The entries, but for what is left of others above trace_ptr.            *)
Live == {e \in 0 .. trace_ptr - 1 : is_entry(e)}

Was(e, k) == stored[trace_cells[e].id].cells[k]

CallOf(e, k) == trace_cells[e + k].call

CellsOf(e) == 1 .. trace_cells[e].len

Compacting == doing \in {"place", "refer", "move"}

(* From here on entries may be given up or moved.                          *)
Base ==
  IF doing \in {"reduce", "map", "find"}
  THEN IF active_entries = <<>> THEN trace_ptr ELSE active_entries[1]
  ELSE word

(* Entries are apart from each other, each with its cells.                 *)
Apart ==
  /\ \A e \in Live : trace_entry_next(e) <= trace_ptr
  /\ \A e, f \in Live : e < f => trace_entry_next(e) <= f
  /\ \A e \in Live : trace_cells[e].block => trace_cells[e].len < BlockSize
  /\ \A e \in Live : \A a \in Body(e) : trace_cells[a].kind = "cell"

(* One follows the other, but for those that are being moved.              *)
Joined ==
  \A e \in Live : ~Compacting \/ e < word => trace_entry_next(e) \in Live \union {trace_ptr}

(* There is one for each that was started, in the same order.              *)
Numbered ==
  /\ \A e \in Live : /\ trace_cells[e].id \in DOMAIN stored
                     /\ trace_cells[e].n <=> trace_cells[e].id \notin merged
  /\ \A e, f \in Live : e < f => trace_cells[e].id < trace_cells[f].id
  /\ \A id \in DOMAIN stored \ merged : \E e \in Live : trace_cells[e].id = id

(* Where an entry will be when all are moved.                              *)
Final(e) ==
  IF Compacting /\ e >= word /\ trace_cells[e].block THEN trace_cells[e].compact ELSE e

(* Does entry e already refer to others by where they will be?             *)
Referred(e) == doing = "move" \/ (doing = "refer" /\ e < at)

(* Number p, in entry e, is that of entry f.                               *)
Leads(e, p, f) == p = IF Referred(e) THEN Final(f) ELSE f

ActiveIds == {trace_cells[e].id : e \in Active}

(* One entry can stand for another.                                        *)
StandsFor(id, callee) ==
  \/ id = callee
  \/ /\ callee \in merged
     /\ id \notin ActiveIds
     /\ id \in DOMAIN stored
     /\ stored[id].cells = stored[callee].cells

CallSays(e, k) ==
  \E f \in Live : /\ trace_cells[f].n
                  /\ Leads(e, CallOf(e, k), f)
                  /\ StandsFor(trace_cells[f].id, Was(e, k).callee)

CellSays(e, k) ==
  /\ trace_cells[e + k].item = Was(e, k).item
  /\ IF Was(e, k).callee = 0 THEN CallOf(e, k) = NoEntry
     ELSE Was(e, k).callee \in DOMAIN stored /\ CallSays(e, k)

(* The parent of e; if it was merged, there may be nothing there any more. *)
ParentSays(e) ==
  LET p == trace_cells[e].parent
      was == stored[trace_cells[e].id].parent
  IN  \/ was = 0 /\ p = NoEntry
      \/ was # 0 /\ \E f \in Live : Leads(e, p, f) /\ trace_cells[f].id = was
      \/ /\ was \in merged
         /\ p = NoEntry \/ (Compacting /\ ~Referred(e) /\ p \in Places /\ p >= word /\ ~is_entry(p))

(* Entries have what was put into them.                                    *)
Content ==
  \A e \in Live : /\ trace_cells[e].len = Len(stored[trace_cells[e].id].cells)
                  /\ \A k \in CellsOf(e) : CellSays(e, k)
                  /\ ParentSays(e)

(* For each block of the map there is an entry before it.                  *)
Mapped ==
  \A i \in DOMAIN trace_block_map :
    /\ i * MapBlock < IF Compacting THEN word ELSE trace_ptr
    /\ doing = "map" => i < index
    => trace_block_map[i] \in Live /\ trace_block_map[i] <= i * MapBlock

(* Entries from Base on have a block each, and one below them as parent.   *)
(* What is below Base does not refer to them.                              *)
Based ==
  /\ \A e \in Live : e >= Base => trace_cells[e].block /\ trace_cells[e].compact = NoEntry
  /\ \A e \in Live : e > Base => /\ trace_cells[e].parent \in Live
                                 /\ Base <= trace_cells[e].parent /\ trace_cells[e].parent < e
  /\ \A e \in Live : e = Base => trace_cells[e].parent = NoEntry /\ ~trace_cells[e].quote
  /\ \A e \in Live : e < Base => /\ trace_cells[e].parent < Base
                                 /\ trace_cells[e].n
                                 /\ \A k \in CellsOf(e) : CallOf(e, k) < Base

(* A cell that was not redirected calls what it was made to call: an entry *)
(* that is not above its own, or a part of it.                             *)
CallsAsMade(e, k) ==
  LET f == CallOf(e, k)
  IN  f # NoEntry => /\ trace_cells[f].id = Was(e, k).callee
                     /\ \/ f <= e /\ ~trace_cells[f].quote
                        \/ f > e /\ trace_cells[f].complete /\ trace_cells[f].parent = e

(* Each part of an entry has one cell that calls it.                       *)
AsMade == \A e \in Live : e >= Base => \A k \in CellsOf(e) : CallsAsMade(e, k)

OneCell ==
  \A e \in Live : e >= Base =>
    \A k, l \in CellsOf(e) : CallOf(e, k) = CallOf(e, l) /\ CallOf(e, k) > e => k = l

(* While the word is reduced.                                              *)
Reduced ==
  /\ \A e \in Live : trace_cells[e].n
  /\ \A i \in DOMAIN active_entries :
       active_entries[i] \in Live /\ ~trace_cells[active_entries[i]].complete
  /\ \A i, j \in DOMAIN active_entries : i < j => active_entries[i] < active_entries[j]
  /\ \A i \in DOMAIN active_entries : i > 1 =>
       \E j \in DOMAIN active_entries : j < i /\ trace_cells[active_entries[i]].parent = active_entries[j]
  /\ word # NoEntry => active_entries # <<>> /\ word = active_entries[1]
  /\ \A e \in Live : e >= Base => \A id \in merged : id < trace_cells[e].id
  /\ AsMade /\ OneCell

(* trace_update_block_map()                                                *)
Mapping ==
  /\ at <= index * MapBlock
  /\ IF at < trace_ptr THEN at \in Live /\ next = trace_entry_next(at) ELSE next >= trace_ptr

(* var_entry()                                                             *)
Finding ==
  /\ word # NoEntry
  /\ \E o \in Active : index \in Body(o) /\ Room(o) /\ at \in Live /\ at <= o

(* No entry of the word before t is like it.                               *)
First(t) == \A x \in Live : word < x /\ x < t => ~entries_match(x, t)

SameQuote(e1, k1, e2, k2) ==
  /\ CallOf(e1, k1) # NoEntry /\ CallOf(e1, k1) = CallOf(e2, k2)
  /\ trace_cells[CallOf(e1, k1)].quote

(* dedup_subentries()                                                      *)
Deduping ==
  /\ active_entries = <<>> /\ index > 0
  /\ word \in Live
  /\ \A e \in Live : e > word => \A k \in CellsOf(e) : CallsAsMade(e, k)
  /\ \A k \in CellsOf(word) : k >= index => CallsAsMade(word, k)
  /\ \A e1, e2 \in Live : e1 >= word /\ e2 >= word =>
       \A k1 \in CellsOf(e1), k2 \in CellsOf(e2) :
         SameQuote(e1, k1, e2, k2) => (e1 = e2 /\ k1 = k2) \/ First(CallOf(e1, k1))
  /\ \A e \in Live : e >= word /\ ~trace_cells[e].n => ~First(e)

(* top_parent() and trace_matching_entry()                                 *)
Matching ==
  /\ index \in CellsOf(word)
  /\ Callee # NoEntry /\ trace_cells[Callee].quote
  /\ at \in Live /\ word <= at /\ at <= Callee
  /\ doing = "match" => \A x \in Live : word <= x /\ x < at => ~entries_match(x, Callee)

(* The blocks from word on start at S.                                     *)
Blocks(S) ==
  /\ word \in S
  /\ S \subseteq word .. trace_ptr - 1
  /\ \A s \in S : s + BlockSize \in S \union {trace_ptr}
  /\ \A s, t \in S : s < t => s + BlockSize <= t
  /\ \A e \in Live : e >= word /\ trace_cells[e].block => e \in S
  /\ at \in S \union {trace_ptr}

(* The places for the entries of the word that are before lim.             *)
PlacesFor(lim) ==
  /\ \A e \in Live : word <= e /\ e < lim =>
       /\ Final(e) \in word .. e
       /\ Final(e) + trace_entry_size(e) <= next
       /\ Final(e) + trace_entry_size(e) = next
          \/ \E f \in Live : /\ word <= f /\ f < lim
                             /\ Final(f) = Final(e) + trace_entry_size(e)
  /\ \A e, f \in Live : word <= e /\ e < f /\ f < lim => Final(e) + trace_entry_size(e) <= Final(f)

(* What is below the word does not refer to it.                            *)
BelowWord ==
  \A e \in Live : e < word => /\ trace_cells[e].n
                              /\ trace_cells[e].parent < word
                              /\ \A k \in CellsOf(e) : CallOf(e, k) < word

(* trace_compact()                                                         *)
Compaction ==
  /\ active_entries = <<>>
  /\ word \in Live /\ trace_cells[word].n
  /\ BelowWord
  /\ \E S \in SUBSET Places :
       /\ Blocks(S)
       /\ doing = "place" => \A s \in S : s >= at => is_entry(s)
  /\ doing = "place" =>
       /\ \A e \in Live : e >= word => trace_cells[e].block
       /\ \A e \in Live : word <= e /\ e < at => trace_cells[e].n
       /\ \A e \in Live : e >= at => trace_cells[e].compact = NoEntry
       /\ PlacesFor(at)
       /\ next <= at /\ (at = word => next = word) /\ (at > word => Final(word) = word)
  /\ doing \in {"refer", "move"} =>
       /\ \A e \in Live : trace_cells[e].n
       /\ PlacesFor(trace_ptr)
       /\ Final(word) = word /\ next <= trace_ptr
  /\ doing = "refer" => \A e \in Live : e >= word => trace_cells[e].block
  /\ doing = "move" =>
       \A e \in Live : e >= word =>
         IF trace_cells[e].block THEN e >= at ELSE e + trace_entry_size(e) <= at

Inv ==
  /\ TypeOK
  /\ Apart /\ Joined /\ Numbered /\ Content /\ Mapped
  /\ doing \in {"reduce", "map", "find"} => Based /\ Reduced
  /\ doing = "map" => Mapping
  /\ doing = "find" => Finding
  /\ doing \in {"dedup", "top", "match"} => Based /\ Deduping
  /\ doing \in {"top", "match"} => Matching
  /\ Compacting => Compaction

-----------------------------------------------------------------------------
(* Entries and cells.                                                      *)

LEMMA HeaderType ==
  ASSUME NEW r \in Records, r.kind = "entry"
  PROVE  r \in Headers
BY DEF Records, Headers, CellRecords, Zero, Dropped

LEMMA CellType ==
  ASSUME NEW r \in Records, r.kind = "cell"
  PROVE  r \in CellRecords
BY DEF Records, Headers, CellRecords, Zero, Dropped

(* The places of a live entry are in the memory.                           *)
LEMMA LiveFacts ==
  ASSUME MemoryAssumption, TypeOK, Apart, NEW e \in Live
  PROVE  /\ e \in Places /\ e \in Nat /\ e < trace_ptr
         /\ trace_cells[e] \in Headers /\ trace_cells[e].len \in Nat
         /\ trace_entry_next(e) \in Nat
         /\ e + trace_cells[e].len < trace_entry_next(e)
         /\ e < trace_entry_next(e)
         /\ trace_entry_next(e) <= trace_ptr
<1>1. /\ e \in Places /\ e \in Nat /\ e < trace_ptr /\ trace_cells[e].kind = "entry"
  BY SMTT(30) DEF TypeOK, Live, Places, is_entry
<1>2. trace_cells[e] \in Headers
  BY <1>1, HeaderType DEF TypeOK
<1>3. trace_cells[e].len \in Nat /\ trace_cells[e].block \in BOOLEAN
  BY <1>2 DEF Headers
<1>4. trace_cells[e].block => trace_cells[e].len < BlockSize
  BY DEF Apart
<1>5. BlockSize \in Nat /\ BlockSize > 0
  BY DEF MemoryAssumption
<1>6. CASE trace_cells[e].block
  BY <1>1, <1>2, <1>3, <1>4, <1>5, <1>6 DEF trace_entry_next, Apart
<1>7. CASE ~trace_cells[e].block
  BY <1>1, <1>2, <1>3, <1>5, <1>7 DEF trace_entry_next, trace_entry_size, Apart
<1>. QED  BY <1>6, <1>7

LEMMA CellFacts ==
  ASSUME MemoryAssumption, TypeOK, Apart, NEW e \in Live, NEW k \in CellsOf(e)
  PROVE  /\ k \in Nat /\ k > 0 /\ k <= trace_cells[e].len
         /\ e + k \in Body(e) /\ e + k \in Places
         /\ e < e + k /\ e + k < trace_entry_next(e) /\ e + k < trace_ptr
         /\ trace_cells[e + k] \in CellRecords
         /\ CallOf(e, k) \in PlacesOrNone
<1>0. /\ e \in Nat /\ e < trace_ptr /\ trace_cells[e].len \in Nat
      /\ trace_entry_next(e) \in Nat /\ e + trace_cells[e].len < trace_entry_next(e)
      /\ trace_entry_next(e) <= trace_ptr
  BY LiveFacts
<1>1. k \in Nat /\ k > 0 /\ k <= trace_cells[e].len
  BY <1>0 DEF CellsOf
<1>a. trace_ptr \in Nat /\ trace_ptr < TraceSize /\ TraceSize \in Nat
  BY DEF TypeOK, MemoryAssumption
<1>2. e + k < trace_ptr /\ e < e + k /\ e + k < trace_entry_next(e) /\ e + k <= e + trace_cells[e].len
  BY <1>0, <1>1, <1>a
<1>b. e + k \in Body(e)
  BY <1>0, <1>1, <1>2 DEF Body
<1>3. e + k \in Places
  BY <1>0, <1>1, <1>2, <1>a DEF Places
<1>4. trace_cells[e + k].kind = "cell"
  BY <1>b DEF Apart
<1>5. trace_cells[e + k] \in CellRecords
  BY <1>3, <1>4, CellType DEF TypeOK
<1>. QED  BY <1>1, <1>2, <1>b, <1>3, <1>5 DEF CellRecords, CallOf

(* A cell is not an entry, and is in one entry only.                       *)
LEMMA BodyFacts ==
  ASSUME MemoryAssumption, TypeOK, Apart, NEW e \in Live, NEW a \in Body(e)
  PROVE  /\ a \in Places /\ a \notin Live /\ a - e \in CellsOf(e) /\ a = e + (a - e)
         /\ e < a /\ a < trace_entry_next(e)
         /\ \A f \in Live : f # e => a \notin Body(f)
         /\ \A f \in Live : f > e => a < f
         /\ \A f \in Live : f < e => trace_entry_next(f) <= a
<1>1. a \in Nat /\ e < a /\ a <= e + trace_cells[e].len
  BY LiveFacts DEF Body
<1>2. a - e \in CellsOf(e) /\ a = e + (a - e)
  BY <1>1, LiveFacts DEF CellsOf
<1>3. a \in Places /\ a < trace_entry_next(e)
  BY <1>1, <1>2, CellFacts, LiveFacts
<1>4. a \notin Live
  BY DEF Apart, Live, is_entry
<1>5. \A f \in Live : f > e => a < f
  <2>. SUFFICES ASSUME NEW f \in Live, f > e PROVE a < f
    OBVIOUS
  <2>1. trace_entry_next(e) <= f
    BY DEF Apart
  <2>. QED  BY <1>1, <1>3, <2>1, LiveFacts
<1>6. \A f \in Live : f < e => trace_entry_next(f) <= a
  <2>. SUFFICES ASSUME NEW f \in Live, f < e PROVE trace_entry_next(f) <= a
    OBVIOUS
  <2>1. trace_entry_next(f) <= e
    BY DEF Apart
  <2>. QED  BY <1>1, <2>1, LiveFacts
<1>7. \A f \in Live : f # e => a \notin Body(f)
  <2>. SUFFICES ASSUME NEW f \in Live, f # e, a \in Body(f) PROVE FALSE
    OBVIOUS
  <2>1. /\ f < a /\ a <= f + trace_cells[f].len /\ a < trace_entry_next(f)
    BY <1>1, LiveFacts DEF Body
  <2>2. CASE f > e
    BY <2>1, <2>2, <1>5, <1>1, LiveFacts
  <2>3. CASE f < e
    BY <2>1, <2>3, <1>6, <1>1, LiveFacts
  <2>4. e \in Nat /\ f \in Nat
    BY LiveFacts
  <2>. QED  BY <2>2, <2>3, <2>4
<1>. QED  BY <1>1, <1>2, <1>3, <1>4, <1>5, <1>6, <1>7

-----------------------------------------------------------------------------
(* The blocks of the map.                                                  *)

LEMMA Times ==
  ASSUME NEW m \in Nat, NEW i \in Int, NEW j \in Int, i <= j
  PROVE  i * m <= j * m
<1>1. i * m \in Int /\ j * m \in Int /\ (j - i) * m \in Int
  OBVIOUS
<1>2. (j - i) * m = j * m - i * m
  BY SMT
<1>3. j - i \in Nat
  OBVIOUS
<1>4. (j - i) * m >= 0
  BY <1>3, SMT
<1>. QED  BY <1>1, <1>2, <1>4

LEMMA DivFacts ==
  ASSUME NEW m \in Nat, m > 0, NEW v \in Nat
  PROVE  v \div m \in Nat /\ (v \div m) * m <= v /\ v < (v \div m) * m + m
<1>1. v \div m \in Nat
  BY SMT
<1>2. v = (m * (v \div m)) + (v % m) /\ (v % m) \in 0 .. m - 1
  BY SMT
<1>3. m * (v \div m) = (v \div m) * m
  BY <1>1, SMT
<1>. QED  BY <1>1, <1>2, <1>3, SMT

LEMMA DivUpFacts ==
  ASSUME MemoryAssumption, NEW v \in Nat
  PROVE  /\ DivUp(v) \in Nat /\ v <= DivUp(v) * MapBlock
         /\ \A i \in Int : i < DivUp(v) => i * MapBlock < v
<1>1. MapBlock \in Nat /\ MapBlock > 0
  BY DEF MemoryAssumption
<1>. DEFINE q == (v + MapBlock - 1) \div MapBlock
<1>2. v + MapBlock - 1 \in Nat
  BY <1>1
<1>3. q \in Nat /\ q * MapBlock <= v + MapBlock - 1 /\ v + MapBlock - 1 < q * MapBlock + MapBlock
  BY <1>1, <1>2, DivFacts
<1>4. DivUp(v) = q
  BY DEF DivUp
<1>. HIDE DEF q
<1>5. q * MapBlock \in Nat
  BY <1>1, <1>3
<1>6. v <= q * MapBlock
  BY <1>1, <1>3, <1>5
<1>7. ASSUME NEW i \in Int, i < q PROVE i * MapBlock < v
  <2>1. i * MapBlock <= (q - 1) * MapBlock
    BY <1>1, <1>3, <1>7, Times
  <2>2. (q - 1) * MapBlock = q * MapBlock - MapBlock
    BY <1>1, <1>3, SMT
  <2>3. i * MapBlock \in Int
    BY <1>1
  <2>. QED  BY <2>1, <2>2, <2>3, <1>1, <1>3, <1>5
<1>. QED  BY <1>3, <1>4, <1>6, <1>7

LEMMA MapFacts ==
  ASSUME MemoryAssumption, TypeOK
  PROVE  /\ DOMAIN trace_block_map = 0 .. DivUp(TraceSize) - 1
         /\ DivUp(TraceSize) \in Nat
         /\ \A i \in Int : i * MapBlock \in Int
         /\ \A i, j \in Int : i <= j => i * MapBlock <= j * MapBlock
         /\ \A i \in DOMAIN trace_block_map :
              i \in Nat /\ i * MapBlock \in Nat /\ i * MapBlock < TraceSize
<1>1. TraceSize \in Nat /\ MapBlock \in Nat
  BY DEF MemoryAssumption
<1>2. DivUp(TraceSize) \in Nat /\ \A i \in Int : i < DivUp(TraceSize) => i * MapBlock < TraceSize
  BY <1>1, DivUpFacts
<1>3. DOMAIN trace_block_map = 0 .. DivUp(TraceSize) - 1
  BY DEF TypeOK
<1>4. \A i, j \in Int : i <= j => i * MapBlock <= j * MapBlock
  BY <1>1, Times
<1>5. \A i \in Int : i * MapBlock \in Int
  BY <1>1
<1>6. \A i \in Nat : i * MapBlock \in Nat
  BY <1>1
<1>7. \A i \in DOMAIN trace_block_map :
        i \in Nat /\ i * MapBlock \in Nat /\ i * MapBlock < TraceSize
  <2>. TAKE i \in DOMAIN trace_block_map
  <2>1. i \in Nat /\ i \in Int /\ i < DivUp(TraceSize)
    BY <1>2, <1>3
  <2>. QED  BY <2>1, <1>2, <1>6
<1>. QED  BY <1>2, <1>3, <1>4, <1>5, <1>7

(* The map has an entry for each place.                                    *)
LEMMA FirstEntryFacts ==
  ASSUME MemoryAssumption, TypeOK, NEW v \in Nat, v < TraceSize
  PROVE  /\ v \div MapBlock \in DOMAIN trace_block_map
         /\ (v \div MapBlock) * MapBlock <= v
<1>1. TraceSize \in Nat /\ MapBlock \in Nat /\ MapBlock > 0
  BY DEF MemoryAssumption
<1>. DEFINE q == v \div MapBlock
<1>2. q \in Nat /\ q * MapBlock <= v
  BY <1>1, DivFacts
<1>3. TraceSize <= DivUp(TraceSize) * MapBlock /\ DivUp(TraceSize) \in Nat
  BY <1>1, DivUpFacts
<1>4. q < DivUp(TraceSize)
  <2>. HIDE DEF q
  <2>. SUFFICES ASSUME q >= DivUp(TraceSize) PROVE FALSE
    BY <1>2, <1>3
  <2>1. DivUp(TraceSize) * MapBlock <= q * MapBlock
    BY <1>1, <1>2, <1>3, Times
  <2>2. DivUp(TraceSize) * MapBlock \in Int /\ q * MapBlock \in Int
    BY <1>1, <1>2, <1>3
  <2>. QED  BY <1>1, <1>2, <1>3, <2>1, <2>2
<1>5. DOMAIN trace_block_map = 0 .. DivUp(TraceSize) - 1
  BY MapFacts
<1>. QED  BY <1>2, <1>3, <1>4, <1>5

-----------------------------------------------------------------------------
(* What the invariant says is enough.                                      *)

LEMMA PlainLeads ==
  ASSUME ~Compacting, NEW e, NEW p, NEW f
  PROVE  Leads(e, p, f) <=> p = f
BY DEF Leads, Referred, Compacting

LEMMA InvEntriesKept ==
  ASSUME MemoryAssumption, Inv
  PROVE  EntriesKept
<1>. SUFFICES ASSUME doing = "reduce", NEW id \in DOMAIN stored \ merged
              PROVE  \E e \in 0 .. trace_ptr - 1 :
                       is_entry(e) /\ IdOf(e) = id /\ Holds(e, stored[id])
  BY DEF EntriesKept
<1>1. TypeOK /\ Apart /\ Numbered /\ Content /\ Reduced
  BY DEF Inv
<1>2. ~Compacting
  BY DEF Compacting
<1>3. \A f \in Live : /\ f \in 0 .. trace_ptr - 1 /\ is_entry(f) /\ IdOf(f) = trace_cells[f].id
                      /\ trace_cells[f].id \in DOMAIN stored /\ trace_cells[f].id \notin merged
  <2>. TAKE f \in Live
  <2>1. f \in 0 .. trace_ptr - 1 /\ is_entry(f) /\ f # NoEntry
    BY DEF Live, NoEntry
  <2>. QED  BY <2>1, <1>1 DEF IdOf, Numbered, Reduced
<1>4. PICK e \in Live : trace_cells[e].id = id
  BY <1>1 DEF Numbered
<1>5. /\ trace_cells[e].len = Len(stored[id].cells)
      /\ \A k \in CellsOf(e) : CellSays(e, k)
      /\ ParentSays(e)
  BY <1>1, <1>4 DEF Content
<1>6. ASSUME NEW k \in CellsOf(e) PROVE Says(trace_cells[e + k], stored[id].cells[k])
  <2>1. trace_cells[e + k].kind = "cell"
    BY <1>1, CellFacts DEF Apart
  <2>2. CellSays(e, k) /\ Was(e, k) = stored[id].cells[k]
    BY <1>4, <1>5 DEF Was
  <2>3. CASE Was(e, k).callee = 0
    BY <2>1, <2>2, <2>3 DEF CellSays, CallOf, Says
  <2>4. CASE Was(e, k).callee # 0
    <3>1. CallSays(e, k)
      BY <2>2, <2>4 DEF CellSays
    <3>2. PICK f \in Live : CallOf(e, k) = f /\ StandsFor(trace_cells[f].id, Was(e, k).callee)
      BY <3>1, <1>2, PlainLeads DEF CallSays
    <3>3. stored[IdOf(f)].cells = stored[Was(e, k).callee].cells
      BY <3>2, <1>3 DEF StandsFor
    <3>. QED  BY <2>1, <2>2, <2>4, <3>2, <3>3, <1>3 DEF CellSays, CallOf, Says
  <2>. QED  BY <2>3, <2>4
<1>7. IF stored[id].parent \in merged \union {0} THEN trace_cells[e].parent = NoEntry
      ELSE /\ trace_cells[e].parent \in 0 .. trace_ptr - 1
           /\ is_entry(trace_cells[e].parent) /\ IdOf(trace_cells[e].parent) = stored[id].parent
  BY <1>1, <1>2, <1>3, <1>4, <1>5, PlainLeads DEF ParentSays
<1>. QED  BY <1>3, <1>4, <1>5, <1>6, <1>7 DEF Holds, CellsOf

-----------------------------------------------------------------------------
(* It holds when nothing was compiled.                                     *)

LEMMA InitInv ==
  ASSUME MemoryAssumption, TraceInit
  PROVE  Inv
<1>1. /\ {TraceSize, MapBlock} \subseteq Nat \ {0} /\ DivUp(TraceSize) \in Nat
  BY DivUpFacts DEF MemoryAssumption
<1>2. TypeOK
  <2>1. Zero \in Records /\ NoEntry \in PlacesOrNone /\ NoEntry \in Int
    BY DEF Records, PlacesOrNone, NoEntry
  <2>2. stored = [i \in {} |-> <<>>] /\ DOMAIN stored = {}
    BY DEF TraceInit
  <2>3. stored \in [DOMAIN stored -> Ghosts] /\ DOMAIN stored \subseteq 1 .. started
    BY <2>2
  <2>. QED  BY <1>1, <2>1, <2>3 DEF TraceInit, TypeOK, Phases, Places
<1>3. Live = {}
  BY <1>2 DEF Live, TraceInit
<1>4. ~Compacting /\ doing = "reduce"
  BY DEF Compacting, TraceInit
<1>5. Apart /\ Joined /\ Content
  BY <1>3 DEF Apart, Joined, Content
<1>6. Numbered
  BY <1>3 DEF Numbered, TraceInit
<1>7. Mapped
  <2>1. \A i \in DOMAIN trace_block_map : i * MapBlock \in Nat
    BY <1>2, MapFacts
  <2>. QED  BY <1>4, <2>1 DEF Mapped, TraceInit
<1>8. Based /\ Reduced
  BY <1>3 DEF Based, Reduced, AsMade, OneCell, TraceInit, NoEntry
<1>. QED  BY <1>2, <1>4, <1>5, <1>6, <1>7, <1>8 DEF Inv

-----------------------------------------------------------------------------
(* Steps that only look at the entries.                                    *)

Looks ==
  /\ UNCHANGED <<trace_cells, trace_ptr, active_entries, started, stored, merged>>
  /\ ~Compacting /\ ~Compacting'

LEMMA LooksKeeps ==
  ASSUME Looks, Apart, Joined, Numbered, Content
  PROVE  Live' = Live /\ Apart' /\ Joined' /\ Numbered' /\ Content'
<1>1. Live' = Live
  BY DEF Looks, Live, is_entry
<1>2. Apart' /\ Numbered'
  BY <1>1 DEF Looks, Apart, Numbered, trace_entry_next, trace_entry_size, Body
<1>3. Joined'
  BY <1>1 DEF Looks, Joined, trace_entry_next, trace_entry_size
<1>4. \A e, p, f : Leads(e, p, f)' <=> Leads(e, p, f)
  BY DEF Looks, Leads, Referred, Compacting
<1>5. \A id, c : StandsFor(id, c)' <=> StandsFor(id, c)
  BY DEF Looks, StandsFor, ActiveIds, Active
<1>6. \A e, k : CallSays(e, k) => CallSays(e, k)'
  BY <1>1, <1>4, <1>5 DEF Looks, CallSays, CallOf, Was
<1>7. \A e, k : CellSays(e, k) => CellSays(e, k)'
  BY <1>6 DEF Looks, CellSays, CallOf, Was
<1>8. \A e : ParentSays(e) => ParentSays(e)'
  BY <1>1, <1>4 DEF Looks, ParentSays
<1>9. Content'
  BY <1>1, <1>7, <1>8 DEF Looks, Content, CellsOf
<1>. QED  BY <1>1, <1>2, <1>3, <1>9

Reducings == {"reduce", "map", "find"}

LEMMA LooksReduced ==
  ASSUME Looks, Live' = Live, Based, Reduced, doing \in Reducings, doing' \in Reducings,
         word' \in {word, NoEntry}
  PROVE  Base' = Base /\ Based' /\ Reduced'
<1>1. Base' = Base
  BY DEF Looks, Base, Reducings
<1>2. Based'
  BY <1>1 DEF Looks, Based, CellsOf, CallOf
<1>3. \A e, k : CallsAsMade(e, k)' <=> CallsAsMade(e, k)
  BY DEF Looks, CallsAsMade, CallOf, Was
<1>4. Reduced'
  BY <1>1, <1>3 DEF Looks, Reduced, AsMade, OneCell, CellsOf, CallOf
<1>. QED  BY <1>1, <1>2, <1>4

LEMMA MapRoundInv ==
  ASSUME MemoryAssumption, Inv, MapRound
  PROVE  Inv'
<1>1. TypeOK /\ Apart /\ Joined /\ Numbered /\ Content /\ Mapped /\ Based /\ Reduced /\ Mapping
  BY DEF Inv, MapRound
<1>2. doing = "map" /\ doing' \in {"map", "reduce"} /\ word' = word
  BY DEF MapRound
<1>3. Looks /\ doing \in Reducings /\ doing' \in Reducings
  BY <1>2 DEF Looks, Compacting, MapRound, Reducings
<1>4. Live' = Live /\ Apart' /\ Joined' /\ Numbered' /\ Content' /\ Based' /\ Reduced'
  BY <1>1, <1>2, <1>3, LooksKeeps, LooksReduced
<1>5. UNCHANGED <<trace_cells, trace_ptr, active_entries, word, started, stored, merged>>
  BY DEF MapRound
<1>6. /\ at \in Nat /\ next \in Nat /\ index \in Nat /\ TraceSize \in Nat /\ trace_ptr \in Nat
      /\ index * MapBlock \in Int /\ at <= index * MapBlock
      /\ \A i \in DOMAIN trace_block_map : i \in Nat /\ i * MapBlock \in Nat
  BY SMTT(30), <1>1, MapFacts DEF TypeOK, Mapping, MemoryAssumption
<1>7. ~Compacting /\ ~Compacting'
  BY <1>3 DEF Looks
<1>. DEFINE Known(i) == i * MapBlock < trace_ptr =>
                          trace_block_map[i] \in Live /\ trace_block_map[i] <= i * MapBlock
<1>8. \A i \in DOMAIN trace_block_map : i < index => Known(i)
  BY <1>1, <1>2, <1>7 DEF Mapped
<1>9. CASE index \notin DOMAIN trace_block_map
  <2>1. doing' = "reduce" /\ UNCHANGED <<trace_block_map, at, next, index>>
    BY <1>9 DEF MapRound
  <2>a. DOMAIN trace_block_map = 0 .. DivUp(TraceSize) - 1 /\ DivUp(TraceSize) \in Nat
    BY <1>1, MapFacts
  <2>2. \A i \in DOMAIN trace_block_map : i < index
    BY <1>6, <1>9, <2>a
  <2>3. Mapped'
    BY <1>4, <1>5, <1>7, <1>8, <2>1, <2>2 DEF Mapped
  <2>4. TypeOK'
    BY <1>1, <1>5, <2>1 DEF TypeOK, Phases
  <2>. QED  BY <1>4, <1>7, <2>1, <2>3, <2>4 DEF Inv
<1>10. CASE index \in DOMAIN trace_block_map /\ next <= index * MapBlock
  <2>1. /\ at' = next /\ next' \in NextFrom(next)
        /\ UNCHANGED <<trace_block_map, doing, index>>
    BY <1>10 DEF MapRound
  <2>2. next \in Places
    <3>1. index * MapBlock < TraceSize
      BY <1>1, <1>10, MapFacts
    <3>. QED  BY <1>6, <1>10, <3>1 DEF Places
  <2>3. next' \in Nat /\ next' > next
    <3>1. CASE trace_cells[next].kind = "entry"
      <4>1. trace_cells[next] \in Headers /\ next' = trace_entry_next(next)
        BY <1>1, <2>1, <2>2, <3>1, HeaderType DEF TypeOK, NextFrom
      <4>. QED  BY <1>6, <4>1 DEF Headers, trace_entry_next, trace_entry_size, MemoryAssumption
    <3>2. CASE trace_cells[next].kind # "entry"
      <4>1. next' \in {next + 1, next + TraceSize}
        BY <2>1, <3>2 DEF NextFrom
      <4>. QED  BY <1>6, <4>1 DEF MemoryAssumption
    <3>. QED  BY <3>1, <3>2
  <2>4. Mapping'
    <3>1. CASE at' < trace_ptr
      <4>1. at < trace_ptr
        BY <1>1, <1>6, <2>1, <3>1 DEF Mapping
      <4>2. at \in Live /\ next = trace_entry_next(at)
        BY <1>1, <4>1 DEF Mapping
      <4>3. next \in Live
        BY <1>1, <1>6, <1>7, <2>1, <3>1, <4>2 DEF Joined
      <4>4. next' = trace_entry_next(next)
        BY <2>1, <4>3 DEF NextFrom, Live, is_entry
      <4>6. trace_entry_next(at)' = trace_entry_next(next)
        BY <1>5, <2>1 DEF trace_entry_next, trace_entry_size
      <4>7. at' <= index' * MapBlock /\ at' \in Live' /\ next' = trace_entry_next(at)'
        BY <1>4, <1>10, <2>1, <4>3, <4>4, <4>6
      <4>. QED  BY <1>5, <3>1, <4>7 DEF Mapping
    <3>2. CASE ~(at' < trace_ptr)
      BY <1>5, <1>6, <1>10, <2>1, <2>3, <3>2 DEF Mapping
    <3>. QED  BY <3>1, <3>2
  <2>5. Mapped'
    BY <1>2, <1>4, <1>5, <1>7, <1>8, <2>1 DEF Mapped
  <2>6. TypeOK'
    BY <1>1, <1>5, <1>6, <2>1, <2>3 DEF TypeOK
  <2>. QED  BY <1>2, <1>4, <1>7, <2>1, <2>4, <2>5, <2>6 DEF Inv
<1>11. CASE index \in DOMAIN trace_block_map /\ ~(next <= index * MapBlock)
  <2>1. /\ trace_block_map' = [trace_block_map EXCEPT ![index] = at]
        /\ IF at >= trace_ptr THEN doing' = "reduce" /\ index' = index
           ELSE index' = index + 1 /\ doing' = doing
        /\ UNCHANGED <<at, next>>
    BY <1>11 DEF MapRound
  <2>a. trace_block_map' \in [0 .. DivUp(TraceSize) - 1 -> Int]
    <3>1. trace_block_map \in [0 .. DivUp(TraceSize) - 1 -> Int] /\ at \in Int
      BY <1>1, <1>6 DEF TypeOK
    <3>. QED  BY <2>1, <3>1
  <2>b. index' \in Nat /\ doing' \in Phases /\ at' = at /\ next' = next
    BY <1>2, <1>6, <2>1 DEF Phases
  <2>2. TypeOK'
    BY <1>1, <1>5, <2>a, <2>b DEF TypeOK
  <2>3. /\ DOMAIN trace_block_map' = DOMAIN trace_block_map
        /\ trace_block_map'[index] = at
        /\ \A i \in DOMAIN trace_block_map : i # index => trace_block_map'[i] = trace_block_map[i]
    BY <1>1, <1>11, <2>1 DEF TypeOK
  <2>4. CASE at >= trace_ptr
    <3>1. \A i \in DOMAIN trace_block_map : i >= index => ~(i * MapBlock < trace_ptr)
      <4>. SUFFICES ASSUME NEW i \in DOMAIN trace_block_map, i >= index, i * MapBlock < trace_ptr
                    PROVE  FALSE
        OBVIOUS
      <4>1. i \in Nat /\ i * MapBlock \in Nat /\ index * MapBlock <= i * MapBlock
        BY <1>1, <1>6, MapFacts
      <4>. QED  BY <1>6, <2>4, <4>1
    <3>2. \A i \in DOMAIN trace_block_map : Known(i)'
      BY <1>4, <1>5, <1>6, <1>8, <2>3, <3>1
    <3>3. Mapped'
      BY <1>7, <2>3, <3>2 DEF Mapped
    <3>. QED  BY <1>4, <1>7, <2>1, <2>2, <2>4, <3>3 DEF Inv
  <2>5. CASE at < trace_ptr
    <3>1. at \in Live /\ index' = index + 1 /\ doing' = "map"
      BY <1>1, <1>2, <1>6, <2>1, <2>5 DEF Mapping
    <3>2. \A i \in DOMAIN trace_block_map : i < index' => Known(i)'
      <4>. SUFFICES ASSUME NEW i \in DOMAIN trace_block_map, i < index + 1 PROVE Known(i)'
        BY <3>1
      <4>1. CASE i = index
        <5>1. at \in Live' /\ at <= i * MapBlock /\ trace_block_map'[i] = at
          BY <1>4, <1>6, <2>3, <3>1, <4>1
        <5>. QED  BY <5>1
      <4>2. CASE i < index
        BY <1>4, <1>5, <1>6, <1>8, <2>3, <4>2
      <4>. QED  BY <1>6, <4>1, <4>2
    <3>3. Mapped'
      BY <1>7, <2>3, <3>1, <3>2 DEF Mapped
    <3>4. index * MapBlock <= index' * MapBlock /\ index' * MapBlock \in Int
      <4>1. index \in Int /\ index' \in Int /\ index <= index'
        BY <1>6, <3>1
      <4>. QED  BY <1>1, <4>1, MapFacts
    <3>5. trace_entry_next(at)' = trace_entry_next(at)
      BY <1>5, <2>1 DEF trace_entry_next, trace_entry_size
    <3>6. at <= index' * MapBlock
      BY <1>6, <3>4
    <3>7. next = trace_entry_next(at)
      BY <1>1, <2>5 DEF Mapping
    <3>8. Mapping'
      BY <1>4, <1>5, <2>1, <2>5, <3>1, <3>5, <3>6, <3>7 DEF Mapping
    <3>. QED  BY <1>4, <1>7, <2>2, <3>1, <3>3, <3>8 DEF Inv
  <2>. QED  BY <1>6, <2>4, <2>5
<1>. QED  BY <1>9, <1>10, <1>11

LEMMA LooksMapped ==
  ASSUME MemoryAssumption, Looks, Live' = Live, Mapped, UNCHANGED trace_block_map, doing # "map", doing' # "map"
  PROVE  Mapped'
BY DEF Looks, Mapped

LEMMA ThrowInv ==
  ASSUME MemoryAssumption, Inv, Throw
  PROVE  Inv'
<1>1. doing = "reduce" /\ doing' = "reduce"
  BY DEF Throw, Reducing
<1>2. TypeOK /\ Apart /\ Joined /\ Numbered /\ Content /\ Mapped /\ Based /\ Reduced
  BY <1>1 DEF Inv
<1>3. Looks /\ word' = NoEntry /\ trace_block_map' = trace_block_map /\ ~Compacting'
  BY <1>1 DEF Looks, Compacting, Throw
<1>4. Live' = Live /\ Apart' /\ Joined' /\ Numbered' /\ Content'
  BY <1>2, <1>3, LooksKeeps
<1>5. Based' /\ Reduced'
  BY <1>1, <1>2, <1>3, <1>4, LooksReduced DEF Reducings
<1>6. Mapped'
  BY <1>1, <1>2, <1>3, <1>4, LooksMapped
<1>7. TypeOK'
  BY <1>2 DEF TypeOK, Throw, PlacesOrNone
<1>. QED  BY <1>1, <1>3, <1>4, <1>5, <1>6, <1>7 DEF Inv

LEMMA TraceDepInv ==
  ASSUME MemoryAssumption, Inv, trace_dep
  PROVE  Inv'
<1>1. doing = "reduce" /\ doing' = "find" /\ word # NoEntry
  BY DEF trace_dep, Reducing
<1>2. TypeOK /\ Apart /\ Joined /\ Numbered /\ Content /\ Mapped /\ Based /\ Reduced
  BY <1>1 DEF Inv
<1>3. Looks /\ word' = word /\ trace_block_map' = trace_block_map /\ ~Compacting' /\ ~Compacting
  BY <1>1 DEF Looks, Compacting, trace_dep
<1>4. Live' = Live /\ Apart' /\ Joined' /\ Numbered' /\ Content'
  BY <1>2, <1>3, LooksKeeps
<1>5. Based' /\ Reduced'
  BY <1>1, <1>2, <1>3, <1>4, LooksReduced DEF Reducings
<1>6. Mapped'
  BY <1>1, <1>2, <1>3, <1>4, LooksMapped
<1>7. PICK o \in Active : \E v \in Body(o) : Room(o) /\ index' = v /\ at' = block_first_entry(v)
  BY DEF trace_dep
<1>17. PICK v \in Body(o) : Room(o) /\ index' = v /\ at' = block_first_entry(v)
  BY <1>7
<1>8. o \in Live
  BY <1>2, <1>7 DEF Reduced, Active
<1>9. /\ o \in Nat /\ v \in Nat /\ o < v /\ v < trace_entry_next(o) /\ v < trace_ptr
      /\ trace_ptr \in Nat /\ trace_ptr < TraceSize /\ TraceSize \in Nat
      /\ trace_entry_next(o) \in Nat
  <2>1. trace_ptr \in Nat /\ trace_ptr < TraceSize /\ TraceSize \in Nat
    BY <1>2 DEF TypeOK, MemoryAssumption
  <2>2. o \in Nat /\ trace_entry_next(o) \in Nat /\ trace_entry_next(o) <= trace_ptr
    BY <1>2, <1>8, LiveFacts
  <2>3. v \in Places /\ o < v /\ v < trace_entry_next(o)
    BY <1>2, <1>8, BodyFacts
  <2>. QED  BY <2>1, <2>2, <2>3 DEF Places
<1>. DEFINE q == v \div MapBlock
<1>10. q \in DOMAIN trace_block_map /\ q * MapBlock <= v /\ q * MapBlock \in Nat
  <2>1. v < TraceSize
    BY <1>9
  <2>2. q \in DOMAIN trace_block_map /\ q * MapBlock <= v
    BY <1>2, <1>9, <2>1, FirstEntryFacts
  <2>. QED  BY <1>2, <2>2, MapFacts
<1>. HIDE DEF q
<1>11. trace_block_map[q] \in Live /\ trace_block_map[q] <= q * MapBlock
  BY <1>1, <1>2, <1>3, <1>9, <1>10 DEF Mapped
<1>12. at' = trace_block_map[q]
  BY <1>17 DEF block_first_entry, q
<1>13. at' \in Live /\ at' \in Nat /\ at' <= v
  BY <1>2, <1>9, <1>10, <1>11, <1>12, LiveFacts
<1>14. at' <= o
  <2>. SUFFICES ASSUME at' > o PROVE FALSE
    BY <1>9, <1>13
  <2>1. trace_entry_next(o) <= at'
    BY <1>2, <1>8, <1>13 DEF Apart
  <2>. QED  BY <1>9, <1>13, <2>1
<1>15. Finding'
  <2>1. Active' = Active /\ Body(o)' = Body(o) /\ Room(o)' = Room(o)
    BY <1>3 DEF Looks, Active, Body, Room
  <2>2. o \in Active' /\ index' \in Body(o)' /\ Room(o)' /\ at' \in Live' /\ at' <= o
    BY <1>4, <1>17, <1>13, <1>14, <2>1
  <2>. QED  BY <1>1, <1>3, <2>2 DEF Finding
<1>16. TypeOK'
  <2>1. index' \in Nat /\ at' \in Nat /\ doing' \in Phases
    BY <1>1, <1>17, <1>9, <1>13 DEF Phases
  <2>. QED  BY <1>2, <2>1 DEF TypeOK, trace_dep
<1>. QED  BY <1>1, <1>3, <1>4, <1>5, <1>6, <1>15, <1>16 DEF Inv

(* A round of var_entry() that goes on to the next entry.                  *)
FindsOn ==
  /\ doing = "find" /\ ~entry_has(at, index)
  /\ at' = trace_entry_next(at)
  /\ UNCHANGED <<trace_cells, stored, doing, trace_ptr, trace_block_map, active_entries, word,
                 next, index, started, merged>>

LEMMA FindsOnInv ==
  ASSUME MemoryAssumption, Inv, FindsOn
  PROVE  Inv'
<1>1. doing = "find" /\ doing' = "find" /\ word' = word
  BY DEF FindsOn
<1>2. TypeOK /\ Apart /\ Joined /\ Numbered /\ Content /\ Mapped /\ Based /\ Reduced /\ Finding
  BY <1>1 DEF Inv
<1>3. Looks /\ trace_block_map' = trace_block_map /\ ~Compacting' /\ ~Compacting
  BY <1>1 DEF Looks, Compacting, FindsOn
<1>4. Live' = Live /\ Apart' /\ Joined' /\ Numbered' /\ Content'
  BY <1>2, <1>3, LooksKeeps
<1>5. Based' /\ Reduced'
  BY <1>1, <1>2, <1>3, <1>4, LooksReduced DEF Reducings
<1>6. Mapped'
  BY <1>1, <1>2, <1>3, <1>4, LooksMapped
<1>7. PICK o \in Active : index \in Body(o) /\ Room(o) /\ at \in Live /\ at <= o
  BY <1>2 DEF Finding
<1>8. o \in Live
  BY <1>2, <1>7 DEF Reduced, Active
<1>9. /\ at \in Nat /\ o \in Nat /\ trace_entry_next(at) \in Nat /\ o < trace_ptr /\ trace_ptr \in Nat
  BY <1>2, <1>7, <1>8, LiveFacts DEF TypeOK
<1>10. at # o
  BY <1>7 DEF FindsOn, entry_has
<1>11. at' <= o /\ at' \in Nat /\ at' # trace_ptr
  <2>1. at < o
    BY <1>7, <1>9, <1>10
  <2>2. trace_entry_next(at) <= o
    BY <1>2, <1>7, <1>8, <2>1 DEF Apart
  <2>3. at' = trace_entry_next(at)
    BY DEF FindsOn
  <2>. QED  BY <1>9, <2>2, <2>3
<1>12. at' \in Live
  BY <1>2, <1>3, <1>7, <1>11 DEF Joined, FindsOn
<1>13. Finding'
  <2>1. Active' = Active /\ Body(o)' = Body(o) /\ Room(o)' = Room(o) /\ index' = index
    BY DEF FindsOn, Active, Body, Room
  <2>2. o \in Active' /\ index' \in Body(o)' /\ Room(o)' /\ at' \in Live' /\ at' <= o
    BY <1>4, <1>7, <1>11, <1>12, <2>1
  <2>3. word' # NoEntry
    BY <1>1, <1>2 DEF Finding
  <2>. QED  BY <2>2, <2>3 DEF Finding
<1>14. TypeOK'
  BY <1>2, <1>11 DEF TypeOK, FindsOn
<1>. QED  BY <1>1, <1>3, <1>4, <1>5, <1>6, <1>13, <1>14 DEF Inv

-----------------------------------------------------------------------------
(* Entries that are the same are merged.                                   *)

Dedups == {"dedup", "top", "match"}

LEMMA LooksDeduping ==
  ASSUME Looks, Live' = Live, Based, Deduping, doing \in Dedups, doing' \in Dedups,
         word' = word, index \in Nat, index' \in Nat, index <= index'
  PROVE  Based' /\ Deduping'
<1>1. Base' = Base
  BY DEF Looks, Base, Dedups
<1>2. Based'
  BY <1>1 DEF Looks, Based, CellsOf, CallOf
<1>3. \A e, k : CallsAsMade(e, k)' <=> CallsAsMade(e, k)
  BY DEF Looks, CallsAsMade, CallOf, Was
<1>4. \A a, b : entries_match(a, b)' <=> entries_match(a, b)
  BY DEF Looks, entries_match, closure_match
<1>5. \A t : First(t)' <=> First(t)
  BY <1>4 DEF Looks, First
<1>6. /\ active_entries' = <<>> /\ index' > 0 /\ word' \in Live'
      /\ \A e \in Live' : e > word' => \A k \in CellsOf(e)' : CallsAsMade(e, k)'
  BY <1>3 DEF Looks, Deduping, CellsOf
<1>7. \A k \in CellsOf(word)' : k >= index' => CallsAsMade(word, k)'
  <2>1. CellsOf(word)' = CellsOf(word)
    BY DEF Looks, CellsOf
  <2>2. \A k \in CellsOf(word) : k \in Int
    BY DEF CellsOf
  <2>3. \A k \in CellsOf(word) : k >= index => CallsAsMade(word, k)
    BY DEF Deduping
  <2>. QED  BY <1>3, <2>1, <2>2, <2>3
<1>8. \A e1, e2 \in Live' : e1 >= word' /\ e2 >= word' =>
        \A k1 \in CellsOf(e1)', k2 \in CellsOf(e2)' :
          SameQuote(e1, k1, e2, k2)' => (e1 = e2 /\ k1 = k2) \/ First(CallOf(e1, k1))'
  <2>1. \A e1, k1, e2, k2 : SameQuote(e1, k1, e2, k2)' <=> SameQuote(e1, k1, e2, k2)
    BY DEF Looks, SameQuote, CallOf
  <2>2. \A e : CellsOf(e)' = CellsOf(e) /\ \A k : CallOf(e, k)' = CallOf(e, k)
    BY DEF Looks, CellsOf, CallOf
  <2>3. \A e, k : First(CallOf(e, k))' <=> First(CallOf(e, k))
    BY <1>4 DEF Looks, First, CallOf
  <2>. QED  BY <2>1, <2>2, <2>3 DEF Looks, Deduping
<1>9. \A e \in Live' : e >= word' /\ ~trace_cells'[e].n => ~First(e)'
  BY <1>5 DEF Looks, Deduping
<1>. QED  BY <1>2, <1>6, <1>7, <1>8, <1>9 DEF Deduping

(* Which entries the word calls, before it is redirected.                  *)
LEMMA CalleeFacts ==
  ASSUME MemoryAssumption, Inv, doing \in Dedups, index \in CellsOf(word), Callee # NoEntry
  PROVE  /\ Callee \in Live /\ trace_cells[Callee].n
         /\ trace_cells[Callee].id = Was(word, index).callee
         /\ trace_cells[Callee].quote => word < Callee
<1>1. TypeOK /\ Apart /\ Content /\ Deduping /\ ~Compacting
  BY DEF Inv, Dedups, Compacting
<1>2. word \in Live /\ Callee = CallOf(word, index)
  BY <1>1 DEF Deduping, Callee, CallOf
<1>3. CellSays(word, index)
  BY <1>1, <1>2 DEF Content
<1>4. CallSays(word, index)
  BY <1>2, <1>3 DEF CellSays
<1>5. PICK f \in Live : trace_cells[f].n /\ Leads(word, CallOf(word, index), f)
  BY <1>4 DEF CallSays
<1>6. Callee = f
  BY <1>1, <1>2, <1>5, PlainLeads
<1>7. index \in Nat /\ CallsAsMade(word, index)
  <2>1. index >= index
    BY <1>1 DEF TypeOK
  <2>. QED  BY <1>1, <2>1 DEF Deduping, TypeOK
<1>8. Callee \in Nat /\ word \in Nat
  BY <1>1, <1>2, <1>5, <1>6, LiveFacts
<1>. QED  BY <1>2, <1>5, <1>6, <1>7, <1>8 DEF CallsAsMade

LEMMA DedupFacts ==
  ASSUME Inv, doing \in Dedups
  PROVE  /\ TypeOK /\ Apart /\ Joined /\ Numbered /\ Content /\ Mapped /\ Based /\ Deduping
         /\ doing # "dedup" => Matching
         /\ ~Compacting /\ doing # "map" /\ Base = word /\ index \in Nat
BY DEF Inv, Dedups, Compacting, Base, TypeOK

LEMMA TopRoundInv ==
  ASSUME MemoryAssumption, Inv, TopRound
  PROVE  Inv'
<1>1. doing = "top" /\ doing \in Dedups /\ doing' \in {"top", "match"} /\ doing' \in Dedups
  BY DEF TopRound, Dedups
<1>2. /\ TypeOK /\ Apart /\ Joined /\ Numbered /\ Content /\ Mapped /\ Based /\ Deduping
      /\ Matching /\ Base = word /\ index \in Nat
  BY <1>1, DedupFacts
<1>3. UNCHANGED <<trace_cells, trace_ptr, trace_block_map, active_entries, word, next, index,
                  started, stored, merged>>
  BY DEF TopRound
<1>4. Looks /\ ~Compacting'
  BY <1>1, <1>3 DEF Looks, Compacting
<1>5. Live' = Live /\ Apart' /\ Joined' /\ Numbered' /\ Content'
  BY <1>2, <1>4, LooksKeeps
<1>6. Based' /\ Deduping'
  <2>1. index <= index' /\ index' \in Nat
    BY <1>2, <1>3
  <2>. QED  BY <1>1, <1>2, <1>3, <1>4, <1>5, <2>1, LooksDeduping
<1>7. Mapped'
  BY <1>1, <1>2, <1>3, <1>4, <1>5, LooksMapped
<1>8. index \in CellsOf(word) /\ Callee # NoEntry /\ trace_cells[Callee].quote /\ at \in Live /\ word <= at /\ at <= Callee
  BY <1>2 DEF Matching
<1>9. Callee \in Live /\ Callee \in Nat /\ at \in Nat /\ word \in Nat /\ word \in Live
  BY <1>1, <1>2, <1>8, CalleeFacts, LiveFacts DEF Deduping
<1>10. /\ index' \in CellsOf(word)' /\ Callee' = Callee /\ trace_cells'[Callee].quote
  BY <1>3, <1>8 DEF CellsOf, Callee
<1>11. CASE trace_cells[at].parent # NoEntry
  <2>1. at' = trace_cells[at].parent /\ doing' = "top"
    BY <1>1, <1>11 DEF TopRound
  <2>2. at # word
    BY <1>2, <1>9, <1>11 DEF Based
  <2>3. at' \in Live /\ word <= at' /\ at' < at
    BY <1>2, <1>8, <1>9, <2>1, <2>2 DEF Based
  <2>4. at' \in Nat /\ at' <= Callee
    BY <1>2, <1>8, <1>9, <2>3, LiveFacts
  <2>5. Matching'
    BY <1>3, <1>5, <1>8, <1>10, <2>1, <2>3, <2>4 DEF Matching
  <2>6. TypeOK'
    BY <1>1, <1>2, <1>3, <2>1, <2>4 DEF TypeOK
  <2>. QED  BY <1>1, <1>4, <1>5, <1>6, <1>7, <2>1, <2>5, <2>6 DEF Inv
<1>12. CASE trace_cells[at].parent = NoEntry
  <2>1. at' = at /\ doing' = "match"
    BY <1>12 DEF TopRound
  <2>2. at = word
    <3>. SUFFICES ASSUME at > word PROVE FALSE
      BY <1>8, <1>9
    <3>1. NoEntry \in Live
      BY <1>2, <1>8, <1>12 DEF Based
    <3>. QED  BY <3>1 DEF Live, NoEntry
  <2>3. \A x \in Live' : ~(word' <= x /\ x < at')
    <3>. SUFFICES ASSUME NEW x \in Live, word <= x, x < at PROVE FALSE
      BY <1>3, <1>5, <2>1
    <3>1. x \in Nat
      BY <1>2, LiveFacts
    <3>. QED  BY <1>9, <2>2, <3>1
  <2>4. Matching'
    BY <1>3, <1>5, <1>8, <1>10, <2>1, <2>3 DEF Matching
  <2>6. TypeOK'
    BY <1>1, <1>2, <1>3, <2>1 DEF TypeOK, Phases
  <2>. QED  BY <1>1, <1>4, <1>5, <1>6, <1>7, <2>1, <2>4, <2>6 DEF Inv
<1>. QED  BY <1>11, <1>12

LEMMA DedupNextInv ==
  ASSUME MemoryAssumption, Inv, DedupNext, ~(index > trace_cells[word].len)
  PROVE  Inv'
<1>1. doing = "dedup" /\ doing \in Dedups /\ doing' \in {"dedup", "top"} /\ doing' \in Dedups
  BY DEF DedupNext, Dedups
<1>2. /\ TypeOK /\ Apart /\ Joined /\ Numbered /\ Content /\ Mapped /\ Based /\ Deduping
      /\ Base = word /\ index \in Nat
  BY <1>1, DedupFacts
<1>3. UNCHANGED <<trace_cells, trace_ptr, trace_block_map, active_entries, word, next,
                  started, stored, merged>>
  BY DEF DedupNext
<1>4. Looks /\ ~Compacting' /\ ~Compacting
  BY <1>1, <1>3 DEF Looks, Compacting
<1>5. Live' = Live /\ Apart' /\ Joined' /\ Numbered' /\ Content'
  BY <1>2, <1>4, LooksKeeps
<1>6. index' \in {index, index + 1}
  BY DEF DedupNext
<1>7. Based' /\ Deduping'
  <2>1. index <= index' /\ index' \in Nat
    BY <1>2, <1>6
  <2>. QED  BY <1>1, <1>2, <1>3, <1>4, <1>5, <2>1, LooksDeduping
<1>8. Mapped'
  BY <1>1, <1>2, <1>3, <1>4, <1>5, LooksMapped
<1>9. word \in Live /\ index > 0
  BY <1>2 DEF Deduping
<1>10. index \in CellsOf(word) /\ word \in Nat
  BY <1>2, <1>9, LiveFacts DEF CellsOf
<1>11. CASE Callee # NoEntry /\ trace_cells[Callee].quote
  <2>1. doing' = "top" /\ at' = Callee /\ index' = index
    BY <1>11 DEF DedupNext
  <2>2. Callee \in Live /\ word < Callee
    BY <1>1, <1>10, <1>11, CalleeFacts
  <2>3. Callee \in Nat
    BY <1>2, <2>2, LiveFacts
  <2>4. index' \in CellsOf(word)' /\ Callee' = Callee /\ trace_cells'[Callee].quote
    BY <1>3, <1>10, <1>11, <2>1 DEF CellsOf, Callee
  <2>5. Matching'
    BY <1>3, <1>5, <1>10, <1>11, <2>1, <2>2, <2>3, <2>4 DEF Matching
  <2>6. TypeOK'
    BY <1>1, <1>2, <1>3, <2>1, <2>3 DEF TypeOK, Phases
  <2>. QED  BY <1>1, <1>4, <1>5, <1>7, <1>8, <2>1, <2>5, <2>6 DEF Inv
<1>12. CASE ~(Callee # NoEntry /\ trace_cells[Callee].quote)
  <2>1. doing' = "dedup" /\ at' = at /\ index' = index + 1
    BY <1>1, <1>12 DEF DedupNext
  <2>2. TypeOK'
    <3>1. index' \in Nat
      BY <1>2, <2>1
    <3>. QED  BY <1>1, <1>2, <1>3, <2>1, <3>1 DEF TypeOK
  <2>. QED  BY <1>4, <1>5, <1>7, <1>8, <2>1, <2>2 DEF Inv
<1>. QED  BY <1>11, <1>12

(* dedup_subentries() returns, and trace_compact() begins.                 *)
LEMMA DedupEndInv ==
  ASSUME MemoryAssumption, Inv, DedupNext, index > trace_cells[word].len
  PROVE  Inv'
<1>1. doing = "dedup" /\ doing \in Dedups /\ doing' = "place" /\ at' = word /\ next' = word
  BY DEF DedupNext, Dedups
<1>2. /\ TypeOK /\ Apart /\ Joined /\ Numbered /\ Content /\ Mapped /\ Based /\ Deduping
      /\ Base = word /\ ~Compacting
  BY <1>1, DedupFacts
<1>3. UNCHANGED <<trace_cells, trace_ptr, trace_block_map, active_entries, word, index,
                  started, stored, merged>>
  BY DEF DedupNext
<1>4. word \in Live /\ active_entries = <<>>
  BY <1>2 DEF Deduping
<1>5. /\ word \in Nat
      /\ \A e \in Live : e \in Nat /\ e \in Int /\ e < trace_ptr
      /\ trace_ptr \in Nat /\ BlockSize \in Nat /\ BlockSize > 0
  <2>1. trace_ptr \in Nat /\ BlockSize \in Nat /\ BlockSize > 0
    BY <1>2 DEF TypeOK, MemoryAssumption
  <2>2. \A e \in Live : e \in Nat /\ e < trace_ptr
    BY <1>2, LiveFacts
  <2>. QED  BY <1>4, <2>1, <2>2
<1>6. Live' = Live /\ Compacting' /\ Active' = Active
  BY <1>1, <1>3 DEF Live, is_entry, Compacting, Active
<1>7. Apart' /\ Numbered'
  BY <1>2, <1>3, <1>6 DEF Apart, Numbered, trace_entry_next, trace_entry_size, Body
<1>8. Joined'
  BY <1>2, <1>3, <1>6 DEF Joined, trace_entry_next, trace_entry_size
<1>9. \A e \in Live : ~Referred(e)' /\ \A p, f : Leads(e, p, f)' <=> Leads(e, p, f)
  <2>. TAKE e \in Live
  <2>1. ~Referred(e) /\ ~Referred(e)'
    BY <1>1 DEF Referred
  <2>. QED  BY <2>1 DEF Leads
<1>10. Content'
  <2>1. \A id, c : StandsFor(id, c)' <=> StandsFor(id, c)
    BY <1>3, <1>6 DEF StandsFor, ActiveIds
  <2>2. \A e \in Live : \A k : CallSays(e, k) => CallSays(e, k)'
    BY <1>3, <1>6, <1>9, <2>1 DEF CallSays, CallOf, Was
  <2>3. \A e \in Live : \A k : CellSays(e, k) => CellSays(e, k)'
    BY <1>3, <2>2 DEF CellSays, CallOf, Was
  <2>4. \A e \in Live : ParentSays(e) => ParentSays(e)'
    BY <1>2, <1>3, <1>6, <1>9 DEF ParentSays
  <2>. QED  BY <1>2, <1>3, <1>6, <2>3, <2>4 DEF Content, CellsOf
<1>11. Mapped'
  <2>. SUFFICES ASSUME NEW i \in DOMAIN trace_block_map, i * MapBlock < word
                PROVE  trace_block_map[i] \in Live /\ trace_block_map[i] <= i * MapBlock
    BY <1>1, <1>3, <1>6 DEF Mapped
  <2>1. i * MapBlock \in Nat
    BY <1>2, MapFacts
  <2>2. i * MapBlock < trace_ptr
    BY <1>4, <1>5, <2>1
  <2>. QED  BY <1>1, <1>2, <2>2 DEF Mapped
<1>12. /\ \A e \in Live : e >= word => trace_cells[e].block /\ trace_cells[e].compact = NoEntry
       /\ \A e \in Live : e < word => /\ trace_cells[e].parent < word /\ trace_cells[e].n
                                      /\ \A k \in CellsOf(e) : CallOf(e, k) < word
  BY <1>2 DEF Based
<1>13. trace_cells[word].n
  <2>1. First(word)
    <3>. SUFFICES ASSUME NEW x \in Live, word < x, x < word PROVE FALSE
      BY DEF First
    <3>. QED  BY <1>5
  <2>2. word >= word
    BY <1>5
  <2>. QED  BY <1>2, <1>4, <2>1, <2>2 DEF Deduping
<1>14. \E S \in SUBSET Places : Blocks(S)' /\ \A s \in S : s >= at' => is_entry(s)'
  <2>. PICK S : S = {e \in Live : e >= word}
    OBVIOUS
  <2>1. S \in SUBSET Places
    BY <1>2, LiveFacts
  <2>2. word' \in S /\ at' \in S
    BY <1>1, <1>3, <1>4, <1>5
  <2>3. S \subseteq word' .. trace_ptr' - 1
    BY <1>3, <1>5
  <2>4. \A s \in S : s + BlockSize \in S \union {trace_ptr'}
    <3>. TAKE s \in S
    <3>1. trace_entry_next(s) = s + BlockSize
      BY <1>12 DEF trace_entry_next
    <3>2. s + BlockSize \in Live \union {trace_ptr}
      BY <1>2, <3>1 DEF Joined
    <3>3. s + BlockSize >= word
      BY <1>5
    <3>. QED  BY <1>3, <3>2, <3>3
  <2>5. \A s, t \in S : s < t => s + BlockSize <= t
    <3>. SUFFICES ASSUME NEW s \in S, NEW t \in S, s < t PROVE s + BlockSize <= t
      OBVIOUS
    <3>1. trace_entry_next(s) = s + BlockSize
      BY <1>12 DEF trace_entry_next
    <3>. QED  BY <1>2, <3>1 DEF Apart
  <2>6. \A e \in Live' : e >= word' /\ trace_cells'[e].block => e \in S
    BY <1>3, <1>6
  <2>7. \A s \in S : is_entry(s)'
    BY <1>3 DEF Live, is_entry
  <2>8. Blocks(S)'
    BY <2>2, <2>3, <2>4, <2>5, <2>6 DEF Blocks
  <2>. QED  BY <2>1, <2>7, <2>8
<1>15. PlacesFor(word)'
  <2>1. \A e \in Live : ~(word <= e /\ e < word)
    BY <1>5
  <2>2. \A e, f \in Live : ~(word <= e /\ e < f /\ f < word)
    BY <1>5
  <2>. QED  BY <1>3, <1>6, <2>1, <2>2 DEF PlacesFor
<1>16. PlacesFor(at)'
  BY <1>1, <1>3, <1>15 DEF PlacesFor
<1>17. \A e \in Live : ~(word <= e /\ e < word)
  BY <1>5
<1>18. ~(word > word) /\ word <= word
  BY <1>5
<1>19. Compaction'
  <2>1. /\ \A e \in Live' : e >= word' => trace_cells'[e].block
        /\ \A e \in Live' : word' <= e /\ e < at' => trace_cells'[e].n
        /\ \A e \in Live' : e >= at' => trace_cells'[e].compact = NoEntry
        /\ next' <= at' /\ (at' = word' => next' = word') /\ (at' > word' => Final(word)' = word')
    BY <1>1, <1>3, <1>6, <1>12, <1>17, <1>18
  <2>2. /\ active_entries' = <<>>
        /\ word' \in Live' /\ trace_cells'[word'].n
        /\ \A e \in Live' : e < word' => /\ trace_cells'[e].n
                                         /\ trace_cells'[e].parent < word'
                                         /\ \A k \in CellsOf(e)' : CallOf(e, k)' < word'
    BY <1>3, <1>4, <1>6, <1>12, <1>13 DEF CellsOf, CallOf
  <2>. QED  BY <1>1, <1>14, <1>16, <2>1, <2>2 DEF Compaction, BelowWord
<1>20. TypeOK'
  BY <1>1, <1>2, <1>3, <1>5 DEF TypeOK, Phases
<1>. QED  BY <1>1, <1>7, <1>8, <1>10, <1>11, <1>19, <1>20 DEF Inv

(* A round of trace_matching_entry() that goes on, or finds nothing.       *)
LEMMA MatchOnInv ==
  ASSUME MemoryAssumption, Inv, MatchRound, ~(at < Callee /\ entries_match(at, Callee))
  PROVE  Inv'
<1>1. doing = "match" /\ doing \in Dedups /\ doing' \in {"match", "dedup"} /\ doing' \in Dedups
  BY DEF MatchRound, Dedups
<1>2. /\ TypeOK /\ Apart /\ Joined /\ Numbered /\ Content /\ Mapped /\ Based /\ Deduping
      /\ Matching /\ Base = word /\ index \in Nat
  BY <1>1, DedupFacts
<1>3. /\ UNCHANGED <<trace_cells, trace_ptr, trace_block_map, active_entries, word, next,
                     started, stored, merged>>
      /\ IF at < Callee THEN at' = trace_entry_next(at) /\ UNCHANGED <<index, doing>>
         ELSE index' = index + 1 /\ doing' = "dedup" /\ UNCHANGED at
  BY DEF MatchRound
<1>4. Looks /\ ~Compacting' /\ ~Compacting
  BY <1>1, <1>3 DEF Looks, Compacting
<1>5. Live' = Live /\ Apart' /\ Joined' /\ Numbered' /\ Content'
  BY <1>2, <1>4, LooksKeeps
<1>6. Based' /\ Deduping'
  <2>1. index <= index' /\ index' \in Nat
    BY <1>2, <1>3
  <2>. QED  BY <1>1, <1>2, <1>3, <1>4, <1>5, <2>1, LooksDeduping
<1>7. Mapped'
  BY <1>1, <1>2, <1>3, <1>4, <1>5, LooksMapped
<1>8. /\ index \in CellsOf(word) /\ Callee # NoEntry /\ trace_cells[Callee].quote
      /\ at \in Live /\ word <= at /\ at <= Callee
      /\ \A x \in Live : word <= x /\ x < at => ~entries_match(x, Callee)
  BY <1>1, <1>2 DEF Matching
<1>9. /\ Callee \in Live /\ word \in Live /\ Callee \in Nat /\ at \in Nat /\ word \in Nat
      /\ trace_entry_next(at) \in Nat /\ at < trace_entry_next(at) /\ Callee < trace_ptr
      /\ trace_ptr \in Nat
  <2>1. Callee \in Live /\ word \in Live
    BY <1>1, <1>2, <1>8, CalleeFacts DEF Deduping
  <2>. QED  BY <1>2, <1>8, <2>1, LiveFacts DEF TypeOK
<1>10. CASE at < Callee
  <2>1. at' = trace_entry_next(at) /\ index' = index /\ doing' = doing
    BY <1>3, <1>10
  <2>2. trace_entry_next(at) <= Callee
    BY <1>2, <1>8, <1>9, <1>10 DEF Apart
  <2>3. trace_entry_next(at) \in Live
    BY <1>2, <1>4, <1>8, <1>9, <2>2 DEF Joined
  <2>4. \A x \in Live : word <= x /\ x < trace_entry_next(at) => ~entries_match(x, Callee)
    <3>. SUFFICES ASSUME NEW x \in Live, word <= x, x < trace_entry_next(at)
                  PROVE  ~entries_match(x, Callee)
      OBVIOUS
    <3>1. x \in Nat
      BY <1>2, LiveFacts
    <3>2. ~(at < x)
      BY <1>2, <1>8, <1>9, <3>1 DEF Apart
    <3>. QED  BY <1>8, <1>9, <1>10, <3>1, <3>2
  <2>5. Callee' = Callee /\ \A x : entries_match(x, Callee)' <=> entries_match(x, Callee)
    BY <1>3, <2>1 DEF Callee, entries_match, closure_match
  <2>6. index' \in CellsOf(word)' /\ trace_cells'[Callee].quote /\ word <= at'
    BY <1>3, <1>8, <1>9, <2>1 DEF CellsOf
  <2>7. Matching'
    BY <1>1, <1>3, <1>5, <1>8, <2>1, <2>2, <2>3, <2>4, <2>5, <2>6 DEF Matching
  <2>8. TypeOK'
    BY <1>2, <1>3, <1>9, <2>1 DEF TypeOK
  <2>. QED  BY <1>1, <1>4, <1>5, <1>6, <1>7, <2>1, <2>7, <2>8 DEF Inv
<1>11. CASE ~(at < Callee)
  <2>1. doing' = "dedup" /\ at' = at /\ index' = index + 1
    BY <1>3, <1>11
  <2>2. index' \in Nat
    BY <1>2, <2>1
  <2>3. TypeOK'
    BY <1>2, <1>3, <2>1, <2>2 DEF TypeOK, Phases
  <2>. QED  BY <1>4, <1>5, <1>6, <1>7, <2>1, <2>3 DEF Inv
<1>. QED  BY <1>10, <1>11

(* dedup_entry(): the callee is replaced by the entry that is like it.     *)
Merges ==
  /\ doing = "match" /\ at < Callee /\ entries_match(at, Callee)
  /\ MatchRound

(* What is true of the two entries.                                        *)
LEMMA MergeFacts ==
  ASSUME MemoryAssumption, Inv, Merges
  PROVE  /\ TypeOK /\ Apart /\ Joined /\ Numbered /\ Content /\ Mapped /\ Based /\ Deduping
         /\ ~Compacting /\ Base = word /\ index \in Nat /\ index \in CellsOf(word)
         /\ word \in Live /\ at \in Live /\ Callee \in Live
         /\ word \in Nat /\ at \in Nat /\ Callee \in Nat
         /\ word < at /\ at < Callee
         /\ First(at) /\ trace_cells[at].n /\ trace_cells[Callee].n
         /\ trace_cells[Callee].id = Was(word, index).callee
         /\ stored[trace_cells[at].id].cells = stored[trace_cells[Callee].id].cells
         /\ \A e \in Live : \A k \in CellsOf(e) :
              CallOf(e, k) = Callee => e = word /\ k = index
<1>1. doing \in Dedups /\ doing # "dedup" /\ doing = "match"
  BY DEF Merges, Dedups
<1>2. /\ TypeOK /\ Apart /\ Joined /\ Numbered /\ Content /\ Mapped /\ Based /\ Deduping
      /\ Matching /\ Base = word /\ index \in Nat /\ ~Compacting
  BY <1>1, DedupFacts
<1>3. /\ index \in CellsOf(word) /\ Callee # NoEntry /\ trace_cells[Callee].quote
      /\ at \in Live /\ word <= at /\ at < Callee
      /\ entries_match(at, Callee)
      /\ \A x \in Live : word <= x /\ x < at => ~entries_match(x, Callee)
  BY <1>1, <1>2 DEF Matching, Merges
<1>4. /\ Callee \in Live /\ trace_cells[Callee].n /\ word < Callee
      /\ trace_cells[Callee].id = Was(word, index).callee
  BY <1>1, <1>2, <1>3, CalleeFacts
<1>5. word \in Live /\ word \in Nat /\ at \in Nat /\ Callee \in Nat
  BY <1>2, <1>3, <1>4, LiveFacts DEF Deduping
<1>6. /\ trace_cells[at].len = trace_cells[Callee].len
      /\ \A k \in CellsOf(at) : /\ trace_cells[at + k].item = trace_cells[Callee + k].item
                                /\ CallOf(at, k) = CallOf(Callee, k)
  BY <1>3 DEF entries_match, closure_match, CellsOf, CallOf
<1>7. at # word
  <2>. SUFFICES ASSUME at = word PROVE FALSE
    OBVIOUS
  <2>1. index \in CellsOf(Callee) /\ CallOf(Callee, index) = Callee
    BY <1>3, <1>6 DEF CellsOf, CallOf, Callee
  <2>2. CallsAsMade(Callee, index)
    BY <1>2, <1>4, <1>5, <2>1 DEF Deduping
  <2>. QED  BY <1>3, <1>5, <2>1, <2>2 DEF CallsAsMade
<1>8. word < at
  BY <1>3, <1>5, <1>7
<1>9. First(at)
  <2>. SUFFICES ASSUME NEW x \in Live, word < x, x < at, entries_match(x, at) PROVE FALSE
    BY DEF First
  <2>1. x \in Nat
    BY <1>2, LiveFacts
  <2>2. entries_match(x, Callee)
    BY <1>3 DEF entries_match, closure_match
  <2>. QED  BY <1>3, <1>5, <2>1, <2>2
<1>10. trace_cells[at].n
  BY <1>2, <1>3, <1>9 DEF Deduping
<1>11. \A e \in Live : \A k \in CellsOf(e) : CallOf(e, k) = Callee => e = word /\ k = index
  <2>. SUFFICES ASSUME NEW e \in Live, NEW k \in CellsOf(e), CallOf(e, k) = Callee,
                       ~(e = word /\ k = index)
                PROVE  FALSE
    OBVIOUS
  <2>1. ~First(Callee)
    BY <1>3, <1>8 DEF First
  <2>2. e \in Nat
    BY <1>2, LiveFacts
  <2>3. CASE e < word
    BY <1>2, <1>4, <1>5, <2>2, <2>3 DEF Based
  <2>4. CASE e >= word
    <3>1. SameQuote(e, k, word, index)
      BY <1>3 DEF SameQuote, CallOf, Callee
    <3>2. word >= word
      BY <1>5
    <3>. QED  BY <1>2, <1>3, <1>5, <2>1, <2>4, <3>1, <3>2 DEF Deduping
  <2>. QED  BY <1>5, <2>2, <2>3, <2>4
<1>12. stored[trace_cells[at].id].cells = stored[trace_cells[Callee].id].cells
  <2>. DEFINE s == stored[trace_cells[at].id].cells
              t == stored[trace_cells[Callee].id].cells
  <2>1. /\ trace_cells[at].len = Len(s) /\ trace_cells[Callee].len = Len(t)
        /\ \A k \in CellsOf(at) : CellSays(at, k)
        /\ \A k \in CellsOf(Callee) : CellSays(Callee, k)
    BY <1>2, <1>3, <1>4 DEF Content
  <2>2. s \in Seq(Givens) /\ t \in Seq(Givens)
    BY <1>2, <1>3, <1>4 DEF TypeOK, Numbered, Ghosts
  <2>3. Len(s) = Len(t) /\ CellsOf(at) = 1 .. Len(s) /\ CellsOf(Callee) = 1 .. Len(t)
    BY <1>6, <2>1 DEF CellsOf
  <2>4. \A k \in CellsOf(at) : Was(at, k) = s[k] /\ Was(Callee, k) = t[k]
    BY DEF Was
  <2>. HIDE DEF s, t
  <2>5. ASSUME NEW k \in CellsOf(at) PROVE s[k] = t[k]
    <3>1. CellSays(at, k) /\ CellSays(Callee, k) /\ k \in CellsOf(Callee)
      BY <2>1, <2>3
    <3>2. s[k] \in Givens /\ t[k] \in Givens
      BY <2>2, <2>3
    <3>3. s[k].item = t[k].item
      BY <1>6, <2>4, <3>1 DEF CellSays
    <3>4. s[k].callee = t[k].callee
      <4>1. CallOf(at, k) = CallOf(Callee, k)
        BY <1>6
      <4>2. CallsAsMade(at, k) /\ CallsAsMade(Callee, k)
        BY <1>2, <1>3, <1>4, <1>8, <3>1 DEF Deduping
      <4>3. CASE CallOf(at, k) = NoEntry
        <5>1. \A e \in Live : CallSays(e, k) => CallOf(e, k) # NoEntry
          <6>. SUFFICES ASSUME NEW e \in Live, CallSays(e, k), CallOf(e, k) = NoEntry PROVE FALSE
            OBVIOUS
          <6>1. PICK f \in Live : Leads(e, NoEntry, f)
            BY DEF CallSays
          <6>2. NoEntry \in Live
            BY <1>2, <6>1, PlainLeads
          <6>. QED  BY <6>2 DEF Live, NoEntry
        <5>2. Was(at, k).callee = 0 /\ Was(Callee, k).callee = 0
          BY <1>3, <1>4, <3>1, <4>1, <4>3, <5>1 DEF CellSays
        <5>. QED  BY <2>4, <5>2
      <4>4. CASE CallOf(at, k) # NoEntry
        BY <2>4, <4>1, <4>2, <4>4 DEF CallsAsMade
      <4>. QED  BY <4>3, <4>4
    <3>. QED  BY <3>2, <3>3, <3>4 DEF Givens
  <2>6. s = t
    BY <2>2, <2>3, <2>5, SeqEqual
  <2>. QED  BY <2>6 DEF s, t
<1>. QED  BY <1>2, <1>3, <1>4, <1>5, <1>8, <1>9, <1>10, <1>11, <1>12

LEMMA CallLive ==
  ASSUME ~Compacting, Content, NEW e \in Live, NEW k \in CellsOf(e)
  PROVE  CallOf(e, k) = NoEntry \/ CallOf(e, k) \in Live
<1>1. CellSays(e, k)
  BY DEF Content
<1>. SUFFICES ASSUME Was(e, k).callee # 0 PROVE CallOf(e, k) \in Live
  BY <1>1 DEF CellSays
<1>2. PICK f \in Live : Leads(e, CallOf(e, k), f)
  BY <1>1 DEF CellSays, CallSays
<1>. QED  BY <1>2, PlainLeads

LEMMA LiveSame ==
  ASSUME MemoryAssumption, TypeOK, trace_ptr' = trace_ptr,
         \A a \in Places : trace_cells'[a].kind = "entry" <=> trace_cells[a].kind = "entry"
  PROVE  Live' = Live
<1>1. trace_ptr \in Nat /\ trace_ptr < TraceSize /\ TraceSize \in Nat
  BY DEF TypeOK, MemoryAssumption
<1>2. \A a \in 0 .. trace_ptr - 1 : a \in Places
  BY <1>1 DEF Places
<1>3. \A a \in 0 .. trace_ptr - 1 : is_entry(a)' <=> is_entry(a)
  BY <1>2 DEF is_entry
<1>. QED  BY <1>3 DEF Live

(* What changes when the callee is replaced.                               *)
HeadersMerged ==
  \A e \in Live :
    /\ trace_cells'[e].kind = "entry"
    /\ trace_cells'[e].id = trace_cells[e].id /\ trace_cells'[e].len = trace_cells[e].len
    /\ trace_cells'[e].parent = trace_cells[e].parent
    /\ trace_cells'[e].quote = trace_cells[e].quote /\ trace_cells'[e].block = trace_cells[e].block
    /\ trace_cells'[e].complete = trace_cells[e].complete
    /\ trace_cells'[e].compact = trace_cells[e].compact
    /\ trace_cells'[e].n <=> trace_cells[e].n /\ e # Callee

CellsMerged ==
  \A e \in Live : \A k \in CellsOf(e) :
    /\ trace_cells'[e + k].kind = "cell"
    /\ trace_cells'[e + k].item = trace_cells[e + k].item
    /\ trace_cells'[e + k].call = IF e = word /\ k = index THEN at ELSE CallOf(e, k)

LEMMA MergeEffect ==
  ASSUME MemoryAssumption, Inv, Merges
  PROVE  Live' = Live /\ HeadersMerged /\ CellsMerged /\ TypeOK'
<1>1. /\ TypeOK /\ Apart /\ Numbered /\ index \in CellsOf(word) /\ word \in Live /\ at \in Live /\ Callee \in Live
      /\ index \in Nat
  BY MergeFacts
<1>. DEFINE w == word + index
<1>2. w \in Places /\ w \notin Live /\ trace_cells[w] \in CellRecords
  <2>1. w \in Body(word) /\ w \in Places /\ trace_cells[w] \in CellRecords
    BY <1>1, CellFacts
  <2>. QED  BY <1>1, <2>1, BodyFacts
<1>3. Callee \in Places /\ trace_cells[Callee] \in Headers /\ at \in Places
  BY <1>1, LiveFacts
<1>4. /\ trace_cells' = [trace_cells EXCEPT ![Callee].n = FALSE, ![w].call = at]
      /\ merged' = merged \union {IdOf(Callee)} /\ index' = index + 1 /\ doing' = "dedup" /\ at' = at
      /\ UNCHANGED <<trace_ptr, trace_block_map, active_entries, word, next, started, stored>>
  BY DEF Merges, MatchRound
<1>5. w # Callee
  BY <1>1, <1>2
<1>. HIDE DEF w
<1>6. /\ trace_cells'[Callee] = [trace_cells[Callee] EXCEPT !.n = FALSE]
      /\ trace_cells'[w] = [trace_cells[w] EXCEPT !.call = at]
      /\ \A a \in Places : a # Callee /\ a # w => trace_cells'[a] = trace_cells[a]
      /\ DOMAIN trace_cells' = Places
  BY <1>1, <1>2, <1>3, <1>4, <1>5 DEF TypeOK
<1>7. /\ trace_cells'[Callee] \in Headers /\ trace_cells'[Callee].n = FALSE
      /\ trace_cells'[Callee].id = trace_cells[Callee].id
      /\ trace_cells'[Callee].len = trace_cells[Callee].len
      /\ trace_cells'[Callee].parent = trace_cells[Callee].parent
      /\ trace_cells'[Callee].quote = trace_cells[Callee].quote
      /\ trace_cells'[Callee].block = trace_cells[Callee].block
      /\ trace_cells'[Callee].complete = trace_cells[Callee].complete
      /\ trace_cells'[Callee].compact = trace_cells[Callee].compact
      /\ trace_cells'[Callee].kind = "entry"
  BY <1>3, <1>6 DEF Headers
<1>8. /\ trace_cells'[w] \in CellRecords /\ trace_cells'[w].call = at
      /\ trace_cells'[w].item = trace_cells[w].item /\ trace_cells'[w].kind = "cell"
  BY <1>2, <1>3, <1>6 DEF CellRecords, PlacesOrNone
<1>9. Live' = Live
  <2>1. \A a \in Places : trace_cells'[a].kind = "entry" <=> trace_cells[a].kind = "entry"
    <3>. TAKE a \in Places
    <3>1. trace_cells[Callee].kind = "entry" /\ trace_cells[w].kind = "cell"
      BY <1>2, <1>3 DEF Headers, CellRecords
    <3>. QED  BY <1>6, <1>7, <1>8, <3>1
  <2>. QED  BY <1>1, <1>4, <2>1, LiveSame
<1>10. HeadersMerged
  <2>. SUFFICES ASSUME NEW e \in Live
                PROVE  /\ trace_cells'[e].kind = "entry"
                       /\ trace_cells'[e].id = trace_cells[e].id /\ trace_cells'[e].len = trace_cells[e].len
                       /\ trace_cells'[e].parent = trace_cells[e].parent
                       /\ trace_cells'[e].quote = trace_cells[e].quote /\ trace_cells'[e].block = trace_cells[e].block
                       /\ trace_cells'[e].complete = trace_cells[e].complete
                       /\ trace_cells'[e].compact = trace_cells[e].compact
                       /\ trace_cells'[e].n <=> trace_cells[e].n /\ e # Callee
    BY DEF HeadersMerged
  <2>1. CASE e = Callee
    BY <1>7, <2>1
  <2>2. CASE e # Callee
    <3>1. e \in Places /\ e # w /\ trace_cells[e].kind = "entry"
      BY <1>1, <1>2, LiveFacts DEF Live, is_entry
    <3>. QED  BY <1>6, <2>2, <3>1
  <2>. QED  BY <2>1, <2>2
<1>11. CellsMerged
  <2>. SUFFICES ASSUME NEW e \in Live, NEW k \in CellsOf(e)
                PROVE  /\ trace_cells'[e + k].kind = "cell"
                       /\ trace_cells'[e + k].item = trace_cells[e + k].item
                       /\ trace_cells'[e + k].call = IF e = word /\ k = index THEN at ELSE CallOf(e, k)
    BY DEF CellsMerged
  <2>1. CASE e = word /\ k = index
    BY <1>8, <2>1 DEF w
  <2>2. CASE ~(e = word /\ k = index)
    <3>1. e + k \in Body(e) /\ e + k \in Places /\ trace_cells[e + k] \in CellRecords /\ k \in Nat /\ e \in Nat /\ word \in Nat
      BY <1>1, CellFacts, LiveFacts
    <3>2. e + k # Callee
      BY <1>1, <3>1, BodyFacts
    <3>3. e + k # w
      <4>1. CASE e = word
        BY <1>1, <2>2, <3>1, <4>1 DEF w
      <4>2. CASE e # word
        <5>1. w \in Body(word)
          BY <1>1, CellFacts DEF w
        <5>. QED  BY <1>1, <3>1, <4>2, <5>1, BodyFacts
      <4>. QED  BY <4>1, <4>2
    <3>. QED  BY <1>6, <2>2, <3>1, <3>2, <3>3 DEF CallOf, CellRecords
  <2>. QED  BY <2>1, <2>2
<1>12. TypeOK'
  <2>1. trace_cells' \in [Places -> Records]
    <3>1. \A a \in Places : trace_cells'[a] \in Records
      <4>. TAKE a \in Places
      <4>1. trace_cells[a] \in Records
        BY <1>1 DEF TypeOK
      <4>. QED  BY <1>6, <1>7, <1>8, <4>1 DEF Records
    <3>2. trace_cells' = [a \in Places |-> trace_cells'[a]]
      BY <1>1, <1>4 DEF TypeOK
    <3>. QED  BY <3>1, <3>2
  <2>2. merged' \subseteq 1 .. started
    <3>1. IdOf(Callee) = trace_cells[Callee].id
      BY <1>3 DEF IdOf, Places, NoEntry
    <3>2. trace_cells[Callee].id \in DOMAIN stored
      BY <1>1 DEF Numbered
    <3>. QED  BY <1>1, <1>4, <3>1, <3>2 DEF TypeOK
  <2>3. index' \in Nat
    BY <1>1, <1>4
  <2>. QED  BY <1>1, <1>4, <2>1, <2>2, <2>3 DEF TypeOK, Phases
<1>. QED  BY <1>9, <1>10, <1>11, <1>12

LEMMA MergeInv ==
  ASSUME MemoryAssumption, Inv, Merges
  PROVE  Inv'
<1>1. /\ TypeOK /\ Apart /\ Joined /\ Numbered /\ Content /\ Mapped /\ Based /\ Deduping
      /\ ~Compacting /\ Base = word /\ index \in Nat /\ index \in CellsOf(word)
      /\ word \in Live /\ at \in Live /\ Callee \in Live
      /\ word \in Nat /\ at \in Nat /\ Callee \in Nat
      /\ word < at /\ at < Callee
      /\ First(at) /\ trace_cells[at].n /\ trace_cells[Callee].n
      /\ trace_cells[Callee].id = Was(word, index).callee
      /\ stored[trace_cells[at].id].cells = stored[trace_cells[Callee].id].cells
      /\ \A e \in Live : \A k \in CellsOf(e) :
           CallOf(e, k) = Callee => e = word /\ k = index
  BY MergeFacts
<1>2. Live' = Live /\ TypeOK'
  BY MergeEffect
<1>3. HeadersMerged /\ CellsMerged
  BY MergeEffect
<1>4. /\ merged' = merged \union {trace_cells[Callee].id} /\ index' = index + 1 /\ doing' = "dedup"
      /\ UNCHANGED <<trace_ptr, trace_block_map, active_entries, word, started, stored>>
  <2>1. IdOf(Callee) = trace_cells[Callee].id
    BY <1>1 DEF IdOf, NoEntry
  <2>. QED  BY <2>1 DEF Merges, MatchRound
<1>5. doing = "match" /\ ~Compacting'
  BY <1>4 DEF Merges, Compacting
<1>6. \A e \in Live : CellsOf(e)' = CellsOf(e) /\ trace_entry_next(e)' = trace_entry_next(e) /\ Body(e)' = Body(e)
  BY <1>3 DEF HeadersMerged, CellsOf, trace_entry_next, trace_entry_size, Body
<1>7. \A e \in Live : e \in Nat
  BY <1>1, LiveFacts
<1>8. Apart'
  <2>1. \A e \in Live' : trace_entry_next(e)' <= trace_ptr'
    BY <1>1, <1>2, <1>4, <1>6 DEF Apart
  <2>2. \A e, f \in Live' : e < f => trace_entry_next(e)' <= f
    BY <1>1, <1>2, <1>6 DEF Apart
  <2>3. \A e \in Live' : trace_cells'[e].block => trace_cells'[e].len < BlockSize
    BY <1>1, <1>2, <1>3 DEF Apart, HeadersMerged
  <2>4. \A e \in Live' : \A a \in Body(e)' : trace_cells'[a].kind = "cell"
    <3>. SUFFICES ASSUME NEW e \in Live, NEW a \in Body(e) PROVE trace_cells'[a].kind = "cell"
      BY <1>2, <1>6
    <3>1. a - e \in CellsOf(e) /\ a = e + (a - e)
      BY <1>1, BodyFacts
    <3>2. trace_cells'[e + (a - e)].kind = "cell"
      BY <1>3, <3>1 DEF CellsMerged
    <3>. QED  BY <3>1, <3>2
  <2>. QED  BY <2>1, <2>2, <2>3, <2>4 DEF Apart
<1>9. Joined'
  BY <1>1, <1>2, <1>4, <1>6 DEF Joined
<1>10. \A e, f \in Live : trace_cells[e].id = trace_cells[f].id => e = f
  <2>1. ASSUME NEW e \in Live, NEW f \in Live, e < f PROVE trace_cells[e].id # trace_cells[f].id
    <3>1. trace_cells[e].id < trace_cells[f].id
      BY <1>1, <2>1 DEF Numbered
    <3>2. trace_cells[e].id \in Nat
      BY <1>1, LiveFacts DEF Headers
    <3>. QED  BY <3>1, <3>2
  <2>. TAKE e, f \in Live
  <2>2. e \in Nat /\ f \in Nat
    BY <1>7
  <2>. QED  BY <2>1, <2>2
<1>11. Numbered'
  <2>1. \A e \in Live' : /\ trace_cells'[e].id \in DOMAIN stored'
                         /\ trace_cells'[e].n <=> trace_cells'[e].id \notin merged'
    <3>. SUFFICES ASSUME NEW e \in Live
                  PROVE  /\ trace_cells'[e].id \in DOMAIN stored
                         /\ trace_cells'[e].n <=> trace_cells'[e].id \notin merged'
      BY <1>2, <1>4
    <3>1. /\ trace_cells'[e].id = trace_cells[e].id
          /\ trace_cells'[e].n <=> (trace_cells[e].n /\ e # Callee)
      BY <1>3 DEF HeadersMerged
    <3>2. /\ trace_cells[e].id \in DOMAIN stored
          /\ trace_cells[e].n <=> trace_cells[e].id \notin merged
      BY <1>1 DEF Numbered
    <3>3. merged' = merged \union {trace_cells[Callee].id}
      BY <1>4
    <3>4. trace_cells[e].id = trace_cells[Callee].id <=> e = Callee
      BY <1>1, <1>10
    <3>. QED  BY <3>1, <3>2, <3>3, <3>4
  <2>2. \A e, f \in Live' : e < f => trace_cells'[e].id < trace_cells'[f].id
    BY <1>1, <1>2, <1>3 DEF Numbered, HeadersMerged
  <2>3. \A id \in DOMAIN stored' \ merged' : \E e \in Live' : trace_cells'[e].id = id
    BY <1>1, <1>2, <1>3, <1>4 DEF Numbered, HeadersMerged
  <2>. QED  BY <2>1, <2>2, <2>3 DEF Numbered
<1>12. ActiveIds = {} /\ ActiveIds' = {} /\ active_entries = <<>>
  <2>1. active_entries = <<>> /\ active_entries' = <<>>
    BY <1>1, <1>4 DEF Deduping
  <2>. QED  BY <2>1 DEF ActiveIds, Active
<1>13. \A id, c : StandsFor(id, c) => StandsFor(id, c)'
  BY <1>4, <1>12 DEF StandsFor
<1>14. \A e, p, f : Leads(e, p, f)' <=> p = f
  BY <1>5 DEF Leads, Referred, Compacting
<1>15. \A e \in Live : \A k \in CellsOf(e) :
         /\ Was(e, k)' = Was(e, k)
         /\ CallOf(e, k)' = IF e = word /\ k = index THEN at ELSE CallOf(e, k)
         /\ trace_cells'[e + k].item = trace_cells[e + k].item
  BY <1>3, <1>4 DEF Was, CallOf, HeadersMerged, CellsMerged
<1>16. \A e \in Live : \A k \in CellsOf(e) : CellSays(e, k) /\ (CallOf(e, k) = NoEntry \/ CallOf(e, k) \in Live)
  BY <1>1, CallLive DEF Content
<1>17. ASSUME NEW e \in Live, NEW k \in CellsOf(e) PROVE CellSays(e, k)'
  <2>1. CellSays(e, k)
    BY <1>16
  <2>2. CASE e = word /\ k = index
    <3>1. trace_cells[Callee].id \in DOMAIN stored /\ trace_cells[at].id \in DOMAIN stored
      BY <1>1 DEF Numbered
    <3>3. CallOf(e, k)' = at /\ Was(e, k)' = Was(e, k) /\ Was(e, k) = Was(word, index)
      BY <1>1, <1>15, <2>2
    <3>4. trace_cells'[at].n /\ trace_cells'[at].id = trace_cells[at].id
      BY <1>1, <1>3 DEF HeadersMerged
    <3>6. Was(e, k).callee \in DOMAIN stored /\ Was(e, k).callee # 0
      <4>1. trace_cells[Callee].id # 0
        <5>1. DOMAIN stored \subseteq 1 .. started
          BY <1>1 DEF TypeOK
        <5>. QED  BY <3>1, <5>1
      <4>. QED  BY <1>1, <2>2, <3>1, <4>1
    <3>7. PICK id, c : id = trace_cells[at].id /\ c = Was(e, k).callee
      OBVIOUS
    <3>a. StandsFor(id, c)'
      BY <1>1, <1>4, <1>12, <3>1, <3>3, <3>7 DEF StandsFor
    <3>b. PICK f \in Live : f = at
      BY <1>1
    <3>8. CallSays(e, k)'
      BY <1>2, <1>14, <3>3, <3>4, <3>7, <3>a, <3>b DEF CallSays
    <3>. QED  BY <1>4, <1>15, <2>1, <3>6, <3>8 DEF CellSays
  <2>3. CASE ~(e = word /\ k = index)
    <3>1. CallOf(e, k)' = CallOf(e, k) /\ Was(e, k)' = Was(e, k)
      BY <1>15, <2>3
    <3>2. CASE Was(e, k).callee = 0
      BY <1>15, <2>1, <3>1, <3>2 DEF CellSays
    <3>3. CASE Was(e, k).callee # 0
      <4>1. PICK f \in Live : /\ trace_cells[f].n /\ CallOf(e, k) = f
                              /\ StandsFor(trace_cells[f].id, Was(e, k).callee)
        BY <1>1, <2>1, <3>3, PlainLeads DEF CellSays, CallSays
      <4>2. f # Callee
        BY <1>1, <2>3, <4>1
      <4>3. trace_cells'[f].n /\ trace_cells'[f].id = trace_cells[f].id
        BY <1>3, <4>1, <4>2 DEF HeadersMerged
      <4>4. CallSays(e, k)'
        BY <1>2, <1>13, <1>14, <3>1, <4>1, <4>3 DEF CallSays
      <4>. QED  BY <1>4, <1>15, <2>1, <3>1, <3>3, <4>4 DEF CellSays
    <3>. QED  BY <3>2, <3>3
  <2>. QED  BY <2>2, <2>3
<1>18. \A e \in Live : ParentSays(e)'
  <2>. TAKE e \in Live
  <2>1. /\ trace_cells'[e].parent = trace_cells[e].parent /\ trace_cells'[e].id = trace_cells[e].id
        /\ \A f \in Live : trace_cells'[f].id = trace_cells[f].id
    BY <1>3 DEF HeadersMerged
  <2>2. \A p, f : Leads(e, p, f) <=> p = f
    BY <1>1, PlainLeads
  <2>3. ParentSays(e)
    BY <1>1 DEF Content
  <2>4. stored' = stored /\ merged \subseteq merged' /\ Live' = Live
    BY <1>2, <1>4
  <2>5. PICK p, id : p = trace_cells[e].parent /\ id = trace_cells[e].id
    OBVIOUS
  <2>6. \/ stored[id].parent = 0 /\ p = NoEntry
        \/ stored[id].parent # 0 /\ \E f \in Live : p = f /\ trace_cells[f].id = stored[id].parent
        \/ stored[id].parent \in merged /\ p = NoEntry
    BY <1>1, <2>2, <2>3, <2>5 DEF ParentSays
  <2>7. trace_cells'[e].parent = p /\ trace_cells'[e].id = id
    BY <2>1, <2>5
  <2>8. \A f : Leads(e, p, f)' <=> p = f
    BY <1>14
  <2>9. CASE stored[id].parent = 0 /\ p = NoEntry
    BY <2>4, <2>7, <2>9 DEF ParentSays
  <2>10. CASE stored[id].parent # 0 /\ \E f \in Live : p = f /\ trace_cells[f].id = stored[id].parent
    <3>1. \E f \in Live' : Leads(e, p, f)' /\ trace_cells'[f].id = stored'[id].parent
      BY <2>1, <2>4, <2>8, <2>10
    <3>. QED  BY <2>4, <2>7, <2>10, <3>1 DEF ParentSays
  <2>11. CASE stored[id].parent \in merged /\ p = NoEntry
    BY <2>4, <2>7, <2>11 DEF ParentSays
  <2>. QED  BY <2>6, <2>9, <2>10, <2>11
<1>19. Content'
  <2>1. \A e \in Live : trace_cells'[e].len = Len(stored'[trace_cells'[e].id].cells)
    BY SMTT(30), <1>1, <1>3, <1>4 DEF Content, HeadersMerged
  <2>2. \A e \in Live : \A k \in CellsOf(e)' : CellSays(e, k)'
    BY <1>6, <1>17
  <2>. QED  BY <1>2, <1>18, <2>1, <2>2 DEF Content
<1>20. Mapped'
  BY <1>1, <1>2, <1>4, <1>5 DEF Mapped
<1>21. Based'
  <2>1. Base' = word
    BY <1>4 DEF Base
  <2>2. \A e \in Live : e >= word => trace_cells'[e].block /\ trace_cells'[e].compact = NoEntry
    BY <1>1, <1>3 DEF Based, HeadersMerged
  <2>3. \A e \in Live : e > word => /\ trace_cells'[e].parent \in Live
                                    /\ word <= trace_cells'[e].parent /\ trace_cells'[e].parent < e
    BY <1>1, <1>3 DEF Based, HeadersMerged
  <2>4. \A e \in Live : e = word => trace_cells'[e].parent = NoEntry /\ ~trace_cells'[e].quote
    BY <1>1, <1>3 DEF Based, HeadersMerged
  <2>5. ASSUME NEW e \in Live, e < word
        PROVE  /\ trace_cells'[e].parent < word /\ trace_cells'[e].n
               /\ \A k \in CellsOf(e)' : CallOf(e, k)' < word
    <3>1. e # word /\ e # Callee
      BY <1>1, <1>7, <2>5
    <3>2. /\ trace_cells[e].parent < word /\ trace_cells[e].n
          /\ \A k \in CellsOf(e) : CallOf(e, k) < word
      BY <1>1, <2>5 DEF Based
    <3>. QED  BY <1>3, <1>6, <1>15, <3>1, <3>2 DEF HeadersMerged
  <2>. QED  BY <1>2, <2>1, <2>2, <2>3, <2>4, <2>5 DEF Based
<1>22. \A x, t \in Live : x > word /\ t > word => (entries_match(x, t)' <=> entries_match(x, t))
  <2>. SUFFICES ASSUME NEW x \in Live, NEW t \in Live, x > word, t > word
                PROVE  entries_match(x, t)' <=> entries_match(x, t)
    OBVIOUS
  <2>1. x # word /\ t # word
    BY <1>1, <1>7
  <2>2. /\ trace_cells'[x].len = trace_cells[x].len /\ trace_cells'[t].len = trace_cells[t].len
        /\ \A k \in 1 .. trace_cells[x].len : /\ trace_cells'[x + k].item = trace_cells[x + k].item
                                              /\ trace_cells'[x + k].call = trace_cells[x + k].call
        /\ \A k \in 1 .. trace_cells[t].len : /\ trace_cells'[t + k].item = trace_cells[t + k].item
                                              /\ trace_cells'[t + k].call = trace_cells[t + k].call
    BY <1>3, <2>1 DEF HeadersMerged, CellsMerged, CellsOf, CallOf
  <2>. QED  BY <2>2 DEF entries_match, closure_match
<1>23. \A f \in Live : First(f)' <=> First(f)
  <2>. TAKE f \in Live
  <2>1. CASE f > word
    BY <1>1, <1>2, <1>4, <1>22, <2>1 DEF First
  <2>2. CASE ~(f > word)
    <3>1. \A x \in Live : ~(word < x /\ x < f)
      <4>1. word \in Nat
        BY <1>1
      <4>2. f \in Nat /\ f <= word
        BY <1>7, <2>2, <4>1
      <4>3. ASSUME NEW x \in Live PROVE ~(word < x /\ x < f)
        <5>1. x \in Nat
          BY <1>7
        <5>. QED  BY <4>1, <4>2, <5>1
      <4>. QED  BY <4>3
    <3>. QED  BY <1>2, <1>4, <3>1 DEF First
  <2>. QED  BY <2>1, <2>2
<1>24. Deduping'
  <2>1. \A e \in Live : \A k \in CellsOf(e) : ~(e = word /\ k = index) => (CallsAsMade(e, k) => CallsAsMade(e, k)')
    <3>. SUFFICES ASSUME NEW e \in Live, NEW k \in CellsOf(e), ~(e = word /\ k = index), CallsAsMade(e, k)
                  PROVE  CallsAsMade(e, k)'
      OBVIOUS
    <3>1. CallOf(e, k)' = CallOf(e, k) /\ Was(e, k)' = Was(e, k)
      BY <1>15
    <3>2. CASE CallOf(e, k) = NoEntry
      BY <3>1, <3>2 DEF CallsAsMade
    <3>3. CASE CallOf(e, k) \in Live
      BY <1>3, <3>1, <3>3 DEF CallsAsMade, HeadersMerged
    <3>. QED  BY <1>16, <3>2, <3>3
  <2>2. \A e \in Live' : e > word' => \A k \in CellsOf(e)' : CallsAsMade(e, k)'
    <3>1. \A e \in Live : e > word => e # word
      BY <1>1, <1>7
    <3>. QED  BY <1>1, <1>2, <1>4, <1>6, <2>1, <3>1 DEF Deduping
  <2>3. \A k \in CellsOf(word)' : k >= index' => CallsAsMade(word, k)'
    <3>. SUFFICES ASSUME NEW k \in CellsOf(word), k >= index + 1 PROVE CallsAsMade(word, k)'
      BY <1>1, <1>4, <1>6
    <3>1. k \in Int
      BY DEF CellsOf
    <3>2. k >= index /\ k # index
      BY <1>1, <3>1
    <3>3. CallsAsMade(word, k)
      BY <1>1, <3>2 DEF Deduping
    <3>4. PICK e \in Live : e = word
      BY <1>1
    <3>5. CallsAsMade(e, k)'
      BY <1>1, <2>1, <3>2, <3>3, <3>4
    <3>. QED  BY <1>4, <3>4, <3>5 DEF CallsAsMade, CallOf, Was
  <2>4. \A e1, e2 \in Live' : e1 >= word' /\ e2 >= word' =>
          \A k1 \in CellsOf(e1)', k2 \in CellsOf(e2)' :
            SameQuote(e1, k1, e2, k2)' => (e1 = e2 /\ k1 = k2) \/ First(CallOf(e1, k1))'
    <3>. SUFFICES ASSUME NEW e1 \in Live, NEW e2 \in Live, e1 >= word, e2 >= word,
                         NEW k1 \in CellsOf(e1), NEW k2 \in CellsOf(e2), SameQuote(e1, k1, e2, k2)',
                         ~(e1 = e2 /\ k1 = k2)
                  PROVE  First(CallOf(e1, k1))'
      BY <1>2, <1>4, <1>6
    <3>1. PICK f : f = CallOf(e1, k1)' /\ f = CallOf(e2, k2)' /\ f # NoEntry /\ trace_cells'[f].quote
      BY DEF SameQuote
    <3>2. f \in Live
      BY <1>1, <1>15, <1>16, <3>1
    <3>3. First(f)
      <4>1. CASE e1 = word /\ k1 = index
        BY <1>1, <1>15, <3>1, <4>1
      <4>2. CASE e2 = word /\ k2 = index
        BY <1>1, <1>15, <3>1, <4>2
      <4>3. CASE ~(e1 = word /\ k1 = index) /\ ~(e2 = word /\ k2 = index)
        <5>1. f = CallOf(e1, k1) /\ f = CallOf(e2, k2) /\ trace_cells[f].quote
          BY <1>3, <1>15, <3>1, <3>2, <4>3 DEF HeadersMerged
        <5>2. SameQuote(e1, k1, e2, k2)
          BY <3>1, <5>1 DEF SameQuote
        <5>. QED  BY <1>1, <5>1, <5>2 DEF Deduping
      <4>. QED  BY <4>1, <4>2, <4>3
    <3>4. First(f)'
      BY <1>23, <3>2, <3>3
    <3>. QED  BY <3>1, <3>4 DEF First
  <2>5. \A e \in Live' : e >= word' /\ ~trace_cells'[e].n => ~First(e)'
    <3>. SUFFICES ASSUME NEW e \in Live, e >= word, ~trace_cells'[e].n PROVE ~First(e)'
      BY <1>2, <1>4
    <3>1. CASE e = Callee
      <4>1. entries_match(at, e)
        BY <3>1 DEF Merges
      <4>2. ~First(e)
        BY <1>1, <3>1, <4>1 DEF First
      <4>. QED  BY <1>23, <4>2
    <3>2. CASE e # Callee
      <4>1. ~trace_cells[e].n
        BY <1>3, <3>2 DEF HeadersMerged
      <4>. QED  BY <1>1, <1>23, <4>1 DEF Deduping
    <3>. QED  BY <3>1, <3>2
  <2>6. active_entries' = <<>> /\ index' > 0 /\ word' \in Live'
    BY <1>1, <1>2, <1>4, <1>12
  <2>. QED  BY <1>4, <2>2, <2>3, <2>4, <2>5, <2>6 DEF Deduping
<1>. QED  BY <1>2, <1>4, <1>5, <1>8, <1>9, <1>11, <1>19, <1>20, <1>21, <1>24 DEF Inv

-----------------------------------------------------------------------------
(* Cells are put into entries, and dropped when an entry is complete.      *)

(* What an entry is called, and where it belongs, stays.                   *)
HeadersStay ==
  \A e \in Live :
    /\ trace_cells'[e].id = trace_cells[e].id /\ trace_cells'[e].n = trace_cells[e].n
    /\ trace_cells'[e].parent = trace_cells[e].parent
    /\ trace_cells'[e].quote = trace_cells[e].quote
    /\ trace_cells'[e].block = trace_cells[e].block
    /\ trace_cells'[e].compact = trace_cells[e].compact
    /\ trace_cells[e].complete => trace_cells'[e].complete

(* Each entry has room for what it has, and has what the ghost says.       *)
LengthsFit ==
  \A e \in Live :
    /\ trace_cells'[e].len \in Nat
    /\ IF trace_cells[e].block THEN trace_cells'[e].len < BlockSize
       ELSE trace_cells'[e].len = trace_cells[e].len
    /\ trace_cells'[e].len = Len(stored'[trace_cells[e].id].cells)
    /\ \A k \in 1 .. trace_cells'[e].len : trace_cells'[e + k].kind = "cell"

(* Only the ghosts of entries that are being written change.               *)
GhostsStay ==
  /\ DOMAIN stored' = DOMAIN stored
  /\ \A id \in DOMAIN stored : stored'[id].parent = stored[id].parent
  /\ \A id \in DOMAIN stored : id \notin ActiveIds => stored'[id] = stored[id]

(* Cell k of entry e was its cell j.                                       *)
OldCell(e, k, j) ==
  /\ j \in CellsOf(e)
  /\ trace_cells'[e + k].item = trace_cells[e + j].item
  /\ trace_cells'[e + k].call = trace_cells[e + j].call
  /\ stored'[trace_cells[e].id].cells[k] = stored[trace_cells[e].id].cells[j]

NewCall(e, f, callee) ==
  /\ f \in Live /\ callee = trace_cells[f].id
  /\ \/ f <= e /\ ~trace_cells[f].quote
     \/ f > e /\ trace_cells'[f].complete /\ ~trace_cells[f].complete /\ trace_cells[f].parent = e

(* It is a new one.                                                        *)
NewCell(e, k) ==
  /\ e >= Base
  /\ trace_cells'[e + k].item = stored'[trace_cells[e].id].cells[k].item
  /\ \/ stored'[trace_cells[e].id].cells[k].callee = 0 /\ trace_cells'[e + k].call = NoEntry
     \/ NewCall(e, trace_cells'[e + k].call, stored'[trace_cells[e].id].cells[k].callee)

(* Where the cells of entry e come from, 0 for those that are new.         *)
Origin(e, g) ==
  /\ \A k \in 1 .. trace_cells'[e].len : IF g[k] = 0 THEN NewCell(e, k) ELSE OldCell(e, k, g[k])
  /\ \A k, l \in 1 .. trace_cells'[e].len : g[k] = g[l] => k = l

Rewrites ==
  /\ UNCHANGED <<trace_ptr, trace_block_map, started, merged>>
  /\ Live' = Live
  /\ HeadersStay /\ LengthsFit /\ GhostsStay
  /\ \A e \in Live : \E g : Origin(e, g)

LEMMA BaseType ==
  ASSUME TypeOK
  PROVE  Base \in Int
<1>1. trace_ptr \in Int /\ word \in Int
  BY DEF TypeOK, PlacesOrNone, Places, NoEntry
<1>2. active_entries # <<>> => active_entries[1] \in Int
  <2>. SUFFICES ASSUME active_entries # <<>> PROVE active_entries[1] \in Int
    OBVIOUS
  <2>1. active_entries \in Seq(Places) /\ 1 \in 1 .. Len(active_entries)
    BY DEF TypeOK
  <2>2. active_entries[1] \in Places
    BY <2>1
  <2>. QED  BY <2>2 DEF Places
<1>. QED  BY <1>1, <1>2 DEF Base

LEMMA ActiveFacts ==
  ASSUME TypeOK, Reduced, doing \in Reducings
  PROVE  /\ \A e \in Active : e \in Live /\ e >= Base /\ ~trace_cells[e].complete
         /\ active_entries # <<>> => Base \in Active
<1>1. active_entries \in Seq(Places) /\ Len(active_entries) \in Nat
  BY DEF TypeOK
<1>2. DOMAIN active_entries = 1 .. Len(active_entries)
  BY <1>1
<1>3. \A e \in Active : \E i \in DOMAIN active_entries : e = active_entries[i]
  BY DEF Active
<1>4. ASSUME NEW i \in DOMAIN active_entries
      PROVE  /\ active_entries[i] \in Live /\ ~trace_cells[active_entries[i]].complete
             /\ active_entries[i] >= Base
  <2>1. i \in 1 .. Len(active_entries) /\ 1 \in DOMAIN active_entries /\ active_entries # <<>>
    BY <1>1, <1>2, <1>4
  <2>2. Base = active_entries[1]
    BY <2>1 DEF Base, Reducings
  <2>3. active_entries[1] \in Nat /\ active_entries[i] \in Nat
    <3>1. active_entries[1] \in Places /\ active_entries[i] \in Places
      BY <1>1, <1>2, <2>1
    <3>. QED  BY <3>1 DEF Places
  <2>4. active_entries[i] >= active_entries[1]
    <3>1. CASE i = 1
      BY <2>3, <3>1
    <3>2. CASE i # 1
      <4>1. 1 < i
        BY <2>1, <3>2
      <4>2. active_entries[1] < active_entries[i]
        BY <2>1, <4>1 DEF Reduced
      <4>. QED  BY <2>3, <4>2
    <3>. QED  BY <3>1, <3>2
  <2>. QED  BY <2>2, <2>4 DEF Reduced
<1>5. active_entries # <<>> => Base \in Active
  <2>. SUFFICES ASSUME active_entries # <<>> PROVE Base \in Active
    OBVIOUS
  <2>1. 1 \in DOMAIN active_entries
    BY <1>1, <1>2
  <2>. QED  BY <2>1 DEF Base, Reducings, Active
<1>. QED  BY <1>3, <1>4, <1>5

(* Entries have different numbers.                                         *)
LEMMA IdsDiffer ==
  ASSUME MemoryAssumption, TypeOK, Apart, Numbered, NEW e \in Live, NEW f \in Live,
         trace_cells[e].id = trace_cells[f].id
  PROVE  e = f
<1>1. e \in Nat /\ f \in Nat /\ trace_cells[e].id \in Nat
  BY LiveFacts DEF Headers
<1>2. ~(e < f) /\ ~(f < e)
  BY <1>1 DEF Numbered
<1>. QED  BY <1>1, <1>2

(* What the entries that are called are, after cells were put into them.   *)
RewriteStart ==
  /\ TypeOK /\ Apart /\ Joined /\ Numbered /\ Content /\ Mapped /\ Based /\ Reduced
  /\ doing \in {"reduce", "find"} /\ ~Compacting' /\ doing' # "map"
  /\ Base' = Base /\ ActiveIds' \subseteq ActiveIds
  /\ Rewrites

LEMMA RewriteShape ==
  ASSUME MemoryAssumption, RewriteStart
  PROVE  Apart' /\ Joined' /\ Numbered' /\ Mapped'
<1>1. /\ Apart /\ Joined /\ Numbered /\ Mapped /\ TypeOK
      /\ trace_ptr' = trace_ptr /\ trace_block_map' = trace_block_map /\ merged' = merged
      /\ Live' = Live /\ HeadersStay /\ LengthsFit /\ GhostsStay /\ ~Compacting /\ ~Compacting'
      /\ doing # "map" /\ doing' # "map"
  BY DEF RewriteStart, Rewrites, Compacting
<1>2. \A e \in Live : trace_entry_next(e)' = trace_entry_next(e)
  BY <1>1 DEF HeadersStay, LengthsFit, trace_entry_next, trace_entry_size
<1>3. Apart'
  <2>1. \A e \in Live : trace_entry_next(e)' <= trace_ptr'
    BY <1>1, <1>2 DEF Apart
  <2>2. \A e, f \in Live : e < f => trace_entry_next(e)' <= f
    BY <1>1, <1>2 DEF Apart
  <2>3. \A e \in Live : trace_cells'[e].block => trace_cells'[e].len < BlockSize
    BY <1>1 DEF HeadersStay, LengthsFit
  <2>4. ASSUME NEW e \in Live, NEW a \in Body(e)' PROVE trace_cells'[a].kind = "cell"
    <3>1. e \in Nat /\ trace_cells'[e].len \in Nat
      BY <1>1, LiveFacts DEF LengthsFit
    <3>2. a - e \in 1 .. trace_cells'[e].len /\ a = e + (a - e)
      BY <3>1 DEF Body
    <3>3. trace_cells'[e + (a - e)].kind = "cell"
      BY <1>1, <3>2 DEF LengthsFit
    <3>. QED  BY <3>2, <3>3
  <2>. QED  BY <1>1, <2>1, <2>2, <2>3, <2>4 DEF Apart
<1>4. Joined'
  BY <1>1, <1>2 DEF Joined
<1>5. Numbered'
  <2>1. \A e \in Live : /\ trace_cells'[e].id \in DOMAIN stored'
                        /\ trace_cells'[e].n <=> trace_cells'[e].id \notin merged'
    BY <1>1 DEF Numbered, HeadersStay, GhostsStay
  <2>2. \A e, f \in Live : e < f => trace_cells'[e].id < trace_cells'[f].id
    BY <1>1 DEF Numbered, HeadersStay
  <2>3. \A id \in DOMAIN stored' \ merged' : \E e \in Live : trace_cells'[e].id = id
    BY <1>1 DEF Numbered, HeadersStay, GhostsStay
  <2>. QED  BY <1>1, <2>1, <2>2, <2>3 DEF Numbered
<1>6. Mapped'
  BY <1>1 DEF Mapped
<1>. QED  BY <1>3, <1>4, <1>5, <1>6

(* A cell that was there says what it said.                                *)
LEMMA OldCellSays ==
  ASSUME MemoryAssumption, RewriteStart, NEW e \in Live, NEW k \in 1 .. trace_cells'[e].len,
         NEW j, OldCell(e, k, j)
  PROVE  CellSays(e, k)'
<1>1. /\ Apart /\ Numbered /\ Content /\ Reduced /\ TypeOK
      /\ merged' = merged
      /\ Live' = Live /\ HeadersStay /\ GhostsStay /\ ~Compacting /\ ~Compacting'
      /\ ActiveIds' \subseteq ActiveIds /\ doing \in Reducings
  BY DEF RewriteStart, Rewrites, Compacting, Reducings
<1>2. j \in CellsOf(e) /\ CellSays(e, j)
  BY <1>1 DEF OldCell, Content
<1>3. /\ Was(e, k)' = Was(e, j) /\ CallOf(e, k)' = CallOf(e, j)
      /\ trace_cells'[e + k].item = trace_cells[e + j].item
  BY <1>1 DEF OldCell, Was, CallOf, HeadersStay
<1>4. merged \cap ActiveIds = {}
  <2>1. \A f \in Active : f \in Live
    BY <1>1, ActiveFacts
  <2>. QED  BY <1>1, <2>1 DEF ActiveIds, Numbered, Reduced
<1>5. \A id : \A c \in DOMAIN stored : StandsFor(id, c) => StandsFor(id, c)'
  BY <1>1, <1>4 DEF StandsFor, GhostsStay
<1>6. CASE Was(e, j).callee = 0
  BY <1>2, <1>3, <1>6 DEF CellSays
<1>7. CASE Was(e, j).callee # 0
  <2>1. Was(e, j).callee \in DOMAIN stored /\ CallSays(e, j)
    BY <1>2, <1>7 DEF CellSays
  <2>2. PICK f \in Live : /\ trace_cells[f].n /\ CallOf(e, j) = f
                          /\ StandsFor(trace_cells[f].id, Was(e, j).callee)
    BY <1>1, <2>1, PlainLeads DEF CallSays
  <2>3. PICK c, id : c = Was(e, j).callee /\ id = trace_cells[f].id
    OBVIOUS
  <2>4. StandsFor(id, c)'
    BY <1>5, <2>1, <2>2, <2>3
  <2>5. Leads(e, f, f)'
    BY <1>1 DEF Leads, Referred, Compacting
  <2>6. CallSays(e, k)'
    BY <1>1, <1>3, <2>2, <2>3, <2>4, <2>5 DEF CallSays, HeadersStay
  <2>. QED  BY <1>1, <1>2, <1>3, <1>7, <2>1, <2>6 DEF CellSays, GhostsStay
<1>. QED  BY <1>6, <1>7

(* A new one says what was put there.                                      *)
LEMMA NewCellSays ==
  ASSUME MemoryAssumption, RewriteStart, NEW e \in Live, NEW k \in 1 .. trace_cells'[e].len,
         NewCell(e, k)
  PROVE  CellSays(e, k)'
<1>1. /\ Numbered /\ Reduced /\ TypeOK
      /\ Live' = Live /\ HeadersStay /\ GhostsStay /\ ~Compacting'
  BY DEF RewriteStart, Rewrites
<1>2. /\ Was(e, k)' = stored'[trace_cells[e].id].cells[k]
      /\ CallOf(e, k)' = trace_cells'[e + k].call
  BY <1>1 DEF Was, CallOf, HeadersStay
<1>3. trace_cells'[e + k].item = stored'[trace_cells[e].id].cells[k].item
  BY DEF NewCell
<1>4. CASE stored'[trace_cells[e].id].cells[k].callee = 0 /\ trace_cells'[e + k].call = NoEntry
  BY <1>2, <1>3, <1>4 DEF CellSays
<1>5. CASE NewCall(e, trace_cells'[e + k].call, stored'[trace_cells[e].id].cells[k].callee)
  <2>1. PICK f, c : f = trace_cells'[e + k].call /\ c = stored'[trace_cells[e].id].cells[k].callee
    OBVIOUS
  <2>2. f \in Live /\ c = trace_cells[f].id
    BY <1>5, <2>1 DEF NewCall
  <2>3. c \in DOMAIN stored' /\ c # 0
    <3>1. DOMAIN stored \subseteq 1 .. started
      BY <1>1 DEF TypeOK
    <3>2. c \in DOMAIN stored
      BY <1>1, <2>2 DEF Numbered
    <3>. QED  BY <1>1, <3>1, <3>2 DEF GhostsStay
  <2>4. Leads(e, f, f)' /\ StandsFor(c, c)'
    BY <1>1 DEF Leads, Referred, Compacting, StandsFor
  <2>5. trace_cells'[f].n /\ trace_cells'[f].id = c
    BY <1>1, <2>2 DEF Reduced, HeadersStay
  <2>6. CallSays(e, k)'
    BY <1>1, <1>2, <2>1, <2>2, <2>4, <2>5 DEF CallSays
  <2>. QED  BY <1>2, <1>3, <2>1, <2>3, <2>6 DEF CellSays
<1>. QED  BY <1>4, <1>5 DEF NewCell

LEMMA RewriteContent ==
  ASSUME MemoryAssumption, RewriteStart
  PROVE  Content'
<1>1. /\ Live' = Live /\ HeadersStay /\ LengthsFit /\ GhostsStay /\ ~Compacting /\ ~Compacting'
      /\ Content /\ Numbered /\ merged' = merged
      /\ \A e \in Live : \E g : Origin(e, g)
  BY DEF RewriteStart, Rewrites, Compacting
<1>2. \A e \in Live : CellsOf(e)' = 1 .. trace_cells'[e].len
  BY DEF CellsOf
<1>3. ASSUME NEW e \in Live, NEW k \in 1 .. trace_cells'[e].len PROVE CellSays(e, k)'
  <2>1. PICK g : Origin(e, g)
    BY <1>1
  <2>2. CASE g[k] = 0
    BY <2>1, <2>2, NewCellSays DEF Origin
  <2>3. CASE g[k] # 0
    BY <2>1, <2>3, OldCellSays DEF Origin
  <2>. QED  BY <2>2, <2>3
<1>4. \A e \in Live : trace_cells'[e].len = Len(stored'[trace_cells'[e].id].cells)
  BY <1>1 DEF LengthsFit, HeadersStay
<1>5. ASSUME NEW e \in Live PROVE ParentSays(e)'
  <2>1. PICK p, id : p = trace_cells[e].parent /\ id = trace_cells[e].id
    OBVIOUS
  <2>2. \A q, f : Leads(e, q, f) <=> q = f
    BY <1>1, PlainLeads
  <2>3. \A f : Leads(e, p, f)' <=> p = f
    BY <1>1 DEF Leads, Referred, Compacting
  <2>4. \/ stored[id].parent = 0 /\ p = NoEntry
        \/ stored[id].parent # 0 /\ \E f \in Live : p = f /\ trace_cells[f].id = stored[id].parent
        \/ stored[id].parent \in merged /\ p = NoEntry
    BY <1>1, <2>1, <2>2 DEF ParentSays, Content
  <2>5. /\ trace_cells'[e].parent = p /\ trace_cells'[e].id = id
        /\ stored'[id].parent = stored[id].parent
    BY <1>1, <2>1 DEF HeadersStay, GhostsStay, Numbered
  <2>6. CASE stored[id].parent = 0 /\ p = NoEntry
    BY <2>5, <2>6 DEF ParentSays
  <2>7. CASE stored[id].parent # 0 /\ \E f \in Live : p = f /\ trace_cells[f].id = stored[id].parent
    <3>1. \E f \in Live' : Leads(e, p, f)' /\ trace_cells'[f].id = stored'[id].parent
      BY <1>1, <2>3, <2>5, <2>7 DEF HeadersStay
    <3>. QED  BY <2>5, <2>7, <3>1 DEF ParentSays
  <2>8. CASE stored[id].parent \in merged /\ p = NoEntry
    BY <1>1, <2>5, <2>8 DEF ParentSays
  <2>. QED  BY <2>4, <2>6, <2>7, <2>8
<1>. QED  BY <1>1, <1>2, <1>3, <1>4, <1>5 DEF Content

LEMMA RewriteMade ==
  ASSUME MemoryAssumption, RewriteStart
  PROVE  AsMade' /\ OneCell'
<1>1. /\ Live' = Live /\ HeadersStay /\ LengthsFit /\ GhostsStay /\ ~Compacting
      /\ Content /\ Base' = Base /\ Reduced /\ TypeOK /\ Apart
      /\ \A e \in Live : \E g : Origin(e, g)
  BY DEF RewriteStart, Rewrites, Compacting
<1>2. \A e \in Live : CellsOf(e)' = 1 .. trace_cells'[e].len
  BY DEF CellsOf
<1>3. \A e \in Live : \A k : CallOf(e, k)' = trace_cells'[e + k].call
  BY DEF CallOf
<1>4. \A e \in Live : \A k, j : OldCell(e, k, j) =>
        /\ j \in CellsOf(e) /\ CallOf(e, k)' = CallOf(e, j) /\ Was(e, k)' = Was(e, j)
        /\ CallOf(e, j) = NoEntry \/ CallOf(e, j) \in Live
        /\ e >= Base => CallsAsMade(e, j)
  <2>. SUFFICES ASSUME NEW e \in Live, NEW k, NEW j, OldCell(e, k, j)
                PROVE  /\ j \in CellsOf(e) /\ CallOf(e, k)' = CallOf(e, j) /\ Was(e, k)' = Was(e, j)
                       /\ CallOf(e, j) = NoEntry \/ CallOf(e, j) \in Live
                       /\ e >= Base => CallsAsMade(e, j)
    OBVIOUS
  <2>1. j \in CellsOf(e) /\ CallOf(e, k)' = CallOf(e, j) /\ Was(e, k)' = Was(e, j)
    BY <1>1 DEF OldCell, CallOf, Was, HeadersStay
  <2>2. CallOf(e, j) = NoEntry \/ CallOf(e, j) \in Live
    BY <1>1, <2>1, CallLive
  <2>3. e >= Base => CallsAsMade(e, j)
    BY <1>1, <2>1 DEF Reduced, AsMade
  <2>. QED  BY <2>1, <2>2, <2>3
<1>5. \A e \in Live : \A k : NewCell(e, k) =>
        \/ CallOf(e, k)' = NoEntry
        \/ NewCall(e, CallOf(e, k)', Was(e, k)'.callee)
  BY <1>1, <1>3 DEF NewCell, Was, HeadersStay
<1>6. ASSUME NEW e \in Live, e >= Base, NEW k \in 1 .. trace_cells'[e].len PROVE CallsAsMade(e, k)'
  <2>1. PICK g : Origin(e, g)
    BY <1>1
  <2>2. PICK f, c : f = CallOf(e, k)' /\ c = Was(e, k)'.callee
    OBVIOUS
  <2>. SUFFICES ASSUME f # NoEntry
                PROVE  /\ trace_cells'[f].id = c
                       /\ \/ f <= e /\ ~trace_cells'[f].quote
                          \/ f > e /\ trace_cells'[f].complete /\ trace_cells'[f].parent = e
    BY <2>2 DEF CallsAsMade
  <2>3. CASE g[k] = 0
    <3>1. NewCall(e, f, c)
      BY <1>5, <2>1, <2>2, <2>3 DEF Origin
    <3>. QED  BY <1>1, <3>1 DEF NewCall, HeadersStay
  <2>4. CASE g[k] # 0
    <3>1. PICK j : OldCell(e, k, j)
      BY <2>1, <2>4 DEF Origin
    <3>2. CallOf(e, j) = f /\ Was(e, j).callee = c /\ f \in Live /\ CallsAsMade(e, j)
      BY <1>4, <1>6, <2>2, <3>1
    <3>3. /\ trace_cells[f].id = c
          /\ \/ f <= e /\ ~trace_cells[f].quote
             \/ f > e /\ trace_cells[f].complete /\ trace_cells[f].parent = e
      BY <3>2 DEF CallsAsMade
    <3>. QED  BY <1>1, <3>2, <3>3 DEF HeadersStay
  <2>. QED  BY <2>3, <2>4
<1>7. ASSUME NEW e \in Live, e >= Base, NEW k \in 1 .. trace_cells'[e].len, NEW l \in 1 .. trace_cells'[e].len,
             CallOf(e, k)' = CallOf(e, l)', CallOf(e, k)' > e
      PROVE  k = l
  <2>1. PICK g : Origin(e, g)
    BY <1>1
  <2>2. PICK f : f = CallOf(e, k)'
    OBVIOUS
  <2>3. e \in Nat /\ f # NoEntry
    BY <1>1, <1>7, <2>2, LiveFacts DEF NoEntry
  <2>4. \A m \in {k, l} : g[m] = 0 => f \in Live /\ ~trace_cells[f].complete
    <3>. SUFFICES ASSUME NEW m \in {k, l}, g[m] = 0 PROVE f \in Live /\ ~trace_cells[f].complete
      OBVIOUS
    <3>1. NewCell(e, m) /\ CallOf(e, m)' = f
      BY <1>7, <2>1, <2>2 DEF Origin
    <3>2. NewCall(e, f, Was(e, m)'.callee)
      BY <1>5, <2>3, <3>1
    <3>3. f \in Nat
      BY <1>1, <3>2, LiveFacts DEF NewCall
    <3>. QED  BY <1>7, <2>2, <2>3, <3>2, <3>3 DEF NewCall
  <2>5. \A m \in {k, l} : g[m] # 0 =>
          g[m] \in CellsOf(e) /\ CallOf(e, g[m]) = f /\ trace_cells[f].complete
    <3>. SUFFICES ASSUME NEW m \in {k, l}, g[m] # 0
                  PROVE  g[m] \in CellsOf(e) /\ CallOf(e, g[m]) = f /\ trace_cells[f].complete
      OBVIOUS
    <3>1. OldCell(e, m, g[m]) /\ CallOf(e, m)' = f
      BY <1>7, <2>1, <2>2 DEF Origin
    <3>2. g[m] \in CellsOf(e) /\ CallOf(e, g[m]) = f /\ f \in Live /\ CallsAsMade(e, g[m])
      BY <1>4, <1>7, <2>3, <3>1
    <3>3. f \in Nat
      BY <1>1, <3>2, LiveFacts
    <3>. QED  BY <1>7, <2>2, <2>3, <3>2, <3>3 DEF CallsAsMade
  <2>6. g[k] = g[l]
    <3>1. CASE g[k] = 0 /\ g[l] = 0
      BY <3>1
    <3>2. CASE g[k] # 0 /\ g[l] # 0
      BY <1>1, <1>7, <2>2, <2>5, <3>2 DEF Reduced, OneCell
    <3>. QED  BY <2>4, <2>5, <3>1, <3>2
  <2>. QED  BY <2>1, <2>6 DEF Origin
<1>8. AsMade'
  BY <1>1, <1>2, <1>6 DEF AsMade
<1>9. OneCell'
  BY <1>1, <1>2, <1>7 DEF OneCell
<1>. QED  BY <1>8, <1>9

LEMMA RewriteBased ==
  ASSUME MemoryAssumption, RewriteStart
  PROVE  Based'
<1>1. /\ Live' = Live /\ HeadersStay /\ Base' = Base /\ Based
      /\ \A e \in Live : \E g : Origin(e, g)
      /\ TypeOK /\ Apart
  BY DEF RewriteStart, Rewrites
<1>2. ASSUME NEW e \in Live, e < Base, NEW k \in CellsOf(e)' PROVE CallOf(e, k)' < Base
  <2>1. PICK g : Origin(e, g)
    BY <1>1
  <2>2. k \in 1 .. trace_cells'[e].len
    BY DEF CellsOf
  <2>3. ~NewCell(e, k)
    <3>1. e \in Nat /\ Base \in Int
      BY <1>1, LiveFacts, BaseType
    <3>. QED  BY <1>2, <3>1 DEF NewCell
  <2>4. PICK j : OldCell(e, k, j)
    BY <2>1, <2>2, <2>3 DEF Origin
  <2>5. j \in CellsOf(e) /\ CallOf(e, k)' = CallOf(e, j)
    BY <2>4 DEF OldCell, CallOf
  <2>. QED  BY <1>1, <1>2, <2>5 DEF Based
<1>. QED  BY <1>1, <1>2 DEF Based, HeadersStay

(* What the operators on the memory and the ghost do.                      *)
SameHeader(r, s) ==
  /\ r.id = s.id /\ r.n = s.n /\ r.parent = s.parent /\ r.quote = s.quote
  /\ r.block = s.block /\ r.compact = s.compact

LEMMA AllocEffect ==
  ASSUME NEW m \in [Places -> Records], NEW e \in Places, m[e] \in Headers,
         NEW a \in Places, a = e + m[e].len + 1, a # e, NEW c \in CellRecords,
         NEW r, r = trace_alloc(m, e, c)
  PROVE  /\ r \in [Places -> Records]
         /\ r[e] \in Headers /\ SameHeader(r[e], m[e]) /\ r[e].complete = m[e].complete
         /\ r[e].len = m[e].len + 1
         /\ r[a] = c
         /\ \A b \in Places : b # e /\ b # a => r[b] = m[b]
<1>1. r = [m EXCEPT ![e].len = @ + 1, ![a] = c]
  BY DEF trace_alloc
<1>2. r[e] = [m[e] EXCEPT !.len = @ + 1]
  BY <1>1
<1>3. /\ r[e] \in Headers /\ SameHeader(r[e], m[e]) /\ r[e].complete = m[e].complete
      /\ r[e].len = m[e].len + 1
  BY <1>2 DEF Headers, SameHeader
<1>4. r[a] = c /\ \A b \in Places : b # e /\ b # a => r[b] = m[b]
  BY <1>1
<1>5. \A b \in Places : r[b] \in Records
  BY <1>3, <1>4 DEF Records
<1>6. r = [b \in Places |-> r[b]]
  BY <1>1
<1>. QED  BY <1>3, <1>4, <1>5, <1>6

LEMMA KeptFacts ==
  ASSUME NEW len \in Nat, NEW f \in Kept(len)
  PROVE  /\ f \in Seq(1 .. len) /\ Len(f) \in Nat /\ Len(f) <= len
         /\ DOMAIN f = 1 .. Len(f)
         /\ \A k \in 1 .. Len(f) : f[k] \in Nat /\ f[k] > 0 /\ f[k] <= len
         /\ \A k, l \in 1 .. Len(f) : f[k] = f[l] => k = l
         /\ \A k \in 1 .. Len(f) : f[k] <= f[Len(f)]
<1>1. PICK n \in 0 .. len : f \in [1 .. n -> 1 .. len]
  BY DEF Kept
<1>2. f \in Seq(1 .. len) /\ Len(f) = n
  BY <1>1
<1>3. \A k, l \in 1 .. n : k < l => f[k] < f[l]
  BY <1>1 DEF Kept
<1>4. \A k \in 1 .. n : f[k] \in 1 .. len
  BY <1>1
<1>5. \A k \in 1 .. n : k <= n /\ n \in 1 .. n
  OBVIOUS
<1>. QED  BY <1>1, <1>2, <1>3, <1>4, <1>5

CompletedSays(m, e, f, r) ==
  /\ r \in [Places -> Records]
  /\ r[e] \in Headers /\ SameHeader(r[e], m[e]) /\ r[e].complete = TRUE
  /\ r[e].len = Len(f)
  /\ \A k \in 1 .. Len(f) : r[e + k] = m[e + f[k]] /\ r[e + k] \in CellRecords
  /\ \A b \in Places : b < e \/ b > e + m[e].len => r[b] = m[b]
  /\ \A b \in Places : r[b].kind = "entry" <=> m[b].kind = "entry"

LEMMA CompletedEffect ==
  ASSUME NEW m \in [Places -> Records], NEW e \in Places, m[e] \in Headers,
         \A k \in 1 .. m[e].len : e + k \in Places /\ m[e + k] \in CellRecords,
         NEW f \in Kept(m[e].len), NEW r, r = Completed(m, e, f)
  PROVE  CompletedSays(m, e, f, r)
<1>. DEFINE len == m[e].len
<1>1. len \in Nat /\ e \in Nat /\ Places \subseteq Nat
  BY DEF Headers, Places
<1>. HIDE DEF len
<1>2. /\ f \in Seq(1 .. len) /\ Len(f) \in Nat /\ Len(f) <= len
      /\ \A k \in 1 .. Len(f) : f[k] \in Nat /\ f[k] > 0 /\ f[k] <= len
  <2>1. f \in Kept(len)
    BY DEF len
  <2>. QED  BY <1>1, <2>1, KeptFacts
<1>3. f # <<>> => Len(f) \in 1 .. Len(f) /\ f[Len(f)] <= len /\ f[Len(f)] \in Nat
  BY <1>2
<1>4. r = [a \in Places |->
             IF a = e THEN [m[e] EXCEPT !.len = Len(f), !.complete = TRUE]
             ELSE IF a \in e + 1 .. e + Len(f) THEN m[e + f[a - e]]
             ELSE IF f # <<>> /\ a \in e + Len(f) + 1 .. e + f[Len(f)] THEN Zero
             ELSE IF a \in e + Len(f) + 1 .. e + len THEN Dropped
             ELSE m[a]]
  BY DEF Completed, len
<1>5. r[e] = [m[e] EXCEPT !.len = Len(f), !.complete = TRUE]
  BY <1>4
<1>6. /\ r[e] \in Headers /\ SameHeader(r[e], m[e]) /\ r[e].complete = TRUE
      /\ r[e].len = Len(f)
  BY <1>2, <1>5 DEF Headers, SameHeader
<1>7. ASSUME NEW k \in 1 .. Len(f) PROVE r[e + k] = m[e + f[k]] /\ r[e + k] \in CellRecords /\ e + k \in Places
  <2>1. e + k \in Places /\ e + f[k] \in Places /\ m[e + f[k]] \in CellRecords
    BY <1>1, <1>2 DEF len
  <2>2. e + k # e /\ e + k \in e + 1 .. e + Len(f) /\ (e + k) - e = k
    BY <1>1, <1>2
  <2>. QED  BY <1>4, <2>1, <2>2
<1>8. ASSUME NEW b \in Places, b < e \/ b > e + len PROVE r[b] = m[b]
  <2>1. /\ b # e /\ b \notin e + 1 .. e + Len(f) /\ b \notin e + Len(f) + 1 .. e + len
        /\ ~(f # <<>> /\ b \in e + Len(f) + 1 .. e + f[Len(f)])
    BY <1>1, <1>2, <1>3, <1>8
  <2>. QED  BY <1>4, <2>1
<1>9. ASSUME NEW b \in Places, b \in e + 1 .. e + len PROVE m[b] \in CellRecords /\ (r[b] \in CellRecords \/ r[b] = Zero \/ r[b] = Dropped)
  <2>1. b - e \in 1 .. len /\ b = e + (b - e)
    BY <1>1, <1>9
  <2>2. m[b] \in CellRecords
    BY <2>1 DEF len
  <2>3. CASE b \in e + 1 .. e + Len(f)
    <3>1. b - e \in 1 .. Len(f)
      BY <1>1, <1>2, <2>3
    <3>2. r[e + (b - e)] \in CellRecords
      BY <1>7, <3>1
    <3>. QED  BY <2>1, <2>2, <3>2
  <2>4. CASE b \notin e + 1 .. e + Len(f)
    <3>1. b # e /\ b \in e + Len(f) + 1 .. e + len
      BY <1>1, <1>2, <1>9, <2>4
    <3>. QED  BY <1>4, <2>2, <2>4, <3>1
  <2>. QED  BY <2>3, <2>4
<1>10. \A b \in Places : b < e \/ b > e + len \/ b = e \/ b \in e + 1 .. e + len
  BY <1>1
<1>11. \A b \in Places : r[b] \in Records
  <2>. TAKE b \in Places
  <2>1. m[b] \in Records
    OBVIOUS
  <2>. QED  BY <1>6, <1>8, <1>9, <1>10, <2>1 DEF Records
<1>12. \A b \in Places : r[b].kind = "entry" <=> m[b].kind = "entry"
  <2>. TAKE b \in Places
  <2>1. r[e].kind = "entry" /\ m[e].kind = "entry"
    BY <1>6 DEF Headers
  <2>2. \A c \in CellRecords : c.kind # "entry"
    BY DEF CellRecords
  <2>3. Zero.kind # "entry" /\ Dropped.kind # "entry"
    BY DEF Zero, Dropped
  <2>. QED  BY <1>8, <1>9, <1>10, <2>1, <2>2, <2>3
<1>13. r = [b \in Places |-> r[b]]
  BY <1>4
<1>. QED  BY <1>6, <1>7, <1>8, <1>11, <1>12, <1>13 DEF len, CompletedSays

LEMMA GivenEffect ==
  ASSUME NEW h, h \in [DOMAIN h -> Ghosts], NEW id \in DOMAIN h, NEW item \in Items, NEW callee \in Nat,
         NEW r, r = Given(h, id, item, callee)
  PROVE  /\ DOMAIN r = DOMAIN h /\ r \in [DOMAIN r -> Ghosts]
         /\ \A x \in DOMAIN h : r[x].parent = h[x].parent
         /\ \A x \in DOMAIN h : x # id => r[x] = h[x]
         /\ Len(r[id].cells) = Len(h[id].cells) + 1
         /\ r[id].cells[Len(h[id].cells) + 1] = [item |-> item, callee |-> callee]
         /\ \A k \in 1 .. Len(h[id].cells) : r[id].cells[k] = h[id].cells[k]
<1>. DEFINE g == [item |-> item, callee |-> callee]
<1>1. g \in Givens /\ h[id].cells \in Seq(Givens)
  BY DEF Givens, Ghosts
<1>. HIDE DEF g
<1>2. r = [h EXCEPT ![id].cells = Append(@, g)]
  BY DEF Given, g
<1>3. r[id] = [h[id] EXCEPT !.cells = Append(@, g)]
  BY <1>2
<1>4. DOMAIN r = DOMAIN h /\ \A x \in DOMAIN h : x # id => r[x] = h[x]
  BY <1>2
<1>5. r[id].cells = Append(h[id].cells, g) /\ r[id].parent = h[id].parent
  BY <1>3 DEF Ghosts
<1>6. /\ Append(h[id].cells, g) \in Seq(Givens)
      /\ Len(Append(h[id].cells, g)) = Len(h[id].cells) + 1
      /\ Append(h[id].cells, g)[Len(h[id].cells) + 1] = g
      /\ \A k \in 1 .. Len(h[id].cells) : Append(h[id].cells, g)[k] = h[id].cells[k]
  BY <1>1
<1>7. r[id] \in Ghosts
  BY <1>3, <1>6 DEF Ghosts
<1>8. r \in [DOMAIN r -> Ghosts]
  BY <1>2, <1>4, <1>7
<1>. QED  BY <1>4, <1>5, <1>6, <1>8 DEF g

CondensedSays(h, id, f, r) ==
  /\ DOMAIN r = DOMAIN h /\ r \in [DOMAIN r -> Ghosts]
  /\ \A x \in DOMAIN h : r[x].parent = h[x].parent
  /\ \A x \in DOMAIN h : x # id => r[x] = h[x]
  /\ Len(r[id].cells) = Len(f)
  /\ \A k \in 1 .. Len(f) : r[id].cells[k] = h[id].cells[f[k]]

LEMMA CondensedEffect ==
  ASSUME NEW h, h \in [DOMAIN h -> Ghosts], NEW id \in DOMAIN h, NEW f \in Kept(Len(h[id].cells)),
         NEW r, r = Condensed(h, id, f)
  PROVE  CondensedSays(h, id, f, r)
<1>. DEFINE s == [k \in 1 .. Len(f) |-> h[id].cells[f[k]]]
<1>1. h[id].cells \in Seq(Givens) /\ Len(h[id].cells) \in Nat
  BY DEF Ghosts
<1>2. Len(f) \in Nat /\ \A k \in 1 .. Len(f) : f[k] \in 1 .. Len(h[id].cells)
  BY <1>1, KeptFacts
<1>3. s \in [1 .. Len(f) -> Givens]
  BY <1>1, <1>2
<1>4. s \in Seq(Givens) /\ Len(s) = Len(f)
  BY <1>2, <1>3
<1>5. \A k \in 1 .. Len(f) : s[k] = h[id].cells[f[k]]
  OBVIOUS
<1>. HIDE DEF s
<1>6. r = [h EXCEPT ![id].cells = s]
  BY DEF Condensed, s
<1>7. r[id] = [h[id] EXCEPT !.cells = s]
  BY <1>6
<1>8. DOMAIN r = DOMAIN h /\ \A x \in DOMAIN h : x # id => r[x] = h[x]
  BY <1>6
<1>9. r[id].cells = s /\ r[id].parent = h[id].parent /\ r[id] \in Ghosts
  BY <1>4, <1>7 DEF Ghosts
<1>10. r \in [DOMAIN r -> Ghosts]
  BY <1>6, <1>8, <1>9
<1>. QED  BY <1>4, <1>5, <1>8, <1>9, <1>10 DEF CondensedSays

(* From what a step rewrites to the invariant, while the word is reduced.  *)
LEMMA RewriteInv ==
  ASSUME MemoryAssumption, RewriteStart, TypeOK', doing' = "reduce",
         active_entries' = active_entries, word' = word,
         \A e \in Active : trace_cells'[e].complete = trace_cells[e].complete
  PROVE  Inv'
<1>1. /\ Live' = Live /\ HeadersStay /\ Base' = Base /\ Reduced /\ merged' = merged /\ TypeOK
      /\ doing \in Reducings
  BY DEF RewriteStart, Rewrites, Reducings
<1>2. Apart' /\ Joined' /\ Numbered' /\ Mapped' /\ Content' /\ Based' /\ AsMade' /\ OneCell'
  BY RewriteShape, RewriteContent, RewriteBased, RewriteMade
<1>3. \A i \in DOMAIN active_entries : active_entries[i] \in Active /\ active_entries[i] \in Live
  BY <1>1 DEF Reduced, Active
<1>4. Reduced'
  <2>1. \A e \in Live : trace_cells'[e].n
    BY <1>1 DEF HeadersStay, Reduced
  <2>2. \A i \in DOMAIN active_entries : ~trace_cells'[active_entries[i]].complete
    BY <1>1, <1>3 DEF Reduced
  <2>3. \A i \in DOMAIN active_entries : i > 1 =>
          \E j \in DOMAIN active_entries : j < i /\ trace_cells'[active_entries[i]].parent = active_entries[j]
    BY <1>1, <1>3 DEF Reduced, HeadersStay
  <2>4. \A e \in Live : e >= Base => \A id \in merged : id < trace_cells'[e].id
    BY <1>1 DEF Reduced, HeadersStay
  <2>5. /\ \A i, j \in DOMAIN active_entries : i < j => active_entries[i] < active_entries[j]
        /\ word # NoEntry => active_entries # <<>> /\ word = active_entries[1]
    BY <1>1 DEF Reduced
  <2>. QED  BY <1>1, <1>2, <1>3, <2>1, <2>2, <2>3, <2>4, <2>5 DEF Reduced
<1>5. ~Compacting'
  BY DEF Compacting
<1>. QED  BY <1>2, <1>4, <1>5 DEF Inv

(* The place behind an entry that has room is free.                        *)
LEMMA FreePlace ==
  ASSUME MemoryAssumption, TypeOK, Apart, NEW e \in Live, trace_cells[e].block, Room(e),
         NEW a, a = e + trace_cells[e].len + 1
  PROVE  /\ a \in Places /\ a < trace_ptr /\ a > e /\ a # e
         /\ \A f \in Live : a # f /\ \A b \in Body(f) : a # b
         /\ trace_cells[a].kind # "entry"
<1>1. /\ e \in Nat /\ trace_cells[e].len \in Nat /\ trace_entry_next(e) \in Nat
  BY LiveFacts
<1>2. trace_cells[e].len < BlockSize - 1 /\ BlockSize \in Nat /\ trace_entry_next(e) = e + BlockSize
  BY DEF Room, MemoryAssumption, trace_entry_next
<1>3. trace_entry_next(e) <= trace_ptr /\ trace_ptr \in Nat /\ trace_ptr < TraceSize /\ TraceSize \in Nat
  BY DEF Apart, TypeOK, MemoryAssumption
<1>4. a \in Nat /\ e < a /\ a < trace_entry_next(e) /\ a \in Places /\ a < trace_ptr
  BY <1>1, <1>2, <1>3 DEF Places
<1>5. ASSUME NEW f \in Live PROVE a # f /\ \A b \in Body(f) : a # b
  <2>1. f \in Nat /\ trace_entry_next(f) \in Nat
    BY LiveFacts
  <2>2. \A b \in Body(f) : f < b /\ b < trace_entry_next(f) /\ b \in Nat
    BY BodyFacts DEF Places
  <2>3. CASE f = e
    <3>1. \A b \in Body(f) : b <= e + trace_cells[e].len /\ b \in Int
      BY <1>1, <2>3 DEF Body
    <3>. QED  BY <1>1, <1>4, <2>3, <3>1
  <2>4. CASE f < e
    <3>1. trace_entry_next(f) <= e
      BY <2>4 DEF Apart
    <3>. QED  BY <1>1, <1>4, <2>1, <2>2, <2>4, <3>1
  <2>5. CASE f > e
    <3>1. trace_entry_next(e) <= f
      BY <1>1, <2>1, <2>5 DEF Apart
    <3>. QED  BY <1>1, <1>4, <2>1, <2>2, <3>1
  <2>. QED  BY <1>1, <2>1, <2>3, <2>4, <2>5
<1>6. trace_cells[a].kind # "entry"
  <2>1. a \in 0 .. trace_ptr - 1
    BY <1>3, <1>4
  <2>. QED  BY <1>5, <2>1 DEF Live, is_entry
<1>. QED  BY <1>1, <1>4, <1>5, <1>6

(* A cell is put into an active entry.                                     *)
Puts(e, item, call) ==
  /\ doing \in {"reduce", "find"} /\ doing' = "reduce"
  /\ e \in Active /\ Room(e) /\ item \in Items
  /\ call = NoEntry \/ (call \in Live /\ call <= e /\ ~trace_cells[call].quote)
  /\ trace_cells' = trace_alloc(trace_cells, e, Cell(item, call, IdOf(call)))
  /\ stored' = Given(stored, IdOf(e), item, IdOf(call))
  /\ UNCHANGED <<trace_ptr, trace_block_map, active_entries, word, at, next, index, started, merged>>

LEMMA PutsInv ==
  ASSUME MemoryAssumption, Inv, NEW e, NEW item, NEW call, Puts(e, item, call)
  PROVE  Inv'
<1>1. /\ TypeOK /\ Apart /\ Joined /\ Numbered /\ Content /\ Mapped /\ Based /\ Reduced
      /\ doing \in Reducings /\ ~Compacting' /\ doing' = "reduce" /\ doing \in {"reduce", "find"}
  BY DEF Inv, Puts, Reducings, Compacting
<1>2. /\ e \in Active /\ e \in Live /\ e >= Base /\ item \in Items
      /\ trace_cells[e].block /\ Room(e)
  BY <1>1, ActiveFacts DEF Based, Puts
<1>. DEFINE a == e + trace_cells[e].len + 1
            c == Cell(item, call, IdOf(call))
            id == trace_cells[e].id
<1>3. /\ e \in Places /\ trace_cells[e] \in Headers /\ e \in Nat /\ trace_cells[e].len \in Nat
      /\ id \in DOMAIN stored /\ IdOf(e) = id
  <2>1. e # NoEntry
    BY <1>1, <1>2, LiveFacts DEF NoEntry
  <2>. QED  BY <1>1, <1>2, <2>1, LiveFacts DEF Numbered, IdOf
<1>4. call \in PlacesOrNone /\ IdOf(call) \in Nat /\ (call # NoEntry => IdOf(call) = trace_cells[call].id)
  <2>1. CASE call = NoEntry
    BY <2>1 DEF PlacesOrNone, IdOf
  <2>2. CASE call # NoEntry
    <3>1. call \in Live /\ call \in Places /\ trace_cells[call] \in Headers
      BY <1>1, <2>2, LiveFacts DEF Puts
    <3>. QED  BY <2>2, <3>1 DEF PlacesOrNone, IdOf, Headers
  <2>. QED  BY <2>1, <2>2
<1>5. /\ c \in CellRecords /\ c.kind = "cell" /\ c.item = item /\ c.call = call
  BY <1>2, <1>4 DEF CellRecords, Cell
<1>6. /\ a \in Places /\ a # e /\ a > e
      /\ \A f \in Live : a # f /\ \A b \in Body(f) : a # b
      /\ trace_cells[a].kind # "entry"
  BY <1>1, <1>2, FreePlace
<1>. HIDE DEF a, c, id
<1>7. /\ trace_cells' \in [Places -> Records]
      /\ trace_cells'[e] \in Headers /\ SameHeader(trace_cells'[e], trace_cells[e])
      /\ trace_cells'[e].complete = trace_cells[e].complete
      /\ trace_cells'[e].len = trace_cells[e].len + 1
      /\ trace_cells'[a] = c
      /\ \A b \in Places : b # e /\ b # a => trace_cells'[b] = trace_cells[b]
  <2>1. trace_cells \in [Places -> Records] /\ trace_cells' = trace_alloc(trace_cells, e, c)
    BY <1>1 DEF TypeOK, Puts, c
  <2>2. a = e + trace_cells[e].len + 1
    BY DEF a
  <2>. QED  BY <1>3, <1>5, <1>6, <2>1, <2>2, AllocEffect
<1>. DEFINE old == stored[id].cells
            new == stored'[id].cells
<1>8. /\ DOMAIN stored' = DOMAIN stored /\ stored' \in [DOMAIN stored' -> Ghosts]
      /\ \A x \in DOMAIN stored : stored'[x].parent = stored[x].parent
      /\ \A x \in DOMAIN stored : x # id => stored'[x] = stored[x]
      /\ Len(new) = Len(old) + 1
      /\ new[Len(old) + 1] = [item |-> item, callee |-> IdOf(call)]
      /\ \A k \in 1 .. Len(old) : new[k] = old[k]
  <2>1. stored \in [DOMAIN stored -> Ghosts] /\ stored' = Given(stored, id, item, IdOf(call))
    BY <1>1, <1>3 DEF TypeOK, Puts
  <2>. QED  BY SMTT(30), <1>2, <1>3, <1>4, <2>1, GivenEffect
<1>9. trace_cells[e].len = Len(old)
  BY <1>1, <1>2 DEF Content, id
<1>. HIDE DEF old, new
<1>10. UNCHANGED <<trace_ptr, trace_block_map, active_entries, word, at, next, index, started, merged>>
  BY DEF Puts
<1>11. Live' = Live
  <2>2. \A b \in Places : trace_cells'[b].kind = "entry" <=> trace_cells[b].kind = "entry"
    <3>. TAKE b \in Places
    <3>1. trace_cells'[e].kind = "entry" /\ trace_cells[e].kind = "entry"
      BY <1>3, <1>7 DEF Headers
    <3>. QED  BY <1>5, <1>6, <1>7, <3>1
  <2>. QED  BY <1>1, <1>10, <2>2, LiveSame
<1>12. \A f \in Live : f # e => /\ trace_cells'[f] = trace_cells[f]
                                /\ trace_cells[f].id # id
  <2>. TAKE f \in Live
  <2>1. f \in Places /\ f # a
    BY <1>1, <1>6, LiveFacts
  <2>. QED  BY <1>1, <1>2, <1>7, <2>1, IdsDiffer DEF id
<1>13. \A f \in Live : \A k \in CellsOf(f) : trace_cells'[f + k] = trace_cells[f + k]
  <2>. TAKE f \in Live
  <2>. TAKE k \in CellsOf(f)
  <2>1. f + k \in Body(f) /\ f + k \in Places
    BY <1>1, CellFacts
  <2>2. f + k # e /\ f + k # a
    BY <1>1, <1>2, <1>6, <2>1, BodyFacts
  <2>. QED  BY <1>7, <2>1, <2>2
<1>14. HeadersStay
  BY <1>7, <1>12 DEF HeadersStay, SameHeader
<1>15. LengthsFit
  <2>. SUFFICES ASSUME NEW f \in Live
                PROVE  /\ trace_cells'[f].len \in Nat
                       /\ IF trace_cells[f].block THEN trace_cells'[f].len < BlockSize
                          ELSE trace_cells'[f].len = trace_cells[f].len
                       /\ trace_cells'[f].len = Len(stored'[trace_cells[f].id].cells)
                       /\ \A k \in 1 .. trace_cells'[f].len : trace_cells'[f + k].kind = "cell"
    BY DEF LengthsFit
  <2>0. \A k \in CellsOf(f) : trace_cells'[f + k].kind = "cell"
    BY <1>1, <1>13, CellFacts DEF CellRecords
  <2>1. CASE f = e
    <3>1. trace_cells'[e].len = trace_cells[e].len + 1 /\ trace_cells'[e].len < BlockSize
      BY <1>2, <1>3, <1>7 DEF Room, MemoryAssumption
    <3>2. trace_cells'[e].len = Len(new)
      BY <1>7, <1>8, <1>9
    <3>3. ASSUME NEW k \in 1 .. trace_cells'[e].len PROVE trace_cells'[e + k].kind = "cell"
      <4>1. CASE k \in CellsOf(e)
        BY <2>0, <2>1, <4>1
      <4>2. CASE k \notin CellsOf(e)
        <5>1. k = trace_cells[e].len + 1
          BY <1>3, <3>1, <3>3, <4>2 DEF CellsOf
        <5>2. e + k = a
          BY <1>3, <5>1 DEF a
        <5>. QED  BY <1>5, <1>7, <5>2
      <4>. QED  BY <4>1, <4>2
    <3>. QED  BY <1>2, <1>3, <2>1, <3>1, <3>2, <3>3 DEF new, id
  <2>2. CASE f # e
    <3>1. trace_cells'[f] = trace_cells[f] /\ stored'[trace_cells[f].id] = stored[trace_cells[f].id]
      BY <1>1, <1>8, <1>12, <2>2 DEF Numbered
    <3>. QED  BY <1>1, <2>0, <3>1, LiveFacts DEF Content, Apart, CellsOf
  <2>. QED  BY <2>1, <2>2
<1>16. GhostsStay
  BY <1>2, <1>8 DEF GhostsStay, ActiveIds, id
<1>17. ASSUME NEW f \in Live PROVE \E g : Origin(f, g)
  <2>1. CASE f = e
    <3>. DEFINE n == trace_cells[e].len
                g == [k \in 1 .. n + 1 |-> IF k = n + 1 THEN 0 ELSE k]
    <3>1. trace_cells'[e].len = n + 1 /\ n \in Nat /\ n = Len(old)
      BY <1>3, <1>7, <1>9
    <3>2. ASSUME NEW k \in 1 .. n PROVE OldCell(e, k, k)
      <4>1. k \in CellsOf(e) /\ new[k] = old[k]
        BY <1>8, <3>1 DEF CellsOf
      <4>2. trace_cells'[e + k] = trace_cells[e + k]
        BY <1>2, <1>13, <4>1
      <4>. QED  BY <4>1, <4>2 DEF OldCell, old, new, id
    <3>3. NewCell(e, n + 1)
      <4>1. e + (n + 1) = a
        BY <1>3 DEF a
      <4>2. trace_cells'[e + (n + 1)] = c /\ new[n + 1] = [item |-> item, callee |-> IdOf(call)]
        BY <1>7, <1>8, <3>1, <4>1
      <4>3. call = NoEntry => IdOf(call) = 0
        BY DEF IdOf
      <4>4. call # NoEntry => NewCall(e, call, IdOf(call))
        BY <1>4 DEF Puts, NewCall
      <4>. QED  BY <1>2, <1>5, <4>2, <4>3, <4>4 DEF NewCell, new, id
    <3>. HIDE DEF n
    <3>4. \A k \in 1 .. n + 1 : IF g[k] = 0 THEN NewCell(e, k) ELSE OldCell(e, k, g[k])
      <4>. TAKE k \in 1 .. n + 1
      <4>1. CASE k = n + 1
        BY <3>3, <4>1
      <4>2. CASE k # n + 1
        <5>1. k \in 1 .. n /\ g[k] = k /\ k # 0
          BY <3>1, <4>2
        <5>. QED  BY <3>2, <5>1
      <4>. QED  BY <4>1, <4>2
    <3>5. \A k, l \in 1 .. n + 1 : g[k] = g[l] => k = l
      BY <3>1
    <3>. HIDE DEF g
    <3>6. Origin(e, g)
      BY <3>1, <3>4, <3>5 DEF Origin
    <3>. QED  BY <2>1, <3>6
  <2>2. CASE f # e
    <3>. DEFINE g == [k \in CellsOf(f) |-> k]
    <3>1. trace_cells'[f] = trace_cells[f] /\ stored'[trace_cells[f].id] = stored[trace_cells[f].id]
      BY <1>1, <1>8, <1>12, <2>2 DEF Numbered
    <3>2. ASSUME NEW k \in CellsOf(f) PROVE k # 0 /\ OldCell(f, k, k)
      <4>1. k \in Nat /\ k > 0
        BY <1>1, CellFacts
      <4>. QED  BY <1>13, <3>1, <4>1 DEF OldCell
    <3>3. \A k \in 1 .. trace_cells'[f].len : k \in CellsOf(f)
      BY <3>1 DEF CellsOf
    <3>4. Origin(f, g)
      BY <3>2, <3>3 DEF Origin
    <3>. QED  BY <3>4
  <2>. QED  BY <2>1, <2>2
<1>18. Rewrites
  BY <1>10, <1>11, <1>14, <1>15, <1>16, <1>17 DEF Rewrites
<1>19. Base' = Base /\ Active' = Active
  BY <1>1, <1>10 DEF Base, Active, Reducings
<1>20. ActiveIds' \subseteq ActiveIds
  <2>1. \A f \in Active : f \in Live
    BY <1>1, ActiveFacts
  <2>. QED  BY <1>14, <1>19, <2>1 DEF ActiveIds, HeadersStay
<1>21. RewriteStart
  BY <1>1, <1>18, <1>19, <1>20 DEF RewriteStart
<1>22. TypeOK'
  BY <1>1, <1>7, <1>8, <1>10 DEF TypeOK, Phases
<1>23. \A f \in Active : trace_cells'[f].complete = trace_cells[f].complete
  <2>1. \A f \in Active : f \in Live
    BY <1>1, ActiveFacts
  <2>. QED  BY <1>7, <1>12, <2>1
<1>. QED  BY <1>1, <1>10, <1>21, <1>22, <1>23, RewriteInv

LEMMA StoreCellInv ==
  ASSUME MemoryAssumption, Inv, store_cell
  PROVE  Inv'
<1>1. doing = "reduce" /\ word # NoEntry
  BY DEF store_cell, Reducing
<1>2. TypeOK /\ Reduced /\ Apart /\ Based
  BY <1>1 DEF Inv
<1>3. PICK e \in Active, item \in Items, call \in {NoEntry} \union Callable(Current) :
        /\ Room(e)
        /\ call <= e
        /\ trace_cells' = trace_alloc(trace_cells, e, Cell(item, call, IdOf(call)))
        /\ stored' = Given(stored, IdOf(e), item, IdOf(call))
  BY DEF store_cell
<1>4. UNCHANGED <<trace_ptr, trace_block_map, active_entries, word, doing, at, next, index,
                  started, merged>>
  BY DEF store_cell
<1>5. call = NoEntry \/ (call \in Live /\ call <= e /\ ~trace_cells[call].quote)
  <2>. SUFFICES ASSUME call # NoEntry PROVE call \in Live /\ ~trace_cells[call].quote
    BY <1>3
  <2>1. /\ call \in Places /\ is_entry(call) /\ ~trace_cells[call].quote
    BY <1>3 DEF Callable
  <2>2. e \in Live /\ e \in Nat /\ e < trace_ptr /\ call \in Nat /\ trace_ptr \in Nat
    <3>1. e \in Live
      BY <1>1, <1>2, ActiveFacts DEF Reducings
    <3>. QED  BY SMTT(30), <1>2, <2>1, <3>1, LiveFacts DEF TypeOK, Places
  <2>3. call \in 0 .. trace_ptr - 1
    BY <1>3, <2>2
  <2>. QED  BY <2>1, <2>3 DEF Live
<1>6. Puts(e, item, call)
  BY <1>1, <1>3, <1>4, <1>5 DEF Puts
<1>. QED  BY <1>6, PutsInv

LEMMA FindRoundInv ==
  ASSUME MemoryAssumption, Inv, FindRound
  PROVE  Inv'
<1>1. doing = "find"
  BY DEF FindRound
<1>2. TypeOK /\ Reduced /\ Apart /\ Based /\ Finding
  BY <1>1 DEF Inv
<1>3. PICK o \in Active : index \in Body(o) /\ Room(o) /\ at \in Live /\ at <= o
  BY <1>2 DEF Finding
<1>4. at < trace_ptr /\ is_persistent(at)
  <2>1. trace_cells[at].n /\ is_entry(at)
    BY <1>2, <1>3 DEF Reduced, Live
  <2>. QED  BY <1>2, <1>3, <2>1, LiveFacts DEF is_persistent
<1>5. CASE ~entry_has(at, index)
  <2>1. FindsOn
    BY <1>1, <1>4, <1>5 DEF FindRound, FindsOn
  <2>. QED  BY <2>1, FindsOnInv
<1>6. CASE entry_has(at, index)
  <2>1. PICK item \in Items :
          /\ trace_cells' = trace_alloc(trace_cells, at, Cell(item, NoEntry, 0))
          /\ stored' = Given(stored, IdOf(Owner(index)), item, 0)
    BY <1>4, <1>6 DEF FindRound
  <2>2. o \in Live /\ o >= Base
    BY <1>1, <1>2, <1>3, ActiveFacts DEF Reducings
  <2>3. at = o
    BY <1>2, <1>3, <1>6, <2>2, BodyFacts DEF entry_has
  <2>4. Owner(index) = o
    <3>1. index \in BlockOf(o)
      <4>1. index > o /\ index < trace_entry_next(o) /\ index \in Nat /\ trace_entry_next(o) = o + BlockSize
        BY <1>2, <1>3, <2>2, BodyFacts DEF Places, Based, trace_entry_next
      <4>. QED  BY <1>2, <2>2, <4>1, LiveFacts DEF BlockOf, MemoryAssumption
    <3>2. ASSUME NEW f \in Active, index \in BlockOf(f) PROVE f = o
      <4>1. f \in Live /\ f >= Base
        BY <1>1, <1>2, ActiveFacts DEF Reducings
      <4>2. trace_entry_next(f) = f + BlockSize /\ f \in Nat /\ BlockSize \in Nat
        BY <1>2, <4>1, LiveFacts DEF Based, trace_entry_next, MemoryAssumption
      <4>3. f <= index /\ index < trace_entry_next(f)
        BY <3>2, <4>2 DEF BlockOf
      <4>4. index > o /\ index < trace_entry_next(o) /\ index \in Nat
        BY <1>2, <1>3, <2>2, BodyFacts DEF Places
      <4>5. o \in Nat /\ trace_entry_next(o) \in Nat
        BY <1>2, <2>2, LiveFacts
      <4>6. ~(f < o) /\ ~(o < f)
        <5>1. f < o => trace_entry_next(f) <= o
          BY <1>2, <2>2, <4>1 DEF Apart
        <5>2. o < f => trace_entry_next(o) <= f
          BY <1>2, <2>2, <4>1 DEF Apart
        <5>. QED  BY <4>2, <4>3, <4>4, <4>5, <5>1, <5>2
      <4>. QED  BY <4>2, <4>5, <4>6
    <3>. QED  BY <1>3, <3>1, <3>2 DEF Owner
  <2>5. IdOf(NoEntry) = 0
    BY DEF IdOf
  <2>6. /\ doing' = "reduce" /\ at' = at
        /\ UNCHANGED <<trace_ptr, trace_block_map, active_entries, word, next, index, started, merged>>
    BY <1>4, <1>6 DEF FindRound
  <2>7. Puts(o, item, NoEntry)
    BY <1>1, <1>3, <2>1, <2>3, <2>4, <2>5, <2>6 DEF Puts
  <2>. QED  BY <2>7, PutsInv
<1>. QED  BY <1>5, <1>6

(* What is left of an entry that is complete.                              *)
CompleteSays(e, f, m, h) ==
  /\ m \in [Places -> Records] /\ h \in [DOMAIN h -> Ghosts]
  /\ m[e] \in Headers /\ SameHeader(m[e], trace_cells[e])
  /\ m[e].complete = TRUE /\ m[e].len = Len(f)
  /\ Len(f) \in Nat /\ Len(f) <= trace_cells[e].len
  /\ \A k \in 1 .. Len(f) :
       /\ k \in CellsOf(e) /\ f[k] \in CellsOf(e) /\ f[k] # 0
       /\ m[e + k] = trace_cells[e + f[k]] /\ m[e + k] \in CellRecords
  /\ \A k, l \in 1 .. Len(f) : f[k] = f[l] => k = l
  /\ \A x \in Live : x # e =>
       m[x] = trace_cells[x] /\ \A k \in CellsOf(x) : m[x + k] = trace_cells[x + k]
  /\ \A b \in Places : m[b].kind = "entry" <=> trace_cells[b].kind = "entry"
  /\ DOMAIN h = DOMAIN stored
  /\ \A id \in DOMAIN stored : h[id].parent = stored[id].parent
  /\ \A id \in DOMAIN stored : id # trace_cells[e].id => h[id] = stored[id]
  /\ Len(h[trace_cells[e].id].cells) = Len(f)
  /\ \A k \in 1 .. Len(f) :
       h[trace_cells[e].id].cells[k] = stored[trace_cells[e].id].cells[f[k]]

LEMMA CompleteFacts ==
  ASSUME MemoryAssumption, TypeOK, Apart, Numbered, Content, NEW e \in Live,
         NEW f \in Kept(trace_cells[e].len),
         NEW m, m = Completed(trace_cells, e, f), NEW h, h = Condensed(stored, trace_cells[e].id, f)
  PROVE  CompleteSays(e, f, m, h)
<1>1. /\ e \in Places /\ e \in Nat /\ trace_cells[e] \in Headers /\ trace_cells[e].len \in Nat
      /\ trace_cells[e].id \in DOMAIN stored
  BY LiveFacts DEF Numbered
<1>2. CellsOf(e) = 1 .. trace_cells[e].len
  BY DEF CellsOf
<1>3. \A k \in 1 .. trace_cells[e].len : e + k \in Places /\ trace_cells[e + k] \in CellRecords
  BY <1>2, CellFacts
<1>4. /\ Len(f) \in Nat /\ Len(f) <= trace_cells[e].len
      /\ \A k \in 1 .. Len(f) : f[k] \in Nat /\ f[k] > 0 /\ f[k] <= trace_cells[e].len
      /\ \A k, l \in 1 .. Len(f) : f[k] = f[l] => k = l
  BY <1>1, KeptFacts
<1>5. trace_cells \in [Places -> Records] /\ stored \in [DOMAIN stored -> Ghosts]
  BY DEF TypeOK
<1>6. CompletedSays(trace_cells, e, f, m)
  BY <1>1, <1>3, <1>5, CompletedEffect
<1>7. f \in Kept(Len(stored[trace_cells[e].id].cells))
  BY DEF Content
<1>8. CondensedSays(stored, trace_cells[e].id, f, h)
  BY <1>1, <1>5, <1>7, CondensedEffect
<1>9. \A k \in 1 .. Len(f) : k \in CellsOf(e) /\ f[k] \in CellsOf(e) /\ f[k] # 0
  BY <1>1, <1>2, <1>4
<1>10. ASSUME NEW x \in Live, x # e
       PROVE  m[x] = trace_cells[x] /\ \A k \in CellsOf(x) : m[x + k] = trace_cells[x + k]
  <2>1. x \in Places /\ x \in Nat /\ trace_entry_next(x) \in Nat /\ trace_entry_next(e) \in Nat
        /\ e + trace_cells[e].len < trace_entry_next(e) /\ x < trace_entry_next(x)
    BY LiveFacts
  <2>2. \A k \in CellsOf(x) : x + k \in Places /\ x < x + k /\ x + k < trace_entry_next(x) /\ k \in Nat
    BY CellFacts
  <2>3. CASE x < e
    <3>1. trace_entry_next(x) <= e
      BY <2>3 DEF Apart
    <3>2. \A k \in CellsOf(x) : x + k < e
      BY <1>1, <2>1, <2>2, <3>1
    <3>. QED  BY <1>6, <2>1, <2>2, <2>3, <3>2 DEF CompletedSays
  <2>4. CASE x > e
    <3>1. trace_entry_next(e) <= x
      BY <1>1, <2>1, <2>4 DEF Apart
    <3>2. x > e + trace_cells[e].len /\ \A k \in CellsOf(x) : x + k > e + trace_cells[e].len
      BY <1>1, <2>1, <2>2, <3>1
    <3>. QED  BY <1>6, <2>1, <2>2, <3>2 DEF CompletedSays
  <2>. QED  BY <1>1, <1>10, <2>1, <2>3, <2>4
<1>. QED  BY <1>4, <1>6, <1>8, <1>9, <1>10 DEF CompleteSays, CompletedSays, CondensedSays

(* The word is complete.                                                   *)
LEMMA EndWordInv ==
  ASSUME MemoryAssumption, Inv, EndWord
  PROVE  Inv'
<1>1. doing = "reduce" /\ doing \in Reducings /\ word # NoEntry /\ doing' = "dedup" /\ index' = 1
  BY DEF EndWord, Reducing, Reducings
<1>2. TypeOK /\ Apart /\ Joined /\ Numbered /\ Content /\ Mapped /\ Based /\ Reduced
  BY <1>1 DEF Inv
<1>3. word = active_entries[1] /\ active_entries # <<>> /\ Base = word
  BY <1>1, <1>2 DEF Reduced, Base
<1>4. word \in Active /\ word \in Live /\ word \in Nat
  BY <1>1, <1>2, <1>3, ActiveFacts, LiveFacts
<1>5. IdOf(word) = trace_cells[word].id
  BY <1>1 DEF IdOf
<1>6. /\ active_entries' = <<>>
      /\ UNCHANGED <<trace_ptr, trace_block_map, word, at, next, started, merged>>
  BY DEF EndWord
<1>7. PICK f \in Kept(trace_cells[word].len) :
        /\ trace_cells' = Completed(trace_cells, word, f)
        /\ stored' = Condensed(stored, trace_cells[word].id, f)
  BY <1>5 DEF EndWord
<1>8. /\ trace_cells' \in [Places -> Records] /\ stored' \in [DOMAIN stored' -> Ghosts]
      /\ trace_cells'[word] \in Headers /\ SameHeader(trace_cells'[word], trace_cells[word])
      /\ trace_cells'[word].complete = TRUE /\ trace_cells'[word].len = Len(f)
      /\ Len(f) \in Nat /\ Len(f) <= trace_cells[word].len
      /\ \A k \in 1 .. Len(f) :
           /\ k \in CellsOf(word) /\ f[k] \in CellsOf(word) /\ f[k] # 0
           /\ trace_cells'[word + k] = trace_cells[word + f[k]] /\ trace_cells'[word + k] \in CellRecords
      /\ \A k, l \in 1 .. Len(f) : f[k] = f[l] => k = l
      /\ \A x \in Live : x # word =>
           trace_cells'[x] = trace_cells[x] /\ \A k \in CellsOf(x) : trace_cells'[x + k] = trace_cells[x + k]
      /\ \A b \in Places : trace_cells'[b].kind = "entry" <=> trace_cells[b].kind = "entry"
      /\ DOMAIN stored' = DOMAIN stored
      /\ \A id \in DOMAIN stored : stored'[id].parent = stored[id].parent
      /\ \A id \in DOMAIN stored : id # trace_cells[word].id => stored'[id] = stored[id]
      /\ Len(stored'[trace_cells[word].id].cells) = Len(f)
      /\ \A k \in 1 .. Len(f) :
           stored'[trace_cells[word].id].cells[k] = stored[trace_cells[word].id].cells[f[k]]
  <2>1. CompleteSays(word, f, trace_cells', stored')
    BY <1>2, <1>4, <1>7, CompleteFacts
  <2>. QED  BY <2>1 DEF CompleteSays
<1>9. Live' = Live
  BY <1>2, <1>6, <1>8, LiveSame
<1>10. HeadersStay
  BY <1>8 DEF HeadersStay, SameHeader
<1>11. \A x \in Live : x # word => trace_cells[x].id # trace_cells[word].id /\ stored'[trace_cells[x].id] = stored[trace_cells[x].id]
  BY <1>2, <1>4, <1>8, IdsDiffer DEF Numbered
<1>12. LengthsFit
  <2>. SUFFICES ASSUME NEW x \in Live
                PROVE  /\ trace_cells'[x].len \in Nat
                       /\ IF trace_cells[x].block THEN trace_cells'[x].len < BlockSize
                          ELSE trace_cells'[x].len = trace_cells[x].len
                       /\ trace_cells'[x].len = Len(stored'[trace_cells[x].id].cells)
                       /\ \A k \in 1 .. trace_cells'[x].len : trace_cells'[x + k].kind = "cell"
    BY DEF LengthsFit
  <2>1. CASE x = word
    <3>1. trace_cells[word].block /\ trace_cells[word].len < BlockSize /\ trace_cells[word].len \in Nat
          /\ BlockSize \in Nat
      BY <1>2, <1>3, <1>4, LiveFacts DEF Based, Apart, MemoryAssumption
    <3>2. \A k \in 1 .. Len(f) : trace_cells'[word + k].kind = "cell"
      BY <1>8 DEF CellRecords
    <3>. QED  BY SMTT(30), <1>8, <2>1, <3>1, <3>2
  <2>2. CASE x # word
    <3>1. trace_cells'[x] = trace_cells[x] /\ stored'[trace_cells[x].id] = stored[trace_cells[x].id]
      BY <1>8, <1>11, <2>2
    <3>2. \A k \in CellsOf(x) : trace_cells'[x + k].kind = "cell"
      BY SMTT(30), <1>2, <1>8, <2>2, CellFacts DEF CellRecords
    <3>. QED  BY <1>2, <3>1, <3>2, LiveFacts DEF Content, Apart, CellsOf
  <2>. QED  BY <2>1, <2>2
<1>13. GhostsStay
  BY <1>4, <1>8 DEF GhostsStay, ActiveIds
<1>14. ASSUME NEW x \in Live PROVE \E g : Origin(x, g)
  <2>1. CASE x = word
    <3>1. \A k \in 1 .. Len(f) : OldCell(word, k, f[k])
      BY <1>8 DEF OldCell
    <3>2. Origin(word, f)
      BY <1>8, <3>1 DEF Origin
    <3>. QED  BY <2>1, <3>2
  <2>2. CASE x # word
    <3>. DEFINE g == [k \in CellsOf(x) |-> k]
    <3>1. trace_cells'[x] = trace_cells[x] /\ stored'[trace_cells[x].id] = stored[trace_cells[x].id]
      BY <1>8, <1>11, <2>2
    <3>2. ASSUME NEW k \in CellsOf(x) PROVE k # 0 /\ OldCell(x, k, k)
      <4>1. k \in Nat /\ k > 0
        BY <1>2, CellFacts
      <4>. QED  BY <1>8, <2>2, <3>1, <4>1 DEF OldCell
    <3>3. \A k \in 1 .. trace_cells'[x].len : k \in CellsOf(x)
      BY <3>1 DEF CellsOf
    <3>4. Origin(x, g)
      BY <3>2, <3>3 DEF Origin
    <3>. QED  BY <3>4
  <2>. QED  BY <2>1, <2>2
<1>15. Rewrites
  BY <1>6, <1>9, <1>10, <1>12, <1>13, <1>14 DEF Rewrites
<1>16. ActiveIds' = {} /\ Base' = Base /\ ~Compacting' /\ doing' # "map"
  BY <1>1, <1>3, <1>6 DEF ActiveIds, Active, Base, Compacting
<1>17. RewriteStart
  BY <1>1, <1>2, <1>15, <1>16 DEF RewriteStart
<1>18. Apart' /\ Joined' /\ Numbered' /\ Mapped' /\ Content' /\ Based' /\ AsMade' /\ OneCell'
  BY <1>17, RewriteShape, RewriteContent, RewriteBased, RewriteMade
<1>19. TypeOK'
  BY SMTT(30), <1>1, <1>2, <1>6, <1>8 DEF TypeOK, Phases
<1>20. Deduping'
  <2>1. \A e \in Live' : e \in Nat /\ e \in Int
    BY <1>2, <1>9, LiveFacts
  <2>2. ASSUME NEW e \in Live', e > word', NEW k \in CellsOf(e)' PROVE CallsAsMade(e, k)'
    BY <1>3, <1>4, <1>6, <1>16, <1>18, <2>1, <2>2 DEF AsMade
  <2>3. \A k \in CellsOf(word)' : k >= index' => CallsAsMade(word, k)'
    <3>1. word' \in Live' /\ word' >= Base'
      BY <1>3, <1>4, <1>6, <1>9, <1>16
    <3>. QED  BY <1>18, <3>1 DEF AsMade
  <2>4. ASSUME NEW e1 \in Live', NEW e2 \in Live', e1 >= word', e2 >= word',
               NEW k1 \in CellsOf(e1)', NEW k2 \in CellsOf(e2)', SameQuote(e1, k1, e2, k2)'
        PROVE  e1 = e2 /\ k1 = k2
    <3>1. PICK c : c = CallOf(e1, k1)' /\ c = CallOf(e2, k2)' /\ c # NoEntry /\ trace_cells'[c].quote
      BY <2>4 DEF SameQuote
    <3>2. CallsAsMade(e1, k1)' /\ CallsAsMade(e2, k2)' /\ e1 >= Base' /\ e2 >= Base'
      BY <1>3, <1>6, <1>16, <1>18, <2>4 DEF AsMade
    <3>3. c > e1 /\ trace_cells'[c].parent = e1 /\ c > e2 /\ trace_cells'[c].parent = e2
      BY <3>1, <3>2 DEF CallsAsMade
    <3>. QED  BY <1>18, <2>4, <3>1, <3>2, <3>3 DEF OneCell
  <2>5. \A e \in Live' : trace_cells'[e].n
    BY <1>2, <1>9, <1>10 DEF Reduced, HeadersStay
  <2>6. active_entries' = <<>> /\ index' > 0 /\ word' \in Live'
    BY <1>1, <1>4, <1>6, <1>9
  <2>7. \A e \in Live' : e > word' => \A k \in CellsOf(e)' : CallsAsMade(e, k)'
    BY <2>2
  <2>8. \A e1, e2 \in Live' : e1 >= word' /\ e2 >= word' =>
          \A k1 \in CellsOf(e1)', k2 \in CellsOf(e2)' :
            SameQuote(e1, k1, e2, k2)' => (e1 = e2 /\ k1 = k2) \/ First(CallOf(e1, k1))'
    BY <2>4
  <2>9. \A e \in Live' : e >= word' /\ ~trace_cells'[e].n => ~First(e)'
    BY <2>5
  <2>. QED  BY <2>3, <2>6, <2>7, <2>8, <2>9 DEF Deduping
<1>. QED  BY <1>1, <1>16, <1>18, <1>19, <1>20 DEF Inv


(* A quote or a function that is specialised is complete.                  *)
LEMMA EndEntryInv ==
  ASSUME MemoryAssumption, Inv, trace_end_entry
  PROVE  Inv'
<1>1. doing = "reduce" /\ doing \in Reducings /\ word # NoEntry /\ doing' = "reduce" /\ ~Compacting'
      /\ UNCHANGED <<trace_ptr, trace_block_map, word, doing, at, next, index, started, merged>>
  BY DEF trace_end_entry, Reducing, Reducings, Compacting
<1>2. TypeOK /\ Apart /\ Joined /\ Numbered /\ Content /\ Mapped /\ Based /\ Reduced
  BY <1>1 DEF Inv
<1>. DEFINE n == Len(active_entries)
<1>3. /\ n \in Nat /\ n > 1 /\ DOMAIN active_entries = 1 .. n
      /\ active_entries \in Seq(Places)
      /\ active_entries' = SubSeq(active_entries, 1, n - 1)
  BY <1>2 DEF TypeOK, trace_end_entry
<1>4. /\ active_entries' \in Seq(Places) /\ Len(active_entries') = n - 1
      /\ DOMAIN active_entries' = 1 .. n - 1
      /\ \A i \in 1 .. n - 1 : active_entries'[i] = active_entries[i]
  BY <1>3
<1>5. PICK e, p : e = Current /\ p = trace_cells[e].parent
  OBVIOUS
<1>6. e = active_entries[n] /\ e \in Active /\ n \in DOMAIN active_entries
  BY <1>3, <1>5 DEF Current, Active
<1>7. p \in Active
  <2>1. PICK j \in DOMAIN active_entries : j < n /\ trace_cells[active_entries[n]].parent = active_entries[j]
    BY <1>2, <1>3, <1>6 DEF Reduced
  <2>. QED  BY <1>5, <1>6, <2>1 DEF Active
<1>8. /\ e \in Live /\ e >= Base /\ ~trace_cells[e].complete
      /\ p \in Live /\ p >= Base /\ ~trace_cells[p].complete
  BY <1>1, <1>2, <1>6, <1>7, ActiveFacts
<1>9. /\ e \in Places /\ e \in Nat /\ trace_cells[e] \in Headers /\ trace_cells[e].len \in Nat /\ e # NoEntry
      /\ p \in Places /\ p \in Nat /\ trace_cells[p] \in Headers /\ trace_cells[p].len \in Nat /\ p # NoEntry
  BY <1>2, <1>8, LiveFacts DEF NoEntry
<1>10. p < e
  <2>1. e > Base
    <3>1. Base = active_entries[1] /\ 1 \in DOMAIN active_entries
      BY <1>1, <1>3 DEF Base
    <3>2. active_entries[1] < active_entries[n]
      BY <1>2, <1>3, <1>6, <3>1 DEF Reduced
    <3>3. active_entries[1] \in Nat
      BY <1>3, <3>1 DEF Places
    <3>. QED  BY <1>6, <1>9, <3>1, <3>2, <3>3
  <2>. QED  BY <1>2, <1>5, <1>8, <2>1 DEF Based
<1>11. trace_cells[e].block /\ trace_cells[p].block
  BY <1>2, <1>8 DEF Based
<1>12. PICK item \in Items, f \in Kept(trace_cells[e].len) :
         /\ trace_cells' = trace_alloc(Completed(trace_cells, e, f), p, Cell(item, e, IdOf(e)))
         /\ stored' = Given(Condensed(stored, IdOf(e), f), IdOf(p), item, IdOf(e))
  BY <1>5 DEF trace_end_entry
<1>13. Room(p)
  BY <1>5 DEF trace_end_entry
<1>. DEFINE ide == trace_cells[e].id
            idp == trace_cells[p].id
<1>14. /\ IdOf(e) = ide /\ IdOf(p) = idp /\ ide \in DOMAIN stored /\ idp \in DOMAIN stored
       /\ ide # idp /\ ide \in Nat
  <2>1. ide # idp
    BY <1>2, <1>8, <1>9, <1>10, IdsDiffer
  <2>. QED  BY <1>2, <1>8, <1>9, <2>1 DEF IdOf, Numbered, Headers
<1>15. PICK m, h : m = Completed(trace_cells, e, f) /\ h = Condensed(stored, ide, f)
  OBVIOUS
<1>16. CompleteSays(e, f, m, h)
  BY <1>2, <1>8, <1>15, CompleteFacts
<1>. DEFINE a == p + trace_cells[p].len + 1
            c == Cell(item, e, ide)
<1>17. /\ a \in Places /\ a # p /\ a > p
       /\ \A x \in Live : a # x /\ \A b \in Body(x) : a # b
       /\ trace_cells[a].kind # "entry"
  BY <1>2, <1>8, <1>11, <1>13, FreePlace
<1>18. c \in CellRecords /\ c.kind = "cell" /\ c.item = item /\ c.call = e
  BY <1>9, <1>14 DEF CellRecords, Cell, PlacesOrNone
<1>. HIDE DEF a, c, ide, idp
<1>19. m[p] = trace_cells[p] /\ m \in [Places -> Records]
  BY SMTT(30), <1>8, <1>9, <1>10, <1>16 DEF CompleteSays
<1>20. /\ trace_cells' \in [Places -> Records]
       /\ trace_cells'[p] \in Headers /\ SameHeader(trace_cells'[p], trace_cells[p])
       /\ trace_cells'[p].complete = trace_cells[p].complete
       /\ trace_cells'[p].len = trace_cells[p].len + 1
       /\ trace_cells'[a] = c
       /\ \A b \in Places : b # p /\ b # a => trace_cells'[b] = m[b]
  <2>1. trace_cells' = trace_alloc(m, p, c)
    BY <1>12, <1>14, <1>15 DEF c
  <2>2. a = p + m[p].len + 1 /\ m[p] \in Headers
    BY <1>9, <1>19 DEF a
  <2>3. /\ trace_cells' \in [Places -> Records]
        /\ trace_cells'[p] \in Headers /\ SameHeader(trace_cells'[p], m[p])
        /\ trace_cells'[p].complete = m[p].complete
        /\ trace_cells'[p].len = m[p].len + 1
        /\ trace_cells'[a] = c
        /\ \A b \in Places : b # p /\ b # a => trace_cells'[b] = m[b]
    BY <1>9, <1>17, <1>18, <1>19, <2>1, <2>2, AllocEffect
  <2>. QED  BY <1>19, <2>3
<1>. DEFINE new == stored'[idp].cells
            old == stored[idp].cells
<1>21. /\ h \in [DOMAIN h -> Ghosts] /\ DOMAIN h = DOMAIN stored
       /\ \A x \in DOMAIN stored : h[x].parent = stored[x].parent
       /\ \A x \in DOMAIN stored : x # ide => h[x] = stored[x]
       /\ Len(h[ide].cells) = Len(f)
       /\ \A k \in 1 .. Len(f) : h[ide].cells[k] = stored[ide].cells[f[k]]
  BY <1>16 DEF CompleteSays, ide
<1>22. h[idp] = stored[idp]
  BY <1>14, <1>21
<1>23. /\ DOMAIN stored' = DOMAIN stored /\ stored' \in [DOMAIN stored' -> Ghosts]
       /\ \A x \in DOMAIN stored : stored'[x].parent = stored[x].parent
       /\ \A x \in DOMAIN stored : x # idp => stored'[x] = h[x]
       /\ Len(new) = Len(old) + 1
       /\ new[Len(old) + 1] = [item |-> item, callee |-> ide]
       /\ \A k \in 1 .. Len(old) : new[k] = old[k]
  <2>1. stored' = Given(h, idp, item, ide)
    BY <1>12, <1>14, <1>15
  <2>. QED  BY SMTT(30), <1>14, <1>21, <1>22, <2>1, GivenEffect
<1>24. trace_cells[p].len = Len(old)
  BY <1>2, <1>8 DEF Content, idp
<1>. HIDE DEF old, new
<1>25. \A b \in Places : trace_cells'[b].kind = "entry" <=> trace_cells[b].kind = "entry"
  <2>. TAKE b \in Places
  <2>1. m[b].kind = "entry" <=> trace_cells[b].kind = "entry"
    BY <1>16 DEF CompleteSays
  <2>2. trace_cells'[p].kind = "entry" /\ trace_cells[p].kind = "entry"
    BY <1>9, <1>20 DEF Headers
  <2>. QED  BY <1>17, <1>18, <1>20, <2>1, <2>2
<1>26. Live' = Live
  BY <1>1, <1>2, <1>25, LiveSame
<1>27. ASSUME NEW x \in Live, x # p
       PROVE  /\ trace_cells'[x] = m[x] /\ trace_cells[x].id # idp
              /\ x # e => trace_cells'[x] = trace_cells[x] /\ trace_cells[x].id # ide
                          /\ stored'[trace_cells[x].id] = stored[trace_cells[x].id]
  <2>1. x \in Places /\ x # a /\ trace_cells[x].id \in DOMAIN stored
    BY <1>2, <1>17, LiveFacts DEF Numbered
  <2>2. trace_cells[x].id # idp
    BY <1>2, <1>8, <1>27, IdsDiffer DEF idp
  <2>3. x # e => trace_cells[x].id # ide
    BY <1>2, <1>8, IdsDiffer DEF ide
  <2>4. x # e => m[x] = trace_cells[x]
    BY <1>16 DEF CompleteSays
  <2>. QED  BY <1>20, <1>21, <1>23, <1>27, <2>1, <2>2, <2>3, <2>4
<1>28. ASSUME NEW x \in Live, NEW k \in CellsOf(x) PROVE trace_cells'[x + k] = m[x + k]
  <2>1. x + k \in Body(x) /\ x + k \in Places
    BY <1>2, CellFacts
  <2>2. x + k # p /\ x + k # a
    BY <1>2, <1>8, <1>17, <2>1, BodyFacts
  <2>. QED  BY <1>20, <2>1, <2>2
<1>29. ASSUME NEW x \in Live, x # e, NEW k \in CellsOf(x) PROVE trace_cells'[x + k] = trace_cells[x + k]
  BY <1>16, <1>28, <1>29 DEF CompleteSays
<1>30. /\ trace_cells'[e] = m[e] /\ m[e] \in Headers /\ SameHeader(trace_cells'[e], trace_cells[e])
       /\ trace_cells'[e].complete = TRUE /\ trace_cells'[e].len = Len(f)
       /\ Len(f) \in Nat /\ Len(f) <= trace_cells[e].len
       /\ \A k, l \in 1 .. Len(f) : f[k] = f[l] => k = l
       /\ \A k \in 1 .. Len(f) : k \in CellsOf(e) /\ f[k] \in CellsOf(e) /\ f[k] # 0
  BY SMTT(30), <1>8, <1>9, <1>10, <1>16, <1>27 DEF CompleteSays
<1>31. \A k \in 1 .. Len(f) : trace_cells'[e + k] = trace_cells[e + f[k]] /\ trace_cells'[e + k] \in CellRecords
  BY <1>8, <1>16, <1>28, <1>30 DEF CompleteSays
<1>32. /\ Len(stored'[ide].cells) = Len(f)
       /\ \A k \in 1 .. Len(f) : stored'[ide].cells[k] = stored[ide].cells[f[k]]
  BY <1>14, <1>21, <1>23
<1>33. HeadersStay
  <2>. SUFFICES ASSUME NEW x \in Live
                PROVE  SameHeader(trace_cells'[x], trace_cells[x])
                       /\ (trace_cells[x].complete => trace_cells'[x].complete)
    BY DEF HeadersStay, SameHeader
  <2>. QED  BY <1>20, <1>27, <1>30 DEF SameHeader
<1>34. LengthsFit
  <2>. SUFFICES ASSUME NEW x \in Live
                PROVE  /\ trace_cells'[x].len \in Nat
                       /\ IF trace_cells[x].block THEN trace_cells'[x].len < BlockSize
                          ELSE trace_cells'[x].len = trace_cells[x].len
                       /\ trace_cells'[x].len = Len(stored'[trace_cells[x].id].cells)
                       /\ \A k \in 1 .. trace_cells'[x].len : trace_cells'[x + k].kind = "cell"
    BY DEF LengthsFit
  <2>0. x # e => \A k \in CellsOf(x) : trace_cells'[x + k].kind = "cell"
    BY <1>2, <1>29, CellFacts DEF CellRecords
  <2>1. CASE x = p
    <3>1. trace_cells'[p].len = trace_cells[p].len + 1 /\ trace_cells'[p].len < BlockSize
      BY <1>9, <1>13, <1>20 DEF Room, MemoryAssumption
    <3>2. trace_cells'[p].len = Len(new)
      BY <1>20, <1>23, <1>24
    <3>3. ASSUME NEW k \in 1 .. trace_cells'[p].len PROVE trace_cells'[p + k].kind = "cell"
      <4>1. CASE k \in CellsOf(p)
        BY <1>9, <1>10, <2>0, <2>1, <4>1
      <4>2. CASE k \notin CellsOf(p)
        <5>1. k = trace_cells[p].len + 1
          BY <1>9, <3>1, <3>3, <4>2 DEF CellsOf
        <5>2. p + k = a
          BY <1>9, <5>1 DEF a
        <5>. QED  BY <1>18, <1>20, <5>2
      <4>. QED  BY <4>1, <4>2
    <3>. QED  BY <1>9, <1>11, <2>1, <3>1, <3>2, <3>3 DEF new, idp
  <2>2. CASE x = e
    <3>1. trace_cells[e].len < BlockSize /\ BlockSize \in Nat
      BY <1>2, <1>8, <1>11 DEF Apart, MemoryAssumption
    <3>2. \A k \in 1 .. Len(f) : trace_cells'[e + k].kind = "cell"
      BY <1>31 DEF CellRecords
    <3>3. trace_cells'[e].len < BlockSize
      BY <1>9, <1>30, <3>1
    <3>. QED  BY <1>11, <1>30, <1>32, <2>2, <3>2, <3>3 DEF ide
  <2>3. CASE x # p /\ x # e
    <3>1. trace_cells'[x] = trace_cells[x] /\ stored'[trace_cells[x].id] = stored[trace_cells[x].id]
      BY <1>27, <2>3
    <3>. QED  BY <1>2, <2>0, <2>3, <3>1, LiveFacts DEF Content, Apart, CellsOf
  <2>. QED  BY <2>1, <2>2, <2>3
<1>35. GhostsStay
  <2>1. ide \in ActiveIds /\ idp \in ActiveIds
    BY <1>6, <1>7 DEF ActiveIds, ide, idp
  <2>2. \A x \in DOMAIN stored : x # idp /\ x # ide => stored'[x] = stored[x]
    BY <1>21, <1>23
  <2>. QED  BY <1>23, <2>1, <2>2 DEF GhostsStay
<1>36. ASSUME NEW x \in Live PROVE \E g : Origin(x, g)
  <2>1. CASE x = p
    <3>. DEFINE l == trace_cells[p].len
                g == [k \in 1 .. l + 1 |-> IF k = l + 1 THEN 0 ELSE k]
    <3>1. trace_cells'[p].len = l + 1 /\ l \in Nat /\ l = Len(old)
      BY <1>9, <1>20, <1>24
    <3>2. ASSUME NEW k \in 1 .. l PROVE OldCell(p, k, k)
      <4>1. k \in CellsOf(p) /\ new[k] = old[k]
        BY <1>23, <3>1 DEF CellsOf
      <4>2. trace_cells'[p + k] = trace_cells[p + k]
        BY <1>8, <1>9, <1>10, <1>29, <4>1
      <4>. QED  BY <4>1, <4>2 DEF OldCell, old, new, idp
    <3>3. NewCell(p, l + 1)
      <4>1. p + (l + 1) = a
        BY <1>9 DEF a
      <4>2. trace_cells'[p + (l + 1)] = c /\ new[l + 1] = [item |-> item, callee |-> ide]
        BY <1>20, <1>23, <3>1, <4>1
      <4>3. NewCall(p, e, ide)
        BY <1>5, <1>8, <1>10, <1>30 DEF NewCall, ide
      <4>. QED  BY <1>8, <1>18, <4>2, <4>3 DEF NewCell, new, idp
    <3>. HIDE DEF l
    <3>4. \A k \in 1 .. l + 1 : IF g[k] = 0 THEN NewCell(p, k) ELSE OldCell(p, k, g[k])
      <4>. TAKE k \in 1 .. l + 1
      <4>1. CASE k = l + 1
        BY <3>3, <4>1
      <4>2. CASE k # l + 1
        <5>1. k \in 1 .. l /\ g[k] = k /\ k # 0
          BY <3>1, <4>2
        <5>. QED  BY <3>2, <5>1
      <4>. QED  BY <4>1, <4>2
    <3>5. \A k, j \in 1 .. l + 1 : g[k] = g[j] => k = j
      BY <3>1
    <3>. HIDE DEF g
    <3>6. Origin(p, g)
      BY <3>1, <3>4, <3>5 DEF Origin
    <3>. QED  BY <2>1, <3>6
  <2>2. CASE x = e
    <3>1. \A k \in 1 .. Len(f) : OldCell(e, k, f[k])
      BY <1>30, <1>31, <1>32 DEF OldCell, ide
    <3>2. Origin(e, f)
      BY <1>30, <3>1 DEF Origin
    <3>. QED  BY <2>2, <3>2
  <2>3. CASE x # p /\ x # e
    <3>. DEFINE g == [k \in CellsOf(x) |-> k]
    <3>1. trace_cells'[x] = trace_cells[x] /\ stored'[trace_cells[x].id] = stored[trace_cells[x].id]
      BY <1>27, <2>3
    <3>2. ASSUME NEW k \in CellsOf(x) PROVE k # 0 /\ OldCell(x, k, k)
      <4>1. k \in Nat /\ k > 0
        BY <1>2, CellFacts
      <4>. QED  BY <1>29, <2>3, <3>1, <4>1 DEF OldCell
    <3>3. \A k \in 1 .. trace_cells'[x].len : k \in CellsOf(x)
      BY <3>1 DEF CellsOf
    <3>4. Origin(x, g)
      BY <3>2, <3>3 DEF Origin
    <3>. QED  BY <3>4
  <2>. QED  BY <2>1, <2>2, <2>3
<1>37. Rewrites
  <2>1. \A x \in Live : \E g : Origin(x, g)
    BY <1>36
  <2>2. UNCHANGED <<trace_ptr, trace_block_map, started, merged>>
    BY <1>1
  <2>. QED  BY <1>26, <1>33, <1>34, <1>35, <2>1, <2>2 DEF Rewrites
<1>38. active_entries # <<>> /\ active_entries' # <<>> /\ active_entries'[1] = active_entries[1]
  <2>1. 1 \in DOMAIN active_entries /\ 1 \in DOMAIN active_entries' /\ 1 \in 1 .. n - 1
    BY <1>3, <1>4
  <2>2. DOMAIN <<>> = {}
    OBVIOUS
  <2>. QED  BY <1>4, <2>1, <2>2
<1>39. Base' = Base
  BY <1>1, <1>38 DEF Base
<1>40. \A i \in 1 .. n - 1 : /\ i \in DOMAIN active_entries /\ active_entries[i] \in Live
                            /\ active_entries[i] # e
                            /\ trace_cells'[active_entries[i]].complete = trace_cells[active_entries[i]].complete
  <2>. TAKE i \in 1 .. n - 1
  <2>1. i \in DOMAIN active_entries /\ i < n
    BY <1>3
  <2>2. active_entries[i] \in Live /\ active_entries[i] < e /\ active_entries[i] \in Nat
    BY <1>2, <1>3, <1>6, <2>1, LiveFacts DEF Reduced
  <2>3. active_entries[i] # e
    BY <1>9, <2>2
  <2>. QED  BY <1>20, <1>27, <2>1, <2>2, <2>3
<1>41. ActiveIds' \subseteq ActiveIds
  <2>. SUFFICES ASSUME NEW i \in 1 .. n - 1 PROVE trace_cells'[active_entries'[i]].id \in ActiveIds
    <3>1. Active' = {active_entries'[i] : i \in 1 .. n - 1}
      BY <1>4 DEF Active
    <3>2. ActiveIds' = {trace_cells'[x].id : x \in Active'}
      BY DEF ActiveIds
    <3>. QED  BY <3>1, <3>2
  <2>1. trace_cells'[active_entries'[i]].id = trace_cells[active_entries[i]].id
    BY <1>4, <1>33, <1>40 DEF HeadersStay
  <2>. QED  BY <1>40, <2>1 DEF ActiveIds, Active
<1>42. RewriteStart
  BY <1>1, <1>2, <1>37, <1>39, <1>41 DEF RewriteStart
<1>43. Apart' /\ Joined' /\ Numbered' /\ Mapped' /\ Content' /\ Based' /\ AsMade' /\ OneCell'
  BY <1>42, RewriteShape, RewriteContent, RewriteBased, RewriteMade
<1>44. Reduced'
  <2>1. \A x \in Live : trace_cells'[x].n
    BY <1>2, <1>33 DEF HeadersStay, Reduced
  <2>2. \A i \in 1 .. n - 1 : active_entries'[i] \in Live /\ ~trace_cells'[active_entries'[i]].complete
    BY <1>2, <1>4, <1>40 DEF Reduced
  <2>3. \A i \in 1 .. n - 1 : i > 1 =>
          \E j \in 1 .. n - 1 : j < i /\ trace_cells'[active_entries'[i]].parent = active_entries'[j]
    <3>. SUFFICES ASSUME NEW i \in 1 .. n - 1, i > 1
                  PROVE  \E j \in 1 .. n - 1 : j < i /\ trace_cells'[active_entries'[i]].parent = active_entries'[j]
      OBVIOUS
    <3>1. PICK j \in DOMAIN active_entries : j < i /\ trace_cells[active_entries[i]].parent = active_entries[j]
      BY <1>2, <1>40 DEF Reduced
    <3>2. j \in 1 .. n - 1
      BY <1>3, <3>1
    <3>. QED  BY <1>4, <1>33, <1>40, <3>1, <3>2 DEF HeadersStay
  <2>4. \A x \in Live : x >= Base => \A id \in merged : id < trace_cells'[x].id
    BY <1>2, <1>33 DEF Reduced, HeadersStay
  <2>5. \A i, j \in 1 .. n - 1 : i < j => active_entries'[i] < active_entries'[j]
    BY <1>2, <1>4, <1>40 DEF Reduced
  <2>6. word = active_entries'[1]
    BY <1>1, <1>2, <1>38 DEF Reduced
  <2>. QED  BY <1>1, <1>4, <1>26, <1>38, <1>39, <1>43, <2>1, <2>2, <2>3, <2>4, <2>5, <2>6 DEF Reduced
<1>45. TypeOK'
  <2>1. /\ DOMAIN stored' \subseteq 1 .. started' /\ stored' \in [DOMAIN stored' -> Ghosts]
        /\ trace_cells' \in [Places -> Records] /\ active_entries' \in Seq(Places)
    BY <1>1, <1>2, <1>4, <1>20, <1>23 DEF TypeOK
  <2>. QED  BY <1>1, <1>2, <2>1 DEF TypeOK
<1>. QED  BY <1>1, <1>43, <1>44, <1>45 DEF Inv

-----------------------------------------------------------------------------
(* Entries are started.                                                    *)

Starting(active, parent, quote) ==
  /\ doing = "reduce"
  /\ trace_start_entry(active, parent, quote)
  /\ \/ /\ word = NoEntry /\ word' = trace_ptr
        /\ active = <<>> /\ parent = NoEntry /\ quote = FALSE
     \/ /\ word # NoEntry /\ word' = word
        /\ active = active_entries /\ parent \in Active /\ quote \in BOOLEAN

(* What is where when entry b was started, with number id.                 *)
StartSays(b, id, parent, quote) ==
  /\ b \in Nat /\ b \in Places /\ b \notin Live /\ BlockSize \in Nat /\ BlockSize > 0
  /\ trace_cells' \in [Places -> Records] /\ trace_ptr' \in 0 .. TraceSize - 1
  /\ trace_cells'[b] = Header(id, parent, quote) /\ trace_cells'[b] \in Headers
  /\ \A x \in Live : /\ x \in Nat /\ x < b /\ trace_entry_next(x) <= b
                     /\ trace_cells'[x] = trace_cells[x]
                     /\ trace_cells[x].id \in DOMAIN stored
                     /\ trace_cells[x].id # id /\ trace_cells[x].id < id
  /\ \A x \in Live : \A k \in CellsOf(x) : trace_cells'[x + k] = trace_cells[x + k]
  /\ Live' = Live \union {b}
  /\ id \in Nat /\ id \notin DOMAIN stored /\ id \notin merged /\ \A i \in merged : i < id
  /\ DOMAIN stored' = DOMAIN stored \union {id} /\ stored' \in [DOMAIN stored' -> Ghosts]
  /\ \A i \in DOMAIN stored : stored'[i] = stored[i]
  /\ stored'[id].cells = <<>> /\ stored'[id].parent = IdOf(parent)

LEMMA StartFacts ==
  ASSUME MemoryAssumption, Inv, NEW active, NEW parent, NEW quote, Starting(active, parent, quote),
         NEW b, b = trace_ptr, NEW id, id = started + 1
  PROVE  StartSays(b, id, parent, quote)
<1>1. TypeOK /\ Apart /\ Numbered /\ Reduced /\ doing \in Reducings
  BY DEF Starting, Inv, Reducings
<1>2. /\ trace_ptr \in Nat /\ TraceSize \in Nat /\ BlockSize \in Nat /\ BlockSize > 0 /\ started \in Nat
      /\ DOMAIN stored \subseteq 1 .. started /\ stored \in [DOMAIN stored -> Ghosts]
      /\ merged \subseteq 1 .. started
  BY <1>1 DEF TypeOK, MemoryAssumption
<1>3. /\ b + BlockSize < TraceSize
      /\ trace_cells' = [a \in Places |-> IF a = b THEN Header(id, parent, quote)
                                          ELSE IF a \in BlockOf(b) THEN Zero ELSE trace_cells[a]]
      /\ trace_ptr' = b + BlockSize
      /\ stored' = [i \in DOMAIN stored \union {id} |->
                    IF i = id THEN [cells |-> <<>>, parent |-> IdOf(parent)] ELSE stored[i]]
  BY DEF Starting, trace_start_entry
<1>4. /\ b \in Nat /\ b \in Places /\ b \notin Live /\ id \in Nat /\ id \notin DOMAIN stored
      /\ id \notin merged /\ \A i \in merged : i < id
  BY <1>2, <1>3 DEF Places, Live
<1>5. parent = NoEntry \/ parent \in Live
  BY <1>1, ActiveFacts DEF Starting
<1>6. parent \in PlacesOrNone /\ IdOf(parent) \in Nat
  <2>1. CASE parent = NoEntry
    BY <2>1 DEF PlacesOrNone, IdOf
  <2>2. CASE parent # NoEntry
    <3>1. parent \in Places /\ trace_cells[parent] \in Headers
      BY <1>1, <1>5, <2>2, LiveFacts
    <3>. QED  BY <2>2, <3>1 DEF PlacesOrNone, IdOf, Headers
  <2>. QED  BY <2>1, <2>2
<1>7. Header(id, parent, quote) \in Headers
  <2>1. quote \in BOOLEAN
    BY DEF Starting
  <2>. QED  BY <1>4, <1>6, <2>1 DEF Header, Headers, PlacesOrNone
<1>8. trace_cells' \in [Places -> Records]
  <2>1. \A a \in Places : trace_cells[a] \in Records
    BY <1>1 DEF TypeOK
  <2>2. Header(id, parent, quote) \in Records /\ Zero \in Records
    BY <1>7 DEF Records
  <2>. QED  BY <1>3, <2>1, <2>2
<1>9. \A a \in Places : a < b => trace_cells'[a] = trace_cells[a]
  <2>. SUFFICES ASSUME NEW a \in Places, a < b PROVE trace_cells'[a] = trace_cells[a]
    OBVIOUS
  <2>1. a # b /\ a \notin BlockOf(b)
    BY <1>2, <1>4 DEF BlockOf, Places
  <2>. QED  BY <1>3, <2>1
<1>10. ASSUME NEW x \in Live
       PROVE  /\ x \in Nat /\ x < b /\ trace_entry_next(x) <= b
              /\ trace_cells'[x] = trace_cells[x]
              /\ trace_cells[x].id \in DOMAIN stored
              /\ trace_cells[x].id # id /\ trace_cells[x].id < id
  <2>1. x \in Places /\ x \in Nat /\ x < b /\ trace_entry_next(x) <= b
    BY <1>1, LiveFacts
  <2>2. trace_cells[x].id \in DOMAIN stored
    BY <1>1 DEF Numbered
  <2>. QED  BY <1>2, <1>9, <2>1, <2>2
<1>11. ASSUME NEW x \in Live, NEW k \in CellsOf(x) PROVE trace_cells'[x + k] = trace_cells[x + k]
  BY <1>1, <1>9, CellFacts
<1>12. Live' = Live \union {b}
  <2>1. ASSUME NEW x \in 0 .. trace_ptr' - 1 PROVE is_entry(x)' <=> x \in Live \union {b}
    <3>1. x \in Places /\ x \in Nat
      BY <1>2, <1>3, <1>4, <2>1 DEF Places
    <3>2. CASE x < b
      <4>1. is_entry(x)' <=> is_entry(x)
        BY <1>9, <3>1, <3>2 DEF is_entry
      <4>2. x \in 0 .. trace_ptr - 1 /\ x # b
        BY <1>2, <1>4, <3>1, <3>2
      <4>. QED  BY <4>1, <4>2 DEF Live
    <3>3. CASE x = b
      BY <1>3, <1>4, <3>3 DEF is_entry, Header
    <3>4. CASE x > b
      <4>1. x # b /\ x \in BlockOf(b) /\ x \notin Live
        BY <1>2, <1>3, <1>4, <2>1, <3>1, <3>4 DEF BlockOf, Live
      <4>2. trace_cells'[x] = Zero
        BY <1>3, <3>1, <4>1
      <4>. QED  BY <4>1, <4>2 DEF is_entry, Zero
    <3>. QED  BY <1>4, <3>1, <3>2, <3>3, <3>4
  <2>2. \A x \in Live \union {b} : x \in 0 .. trace_ptr' - 1
    <3>1. b \in 0 .. trace_ptr' - 1
      BY <1>2, <1>3, <1>4
    <3>2. \A x \in Live : x \in 0 .. trace_ptr' - 1
      <4>. TAKE x \in Live
      <4>1. x \in Nat /\ x < b
        BY <1>10
      <4>2. b \in Nat /\ BlockSize \in Nat /\ BlockSize > 0 /\ trace_ptr' = b + BlockSize
        BY <1>2, <1>3, <1>4
      <4>3. x \in 0 .. b + BlockSize - 1
        BY <4>1, <4>2
      <4>. QED  BY <4>2, <4>3
    <3>. QED  BY <3>1, <3>2
  <2>. QED  BY <2>1, <2>2 DEF Live
<1>13. /\ DOMAIN stored' = DOMAIN stored \union {id}
       /\ \A i \in DOMAIN stored : stored'[i] = stored[i]
       /\ stored'[id] = [cells |-> <<>>, parent |-> IdOf(parent)]
  BY <1>3, <1>4
<1>14. stored' \in [DOMAIN stored' -> Ghosts]
  <2>1. <<>> \in Seq(Givens)
    OBVIOUS
  <2>2. stored'[id] \in Ghosts
    BY <1>6, <1>13, <2>1 DEF Ghosts
  <2>3. \A i \in DOMAIN stored' : stored'[i] \in Ghosts
    BY <1>2, <1>13, <2>2
  <2>4. stored' = [i \in DOMAIN stored' |-> stored'[i]]
    BY <1>3
  <2>. QED  BY <2>3, <2>4
<1>15. trace_ptr' \in 0 .. TraceSize - 1
  BY <1>2, <1>3, <1>4
<1>16. trace_cells'[b] = Header(id, parent, quote)
  BY <1>3, <1>4
<1>. QED  BY <1>2, <1>4, <1>7, <1>8, <1>10, <1>11, <1>12, <1>13, <1>14, <1>15, <1>16 DEF StartSays

LEMMA StartShape ==
  ASSUME MemoryAssumption, Inv, NEW active, NEW parent, NEW quote, Starting(active, parent, quote)
  PROVE  Apart' /\ Joined' /\ Numbered' /\ Mapped' /\ Mapping'
<1>1. PICK b, id : b = trace_ptr /\ id = started + 1
  OBVIOUS
<1>2. StartSays(b, id, parent, quote)
  BY <1>1, StartFacts
<1>3. /\ TypeOK /\ Apart /\ Joined /\ Numbered /\ Mapped /\ ~Compacting /\ ~Compacting'
      /\ doing = "reduce" /\ doing' = "map" /\ at' = b /\ next' = b + BlockSize /\ index' = DivUp(b)
      /\ trace_ptr' = b + BlockSize /\ trace_block_map' = trace_block_map /\ merged' = merged
  BY <1>1 DEF Starting, trace_start_entry, UpdateBlockMap, Inv, Compacting
<1>4. /\ trace_cells'[b].kind = "entry" /\ trace_cells'[b].block = TRUE /\ trace_cells'[b].len = 0
      /\ trace_cells'[b].id = id /\ trace_cells'[b].n = TRUE
  BY <1>2 DEF StartSays, Header
<1>5. /\ b \in Nat /\ BlockSize \in Nat /\ BlockSize > 0 /\ Live' = Live \union {b} /\ b \notin Live
      /\ \A x \in Live : /\ x \in Nat /\ x < b /\ trace_entry_next(x) <= b
                         /\ trace_cells'[x] = trace_cells[x]
                         /\ trace_cells[x].id \in DOMAIN stored
                         /\ trace_cells[x].id # id /\ trace_cells[x].id < id
      /\ \A x \in Live : \A k \in CellsOf(x) : trace_cells'[x + k] = trace_cells[x + k]
  BY <1>2 DEF StartSays
<1>6. \A x \in Live : trace_entry_next(x)' = trace_entry_next(x) /\ trace_entry_next(x) \in Nat
  BY <1>3, <1>5, LiveFacts DEF trace_entry_next, trace_entry_size
<1>7. trace_entry_next(b)' = b + BlockSize
  BY <1>4 DEF trace_entry_next
<1>8. Apart'
  <2>1. \A x \in Live' : trace_entry_next(x)' <= trace_ptr'
    <3>1. \A x \in Live : trace_entry_next(x)' <= trace_ptr'
      BY <1>3, <1>5, <1>6
    <3>. QED  BY <1>3, <1>5, <1>7, <3>1
  <2>2. \A x, y \in Live' : x < y => trace_entry_next(x)' <= y
    <3>1. \A x \in Live : ~(b < x)
      BY <1>5
    <3>. QED  BY <1>3, <1>5, <1>6, <3>1 DEF Apart
  <2>3. \A x \in Live' : trace_cells'[x].block => trace_cells'[x].len < BlockSize
    BY <1>3, <1>4, <1>5 DEF Apart
  <2>4. ASSUME NEW x \in Live', NEW a \in Body(x)' PROVE trace_cells'[a].kind = "cell"
    <3>1. x # b
      BY <1>4, <1>5 DEF Body
    <3>2. x \in Live /\ a \in Body(x)
      BY <1>5, <3>1 DEF Body
    <3>3. a - x \in CellsOf(x) /\ a = x + (a - x)
      BY <1>3, <3>2, BodyFacts
    <3>4. trace_cells'[x + (a - x)] = trace_cells[x + (a - x)]
      BY <1>5, <3>2, <3>3
    <3>. QED  BY <1>3, <3>2, <3>3, <3>4 DEF Apart
  <2>. QED  BY <2>1, <2>2, <2>3, <2>4 DEF Apart
<1>9. Joined'
  <2>1. \A x \in Live : trace_entry_next(x)' \in Live'
    BY <1>1, <1>3, <1>5, <1>6 DEF Joined
  <2>. QED  BY <1>3, <1>5, <1>7, <2>1 DEF Joined
<1>10. Numbered'
  <2>1. \A x \in Live' : /\ trace_cells'[x].id \in DOMAIN stored'
                         /\ trace_cells'[x].n <=> trace_cells'[x].id \notin merged'
    BY <1>2, <1>3, <1>4, <1>5 DEF Numbered, StartSays
  <2>2. \A x, y \in Live' : x < y => trace_cells'[x].id < trace_cells'[y].id
    <3>1. \A x \in Live : ~(b < x)
      BY <1>5
    <3>. QED  BY <1>3, <1>4, <1>5, <3>1 DEF Numbered
  <2>3. \A i \in DOMAIN stored' \ merged' : \E x \in Live' : trace_cells'[x].id = i
    <3>. SUFFICES ASSUME NEW i \in DOMAIN stored' \ merged' PROVE \E x \in Live' : trace_cells'[x].id = i
      OBVIOUS
    <3>1. CASE i = id
      BY <1>4, <1>5, <3>1
    <3>2. CASE i # id
      <4>1. i \in DOMAIN stored \ merged
        BY <1>2, <1>3, <3>2 DEF StartSays
      <4>2. PICK x \in Live : trace_cells[x].id = i
        BY <1>3, <4>1 DEF Numbered
      <4>. QED  BY <1>5, <4>2
    <3>. QED  BY <3>1, <3>2
  <2>. QED  BY <2>1, <2>2, <2>3 DEF Numbered
<1>11. Mapped'
  <2>. SUFFICES ASSUME NEW i \in DOMAIN trace_block_map, i < index'
                PROVE  trace_block_map[i] \in Live' /\ trace_block_map[i] <= i * MapBlock
    BY <1>3 DEF Mapped
  <2>1. i * MapBlock < b
    <3>1. i \in Nat
      BY <1>3, MapFacts
    <3>. QED  BY <1>3, <1>5, <3>1, DivUpFacts
  <2>. QED  BY <1>1, <1>3, <1>5, <2>1 DEF Mapped
<1>12. Mapping'
  <2>1. b <= DivUp(b) * MapBlock
    BY <1>5, DivUpFacts
  <2>2. b \in Live' /\ next' = trace_entry_next(b)' /\ b < trace_ptr'
    BY <1>3, <1>5, <1>7
  <2>3. at' <= index' * MapBlock
    BY <1>3, <2>1
  <2>4. at' \in Live' /\ next' = trace_entry_next(at)' /\ at' < trace_ptr'
    <3>1. trace_entry_next(at)' = trace_entry_next(b)'
      BY <1>3 DEF trace_entry_next, trace_entry_size
    <3>. QED  BY <1>3, <2>2, <3>1
  <2>. QED  BY <2>3, <2>4 DEF Mapping
<1>. QED  BY <1>8, <1>9, <1>10, <1>11, <1>12

LEMMA StartContent ==
  ASSUME MemoryAssumption, Inv, NEW active, NEW parent, NEW quote, Starting(active, parent, quote)
  PROVE  Content'
<1>1. PICK b, id : b = trace_ptr /\ id = started + 1
  OBVIOUS
<1>2. StartSays(b, id, parent, quote)
  BY <1>1, StartFacts
<1>3. /\ TypeOK /\ Apart /\ Numbered /\ Content /\ Reduced /\ ~Compacting /\ ~Compacting'
      /\ doing \in Reducings
      /\ active_entries' = Append(active, b) /\ merged' = merged
  BY <1>1 DEF Starting, trace_start_entry, UpdateBlockMap, Inv, Compacting, Reducings
<1>4. /\ Live' = Live \union {b} /\ b \notin Live
      /\ \A x \in Live : /\ trace_cells'[x] = trace_cells[x]
                         /\ trace_cells[x].id \in DOMAIN stored /\ trace_cells[x].id # id
      /\ \A x \in Live : \A k \in CellsOf(x) : trace_cells'[x + k] = trace_cells[x + k]
      /\ DOMAIN stored' = DOMAIN stored \union {id} /\ id \notin DOMAIN stored
      /\ \A i \in DOMAIN stored : stored'[i] = stored[i]
      /\ trace_cells'[b] = Header(id, parent, quote)
      /\ stored'[id].cells = <<>> /\ stored'[id].parent = IdOf(parent)
  BY <1>2 DEF StartSays
<1>5. ActiveIds' \subseteq ActiveIds \union {id}
  <2>1. Active' \subseteq Active \union {b}
    <3>1. active \in Seq(Places)
      <4>1. active_entries \in Seq(Places)
        BY <1>3 DEF TypeOK
      <4>2. active = <<>> \/ active = active_entries
        BY DEF Starting
      <4>3. <<>> \in Seq(Places)
        OBVIOUS
      <4>. QED  BY <4>1, <4>2, <4>3
    <3>2. \A k \in DOMAIN active_entries' : active_entries'[k] = b \/ \E j \in DOMAIN active : active_entries'[k] = active[j]
      <4>. SUFFICES ASSUME NEW k \in DOMAIN active_entries', active_entries'[k] # b
                    PROVE  \E j \in DOMAIN active : active_entries'[k] = active[j]
        OBVIOUS
      <4>1. DOMAIN active_entries' = 1 .. Len(active) + 1 /\ DOMAIN active = 1 .. Len(active) /\ Len(active) \in Nat
        BY <1>3, <3>1
      <4>2. k # Len(active) + 1
        BY <1>3, <3>1
      <4>3. k \in DOMAIN active
        BY <4>1, <4>2
      <4>4. active_entries'[k] = active[k]
        BY <1>3, <3>1, <4>1, <4>3
      <4>. QED  BY <4>3, <4>4
    <3>3. \A j \in DOMAIN active : active[j] \in Active
      BY DEF Starting, Active
    <3>. QED  BY <3>2, <3>3 DEF Active
  <2>2. \A x \in Active : x \in Live
    BY <1>3, ActiveFacts
  <2>3. \A x \in Active' : trace_cells'[x].id \in ActiveIds \union {id}
    <3>. SUFFICES ASSUME NEW x \in Active' PROVE trace_cells'[x].id \in ActiveIds \union {id}
      OBVIOUS
    <3>1. CASE x = b
      BY <1>4, <3>1 DEF Header
    <3>2. CASE x # b
      BY <1>4, <2>1, <2>2, <3>2 DEF ActiveIds
    <3>. QED  BY <3>1, <3>2
  <2>4. ActiveIds' = {trace_cells'[x].id : x \in Active'}
    BY DEF ActiveIds
  <2>. QED  BY <2>3, <2>4
<1>6. ASSUME NEW x \in Live, NEW k \in CellsOf(x) PROVE CellSays(x, k)'
  <2>1. CellSays(x, k)
    BY <1>3 DEF Content
  <2>2. Was(x, k)' = Was(x, k) /\ CallOf(x, k)' = CallOf(x, k) /\ trace_cells'[x + k] = trace_cells[x + k]
    BY <1>4 DEF Was, CallOf
  <2>3. CASE Was(x, k).callee = 0
    BY <2>1, <2>2, <2>3 DEF CellSays
  <2>4. CASE Was(x, k).callee # 0
    <3>1. Was(x, k).callee \in DOMAIN stored /\ CallSays(x, k)
      BY <2>1, <2>4 DEF CellSays
    <3>2. PICK f \in Live : /\ trace_cells[f].n /\ CallOf(x, k) = f
                            /\ StandsFor(trace_cells[f].id, Was(x, k).callee)
      BY <1>3, <3>1, PlainLeads DEF CallSays
    <3>3. PICK c, i : c = Was(x, k).callee /\ i = trace_cells[f].id
      OBVIOUS
    <3>4. StandsFor(i, c)'
      <4>1. i \in DOMAIN stored /\ i # id
        BY <1>4, <3>3
      <4>. QED  BY <1>3, <1>4, <1>5, <3>1, <3>2, <3>3, <4>1 DEF StandsFor
    <3>5. Leads(x, f, f)'
      BY <1>3 DEF Leads, Referred, Compacting
    <3>6. CallSays(x, k)'
      BY <1>4, <2>2, <3>2, <3>3, <3>4, <3>5 DEF CallSays
    <3>. QED  BY <1>4, <2>1, <2>2, <2>4, <3>1, <3>6 DEF CellSays
  <2>. QED  BY <2>3, <2>4
<1>7. ASSUME NEW x \in Live PROVE ParentSays(x)'
  <2>1. ParentSays(x)
    BY <1>3 DEF Content
  <2>2. \A f : Leads(x, trace_cells[x].parent, f)' <=> f = trace_cells'[x].parent
    BY <1>3, <1>4 DEF Leads, Referred, Compacting
  <2>3. \A f : Leads(x, trace_cells[x].parent, f) <=> f = trace_cells[x].parent
    BY <1>3 DEF Leads, Referred, Compacting
  <2>4. trace_cells'[x] = trace_cells[x] /\ stored'[trace_cells[x].id] = stored[trace_cells[x].id]
    BY <1>4
  <2>. QED  BY <1>3, <1>4, <2>1, <2>2, <2>3, <2>4 DEF ParentSays
<1>8. trace_cells'[b].len = 0 /\ trace_cells'[b].id = id /\ trace_cells'[b].parent = parent
  BY <1>4 DEF Header
<1>9. ParentSays(b)'
  <2>1. CASE parent = NoEntry
    BY <1>4, <1>8, <2>1 DEF ParentSays, IdOf
  <2>2. CASE parent # NoEntry
    <3>1. parent \in Live
      BY <1>3, <2>2, ActiveFacts DEF Starting
    <3>2. trace_cells[parent].id # 0 /\ IdOf(parent) = trace_cells[parent].id
      <4>1. DOMAIN stored \subseteq 1 .. started
        BY <1>3 DEF TypeOK
      <4>. QED  BY <1>4, <2>2, <3>1, <4>1 DEF IdOf
    <3>3. Leads(b, parent, parent)'
      BY <1>3 DEF Leads, Referred, Compacting
    <3>4. trace_cells'[parent].id = stored'[id].parent /\ parent \in Live'
      BY <1>4, <3>1, <3>2
    <3>. QED  BY <1>4, <1>8, <3>2, <3>3, <3>4 DEF ParentSays
  <2>. QED  BY <2>1, <2>2
<1>10. \A x \in Live' : trace_cells'[x].len = Len(stored'[trace_cells'[x].id].cells)
  BY <1>3, <1>4, <1>8 DEF Content
<1>11. ASSUME NEW x \in Live', NEW k \in CellsOf(x)' PROVE CellSays(x, k)'
  <2>1. x # b
    BY <1>8 DEF CellsOf
  <2>2. x \in Live /\ k \in CellsOf(x)
    BY <1>4, <2>1 DEF CellsOf
  <2>. QED  BY <1>6, <2>2
<1>12. \A x \in Live' : ParentSays(x)'
  BY <1>4, <1>7, <1>9
<1>. QED  BY <1>10, <1>11, <1>12 DEF Content

LEMMA ParentLive ==
  ASSUME ~Compacting, Content, NEW e \in Live
  PROVE  trace_cells[e].parent = NoEntry \/ trace_cells[e].parent \in Live
<1>1. ParentSays(e)
  BY DEF Content
<1>2. \A f : Leads(e, trace_cells[e].parent, f) => f = trace_cells[e].parent
  BY PlainLeads
<1>. QED  BY <1>1, <1>2 DEF ParentSays

LEMMA StartMade ==
  ASSUME MemoryAssumption, Inv, NEW active, NEW parent, NEW quote, Starting(active, parent, quote)
  PROVE  Based' /\ Reduced' /\ TypeOK'
<1>1. PICK b, id : b = trace_ptr /\ id = started + 1
  OBVIOUS
<1>2. StartSays(b, id, parent, quote)
  BY <1>1, StartFacts
<1>3. /\ TypeOK /\ Apart /\ Numbered /\ Content /\ Based /\ Reduced /\ ~Compacting /\ ~Compacting'
      /\ doing = "reduce" /\ doing \in Reducings /\ doing' = "map"
      /\ active_entries' = Append(active, b) /\ merged' = merged /\ trace_block_map' = trace_block_map
      /\ started' = id /\ at' = b /\ next' = b + BlockSize /\ index' = DivUp(b)
  BY <1>1 DEF Starting, trace_start_entry, UpdateBlockMap, Inv, Compacting, Reducings
<1>4. /\ b \in Nat /\ b \in Places /\ Live' = Live \union {b} /\ b \notin Live
      /\ trace_cells'[b] = Header(id, parent, quote)
      /\ \A x \in Live : /\ x \in Nat /\ x < b
                         /\ trace_cells'[x] = trace_cells[x]
                         /\ trace_cells[x].id \in DOMAIN stored /\ trace_cells[x].id < id
      /\ \A x \in Live : \A k \in CellsOf(x) : trace_cells'[x + k] = trace_cells[x + k]
      /\ \A i \in DOMAIN stored : stored'[i] = stored[i]
      /\ \A i \in merged : i < id
  BY <1>2 DEF StartSays
<1>5. /\ trace_cells'[b].block = TRUE /\ trace_cells'[b].compact = NoEntry /\ trace_cells'[b].n = TRUE
      /\ trace_cells'[b].parent = parent /\ trace_cells'[b].quote = quote /\ trace_cells'[b].len = 0
      /\ trace_cells'[b].complete = FALSE /\ trace_cells'[b].id = id
  BY <1>4 DEF Header
<1>6. active \in Seq(Places) /\ Len(active) \in Nat /\ DOMAIN active = 1 .. Len(active)
  <2>1. active_entries \in Seq(Places) /\ <<>> \in Seq(Places)
    BY <1>3 DEF TypeOK
  <2>2. active = <<>> \/ active = active_entries
    BY DEF Starting
  <2>3. active \in Seq(Places)
    BY <2>1, <2>2
  <2>. QED  BY <2>3
<1>7. /\ active_entries' \in Seq(Places)
      /\ DOMAIN active_entries' = 1 .. Len(active) + 1
      /\ active_entries'[Len(active) + 1] = b
      /\ \A i \in 1 .. Len(active) : active_entries'[i] = active[i]
  BY <1>3, <1>4, <1>6
<1>8. active_entries' # <<>> /\ Base' = active_entries'[1]
  <2>1. 1 \in DOMAIN active_entries'
    BY <1>6, <1>7
  <2>. QED  BY <1>3, <2>1 DEF Base
<1>9. \A x \in Live : \A k \in CellsOf(x)' : k \in CellsOf(x) /\ CallOf(x, k)' = CallOf(x, k) /\ Was(x, k)' = Was(x, k)
  BY <1>4 DEF CellsOf, CallOf, Was
<1>10. TypeOK'
  <2>1. /\ trace_cells' \in [Places -> Records] /\ trace_ptr' \in 0 .. TraceSize - 1
        /\ stored' \in [DOMAIN stored' -> Ghosts]
    BY <1>2 DEF StartSays
  <2>2. index' \in Nat /\ next' \in Nat /\ at' \in Nat
    BY <1>2, <1>3, <1>4, DivUpFacts DEF StartSays
  <2>3. started' \in Nat /\ DOMAIN stored' \subseteq 1 .. started' /\ merged' \subseteq 1 .. started'
    <3>1. /\ DOMAIN stored' = DOMAIN stored \union {started + 1} /\ started \in Nat
          /\ DOMAIN stored \subseteq 1 .. started /\ merged \subseteq 1 .. started
      BY <1>1, <1>2, <1>3 DEF StartSays, TypeOK
    <3>2. 1 .. started \subseteq 1 .. started + 1 /\ started + 1 \in 1 .. started + 1
      BY <3>1
    <3>3. started' = started + 1 /\ merged' = merged
      BY <1>1, <1>3
    <3>. QED  BY <3>1, <3>2, <3>3
  <2>4. word' \in PlacesOrNone
    BY <1>1, <1>3, <1>4 DEF Starting, TypeOK, PlacesOrNone
  <2>5. trace_block_map' \in [0 .. DivUp(TraceSize) - 1 -> Int] /\ doing' \in Phases
    BY <1>3 DEF TypeOK, Phases
  <2>. QED  BY <1>7, <2>1, <2>2, <2>3, <2>4, <2>5 DEF TypeOK
<1>11. CASE word = NoEntry
  <2>1. active = <<>> /\ parent = NoEntry /\ quote = FALSE /\ word' = b
    BY <1>1, <1>11 DEF Starting
  <2>2. Len(active) = 0 /\ DOMAIN active_entries' = {1} /\ active_entries'[1] = b /\ Base' = b
    BY <1>7, <1>8, <2>1
  <2>3. Based'
    <3>1. \A x \in Live' : x >= b => x = b
      BY <1>4
    <3>2. ASSUME NEW x \in Live', x < b
          PROVE  /\ trace_cells'[x].parent < b /\ trace_cells'[x].n
                 /\ \A k \in CellsOf(x)' : CallOf(x, k)' < b
      <4>1. x \in Live
        BY <1>4, <3>2
      <4>2. trace_cells[x].parent < b
        BY <1>3, <1>4, <4>1, ParentLive DEF NoEntry
      <4>3. ASSUME NEW k \in CellsOf(x) PROVE CallOf(x, k) < b
        BY <1>3, <1>4, <4>1, CallLive DEF NoEntry
      <4>. QED  BY <1>3, <1>4, <1>9, <4>1, <4>2, <4>3 DEF Reduced
    <3>3. /\ \A x \in Live' : x >= Base' => trace_cells'[x].block /\ trace_cells'[x].compact = NoEntry
          /\ \A x \in Live' : ~(x > Base')
          /\ \A x \in Live' : x = Base' => trace_cells'[x].parent = NoEntry /\ ~trace_cells'[x].quote
      BY <1>4, <1>5, <2>1, <2>2, <3>1
    <3>. QED  BY <2>2, <3>2, <3>3 DEF Based
  <2>4. Reduced'
    <3>1. \A x \in Live' : trace_cells'[x].n
      BY <1>3, <1>4, <1>5 DEF Reduced
    <3>2. \A x \in Live' : x >= Base' => x = b
      BY <1>4, <2>2
    <3>3. CellsOf(b)' = {}
      BY <1>5 DEF CellsOf
    <3>4. AsMade' /\ OneCell'
      BY <3>2, <3>3 DEF AsMade, OneCell
    <3>5. \A x \in Live' : x >= Base' => \A i \in merged' : i < trace_cells'[x].id
      BY <1>3, <1>4, <1>5, <3>2
    <3>6. \A i \in DOMAIN active_entries' : active_entries'[i] \in Live' /\ ~trace_cells'[active_entries'[i]].complete
      BY <1>4, <1>5, <2>2
    <3>7. \A i, j \in DOMAIN active_entries' : ~(i < j) /\ ~(i > 1)
      BY <2>2
    <3>. QED  BY <1>8, <2>1, <2>2, <3>1, <3>4, <3>5, <3>6, <3>7 DEF Reduced
  <2>. QED  BY <1>10, <2>3, <2>4
<1>12. CASE word # NoEntry
  <2>1. active = active_entries /\ parent \in Active /\ word' = word
    BY <1>12 DEF Starting
  <2>2. active_entries # <<>> /\ word = active_entries[1]
    BY <1>3, <1>12 DEF Reduced
  <2>3. 1 \in 1 .. Len(active)
    BY <1>6, <2>1, <2>2
  <2>4. Base = active_entries[1] /\ Base' = Base
    BY <1>3, <1>7, <1>8, <2>1, <2>2, <2>3 DEF Base
  <2>5. /\ parent \in Live /\ parent >= Base /\ parent < b /\ Base \in Live /\ Base < b
        /\ Base \in Nat
    <3>1. parent \in Live /\ parent >= Base /\ Base \in Live
      BY <1>3, <2>1, <2>2, ActiveFacts
    <3>. QED  BY <1>4, <3>1
  <2>6. Based'
    <3>. SUFFICES ASSUME NEW x \in Live'
                  PROVE  /\ x >= Base => trace_cells'[x].block /\ trace_cells'[x].compact = NoEntry
                         /\ x > Base => /\ trace_cells'[x].parent \in Live'
                                        /\ Base <= trace_cells'[x].parent /\ trace_cells'[x].parent < x
                         /\ x = Base => trace_cells'[x].parent = NoEntry /\ ~trace_cells'[x].quote
                         /\ x < Base => /\ trace_cells'[x].parent < Base /\ trace_cells'[x].n
                                        /\ \A k \in CellsOf(x)' : CallOf(x, k)' < Base
      BY <2>4 DEF Based
    <3>1. CASE x = b
      BY <1>4, <1>5, <2>5, <3>1
    <3>2. CASE x # b
      <4>1. x \in Live /\ trace_cells'[x] = trace_cells[x]
        BY <1>4, <3>2
      <4>. QED  BY <1>3, <1>4, <1>9, <4>1 DEF Based
    <3>. QED  BY <3>1, <3>2
  <2>7. AsMade' /\ OneCell'
    <3>1. CellsOf(b)' = {}
      BY <1>5 DEF CellsOf
    <3>2. ASSUME NEW x \in Live, x >= Base, NEW k \in CellsOf(x) PROVE CallsAsMade(x, k)'
      <4>1. CallsAsMade(x, k)
        BY <1>3, <3>2 DEF Reduced, AsMade
      <4>2. CallOf(x, k) = NoEntry \/ CallOf(x, k) \in Live
        BY <1>3, CallLive
      <4>3. CallOf(x, k)' = CallOf(x, k) /\ Was(x, k)' = Was(x, k)
        BY <1>4 DEF CallOf, Was
      <4>4. CallOf(x, k) # NoEntry => trace_cells'[CallOf(x, k)] = trace_cells[CallOf(x, k)]
        BY <1>4, <4>2
      <4>. QED  BY <4>1, <4>3, <4>4 DEF CallsAsMade
    <3>3. AsMade'
      <4>. SUFFICES ASSUME NEW x \in Live', x >= Base', NEW k \in CellsOf(x)' PROVE CallsAsMade(x, k)'
        BY DEF AsMade
      <4>1. x # b
        BY <3>1
      <4>2. x \in Live /\ k \in CellsOf(x)
        BY <1>4, <1>9, <4>1
      <4>. QED  BY <2>4, <3>2, <4>2
    <3>4. OneCell'
      <4>. SUFFICES ASSUME NEW x \in Live', x >= Base', NEW k \in CellsOf(x)', NEW l \in CellsOf(x)',
                           CallOf(x, k)' = CallOf(x, l)', CallOf(x, k)' > x
                    PROVE  k = l
        BY DEF OneCell
      <4>1. x # b
        BY <3>1
      <4>2. x \in Live /\ k \in CellsOf(x) /\ l \in CellsOf(x)
        BY <1>4, <1>9, <4>1
      <4>. QED  BY <1>3, <1>9, <2>4, <4>2 DEF Reduced, OneCell
    <3>. QED  BY <3>3, <3>4
  <2>8. Reduced'
    <3>1. \A x \in Live' : trace_cells'[x].n
      BY <1>3, <1>4, <1>5 DEF Reduced
    <3>2. \A x \in Live' : x >= Base' => \A i \in merged' : i < trace_cells'[x].id
      BY <1>3, <1>4, <1>5, <2>4 DEF Reduced
    <3>3. \A i \in DOMAIN active_entries' :
            \/ i = Len(active) + 1 /\ active_entries'[i] = b
            \/ /\ i \in DOMAIN active_entries /\ i < Len(active) + 1 /\ active_entries'[i] = active_entries[i]
               /\ active_entries[i] \in Live
      <4>. TAKE i \in DOMAIN active_entries'
      <4>1. CASE i = Len(active) + 1
        BY <1>7, <4>1
      <4>2. CASE i # Len(active) + 1
        <5>1. i \in 1 .. Len(active) /\ i < Len(active) + 1
          BY <1>6, <1>7, <4>2
        <5>. QED  BY <1>3, <1>6, <1>7, <2>1, <5>1 DEF Reduced
      <4>. QED  BY <4>1, <4>2
    <3>4. \A i \in DOMAIN active_entries' : active_entries'[i] \in Live' /\ ~trace_cells'[active_entries'[i]].complete
      <4>. TAKE i \in DOMAIN active_entries'
      <4>1. CASE active_entries'[i] = b
        BY <1>4, <1>5, <4>1
      <4>2. CASE active_entries'[i] # b
        <5>1. i \in DOMAIN active_entries /\ active_entries'[i] = active_entries[i] /\ active_entries[i] \in Live
          BY <3>3, <4>2
        <5>. QED  BY <1>3, <1>4, <5>1 DEF Reduced
      <4>. QED  BY <4>1, <4>2
    <3>5. \A i, j \in DOMAIN active_entries' : i < j => active_entries'[i] < active_entries'[j]
      <4>. SUFFICES ASSUME NEW i \in DOMAIN active_entries', NEW j \in DOMAIN active_entries', i < j
                    PROVE  active_entries'[i] < active_entries'[j]
        OBVIOUS
      <4>1. i # Len(active) + 1
        BY <1>6, <1>7
      <4>2. i \in DOMAIN active_entries /\ active_entries'[i] = active_entries[i] /\ active_entries[i] < b
        BY <1>4, <3>3, <4>1
      <4>. QED  BY <1>3, <3>3, <4>2 DEF Reduced
    <3>6. \A i \in DOMAIN active_entries' : i > 1 =>
            \E j \in DOMAIN active_entries' : j < i /\ trace_cells'[active_entries'[i]].parent = active_entries'[j]
      <4>. SUFFICES ASSUME NEW i \in DOMAIN active_entries', i > 1
                    PROVE  \E j \in DOMAIN active_entries' :
                             j < i /\ trace_cells'[active_entries'[i]].parent = active_entries'[j]
        OBVIOUS
      <4>1. CASE i = Len(active) + 1
        <5>1. PICK j \in DOMAIN active_entries : parent = active_entries[j]
          BY <2>1 DEF Active
        <5>2. j \in DOMAIN active_entries' /\ j < i /\ active_entries'[j] = active_entries[j]
          BY <1>6, <1>7, <2>1, <4>1, <5>1
        <5>. QED  BY <1>5, <1>7, <4>1, <5>1, <5>2
      <4>2. CASE i # Len(active) + 1
        <5>1. i \in DOMAIN active_entries /\ active_entries'[i] = active_entries[i] /\ active_entries[i] \in Live
          BY <3>3, <4>2
        <5>2. PICK j \in DOMAIN active_entries : j < i /\ trace_cells[active_entries[i]].parent = active_entries[j]
          BY <1>3, <5>1 DEF Reduced
        <5>3. j \in DOMAIN active_entries' /\ active_entries'[j] = active_entries[j]
          BY <1>6, <1>7, <2>1, <5>2
        <5>. QED  BY <1>4, <5>1, <5>2, <5>3
      <4>. QED  BY <4>1, <4>2
    <3>7. word' = active_entries'[1]
      BY <1>8, <2>1, <2>2, <2>4
    <3>. QED  BY <1>8, <2>7, <3>1, <3>2, <3>4, <3>5, <3>6, <3>7 DEF Reduced
  <2>. QED  BY <1>10, <2>6, <2>8
<1>. QED  BY <1>11, <1>12

LEMMA StartInv ==
  ASSUME MemoryAssumption, Inv, NEW active, NEW parent, NEW quote, Starting(active, parent, quote)
  PROVE  Inv'
<1>1. doing' = "map" /\ ~Compacting'
  BY DEF Starting, trace_start_entry, UpdateBlockMap, Compacting
<1>2. Apart' /\ Joined' /\ Numbered' /\ Mapped' /\ Mapping' /\ Content' /\ Based' /\ Reduced' /\ TypeOK'
  BY StartShape, StartContent, StartMade
<1>. QED  BY <1>1, <1>2 DEF Inv

LEMMA CompileWordInv ==
  ASSUME MemoryAssumption, Inv, compile_word
  PROVE  Inv'
<1>1. Starting(<<>>, NoEntry, FALSE)
  BY DEF compile_word, Starting
<1>. QED  BY <1>1, StartInv

LEMMA StartSpecializedInv ==
  ASSUME MemoryAssumption, Inv, start_specialized
  PROVE  Inv'
<1>1. doing = "reduce" /\ word # NoEntry /\ TypeOK /\ Reduced
  BY DEF Inv, start_specialized, Reducing
<1>2. Current \in Active
  <2>1. active_entries # <<>> /\ active_entries \in Seq(Places)
    BY <1>1 DEF Reduced, TypeOK
  <2>2. Len(active_entries) \in DOMAIN active_entries
    BY <2>1
  <2>. QED  BY <2>2 DEF Current, Active
<1>3. Starting(active_entries, Current, FALSE)
  BY <1>1, <1>2 DEF start_specialized, Starting
<1>. QED  BY <1>3, StartInv

LEMMA CompileQuoteInv ==
  ASSUME MemoryAssumption, Inv, compile_quote
  PROVE  Inv'
<1>1. PICK parent \in Active : trace_start_entry(active_entries, parent, TRUE)
  BY DEF compile_quote
<1>2. Starting(active_entries, parent, TRUE)
  BY <1>1 DEF compile_quote, Starting, Reducing
<1>. QED  BY <1>2, StartInv

-----------------------------------------------------------------------------
(* Entries are given up: c, which is not complete, and those above it, none *)
(* of which belongs to one below it.                                       *)

Cuts(c, n) ==
  /\ doing = "reduce" /\ c \in Active
  /\ \A x \in Live : x > c => trace_cells[x].parent >= c
  /\ trace_ptr' = c
  /\ stored' = Until(stored, trace_cells[c].id)
  /\ n \in Nat /\ n < Len(active_entries)
  /\ active_entries' = SubSeq(active_entries, 1, n)
  /\ \A i \in 1 .. n : active_entries[i] < c
  /\ Base' = Base
  /\ word # NoEntry => n > 0
  /\ UNCHANGED <<trace_cells, trace_block_map, word, doing, at, next, index, started, merged>>

LEMMA CutsInv ==
  ASSUME MemoryAssumption, Inv, NEW c, NEW n, Cuts(c, n)
  PROVE  Inv'
<1>1. /\ TypeOK /\ Apart /\ Joined /\ Numbered /\ Content /\ Mapped /\ Based /\ Reduced
      /\ ~Compacting /\ ~Compacting' /\ doing \in Reducings /\ doing = "reduce" /\ doing' = "reduce"
  BY DEF Cuts, Inv, Compacting, Reducings
<1>2. /\ trace_ptr' = c /\ stored' = Until(stored, trace_cells[c].id) /\ Base' = Base
      /\ UNCHANGED <<trace_cells, trace_block_map, word, doing, at, next, index, started, merged>>
  BY DEF Cuts
<1>3. c \in Live /\ c >= Base /\ ~trace_cells[c].complete /\ Base \in Int
  BY <1>1, ActiveFacts, BaseType DEF Cuts
<1>4. c \in Nat /\ c < trace_ptr /\ trace_ptr \in Nat /\ c \in Places /\ trace_cells[c].id \in Nat
  BY <1>1, <1>3, LiveFacts DEF TypeOK, Headers
<1>5. Live' = {x \in Live : x < c}
  BY <1>2, <1>4 DEF Live, is_entry
<1>6. \A x \in Live' : x \in Live /\ x \in Nat /\ x < c /\ trace_cells[x].id \in DOMAIN stored /\ trace_cells[x].id < trace_cells[c].id
  BY <1>1, <1>3, <1>5, LiveFacts DEF Numbered
<1>7. /\ DOMAIN stored' = {i \in DOMAIN stored : i < trace_cells[c].id}
      /\ \A i \in DOMAIN stored' : i \in DOMAIN stored /\ stored'[i] = stored[i]
      /\ stored' = [i \in DOMAIN stored' |-> stored[i]]
  BY <1>2 DEF Until
<1>8. \A x \in Live' : trace_cells[x].id \in DOMAIN stored' /\ stored'[trace_cells[x].id] = stored[trace_cells[x].id]
  BY <1>6, <1>7
<1>9. \A x : trace_entry_next(x)' = trace_entry_next(x) /\ Body(x)' = Body(x) /\ CellsOf(x)' = CellsOf(x)
  BY <1>2 DEF trace_entry_next, trace_entry_size, Body, CellsOf
<1>10. \A x, k : CallOf(x, k)' = CallOf(x, k)
  BY <1>2 DEF CallOf
<1>11. \A x \in Live' : \A k : Was(x, k)' = Was(x, k)
  BY <1>2, <1>8 DEF Was
<1>12. n \in Nat /\ active_entries \in Seq(Places) /\ DOMAIN active_entries = 1 .. Len(active_entries)
       /\ n < Len(active_entries) /\ Len(active_entries) \in Nat
       /\ active_entries' = SubSeq(active_entries, 1, n)
  BY <1>1 DEF Cuts, TypeOK
<1>13. /\ active_entries' \in Seq(Places) /\ DOMAIN active_entries' = 1 .. n
       /\ \A i \in 1 .. n : active_entries'[i] = active_entries[i] /\ i \in DOMAIN active_entries
  BY <1>12
<1>14. \A i \in 1 .. n : active_entries[i] \in Live'
  BY <1>1, <1>5, <1>13 DEF Cuts, Reduced
<1>15. ActiveIds' \subseteq ActiveIds
  <2>1. Active' \subseteq Active
    BY <1>13 DEF Active
  <2>. QED  BY <1>2, <2>1 DEF ActiveIds
<1>16. ASSUME NEW x \in Live' PROVE trace_cells[x].parent = NoEntry \/ trace_cells[x].parent \in Live'
  <2>1. trace_cells[x].parent = NoEntry \/ trace_cells[x].parent \in Live
    BY <1>1, <1>6, ParentLive
  <2>2. trace_cells[x].parent \in Live => trace_cells[x].parent < c
    <3>1. x > Base \/ x = Base \/ x < Base
      BY <1>3, <1>6
    <3>2. CASE x > Base
      <4>1. trace_cells[x].parent < x
        BY <1>1, <1>6, <3>2 DEF Based
      <4>. QED  BY <1>1, <1>4, <1>6, <4>1, LiveFacts
    <3>3. CASE x = Base
      BY <1>1, <1>4, <1>6, <3>3 DEF Based, NoEntry
    <3>4. CASE x < Base
      <4>1. trace_cells[x].parent < Base
        BY <1>1, <1>6, <3>4 DEF Based
      <4>. QED  BY <1>1, <1>3, <1>4, <4>1, LiveFacts
    <3>. QED  BY <3>1, <3>2, <3>3, <3>4
  <2>. QED  BY <1>5, <2>1, <2>2
<1>17. ASSUME NEW x \in Live', NEW k \in CellsOf(x)
       PROVE  CallOf(x, k) = NoEntry \/ CallOf(x, k) \in Live'
  <2>. SUFFICES ASSUME CallOf(x, k) # NoEntry PROVE CallOf(x, k) \in Live'
    OBVIOUS
  <2>. DEFINE f == CallOf(x, k)
  <2>1. f \in Live /\ f \in Nat
    BY <1>1, <1>6, CallLive, LiveFacts
  <2>2. CASE x < Base
    <3>1. f < Base
      BY <1>1, <1>6, <2>2 DEF Based
    <3>. QED  BY <1>3, <1>4, <1>5, <2>1, <3>1
  <2>3. CASE x >= Base
    <3>1. \/ f <= x
          \/ f > x /\ trace_cells[f].complete /\ trace_cells[f].parent = x
      BY <1>1, <1>6, <2>3 DEF Reduced, AsMade, CallsAsMade
    <3>2. f # c
      BY <1>3, <1>4, <1>6, <2>1, <3>1
    <3>3. ~(f > c)
      <4>1. f > c => trace_cells[f].parent >= c
        BY <2>1 DEF Cuts
      <4>. QED  BY <1>4, <1>6, <2>1, <3>1, <4>1
    <3>. QED  BY <1>4, <1>5, <2>1, <3>2, <3>3
  <2>. QED  BY <1>3, <1>6, <2>2, <2>3
<1>18. Apart'
  <2>1. \A x \in Live' : trace_entry_next(x) <= c
    BY <1>1, <1>3, <1>6 DEF Apart
  <2>. QED  BY <1>1, <1>2, <1>6, <1>9, <2>1 DEF Apart
<1>19. Joined'
  <2>. SUFFICES ASSUME NEW x \in Live' PROVE trace_entry_next(x) \in Live' \union {c}
    BY <1>2, <1>9 DEF Joined
  <2>1. trace_entry_next(x) <= c /\ trace_entry_next(x) \in Nat
    BY <1>1, <1>3, <1>6, LiveFacts DEF Apart
  <2>2. trace_entry_next(x) \in Live \union {trace_ptr}
    BY <1>1, <1>6 DEF Joined
  <2>. QED  BY <1>4, <1>5, <2>1, <2>2
<1>20. Numbered'
  <2>1. \A x \in Live' : /\ trace_cells'[x].id \in DOMAIN stored'
                         /\ trace_cells'[x].n <=> trace_cells'[x].id \notin merged'
    BY <1>1, <1>2, <1>6, <1>8 DEF Numbered
  <2>2. \A x, y \in Live' : x < y => trace_cells'[x].id < trace_cells'[y].id
    BY <1>1, <1>2, <1>6 DEF Numbered
  <2>3. ASSUME NEW i \in DOMAIN stored' \ merged' PROVE \E x \in Live' : trace_cells'[x].id = i
    <3>1. i \in DOMAIN stored \ merged /\ i < trace_cells[c].id
      BY <1>2, <1>7
    <3>2. PICK x \in Live : trace_cells[x].id = i
      BY <1>1, <3>1 DEF Numbered
    <3>3. x \in Nat /\ trace_cells[x].id \in Nat
      BY <1>1, LiveFacts DEF Headers
    <3>4. x < c
      <4>1. x # c
        BY <1>4, <3>1, <3>2
      <4>2. ~(c < x)
        <5>1. c < x => trace_cells[c].id < trace_cells[x].id
          BY <1>1, <1>3 DEF Numbered
        <5>. QED  BY <1>4, <3>1, <3>2, <3>3, <5>1
      <4>3. c \in Nat /\ x \in Nat
        BY <1>4, <3>3
      <4>. QED  BY <4>1, <4>2, <4>3
    <3>. QED  BY <1>2, <1>5, <3>2, <3>4
  <2>. QED  BY <2>1, <2>2, <2>3 DEF Numbered
<1>21. Mapped'
  <2>. SUFFICES ASSUME NEW i \in DOMAIN trace_block_map, i * MapBlock < c
                PROVE  trace_block_map[i] \in Live' /\ trace_block_map[i] <= i * MapBlock
    BY <1>1, <1>2 DEF Mapped
  <2>1. i * MapBlock \in Nat
    BY <1>1, MapFacts
  <2>2. trace_block_map[i] \in Live /\ trace_block_map[i] <= i * MapBlock
    BY <1>1, <1>4, <2>1 DEF Mapped
  <2>. QED  BY <1>1, <1>4, <1>5, <2>1, <2>2, LiveFacts
<1>22. Content'
  <2>1. ASSUME NEW x \in Live', NEW k \in CellsOf(x) PROVE CellSays(x, k)'
    <3>1. CellSays(x, k)
      BY <1>1, <1>6, <2>1 DEF Content
    <3>2. CASE Was(x, k).callee = 0
      BY <1>2, <1>10, <1>11, <3>1, <3>2 DEF CellSays
    <3>3. CASE Was(x, k).callee # 0
      <4>1. Was(x, k).callee \in DOMAIN stored /\ CallSays(x, k)
        BY <3>1, <3>3 DEF CellSays
      <4>2. PICK f \in Live : /\ trace_cells[f].n /\ CallOf(x, k) = f
                              /\ StandsFor(trace_cells[f].id, Was(x, k).callee)
        BY <1>1, <4>1, PlainLeads DEF CallSays
      <4>3. PICK d, i : d = Was(x, k).callee /\ i = trace_cells[f].id
        OBVIOUS
      <4>4. f \in Live'
        BY <1>17, <2>1, <4>2 DEF Live, NoEntry
      <4>5. i \in DOMAIN stored'
        BY <1>8, <4>3, <4>4
      <4>6. d \in DOMAIN stored'
        <5>1. CASE d = i
          BY <4>5, <5>1
        <5>2. CASE d # i
          <6>1. d \in merged
            BY <4>2, <4>3, <5>2 DEF StandsFor
          <6>2. d < trace_cells[c].id
            BY <1>1, <1>3, <6>1 DEF Reduced
          <6>. QED  BY <1>7, <4>1, <4>3, <6>2
        <5>. QED  BY <5>1, <5>2
      <4>7. StandsFor(i, d)'
        BY <1>2, <1>7, <1>15, <4>2, <4>3, <4>5, <4>6 DEF StandsFor
      <4>8. Leads(x, f, f)'
        BY <1>1 DEF Leads, Referred, Compacting
      <4>9. CallSays(x, k)'
        BY <1>2, <1>10, <1>11, <4>2, <4>3, <4>4, <4>7, <4>8 DEF CallSays
      <4>. QED  BY <1>2, <1>10, <1>11, <3>1, <3>3, <4>3, <4>6, <4>9 DEF CellSays
    <3>. QED  BY <3>2, <3>3
  <2>2. ASSUME NEW x \in Live' PROVE ParentSays(x)'
    <3>1. ParentSays(x)
      BY <1>1, <1>6 DEF Content
    <3>2. \A f : Leads(x, trace_cells[x].parent, f)' <=> f = trace_cells'[x].parent
      BY <1>1, <1>2 DEF Leads, Referred, Compacting
    <3>3. \A f : Leads(x, trace_cells[x].parent, f) <=> f = trace_cells[x].parent
      BY <1>1 DEF Leads, Referred, Compacting
    <3>4. trace_cells[x].parent \in Live => trace_cells[x].parent \in Live'
      BY <1>16 DEF Live, NoEntry
    <3>. QED  BY <1>1, <1>2, <1>8, <3>1, <3>2, <3>3, <3>4 DEF ParentSays
  <2>3. \A x \in Live' : trace_cells[x].len = Len(stored'[trace_cells[x].id].cells)
    BY <1>1, <1>6, <1>8 DEF Content
  <2>. QED  BY <1>2, <1>9, <2>1, <2>2, <2>3 DEF Content
<1>23. Based'
  <2>1. \A x \in Live' : x > Base => trace_cells[x].parent \in Live'
    BY <1>1, <1>6, <1>16 DEF Based, Live, NoEntry
  <2>. QED  BY <1>1, <1>2, <1>6, <1>9, <1>10, <2>1 DEF Based
<1>24. AsMade' /\ OneCell'
  <2>1. ASSUME NEW x \in Live', x >= Base', NEW k \in CellsOf(x) PROVE CallsAsMade(x, k)'
    <3>1. CallsAsMade(x, k)
      BY <1>1, <1>2, <1>6, <2>1 DEF Reduced, AsMade
    <3>. QED  BY <1>2, <1>10, <1>11, <3>1 DEF CallsAsMade
  <2>2. OneCell'
    BY <1>1, <1>2, <1>6, <1>9, <1>10 DEF Reduced, OneCell
  <2>. QED  BY <1>9, <2>1, <2>2 DEF AsMade
<1>25. Reduced'
  <2>1. \A x \in Live' : trace_cells'[x].n
    BY <1>1, <1>2, <1>6 DEF Reduced
  <2>2. \A i \in 1 .. n : active_entries'[i] \in Live' /\ ~trace_cells'[active_entries'[i]].complete
    BY <1>1, <1>2, <1>13, <1>14 DEF Reduced
  <2>3. \A i, j \in 1 .. n : i < j => active_entries'[i] < active_entries'[j]
    BY <1>1, <1>13 DEF Reduced
  <2>4. ASSUME NEW i \in 1 .. n, i > 1
        PROVE  \E j \in 1 .. n : j < i /\ trace_cells'[active_entries'[i]].parent = active_entries'[j]
    <3>1. PICK j \in DOMAIN active_entries : j < i /\ trace_cells[active_entries[i]].parent = active_entries[j]
      BY <1>1, <1>13, <2>4 DEF Reduced
    <3>2. j \in 1 .. n
      BY <1>12, <3>1
    <3>. QED  BY <1>2, <1>13, <3>1, <3>2
  <2>5. word' # NoEntry => active_entries' # <<>> /\ word' = active_entries'[1]
    <3>. SUFFICES ASSUME word # NoEntry PROVE active_entries' # <<>> /\ word = active_entries'[1]
      BY <1>2
    <3>1. 1 \in 1 .. n
      BY <1>12 DEF Cuts
    <3>2. 1 \in DOMAIN active_entries' /\ DOMAIN <<>> = {}
      BY <1>13, <3>1
    <3>. QED  BY <1>1, <1>13, <3>1, <3>2 DEF Reduced
  <2>6. \A x \in Live' : x >= Base' => \A i \in merged' : i < trace_cells'[x].id
    BY <1>1, <1>2, <1>6 DEF Reduced
  <2>. QED  BY <1>13, <1>24, <2>1, <2>2, <2>3, <2>4, <2>5, <2>6 DEF Reduced
<1>26. TypeOK'
  <2>1. stored' \in [DOMAIN stored' -> Ghosts] /\ DOMAIN stored' \subseteq 1 .. started'
    BY <1>1, <1>2, <1>7 DEF TypeOK
  <2>2. trace_ptr' \in 0 .. TraceSize - 1
    BY <1>2, <1>4 DEF Places
  <2>. QED  BY <1>1, <1>2, <1>13, <2>1, <2>2 DEF TypeOK
<1>. QED  BY <1>1, <1>18, <1>19, <1>20, <1>21, <1>22, <1>23, <1>25, <1>26 DEF Inv

LEMMA ResetInv ==
  ASSUME MemoryAssumption, Inv, trace_reset
  PROVE  Inv'
<1>1. /\ doing = "reduce" /\ word # NoEntry /\ doing' = "reduce" /\ TypeOK /\ Apart /\ Reduced
      /\ doing \in Reducings
  BY DEF trace_reset, Reducing, Inv, Reducings
<1>. DEFINE n == Len(active_entries)
<1>2. PICK c : c = Current
  OBVIOUS
<1>3. active_entries \in Seq(Places) /\ n \in Nat /\ n > 1 /\ n \in DOMAIN active_entries /\ c = active_entries[n]
  BY <1>1, <1>2 DEF TypeOK, trace_reset, Current
<1>4. c \in Active /\ c \in Live /\ c \in Nat /\ IdOf(c) = trace_cells[c].id
  <2>1. c \in Active /\ c \in Live /\ c \in Nat
    BY <1>1, <1>3, LiveFacts DEF Active, Reduced
  <2>. QED  BY <2>1 DEF IdOf, NoEntry
<1>5. \A i \in 1 .. n - 1 : active_entries[i] < c
  BY <1>1, <1>3 DEF Reduced
<1>6. \A x \in Live : x > c => trace_cells[x].parent >= c
  <2>. SUFFICES ASSUME NEW x \in Live, x > c PROVE trace_cells[x].parent >= c
    OBVIOUS
  <2>1. x \in c + 1 .. trace_ptr - 1 /\ is_entry(x)
    BY <1>1, <1>4, LiveFacts DEF Live, TypeOK
  <2>. QED  BY <1>2, <2>1 DEF trace_reset
<1>7. active_entries' = SubSeq(active_entries, 1, n - 1)
  BY DEF trace_reset
<1>8. Base' = Base
  <2>1. 1 \in 1 .. n - 1 /\ active_entries # <<>>
    BY <1>3
  <2>2. DOMAIN active_entries' = 1 .. n - 1 /\ active_entries'[1] = active_entries[1]
    BY <1>3, <1>7, <2>1
  <2>3. active_entries' # <<>>
    BY <2>1, <2>2
  <2>. QED  BY <1>1, <2>1, <2>2, <2>3 DEF Base
<1>9. Cuts(c, n - 1)
  <2>1. n - 1 \in Nat /\ n - 1 < Len(active_entries) /\ n - 1 > 0
    BY <1>3
  <2>2. /\ trace_ptr' = c /\ stored' = Until(stored, trace_cells[c].id)
        /\ UNCHANGED <<trace_cells, trace_block_map, word, doing, at, next, index, started, merged>>
    BY <1>2, <1>4 DEF trace_reset
  <2>. QED  BY <1>1, <1>4, <1>5, <1>6, <1>7, <1>8, <2>1, <2>2 DEF Cuts
<1>. QED  BY <1>9, CutsInv

LEMMA ResetActiveInv ==
  ASSUME MemoryAssumption, Inv, trace_reset_active
  PROVE  Inv'
<1>1. /\ doing = "reduce" /\ word = NoEntry /\ doing' = "reduce" /\ active_entries # <<>>
      /\ TypeOK /\ Apart /\ Reduced /\ Based /\ doing \in Reducings
  BY DEF trace_reset_active, Inv, Reducings
<1>2. PICK c : c = active_entries[1]
  OBVIOUS
<1>3. Base = c /\ active_entries \in Seq(Places) /\ Len(active_entries) \in Nat /\ 0 < Len(active_entries)
  BY <1>1, <1>2 DEF Base, TypeOK
<1>4. c \in Active /\ c \in Live /\ c \in Nat /\ IdOf(c) = trace_cells[c].id
  <2>1. c \in Active /\ c \in Live /\ c \in Nat
    BY <1>1, <1>3, ActiveFacts, LiveFacts
  <2>. QED  BY <2>1 DEF IdOf, NoEntry
<1>5. \A x \in Live : x > c => trace_cells[x].parent >= c
  BY <1>1, <1>3, <1>4, LiveFacts DEF Based
<1>6. /\ trace_ptr' = c /\ active_entries' = <<>> /\ stored' = Until(stored, trace_cells[c].id)
      /\ UNCHANGED <<trace_cells, trace_block_map, word, doing, at, next, index, started, merged>>
  BY <1>2, <1>4 DEF trace_reset_active
<1>7. SubSeq(active_entries, 1, 0) = <<>>
  BY <1>3
<1>8. Base' = Base
  BY <1>1, <1>3, <1>6 DEF Base
<1>9. Cuts(c, 0)
  BY <1>1, <1>3, <1>4, <1>5, <1>6, <1>7, <1>8 DEF Cuts
<1>. QED  BY <1>9, CutsInv

-----------------------------------------------------------------------------
(* trace_compact()                                                         *)

LEMMA CompactFacts ==
  ASSUME MemoryAssumption, Inv, Compacting
  PROVE  /\ TypeOK /\ Apart /\ Joined /\ Numbered /\ Content /\ Mapped /\ Compaction
         /\ word \in Live /\ word \in Nat /\ word < trace_ptr
         /\ active_entries = <<>> /\ ActiveIds = {}
         /\ trace_ptr \in Nat /\ BlockSize \in Nat /\ BlockSize > 0 /\ TraceSize \in Nat
         /\ at \in Nat /\ next \in Nat
         /\ \A e \in Live : e \in Nat
<1>1. TypeOK /\ Apart /\ Joined /\ Numbered /\ Content /\ Mapped /\ Compaction
  BY DEF Inv
<1>2. word \in Live /\ active_entries = <<>>
  BY <1>1 DEF Compaction
<1>3. word \in Nat /\ word < trace_ptr /\ \A e \in Live : e \in Nat
  BY <1>1, <1>2, LiveFacts
<1>4. ActiveIds = {}
  BY <1>2 DEF ActiveIds, Active
<1>. QED  BY <1>1, <1>2, <1>3, <1>4 DEF TypeOK, MemoryAssumption

(* Entry e was entry d, with the same cells.                               *)
CallKept(e, d, k) ==
  /\ trace_cells'[e + k].item = trace_cells[d + k].item
  /\ CallOf(d, k) = NoEntry => CallOf(e, k)' = NoEntry
  /\ \A f \in Live : trace_cells[f].n /\ Leads(d, CallOf(d, k), f) =>
       \E g \in Live' : /\ trace_cells'[g].n /\ trace_cells'[g].id = trace_cells[f].id
                        /\ Leads(e, CallOf(e, k), g)'

ComesFrom(e, d) ==
  /\ d \in Live
  /\ trace_cells'[e].id = trace_cells[d].id
  /\ trace_cells'[e].len = trace_cells[d].len
  /\ \A k \in CellsOf(d) : CallKept(e, d, k)
  /\ ParentSays(e)'

LEMMA CompactContent ==
  ASSUME Content, merged' = merged, stored' = stored, ActiveIds' = {},
         \A e \in Live' : \E d : ComesFrom(e, d)
  PROVE  Content'
<1>1. \A id, c : StandsFor(id, c) => StandsFor(id, c)'
  BY DEF StandsFor
<1>. SUFFICES ASSUME NEW e \in Live'
              PROVE  /\ trace_cells'[e].len = Len(stored'[trace_cells'[e].id].cells)
                     /\ \A k \in CellsOf(e)' : CellSays(e, k)'
                     /\ ParentSays(e)'
  BY DEF Content
<1>2. PICK d : ComesFrom(e, d)
  OBVIOUS
<1>3. /\ d \in Live /\ trace_cells'[e].id = trace_cells[d].id /\ trace_cells'[e].len = trace_cells[d].len
      /\ ParentSays(e)'
  BY <1>2 DEF ComesFrom
<1>4. ASSUME NEW k \in CellsOf(e)' PROVE CellSays(e, k)'
  <2>1. k \in CellsOf(d)
    BY <1>3 DEF CellsOf
  <2>2. CellSays(d, k) /\ CallKept(e, d, k)
    BY <1>2, <1>3, <2>1 DEF Content, ComesFrom
  <2>3. Was(e, k)' = Was(d, k)
    BY <1>3 DEF Was
  <2>4. CASE Was(d, k).callee = 0
    BY <2>2, <2>3, <2>4 DEF CellSays, CallKept
  <2>5. CASE Was(d, k).callee # 0
    <3>1. Was(d, k).callee \in DOMAIN stored /\ CallSays(d, k)
      BY <2>2, <2>5 DEF CellSays
    <3>2. PICK f \in Live : /\ trace_cells[f].n /\ Leads(d, CallOf(d, k), f)
                            /\ StandsFor(trace_cells[f].id, Was(d, k).callee)
      BY <3>1 DEF CallSays
    <3>3. PICK g \in Live' : /\ trace_cells'[g].n /\ trace_cells'[g].id = trace_cells[f].id
                             /\ Leads(e, CallOf(e, k), g)'
      BY <2>2, <3>2 DEF CallKept
    <3>4. PICK i, c : i = trace_cells[f].id /\ c = Was(d, k).callee
      OBVIOUS
    <3>5. StandsFor(i, c)'
      BY <1>1, <3>2, <3>4
    <3>6. CallSays(e, k)'
      BY <2>3, <3>3, <3>4, <3>5 DEF CallSays
    <3>. QED  BY <2>2, <2>3, <2>5, <3>1, <3>6 DEF CellSays, CallKept
  <2>. QED  BY <2>4, <2>5
<1>. QED  BY <1>3, <1>4 DEF Content

(* Steps from one loop to the next.                                        *)
LEMMA PlaceEndInv ==
  ASSUME MemoryAssumption, Inv, PlaceRound, at >= trace_ptr
  PROVE  Inv'
<1>1. doing = "place" /\ doing' = "refer" /\ at' = word /\ Compacting /\ Compacting'
  BY DEF PlaceRound, Compacting
<1>2. UNCHANGED <<trace_cells, next, trace_ptr, trace_block_map, active_entries, word, index,
                  started, stored, merged>>
  BY DEF PlaceRound
<1>3. /\ TypeOK /\ Apart /\ Joined /\ Numbered /\ Content /\ Mapped /\ Compaction
      /\ word \in Live /\ word \in Nat /\ word < trace_ptr /\ active_entries = <<>> /\ ActiveIds = {}
      /\ trace_ptr \in Nat /\ \A e \in Live : e \in Nat
  BY <1>1, CompactFacts
<1>4. Live' = Live /\ ActiveIds' = {}
  BY <1>2, <1>3 DEF Live, is_entry, ActiveIds, Active
<1>5. PICK S \in SUBSET Places : Blocks(S)
  BY <1>3 DEF Compaction
<1>6. at = trace_ptr /\ at > word
  <2>1. at \in S \union {trace_ptr} /\ S \subseteq word .. trace_ptr - 1
    BY <1>5 DEF Blocks
  <2>. QED  BY <1>3, <2>1
<1>7. /\ \A e \in Live : e < trace_ptr
      /\ \A e \in Live : trace_cells[e].n
  <2>1. \A e \in Live : e < trace_ptr
    BY <1>3, LiveFacts
  <2>. QED  BY <1>1, <1>3, <1>6, <2>1 DEF Compaction, BelowWord
<1>8. /\ \A f : Final(f)' = Final(f)
      /\ \A e : Referred(e)' <=> e < word
      /\ \A e : ~Referred(e)
  BY <1>1, <1>2 DEF Final, Referred, Compacting
<1>9. Final(word) = word /\ PlacesFor(trace_ptr) /\ next <= trace_ptr
  BY <1>1, <1>3, <1>6 DEF Compaction
<1>10. \A f \in Live : f <= word => Final(f) = f
  <2>. TAKE f \in Live
  <2>. HAVE f <= word
  <2>1. f \in Nat /\ word \in Nat
    BY <1>3
  <2>2. CASE f = word
    BY <1>9, <2>2
  <2>3. CASE f # word
    <3>1. ~(f >= word)
      BY <2>1, <2>3
    <3>. QED  BY <3>1 DEF Final
  <2>. QED  BY <2>2, <2>3
<1>11. ASSUME NEW e \in Live, NEW p, NEW f \in Live, Leads(e, p, f), e < word => p < word
       PROVE  Leads(e, p, f)'
  <2>1. p = f
    BY <1>8, <1>11 DEF Leads
  <2>2. e < word => Final(f) = f
    <3>1. e < word => f <= word
      BY <1>3, <1>11, <2>1
    <3>. QED  BY <1>10, <3>1
  <2>. QED  BY <1>8, <2>1, <2>2 DEF Leads
<1>12. ASSUME NEW e \in Live PROVE ComesFrom(e, e)
  <2>1. e < word => trace_cells[e].parent < word /\ \A k \in CellsOf(e) : CallOf(e, k) < word
    BY <1>3 DEF Compaction, BelowWord
  <2>2. ASSUME NEW k \in CellsOf(e) PROVE CallKept(e, e, k)
    <3>1. CallOf(e, k)' = CallOf(e, k)
      BY <1>2 DEF CallOf
    <3>2. ASSUME NEW f \in Live, trace_cells[f].n, Leads(e, CallOf(e, k), f)
          PROVE  Leads(e, CallOf(e, k), f)'
      <4>1. PICK p : p = CallOf(e, k)
        OBVIOUS
      <4>2. Leads(e, p, f)'
        BY <1>11, <2>1, <3>2, <4>1
      <4>. QED  BY <3>1, <4>1, <4>2 DEF Leads
    <3>. QED  BY <1>2, <1>4, <3>1, <3>2 DEF CallKept
  <2>3. ParentSays(e)'
    <3>1. PICK p : p = trace_cells[e].parent
      OBVIOUS
    <3>2. ParentSays(e)
      BY <1>3 DEF Content
    <3>3. \A f \in Live : Leads(e, p, f) => Leads(e, p, f)'
      BY <1>11, <2>1, <3>1
    <3>4. p \in PlacesOrNone
      BY <1>3, <3>1, LiveFacts DEF Headers
    <3>5. p \in Places /\ p >= word => p \in Nat
      BY DEF Places
    <3>6. ~Referred(e) /\ p \in Places /\ p >= word => ~Referred(e)'
      <4>1. ASSUME p \in Nat, p >= word, e < word PROVE FALSE
        BY <1>3, <2>1, <3>1, <4>1
      <4>. QED  BY <1>8, <3>5, <4>1
    <3>7. /\ trace_cells'[e] = trace_cells[e] /\ stored' = stored /\ merged' = merged
          /\ is_entry(p)' <=> is_entry(p)
      BY <1>2 DEF is_entry
    <3>8. \A f : Leads(e, trace_cells[e].parent, f)' <=> Leads(e, p, f)'
      BY <1>2, <3>1 DEF Leads
    <3>. QED  BY <1>1, <1>2, <1>4, <3>1, <3>2, <3>3, <3>6, <3>7, <3>8 DEF ParentSays
  <2>. QED  BY <1>2, <2>2, <2>3 DEF ComesFrom
<1>13. Content'
  BY <1>2, <1>3, <1>4, <1>12, CompactContent
<1>14. Apart' /\ Numbered' /\ Joined' /\ Mapped'
  <2>1. Apart' /\ Numbered'
    BY <1>2, <1>3, <1>4 DEF Apart, Numbered, trace_entry_next, trace_entry_size, Body
  <2>2. Joined'
    BY <1>1, <1>2, <1>3, <1>4 DEF Joined, trace_entry_next, trace_entry_size
  <2>3. Mapped'
    BY <1>1, <1>2, <1>3, <1>4 DEF Mapped
  <2>. QED  BY <2>1, <2>2, <2>3
<1>15. TypeOK'
  BY <1>1, <1>2, <1>3 DEF TypeOK, Phases
<1>16. Compaction'
  <2>1. PlacesFor(trace_ptr)'
    BY <1>2, <1>4, <1>8, <1>9 DEF PlacesFor, trace_entry_size
  <2>2. Blocks(S)'
    BY <1>1, <1>2, <1>4, <1>5 DEF Blocks
  <2>3. \A e \in Live : e >= word => trace_cells[e].block
    BY <1>1, <1>3 DEF Compaction
  <2>5. BelowWord'
    BY <1>2, <1>3, <1>4 DEF Compaction, BelowWord, CellsOf, CallOf
  <2>6. Final(word)' = word' /\ next' <= trace_ptr'
    BY <1>2, <1>8, <1>9 DEF Final
  <2>. QED  BY <1>1, <1>2, <1>3, <1>4, <1>7, <2>1, <2>2, <2>3, <2>5, <2>6 DEF Compaction
<1>. QED  BY <1>1, <1>13, <1>14, <1>15, <1>16 DEF Inv

(* The block that the loop has come to.                                    *)
LEMMA BlockFacts ==
  ASSUME MemoryAssumption, Inv, Compacting, at < trace_ptr, NEW S \in SUBSET Places, Blocks(S)
  PROVE  /\ at \in S /\ at >= word /\ at + BlockSize \in S \union {trace_ptr}
         /\ at + BlockSize <= trace_ptr
         /\ \A e \in Live : e >= word /\ trace_cells[e].block /\ e > at => at + BlockSize <= e
<1>1. /\ word \in Nat /\ trace_ptr \in Nat /\ at \in Nat /\ BlockSize \in Nat
      /\ \A e \in Live : e \in Nat
  BY CompactFacts
<1>2. at \in S
  BY <1>1 DEF Blocks
<1>3. S \subseteq word .. trace_ptr - 1
  BY DEF Blocks
<1>4. at >= word
  BY <1>1, <1>2, <1>3
<1>5. at + BlockSize \in S \union {trace_ptr}
  BY <1>2 DEF Blocks
<1>6. at + BlockSize <= trace_ptr
  BY <1>1, <1>3, <1>5
<1>7. ASSUME NEW e \in Live, e >= word, trace_cells[e].block, e > at PROVE at + BlockSize <= e
  BY <1>2, <1>7 DEF Blocks
<1>. QED  BY <1>2, <1>4, <1>5, <1>6, <1>7

CompactLooks ==
  /\ Compacting /\ Compacting'
  /\ UNCHANGED <<trace_cells, next, trace_ptr, trace_block_map, active_entries, word, index,
                 started, stored, merged>>
  /\ \A e \in Live : Referred(e)' <=> Referred(e)

LEMMA CompactLooksKeeps ==
  ASSUME MemoryAssumption, Inv, CompactLooks
  PROVE  /\ Live' = Live
         /\ Apart' /\ Joined' /\ Numbered' /\ Content' /\ Mapped' /\ BelowWord'
         /\ \A f : Final(f)' = Final(f)
         /\ \A lim : PlacesFor(lim) => PlacesFor(lim)'
<1>1. Compacting /\ Compacting' /\ \A e \in Live : Referred(e)' <=> Referred(e)
  BY DEF CompactLooks
<1>2. UNCHANGED <<trace_cells, next, trace_ptr, trace_block_map, active_entries, word, index,
                  started, stored, merged>>
  BY DEF CompactLooks
<1>3. /\ TypeOK /\ Apart /\ Joined /\ Numbered /\ Content /\ Mapped /\ Compaction
      /\ active_entries = <<>> /\ ActiveIds = {}
  BY <1>1, CompactFacts
<1>4. Live' = Live /\ ActiveIds' = {}
  BY <1>2, <1>3 DEF Live, is_entry, ActiveIds, Active
<1>5. \A f : Final(f)' = Final(f)
  BY <1>1, <1>2 DEF Final
<1>6. ASSUME NEW e \in Live, NEW p, NEW f \in Live, Leads(e, p, f) PROVE Leads(e, p, f)'
  BY <1>1, <1>5, <1>6 DEF Leads
<1>7. ASSUME NEW e \in Live PROVE ComesFrom(e, e)
  <2>1. ASSUME NEW k \in CellsOf(e) PROVE CallKept(e, e, k)
    <3>1. CallOf(e, k)' = CallOf(e, k)
      BY <1>2 DEF CallOf
    <3>2. ASSUME NEW f \in Live, trace_cells[f].n, Leads(e, CallOf(e, k), f)
          PROVE  Leads(e, CallOf(e, k), f)'
      <4>1. PICK p : p = CallOf(e, k)
        OBVIOUS
      <4>2. Leads(e, p, f)'
        BY <1>6, <3>2, <4>1
      <4>. QED  BY <3>1, <4>1, <4>2 DEF Leads
    <3>. QED  BY <1>2, <1>4, <3>1, <3>2 DEF CallKept
  <2>2. ParentSays(e)'
    <3>1. PICK p : p = trace_cells[e].parent
      OBVIOUS
    <3>2. ParentSays(e)
      BY <1>3 DEF Content
    <3>3. \A f \in Live : Leads(e, p, f) => Leads(e, p, f)'
      BY <1>6
    <3>4. /\ trace_cells'[e] = trace_cells[e] /\ stored' = stored /\ merged' = merged
          /\ is_entry(p)' <=> is_entry(p)
      BY <1>2 DEF is_entry
    <3>5. \A f : Leads(e, trace_cells[e].parent, f)' <=> Leads(e, p, f)'
      BY <1>2, <3>1 DEF Leads
    <3>. QED  BY <1>1, <1>2, <1>4, <3>1, <3>2, <3>3, <3>4, <3>5 DEF ParentSays
  <2>. QED  BY <1>2, <2>1, <2>2 DEF ComesFrom
<1>8. Content'
  BY <1>2, <1>3, <1>4, <1>7, CompactContent
<1>9. Apart' /\ Numbered'
  BY <1>2, <1>3, <1>4 DEF Apart, Numbered, trace_entry_next, trace_entry_size, Body
<1>10. Joined'
  BY <1>1, <1>2, <1>3, <1>4 DEF Joined, trace_entry_next, trace_entry_size
<1>11. Mapped'
  BY <1>1, <1>2, <1>3, <1>4 DEF Mapped, Compacting
<1>12. BelowWord'
  BY <1>2, <1>3, <1>4 DEF Compaction, BelowWord, CellsOf, CallOf
<1>13. \A lim : PlacesFor(lim) => PlacesFor(lim)'
  BY <1>2, <1>4, <1>5 DEF PlacesFor, trace_entry_size
<1>. QED  BY <1>4, <1>5, <1>8, <1>9, <1>10, <1>11, <1>12, <1>13

LEMMA ReferEndInv ==
  ASSUME MemoryAssumption, Inv, ReferRound, at >= trace_ptr
  PROVE  Inv'
<1>1. /\ doing = "refer" /\ doing' = "move" /\ at' = word /\ Compacting /\ Compacting'
      /\ UNCHANGED <<trace_cells, next, trace_ptr, trace_block_map, active_entries, word, index,
                     started, stored, merged>>
  BY DEF ReferRound, Compacting
<1>2. /\ TypeOK /\ Apart /\ Compaction /\ word \in Live /\ word \in Nat /\ trace_ptr \in Nat /\ at \in Nat
      /\ active_entries = <<>> /\ \A e \in Live : e \in Nat /\ e < trace_ptr
  BY <1>1, CompactFacts, LiveFacts
<1>3. \A e \in Live : Referred(e) /\ Referred(e)'
  BY <1>1, <1>2 DEF Referred
<1>4. CompactLooks
  BY <1>1, <1>3 DEF CompactLooks
<1>5. /\ Live' = Live
      /\ Apart' /\ Joined' /\ Numbered' /\ Content' /\ Mapped' /\ BelowWord'
      /\ \A f : Final(f)' = Final(f)
      /\ PlacesFor(trace_ptr) => PlacesFor(trace_ptr)'
  BY <1>1, <1>4, CompactLooksKeeps DEF PlacesFor
<1>6. PICK S \in SUBSET Places : Blocks(S)
  BY <1>2 DEF Compaction
<1>7. Blocks(S)'
  BY <1>1, <1>5, <1>6 DEF Blocks
<1>8. /\ \A e \in Live : trace_cells[e].n
      /\ PlacesFor(trace_ptr) /\ Final(word) = word /\ next <= trace_ptr
      /\ \A e \in Live : e >= word => trace_cells[e].block
      /\ trace_cells[word].n
  BY <1>1, <1>2 DEF Compaction
<1>9. /\ \A e \in Live' : trace_cells'[e].n
      /\ PlacesFor(trace_ptr)' /\ Final(word)' = word' /\ next' <= trace_ptr'
      /\ \A e \in Live' : e >= word' =>
           IF trace_cells'[e].block THEN e >= at' ELSE e + trace_entry_size(e)' <= at'
      /\ trace_cells'[word'].n
  <2>1. Final(word)' = word'
    BY <1>1, <1>5, <1>8 DEF Final
  <2>2. \A e \in Live' : e >= word' => trace_cells'[e].block /\ e >= at'
    BY <1>1, <1>5, <1>8
  <2>. QED  BY <1>1, <1>5, <1>8, <2>1, <2>2
<1>10. Compaction'
  BY <1>1, <1>2, <1>5, <1>7, <1>9 DEF Compaction
<1>11. TypeOK'
  BY <1>1, <1>2 DEF TypeOK, Phases
<1>. QED  BY <1>1, <1>5, <1>10, <1>11 DEF Inv

(* There is no entry in a block.                                           *)
LEMMA SkipInv ==
  ASSUME MemoryAssumption, Inv, ReferRound \/ MoveRound, at < trace_ptr, ~is_persistent(at)
  PROVE  Inv'
<1>1. /\ doing \in {"refer", "move"} /\ doing' = doing /\ at' = at + BlockSize /\ Compacting /\ Compacting'
      /\ UNCHANGED <<trace_cells, next, trace_ptr, trace_block_map, active_entries, word, index,
                     started, stored, merged>>
  <2>1. ~(at >= trace_ptr)
    <3>1. at \in Nat /\ trace_ptr \in Nat
      BY DEF Inv, TypeOK
    <3>. QED  BY <3>1
  <2>2. CASE ReferRound
    BY <2>1, <2>2 DEF ReferRound, Compacting
  <2>3. CASE MoveRound
    BY <2>1, <2>3 DEF MoveRound, Compacting
  <2>. QED  BY <2>2, <2>3
<1>2. /\ TypeOK /\ Apart /\ Compaction /\ word \in Live /\ word \in Nat /\ trace_ptr \in Nat /\ at \in Nat
      /\ active_entries = <<>> /\ BlockSize \in Nat /\ BlockSize > 0
      /\ \A e \in Live : e \in Nat /\ e < trace_ptr
  BY <1>1, CompactFacts, LiveFacts
<1>3. PICK S \in SUBSET Places : Blocks(S)
  BY <1>2 DEF Compaction
<1>4. /\ at >= word /\ at + BlockSize \in S \union {trace_ptr}
      /\ \A e \in Live : e >= word /\ trace_cells[e].block /\ e > at => at + BlockSize <= e
  BY <1>1, <1>3, BlockFacts
<1>5. at \notin Live
  <2>1. \A e \in Live : trace_cells[e].n /\ is_entry(e)
    BY <1>1, <1>2 DEF Compaction, Live
  <2>. QED  BY <2>1 DEF is_persistent
<1>6. \A e \in Live : e >= word /\ trace_cells[e].block => e < at \/ at + BlockSize <= e
  <2>. SUFFICES ASSUME NEW e \in Live, e >= word, trace_cells[e].block, ~(e < at) PROVE at + BlockSize <= e
    OBVIOUS
  <2>1. e # at /\ e \in Nat
    BY <1>2, <1>5
  <2>2. e > at
    BY <1>2, <2>1
  <2>. QED  BY <1>4, <2>2
<1>7. \A e \in Live : Referred(e)' <=> Referred(e)
  <2>1. CASE doing = "move"
    BY <1>1, <2>1 DEF Referred
  <2>2. CASE doing = "refer"
    <3>1. \A e \in Live : e >= word => trace_cells[e].block
      BY <1>2, <2>2 DEF Compaction
    <3>2. ASSUME NEW e \in Live PROVE e < at + BlockSize <=> e < at
      <4>1. e \in Nat
        BY <1>2
      <4>2. CASE e < word
        BY <1>2, <1>4, <4>1, <4>2
      <4>3. CASE e >= word
        BY <1>2, <1>6, <3>1, <4>1, <4>3
      <4>. QED  BY <1>2, <4>1, <4>2, <4>3
    <3>. QED  BY <1>1, <2>2, <3>2 DEF Referred
  <2>. QED  BY <1>1, <2>1, <2>2
<1>8. CompactLooks
  BY <1>1, <1>7 DEF CompactLooks
<1>9. /\ Live' = Live
      /\ Apart' /\ Joined' /\ Numbered' /\ Content' /\ Mapped' /\ BelowWord'
      /\ \A f : Final(f)' = Final(f)
      /\ PlacesFor(trace_ptr) => PlacesFor(trace_ptr)'
  BY <1>1, <1>8, CompactLooksKeeps DEF PlacesFor
<1>10. Blocks(S)'
  BY <1>1, <1>3, <1>4, <1>9 DEF Blocks
<1>11. /\ \A e \in Live : trace_cells[e].n
       /\ PlacesFor(trace_ptr) /\ Final(word) = word /\ next <= trace_ptr
       /\ trace_cells[word].n
  BY <1>1, <1>2 DEF Compaction
<1>12. /\ \A e \in Live' : trace_cells'[e].n
       /\ PlacesFor(trace_ptr)' /\ Final(word)' = word' /\ next' <= trace_ptr'
       /\ trace_cells'[word'].n
  <2>1. Final(word)' = word'
    BY <1>1, <1>9, <1>11 DEF Final
  <2>. QED  BY <1>1, <1>9, <1>11, <2>1
<1>13. doing' = "refer" => \A e \in Live' : e >= word' => trace_cells'[e].block
  BY <1>1, <1>2, <1>9 DEF Compaction
<1>14. doing' = "move" => \A e \in Live' : e >= word' =>
         IF trace_cells'[e].block THEN e >= at' ELSE e + trace_entry_size(e)' <= at'
  <2>. SUFFICES ASSUME doing = "move", NEW e \in Live, e >= word
                PROVE  IF trace_cells[e].block THEN e >= at + BlockSize
                       ELSE e + trace_entry_size(e) <= at + BlockSize
    BY <1>1, <1>9 DEF trace_entry_size
  <2>1. IF trace_cells[e].block THEN e >= at ELSE e + trace_entry_size(e) <= at
    BY <1>2 DEF Compaction
  <2>2. e \in Nat /\ trace_entry_size(e) \in Nat
    BY <1>2, LiveFacts DEF trace_entry_size
  <2>. QED  BY <1>2, <1>6, <2>1, <2>2
<1>15. Compaction'
  <2>1. doing' # "place"
    BY <1>1
  <2>. QED  BY <1>1, <1>2, <1>9, <1>10, <1>12, <1>13, <1>14, <2>1 DEF Compaction
<1>16. TypeOK'
  BY SMTT(30), <1>1, <1>2 DEF TypeOK, Phases
<1>. QED  BY <1>1, <1>9, <1>15, <1>16 DEF Inv

(* An entry gets its new place.                                            *)
LEMMA PlaceKeptInv ==
  ASSUME MemoryAssumption, Inv, PlaceRound, at < trace_ptr, trace_cells[at].n
  PROVE  Inv'
<1>1. doing = "place" /\ Compacting
  BY DEF PlaceRound, Compacting
<1>2. /\ TypeOK /\ Apart /\ Joined /\ Numbered /\ Content /\ Mapped /\ Compaction
      /\ word \in Live /\ word \in Nat /\ trace_ptr \in Nat /\ at \in Nat /\ next \in Nat
      /\ active_entries = <<>> /\ ActiveIds = {} /\ BlockSize \in Nat /\ BlockSize > 0
      /\ \A e \in Live : e \in Nat
  BY <1>1, CompactFacts
<1>3. /\ trace_cells' = [trace_cells EXCEPT ![at].compact = next]
      /\ next' = next + trace_entry_size(at) /\ at' = at + BlockSize /\ doing' = "place"
      /\ UNCHANGED <<trace_ptr, trace_block_map, active_entries, word, index, started, stored, merged>>
  BY <1>1, <1>2 DEF PlaceRound
<1>4. Compacting'
  BY <1>3 DEF Compacting
<1>5. PICK S \in SUBSET Places : Blocks(S) /\ \A s \in S : s >= at => is_entry(s)
  BY <1>1, <1>2 DEF Compaction
<1>6. /\ at \in S /\ at >= word /\ at + BlockSize \in S \union {trace_ptr}
      /\ at + BlockSize <= trace_ptr
      /\ \A e \in Live : e >= word /\ trace_cells[e].block /\ e > at => at + BlockSize <= e
  BY <1>1, <1>5, BlockFacts
<1>7. /\ \A e \in Live : e >= word => trace_cells[e].block
      /\ \A e \in Live : word <= e /\ e < at => trace_cells[e].n
      /\ \A e \in Live : e >= at => trace_cells[e].compact = NoEntry
      /\ PlacesFor(at)
      /\ next <= at /\ (at = word => next = word) /\ (at > word => Final(word) = word)
      /\ BelowWord /\ trace_cells[word].n
  BY <1>1, <1>2 DEF Compaction
<1>8. at \in Live
  <2>1. is_entry(at) /\ at \in 0 .. trace_ptr - 1
    BY <1>2, <1>5, <1>6
  <2>. QED  BY <2>1 DEF Live
<1>9. /\ at \in Places /\ trace_cells[at] \in Headers /\ trace_cells[at].len \in Nat
      /\ trace_cells[at].block /\ trace_cells[at].len < BlockSize
      /\ trace_entry_size(at) \in Nat /\ trace_entry_size(at) <= BlockSize /\ trace_entry_size(at) > 0
  <2>1. /\ at \in Places /\ trace_cells[at] \in Headers /\ trace_cells[at].len \in Nat
        /\ trace_cells[at].block /\ trace_cells[at].len < BlockSize
    BY <1>2, <1>6, <1>7, <1>8, LiveFacts DEF Apart
  <2>. QED  BY <1>2, <2>1 DEF trace_entry_size
<1>10. word <= next
  <2>1. CASE at = word
    BY <1>2, <1>7, <2>1
  <2>2. CASE at # word
    <3>1. word < at
      BY <1>2, <1>6, <2>2
    <3>2. Final(word) + trace_entry_size(word) <= next /\ Final(word) = word
      BY <1>2, <1>7, <3>1 DEF PlacesFor
    <3>3. trace_entry_size(word) \in Nat
      BY <1>2, LiveFacts DEF trace_entry_size
    <3>. QED  BY <1>2, <3>2, <3>3
  <2>. QED  BY <2>1, <2>2
<1>11. /\ trace_cells' \in [Places -> Records]
       /\ trace_cells'[at] = [trace_cells[at] EXCEPT !.compact = next]
       /\ trace_cells'[at] \in Headers
       /\ \A a \in Places : a # at => trace_cells'[a] = trace_cells[a]
  <2>1. next \in PlacesOrNone
    <3>1. at < TraceSize /\ TraceSize \in Nat
      BY <1>2, <1>9 DEF Places, MemoryAssumption
    <3>. QED  BY <1>2, <1>7, <3>1 DEF PlacesOrNone, Places
  <2>2. trace_cells \in [Places -> Records]
    BY <1>2 DEF TypeOK
  <2>3. trace_cells'[at] = [trace_cells[at] EXCEPT !.compact = next]
    BY <1>3, <1>9, <2>2
  <2>4. trace_cells'[at] \in Headers
    BY <1>9, <2>1, <2>3 DEF Headers
  <2>5. \A a \in Places : a # at => trace_cells'[a] = trace_cells[a]
    BY <1>3, <2>2
  <2>6. \A a \in Places : trace_cells'[a] \in Records
    BY <2>2, <2>4, <2>5 DEF Records
  <2>7. trace_cells' = [a \in Places |-> trace_cells'[a]]
    BY <1>3, <2>2
  <2>. QED  BY <2>3, <2>4, <2>5, <2>6, <2>7
<1>12. \A x \in Live : /\ trace_cells'[x].id = trace_cells[x].id /\ trace_cells'[x].n = trace_cells[x].n
                       /\ trace_cells'[x].len = trace_cells[x].len /\ trace_cells'[x].block = trace_cells[x].block
                       /\ trace_cells'[x].parent = trace_cells[x].parent
                       /\ trace_cells'[x].compact = IF x = at THEN next ELSE trace_cells[x].compact
  <2>. TAKE x \in Live
  <2>1. x \in Places
    BY <1>2, LiveFacts
  <2>. QED  BY <1>9, <1>11, <2>1 DEF Headers
<1>13. \A a \in Places : trace_cells'[a].kind = "entry" <=> trace_cells[a].kind = "entry"
  BY <1>9, <1>11 DEF Headers
<1>14. Live' = Live /\ ActiveIds' = {}
  BY <1>2, <1>3, <1>13, LiveSame DEF ActiveIds, Active
<1>15. \A x \in Live : \A k \in CellsOf(x) : trace_cells'[x + k] = trace_cells[x + k]
  <2>. TAKE x \in Live
  <2>. TAKE k \in CellsOf(x)
  <2>1. x + k \in Places /\ x + k \in Body(x)
    BY <1>2, CellFacts
  <2>2. x + k # at
    BY <1>2, <1>8, <2>1, BodyFacts
  <2>. QED  BY <1>11, <2>1, <2>2
<1>16. \A x \in Live : trace_entry_next(x)' = trace_entry_next(x) /\ trace_entry_size(x)' = trace_entry_size(x)
                       /\ CellsOf(x)' = CellsOf(x)
  BY <1>12 DEF trace_entry_next, trace_entry_size, CellsOf
<1>17. \A x : ~Referred(x) /\ ~Referred(x)'
  BY <1>1, <1>3 DEF Referred
<1>18. ASSUME NEW e \in Live PROVE ComesFrom(e, e)
  <2>1. \A p, f : Leads(e, p, f) <=> p = f
    BY <1>17 DEF Leads
  <2>2. \A p, f : Leads(e, p, f)' <=> p = f
    BY <1>17 DEF Leads
  <2>3. ASSUME NEW k \in CellsOf(e) PROVE CallKept(e, e, k)
    <3>1. CallOf(e, k)' = CallOf(e, k) /\ trace_cells'[e + k].item = trace_cells[e + k].item
      BY <1>15 DEF CallOf
    <3>2. \A f : Leads(e, CallOf(e, k), f) => f = CallOf(e, k)
      BY <2>1
    <3>3. PICK p : p = CallOf(e, k)
      OBVIOUS
    <3>4. Leads(e, p, p)'
      BY <2>2
    <3>5. Leads(e, CallOf(e, k), p)'
      BY <3>1, <3>3, <3>4 DEF Leads
    <3>. QED  BY <1>12, <1>14, <3>1, <3>2, <3>3, <3>5 DEF CallKept
  <2>4. ParentSays(e)'
    <3>1. ParentSays(e)
      BY <1>2 DEF Content
    <3>2. PICK p : p = trace_cells[e].parent
      OBVIOUS
    <3>3. \A f : Leads(e, trace_cells[e].parent, f)' <=> p = f
      BY <1>12, <2>2, <3>2 DEF Leads
    <3>4. p \in Places => (is_entry(p)' <=> is_entry(p))
      BY <1>13 DEF is_entry
    <3>. QED  BY <1>3, <1>4, <1>12, <1>14, <1>17, <2>1, <3>1, <3>2, <3>3, <3>4 DEF ParentSays
  <2>. QED  BY <1>12, <2>3, <2>4 DEF ComesFrom
<1>19. Content'
  BY <1>2, <1>3, <1>14, <1>18, CompactContent
<1>20. Apart'
  <2>1. /\ \A x \in Live : trace_entry_next(x)' <= trace_ptr'
        /\ \A x, y \in Live : x < y => trace_entry_next(x)' <= y
        /\ \A x \in Live : trace_cells'[x].block => trace_cells'[x].len < BlockSize
    BY <1>2, <1>3, <1>12, <1>16 DEF Apart
  <2>2. ASSUME NEW x \in Live, NEW a \in Body(x)' PROVE trace_cells'[a].kind = "cell"
    <3>1. a \in Body(x)
      BY <1>12 DEF Body
    <3>2. a - x \in CellsOf(x) /\ a = x + (a - x) /\ trace_cells[a].kind = "cell"
      BY <1>2, <3>1, BodyFacts DEF Apart
    <3>3. trace_cells'[x + (a - x)] = trace_cells[x + (a - x)]
      BY <1>15, <3>2
    <3>. QED  BY <3>2, <3>3
  <2>. QED  BY <1>14, <2>1, <2>2 DEF Apart
<1>21. Joined' /\ Numbered' /\ Mapped' /\ BelowWord'
  <2>1. Joined'
    BY <1>1, <1>2, <1>3, <1>4, <1>14, <1>16 DEF Joined
  <2>2. Numbered'
    BY <1>2, <1>3, <1>12, <1>14 DEF Numbered
  <2>3. Mapped'
    BY <1>1, <1>2, <1>3, <1>4, <1>14 DEF Mapped
  <2>4. BelowWord'
    BY <1>3, <1>7, <1>12, <1>14, <1>15, <1>16 DEF BelowWord, CallOf
  <2>. QED  BY <2>1, <2>2, <2>3, <2>4
<1>22. \A x \in Live : Final(x)' = IF x = at THEN next ELSE Final(x)
  BY <1>1, <1>3, <1>4, <1>6, <1>9, <1>12 DEF Final
<1>23. \A x \in Live : word <= x /\ x < at + BlockSize => x <= at
  <2>. TAKE x \in Live
  <2>1. x \in Nat
    BY <1>2
  <2>. QED  BY <1>2, <1>6, <1>7, <2>1
<1>24. /\ next' = next + trace_entry_size(at) /\ next' \in Nat /\ next <= next' /\ next' <= at'
  BY <1>2, <1>3, <1>7, <1>9
<1>25. PlacesFor(at)'
  <2>1. ASSUME NEW e \in Live, word <= e, e < at + BlockSize
        PROVE  /\ Final(e)' \in word .. e
               /\ Final(e)' + trace_entry_size(e) <= next'
               /\ Final(e)' + trace_entry_size(e) = next'
                  \/ \E f \in Live : /\ word <= f /\ f < at + BlockSize
                                     /\ Final(f)' = Final(e)' + trace_entry_size(e)
    <3>0. e \in Nat /\ trace_entry_size(e) \in Nat
      BY <1>2, LiveFacts DEF trace_entry_size
    <3>1. CASE e = at
      <4>1. Final(e)' = next
        BY <1>22, <3>1
      <4>. QED  BY <1>2, <1>7, <1>10, <1>24, <3>1, <4>1
    <3>2. CASE e # at
      <4>1. e < at /\ Final(e)' = Final(e)
        BY <1>2, <1>22, <1>23, <2>1, <3>0, <3>2
      <4>2. /\ Final(e) \in word .. e
            /\ Final(e) + trace_entry_size(e) <= next
            /\ Final(e) + trace_entry_size(e) = next
               \/ \E f \in Live : word <= f /\ f < at /\ Final(f) = Final(e) + trace_entry_size(e)
        BY <1>7, <2>1, <4>1 DEF PlacesFor
      <4>3. Final(e) + trace_entry_size(e) <= next'
        BY <1>2, <1>24, <3>0, <4>2
      <4>4. CASE Final(e) + trace_entry_size(e) = next
        <5>1. PICK f : f = at
          OBVIOUS
        <5>2. f \in Live /\ Final(f)' = next /\ word <= f /\ f < at + BlockSize
          BY <1>2, <1>6, <1>8, <1>22, <5>1
        <5>. QED  BY <4>1, <4>2, <4>3, <4>4, <5>2
      <4>5. CASE \E f \in Live : word <= f /\ f < at /\ Final(f) = Final(e) + trace_entry_size(e)
        <5>1. PICK f \in Live : word <= f /\ f < at /\ Final(f) = Final(e) + trace_entry_size(e)
          BY <4>5
        <5>2. Final(f)' = Final(e)' + trace_entry_size(e) /\ f < at + BlockSize
          BY <1>2, <1>22, <4>1, <5>1
        <5>. QED  BY <4>1, <4>2, <4>3, <5>1, <5>2
      <4>. QED  BY <4>2, <4>4, <4>5
    <3>. QED  BY <3>1, <3>2
  <2>2. ASSUME NEW e \in Live, NEW f \in Live, word <= e, e < f, f < at + BlockSize
        PROVE  Final(e)' + trace_entry_size(e) <= Final(f)'
    <3>0. e \in Nat /\ f \in Nat /\ f <= at /\ e < at /\ e # at
      BY <1>2, <1>23, <2>2
    <3>1. Final(e)' = Final(e)
      BY <1>22, <3>0
    <3>2. CASE f = at
      <4>1. Final(f)' = next
        BY <1>22, <3>2
      <4>2. Final(e) + trace_entry_size(e) <= next
        BY <1>7, <2>2, <3>0 DEF PlacesFor
      <4>. QED  BY <3>1, <4>1, <4>2
    <3>3. CASE f # at
      <4>1. f < at
        BY <1>2, <3>0, <3>3
      <4>2. Final(e) + trace_entry_size(e) <= Final(f)
        BY <1>7, <2>2, <4>1 DEF PlacesFor
      <4>3. Final(f)' = Final(f)
        BY <1>22, <3>3
      <4>. QED  BY <3>1, <4>2, <4>3
    <3>. QED  BY <3>2, <3>3
  <2>3. at' = at + BlockSize /\ word' = word
    BY <1>3
  <2>. QED  BY <1>14, <1>16, <2>1, <2>2, <2>3 DEF PlacesFor
<1>26. \A x \in Live : x = word => Final(x)' = word
  <2>. TAKE x \in Live
  <2>. HAVE x = word
  <2>1. CASE at = word
    BY <1>2, <1>7, <1>22, <2>1
  <2>2. CASE at # word
    <3>1. at > word
      BY <1>2, <1>6, <2>2
    <3>. QED  BY <1>2, <1>7, <1>22, <2>2, <3>1
  <2>. QED  BY <2>1, <2>2
<1>27. Compaction'
  <2>1. Blocks(S)' /\ \A s \in S : s >= at' => is_entry(s)'
    <3>1. Blocks(S)'
      BY <1>3, <1>5, <1>6, <1>12, <1>14 DEF Blocks
    <3>2. ASSUME NEW s \in S, s >= at + BlockSize PROVE is_entry(s)'
      <4>1. s \in Places /\ s \in Nat
        BY DEF Places
      <4>2. is_entry(s)
        BY <1>2, <1>5, <3>2, <4>1
      <4>. QED  BY <1>13, <4>1, <4>2 DEF is_entry
    <3>. QED  BY <1>3, <3>1, <3>2
  <2>2. \A e \in Live' : e >= word' => trace_cells'[e].block
    BY <1>3, <1>7, <1>12, <1>14
  <2>3. \A e \in Live' : word' <= e /\ e < at' => trace_cells'[e].n
    <3>. SUFFICES ASSUME NEW e \in Live, word <= e, e < at + BlockSize PROVE trace_cells[e].n
      BY <1>3, <1>12, <1>14
    <3>1. e \in Nat /\ e <= at
      BY <1>2, <1>23
    <3>2. e = at \/ e < at
      BY <1>2, <3>1
    <3>. QED  BY <1>7, <3>2
  <2>4. \A e \in Live' : e >= at' => trace_cells'[e].compact = NoEntry
    <3>. SUFFICES ASSUME NEW e \in Live, e >= at + BlockSize PROVE trace_cells[e].compact = NoEntry /\ e # at
      BY <1>3, <1>12, <1>14
    <3>1. e \in Nat /\ e >= at /\ e # at
      BY <1>2
    <3>. QED  BY <1>7, <3>1
  <2>5. at' > word' /\ at' # word'
    BY <1>2, <1>3, <1>6
  <2>6. Final(word)' = word'
    <3>1. PICK x : x = word
      OBVIOUS
    <3>2. Final(x)' = word /\ word' = x
      BY <1>2, <1>3, <1>26, <3>1
    <3>. QED  BY <1>3, <3>1, <3>2 DEF Final
  <2>7. word' \in Live' /\ trace_cells'[word'].n /\ active_entries' = <<>>
    BY <1>2, <1>3, <1>7, <1>12, <1>14
  <2>. QED  BY <1>3, <1>21, <1>24, <1>25, <2>1, <2>2, <2>3, <2>4, <2>5, <2>6, <2>7 DEF Compaction
<1>28. TypeOK'
  BY SMTT(30), <1>2, <1>3, <1>11, <1>24 DEF TypeOK, Phases
<1>. QED  BY <1>3, <1>4, <1>19, <1>20, <1>21, <1>27, <1>28 DEF Inv

(* The block of an entry that was merged is cleared.                       *)
LEMMA PlaceClearedInv ==
  ASSUME MemoryAssumption, Inv, PlaceRound, at < trace_ptr, ~trace_cells[at].n
  PROVE  Inv'
<1>1. doing = "place" /\ Compacting
  BY DEF PlaceRound, Compacting
<1>2. /\ TypeOK /\ Apart /\ Joined /\ Numbered /\ Content /\ Mapped /\ Compaction
      /\ word \in Live /\ word \in Nat /\ trace_ptr \in Nat /\ at \in Nat /\ next \in Nat
      /\ active_entries = <<>> /\ ActiveIds = {} /\ BlockSize \in Nat /\ BlockSize > 0
      /\ \A e \in Live : e \in Nat
  BY <1>1, CompactFacts
<1>3. /\ trace_cells' = Cleared(trace_cells, BlockOf(at))
      /\ at' = at + BlockSize /\ doing' = "place"
      /\ UNCHANGED <<next, trace_ptr, trace_block_map, active_entries, word, index, started, stored, merged>>
  BY <1>1, <1>2 DEF PlaceRound
<1>4. Compacting'
  BY <1>3 DEF Compacting
<1>5. PICK S \in SUBSET Places : Blocks(S) /\ \A s \in S : s >= at => is_entry(s)
  BY <1>1, <1>2 DEF Compaction
<1>6. /\ at \in S /\ at >= word /\ at + BlockSize \in S \union {trace_ptr}
      /\ at + BlockSize <= trace_ptr
      /\ \A e \in Live : e >= word /\ trace_cells[e].block /\ e > at => at + BlockSize <= e
  BY <1>1, <1>5, BlockFacts
<1>7. /\ \A e \in Live : e >= word => trace_cells[e].block
      /\ \A e \in Live : word <= e /\ e < at => trace_cells[e].n
      /\ \A e \in Live : e >= at => trace_cells[e].compact = NoEntry
      /\ PlacesFor(at)
      /\ next <= at /\ (at > word => Final(word) = word)
      /\ BelowWord /\ trace_cells[word].n
  BY <1>1, <1>2 DEF Compaction
<1>8. at \in Live
  <2>1. is_entry(at) /\ at \in 0 .. trace_ptr - 1
    BY <1>2, <1>5, <1>6
  <2>. QED  BY <2>1 DEF Live
<1>9. at # word /\ at > word
  BY <1>2, <1>6, <1>7
<1>10. PICK b : b = at
  OBVIOUS
<1>11. /\ b \in Live /\ b \in Nat /\ b > word /\ trace_cells[b].block /\ trace_entry_next(b) = b + BlockSize
       /\ \A e \in Live : e > b => b + BlockSize <= e
       /\ \A e \in Live : e < b => trace_entry_next(e) <= b
  <2>1. b \in Live /\ b \in Nat /\ b > word /\ trace_cells[b].block
    BY <1>2, <1>7, <1>8, <1>9, <1>10
  <2>2. trace_entry_next(b) = b + BlockSize
    BY <2>1 DEF trace_entry_next
  <2>. QED  BY <1>2, <2>1, <2>2 DEF Apart
<1>12. /\ trace_cells' \in [Places -> Records]
       /\ \A a \in Places : a \in BlockOf(b) => trace_cells'[a] = Zero
       /\ \A a \in Places : a \notin BlockOf(b) => trace_cells'[a] = trace_cells[a]
  <2>1. trace_cells' = [a \in Places |-> IF a \in BlockOf(b) THEN Zero ELSE trace_cells[a]]
    BY <1>3, <1>10 DEF Cleared
  <2>2. trace_cells \in [Places -> Records] /\ Zero \in Records
    BY <1>2 DEF TypeOK, Records
  <2>. QED  BY <2>1, <2>2
<1>13. ASSUME NEW x \in Live, x # b
       PROVE  /\ trace_cells'[x] = trace_cells[x]
              /\ \A k \in CellsOf(x) : trace_cells'[x + k] = trace_cells[x + k]
  <2>1. x \in Places /\ x \in Nat /\ trace_entry_next(x) \in Nat /\ x < trace_entry_next(x)
    BY <1>2, LiveFacts
  <2>2. \A k \in CellsOf(x) : x + k \in Places /\ x < x + k /\ x + k < trace_entry_next(x) /\ k \in Nat
    BY <1>2, CellFacts
  <2>3. x \notin BlockOf(b) /\ \A k \in CellsOf(x) : x + k \notin BlockOf(b)
    <3>1. CASE x < b
      <4>1. trace_entry_next(x) <= b
        BY <1>11, <3>1
      <4>2. x < b /\ \A k \in CellsOf(x) : x + k < b
        BY <1>11, <2>1, <2>2, <3>1, <4>1
      <4>. QED  BY <1>11, <2>1, <2>2, <4>2 DEF BlockOf
    <3>2. CASE x > b
      <4>1. b + BlockSize <= x
        BY <1>11, <3>2
      <4>. QED  BY <1>2, <1>11, <2>1, <2>2, <4>1 DEF BlockOf
    <3>. QED  BY <1>11, <1>13, <2>1, <3>1, <3>2
  <2>. QED  BY <1>12, <2>1, <2>2, <2>3
<1>14. b \in Places /\ trace_cells'[b] = Zero
  <2>1. b \in BlockOf(b)
    BY <1>2, <1>11 DEF BlockOf
  <2>. QED  BY <1>2, <1>11, <1>12, <2>1, LiveFacts
<1>15. \A a \in Places : is_entry(a)' => is_entry(a)
  BY <1>12 DEF is_entry, Zero
<1>16. Live' = Live \ {b}
  <2>1. \A a \in 0 .. trace_ptr - 1 : a \in Places
    BY <1>2 DEF Places, TypeOK, MemoryAssumption
  <2>2. ~is_entry(b)'
    BY <1>14 DEF is_entry, Zero
  <2>3. \A x \in Live : x # b => is_entry(x)'
    BY <1>13 DEF is_entry, Live
  <2>. QED  BY <1>3, <1>15, <2>1, <2>2, <2>3 DEF Live
<1>17. word \in Live' /\ ActiveIds' = {} /\ Live' \subseteq Live
  BY <1>2, <1>3, <1>9, <1>10, <1>16 DEF ActiveIds, Active
<1>18. \A x \in Live' : /\ x \in Live /\ x # b /\ trace_cells'[x] = trace_cells[x]
                        /\ trace_entry_next(x)' = trace_entry_next(x)
                        /\ trace_entry_size(x)' = trace_entry_size(x)
                        /\ CellsOf(x)' = CellsOf(x)
  BY <1>13, <1>16 DEF trace_entry_next, trace_entry_size, CellsOf
<1>19. \A x : ~Referred(x) /\ ~Referred(x)'
  BY <1>1, <1>3 DEF Referred
<1>20. ~trace_cells[b].n
  BY <1>10
<1>21. ASSUME NEW e \in Live' PROVE ComesFrom(e, e)
  <2>1. \A p, f : Leads(e, p, f) <=> p = f
    BY <1>19 DEF Leads
  <2>2. \A p, f : Leads(e, p, f)' <=> p = f
    BY <1>19 DEF Leads
  <2>3. ASSUME NEW k \in CellsOf(e) PROVE CallKept(e, e, k)
    <3>1. CallOf(e, k)' = CallOf(e, k) /\ trace_cells'[e + k].item = trace_cells[e + k].item
      BY <1>13, <1>18 DEF CallOf
    <3>2. \A f : Leads(e, CallOf(e, k), f) => f = CallOf(e, k)
      BY <2>1
    <3>3. PICK p : p = CallOf(e, k)
      OBVIOUS
    <3>4. Leads(e, p, p)'
      BY <2>2
    <3>5. Leads(e, CallOf(e, k), p)'
      BY <3>1, <3>3, <3>4 DEF Leads
    <3>6. p \in Live /\ trace_cells[p].n => p \in Live'
      BY <1>16, <1>20
    <3>. QED  BY <1>18, <3>1, <3>2, <3>3, <3>5, <3>6 DEF CallKept
  <2>4. ParentSays(e)'
    <3>1. ParentSays(e)
      BY <1>2, <1>18 DEF Content
    <3>2. PICK p : p = trace_cells[e].parent
      OBVIOUS
    <3>3. \A f : Leads(e, trace_cells[e].parent, f)' <=> p = f
      BY <1>18, <2>2, <3>2 DEF Leads
    <3>4. p \in Places => (is_entry(p)' => is_entry(p))
      BY <1>15
    <3>5. trace_cells'[e] = trace_cells[e] /\ stored' = stored /\ merged' = merged /\ word' = word
      BY <1>3, <1>18
    <3>6. PICK was : was = stored[trace_cells[e].id].parent
      OBVIOUS
    <3>7. CASE was = 0 /\ p = NoEntry
      BY <3>2, <3>5, <3>6, <3>7 DEF ParentSays
    <3>8. CASE was # 0 /\ p \in Live /\ trace_cells[p].id = was
      <4>1. CASE p = b
        <5>1. was \in merged
          BY <1>2, <1>11, <1>20, <3>8, <4>1 DEF Numbered
        <5>2. p \in Places /\ p >= word /\ ~is_entry(p)'
          BY <1>2, <1>11, <1>14, <4>1 DEF is_entry, Zero
        <5>. QED  BY <1>4, <1>19, <3>2, <3>5, <3>6, <5>1, <5>2 DEF ParentSays
      <4>2. CASE p # b
        <5>1. p \in Live' /\ trace_cells'[p].id = was
          BY <1>13, <1>16, <3>8, <4>2
        <5>. QED  BY <3>3, <3>5, <3>6, <3>8, <5>1 DEF ParentSays
      <4>. QED  BY <4>1, <4>2
    <3>9. CASE /\ was \in merged
               /\ p = NoEntry \/ (p \in Places /\ p >= word /\ ~is_entry(p))
      BY <1>4, <1>19, <3>2, <3>4, <3>5, <3>6, <3>9 DEF ParentSays
    <3>. QED  BY <2>1, <3>1, <3>2, <3>6, <3>7, <3>8, <3>9 DEF ParentSays
  <2>. QED  BY <1>18, <2>3, <2>4 DEF ComesFrom
<1>22. Content'
  BY <1>2, <1>3, <1>17, <1>21, CompactContent
<1>23. Apart'
  <2>1. /\ \A x \in Live' : trace_entry_next(x)' <= trace_ptr'
        /\ \A x, y \in Live' : x < y => trace_entry_next(x)' <= y
        /\ \A x \in Live' : trace_cells'[x].block => trace_cells'[x].len < BlockSize
    BY <1>2, <1>3, <1>18 DEF Apart
  <2>2. ASSUME NEW x \in Live', NEW a \in Body(x)' PROVE trace_cells'[a].kind = "cell"
    <3>1. x \in Live /\ x # b /\ a \in Body(x)
      BY <1>18 DEF Body
    <3>2. a - x \in CellsOf(x) /\ a = x + (a - x) /\ trace_cells[a].kind = "cell"
      BY <1>2, <3>1, BodyFacts DEF Apart
    <3>3. trace_cells'[x + (a - x)] = trace_cells[x + (a - x)]
      BY <1>13, <3>1, <3>2
    <3>. QED  BY <3>2, <3>3
  <2>. QED  BY <2>1, <2>2 DEF Apart
<1>24. Joined' /\ Numbered' /\ Mapped' /\ BelowWord'
  <2>1. ASSUME NEW x \in Live', x < word PROVE trace_entry_next(x) \in Live' \union {trace_ptr}
    <3>1. trace_entry_next(x) \in Live \union {trace_ptr} /\ trace_entry_next(x) <= word
      BY <1>2, <1>18, <2>1 DEF Joined, Apart
    <3>2. trace_entry_next(x) \in Nat
      BY <1>2, <1>18, LiveFacts
    <3>3. trace_entry_next(x) # b
      BY <1>2, <1>11, <3>1, <3>2
    <3>. QED  BY <1>16, <3>1, <3>3
  <2>2. Joined'
    BY <1>3, <1>4, <1>18, <2>1 DEF Joined
  <2>3. Numbered'
    <3>1. /\ \A x \in Live' : /\ trace_cells'[x].id \in DOMAIN stored'
                              /\ trace_cells'[x].n <=> trace_cells'[x].id \notin merged'
          /\ \A x, y \in Live' : x < y => trace_cells'[x].id < trace_cells'[y].id
      BY <1>2, <1>3, <1>18 DEF Numbered
    <3>2. ASSUME NEW i \in DOMAIN stored' \ merged' PROVE \E x \in Live' : trace_cells'[x].id = i
      <4>1. PICK x \in Live : trace_cells[x].id = i
        BY <1>2, <1>3, <3>2 DEF Numbered
      <4>2. x # b
        BY <1>2, <1>3, <1>20, <3>2, <4>1 DEF Numbered
      <4>. QED  BY <1>16, <1>18, <4>1, <4>2
    <3>. QED  BY <3>1, <3>2 DEF Numbered
  <2>4. Mapped'
    <3>. SUFFICES ASSUME NEW i \in DOMAIN trace_block_map, i * MapBlock < word
                  PROVE  trace_block_map[i] \in Live' /\ trace_block_map[i] <= i * MapBlock
      BY <1>3, <1>4 DEF Mapped
    <3>1. trace_block_map[i] \in Live /\ trace_block_map[i] <= i * MapBlock
      BY <1>1, <1>2 DEF Mapped
    <3>2. i * MapBlock \in Nat
      BY <1>2, MapFacts
    <3>3. trace_block_map[i] # b
      BY <1>2, <1>11, <3>1, <3>2
    <3>. QED  BY <1>16, <3>1, <3>3
  <2>5. BelowWord'
    <3>1. \A x \in Live' : \A k \in CellsOf(x) : CallOf(x, k)' = CallOf(x, k)
      BY <1>13, <1>18 DEF CallOf
    <3>. QED  BY <1>3, <1>7, <1>18, <3>1 DEF BelowWord
  <2>. QED  BY <2>2, <2>3, <2>4, <2>5
<1>25. \A x \in Live' : Final(x)' = Final(x)
  BY <1>1, <1>3, <1>4, <1>18 DEF Final
<1>26. \A x \in Live' : x < b + BlockSize => x < b
  <2>. TAKE x \in Live'
  <2>1. x \in Nat /\ x # b /\ x \in Live
    BY <1>2, <1>18
  <2>. QED  BY <1>2, <1>11, <2>1
<1>27. PlacesFor(at)'
  <2>1. ASSUME NEW e \in Live', word <= e, e < b + BlockSize
        PROVE  /\ Final(e) \in word .. e
               /\ Final(e) + trace_entry_size(e) <= next
               /\ Final(e) + trace_entry_size(e) = next
                  \/ \E f \in Live' : /\ word <= f /\ f < b + BlockSize
                                      /\ Final(f) = Final(e) + trace_entry_size(e)
    <3>1. e < b /\ e \in Live
      BY <1>18, <1>26, <2>1
    <3>2. /\ Final(e) \in word .. e
          /\ Final(e) + trace_entry_size(e) <= next
          /\ Final(e) + trace_entry_size(e) = next
             \/ \E f \in Live : word <= f /\ f < b /\ Final(f) = Final(e) + trace_entry_size(e)
      BY <1>7, <1>10, <2>1, <3>1 DEF PlacesFor
    <3>3. \A f \in Live : f < b => f \in Live' /\ f < b + BlockSize
      BY <1>2, <1>11, <1>16
    <3>. QED  BY <3>2, <3>3
  <2>2. ASSUME NEW e \in Live', NEW f \in Live', word <= e, e < f, f < b + BlockSize
        PROVE  Final(e) + trace_entry_size(e) <= Final(f)
    <3>1. f < b /\ e \in Live /\ f \in Live
      BY <1>18, <1>26, <2>2
    <3>. QED  BY <1>7, <1>10, <2>2, <3>1 DEF PlacesFor
  <2>3. at' = b + BlockSize /\ word' = word /\ next' = next
    BY <1>3, <1>10
  <2>. QED  BY <1>18, <1>25, <2>1, <2>2, <2>3 DEF PlacesFor
<1>28. Compaction'
  <2>1. Blocks(S)' /\ \A s \in S : s >= at' => is_entry(s)'
    <3>1. Blocks(S)'
      BY <1>3, <1>5, <1>6, <1>18 DEF Blocks
    <3>2. ASSUME NEW s \in S, s >= b + BlockSize PROVE is_entry(s)'
      <4>1. s \in Places /\ s \in Nat
        BY DEF Places
      <4>2. is_entry(s) /\ s \notin BlockOf(b)
        BY <1>2, <1>5, <1>10, <1>11, <3>2, <4>1 DEF BlockOf
      <4>. QED  BY <1>12, <4>1, <4>2 DEF is_entry
    <3>. QED  BY <1>3, <1>10, <3>1, <3>2
  <2>2. \A e \in Live' : e >= word' => trace_cells'[e].block
    BY <1>3, <1>7, <1>18
  <2>3. \A e \in Live' : word' <= e /\ e < at' => trace_cells'[e].n
    <3>. SUFFICES ASSUME NEW e \in Live', word <= e, e < b + BlockSize PROVE trace_cells[e].n
      BY <1>3, <1>10, <1>18
    <3>. QED  BY <1>7, <1>10, <1>18, <1>26
  <2>4. \A e \in Live' : e >= at' => trace_cells'[e].compact = NoEntry
    <3>1. ASSUME NEW e \in Live', e >= b + BlockSize PROVE trace_cells'[e].compact = NoEntry
      <4>0. e \in Live /\ e \in Nat
        BY <1>2, <1>18
      <4>1. e >= b
        BY <1>2, <1>11, <3>1, <4>0
      <4>2. trace_cells[e].compact = NoEntry
        BY <1>7, <1>10, <4>0, <4>1
      <4>3. trace_cells'[e] = trace_cells[e]
        BY <1>18
      <4>. QED  BY <4>2, <4>3
    <3>2. at' = b + BlockSize
      BY <1>3, <1>10
    <3>. QED  BY <3>1, <3>2
  <2>5. at' > word' /\ at' # word' /\ next' <= at'
    BY <1>2, <1>3, <1>7, <1>9
  <2>6. Final(word)' = word'
    <3>1. PICK x : x = word
      OBVIOUS
    <3>2. Final(x)' = word /\ word' = x
      BY <1>3, <1>7, <1>9, <1>17, <1>25, <3>1
    <3>. QED  BY <1>3, <3>1, <3>2 DEF Final
  <2>7. word' \in Live' /\ trace_cells'[word'].n /\ active_entries' = <<>>
    BY <1>2, <1>3, <1>7, <1>17, <1>18
  <2>. QED  BY <1>3, <1>24, <1>27, <2>1, <2>2, <2>3, <2>4, <2>5, <2>6, <2>7 DEF Compaction
<1>29. TypeOK'
  BY SMTT(30), <1>2, <1>3, <1>12 DEF TypeOK, Phases
<1>. QED  BY <1>3, <1>4, <1>22, <1>23, <1>24, <1>28, <1>29 DEF Inv

LEMMA PlaceRoundInv ==
  ASSUME MemoryAssumption, Inv, PlaceRound
  PROVE  Inv'
<1>1. at < trace_ptr \/ at >= trace_ptr
  BY DEF Inv, TypeOK
<1>. QED  BY <1>1, PlaceEndInv, PlaceKeptInv, PlaceClearedInv

(* The entry that the loop has come to, and where it will be.              *)
LEMMA FinalFacts ==
  ASSUME MemoryAssumption, Inv, doing \in {"refer", "move"}, NEW e \in Live
  PROVE  /\ Final(e) \in Nat /\ Final(e) <= e
         /\ e >= word => Final(e) >= word
         /\ e <= word => Final(e) = e
<1>1. Compacting
  BY DEF Compacting
<1>2. /\ TypeOK /\ Apart /\ Compaction /\ word \in Nat /\ e \in Nat
  BY <1>1, CompactFacts
<1>3. e < trace_ptr
  BY <1>2, LiveFacts
<1>4. PlacesFor(trace_ptr) /\ Final(word) = word
  BY <1>2 DEF Compaction
<1>5. CASE e >= word
  <2>1. Final(e) \in word .. e
    BY <1>3, <1>4, <1>5 DEF PlacesFor
  <2>2. e <= word => e = word
    BY <1>2, <1>5
  <2>. QED  BY <1>2, <1>4, <2>1, <2>2
<1>6. CASE ~(e >= word)
  BY <1>2, <1>6 DEF Final
<1>. QED  BY <1>5, <1>6

(* A reference to an entry becomes one to where it will be.                *)
LEMMA AfterFacts ==
  ASSUME MemoryAssumption, Inv, doing = "refer"
  PROVE  /\ \A f \in Live : CallAfter(f) = Final(f) /\ ParentAfter(f) = Final(f)
         /\ CallAfter(NoEntry) = NoEntry /\ ParentAfter(NoEntry) = NoEntry
         /\ \A p \in PlacesOrNone : /\ CallAfter(p) \in PlacesOrNone
                                    /\ ParentAfter(p) \in PlacesOrNone
                                    /\ p <= word => CallAfter(p) = p /\ ParentAfter(p) = p
<1>1. Compacting
  BY DEF Compacting
<1>2. /\ TypeOK /\ Apart /\ Compaction /\ word \in Nat /\ \A e \in Live : e \in Nat
  BY <1>1, CompactFacts
<1>3. ASSUME NEW f \in Live PROVE CallAfter(f) = Final(f) /\ ParentAfter(f) = Final(f)
  <2>1. f <= word => Final(f) = f
    BY FinalFacts
  <2>2. CASE f > word
    <3>1. trace_cells[f].block /\ is_entry(f) /\ f >= word
      BY <1>2, <2>2 DEF Compaction, Live
    <3>2. Final(f) = trace_cells[f].compact
      BY <1>1, <3>1 DEF Final
    <3>3. Final(f) # NoEntry
      <4>1. Final(f) \in Nat
        BY FinalFacts
      <4>. QED  BY <4>1 DEF NoEntry
    <3>. QED  BY <2>2, <3>1, <3>2, <3>3 DEF CallAfter, ParentAfter, CompactOf
  <2>3. CASE ~(f > word)
    <3>1. f <= word
      BY <1>2, <2>3
    <3>. QED  BY <2>1, <2>3, <3>1 DEF CallAfter, ParentAfter
  <2>. QED  BY <2>2, <2>3
<1>4. ASSUME NEW p \in PlacesOrNone
      PROVE  /\ CallAfter(p) \in PlacesOrNone /\ ParentAfter(p) \in PlacesOrNone
             /\ p <= word => CallAfter(p) = p /\ ParentAfter(p) = p
  <2>1. p > word => p \in Places
    BY <1>2 DEF PlacesOrNone, NoEntry, Places
  <2>2. p \in Places /\ is_entry(p) => trace_cells[p].compact \in PlacesOrNone
    BY <1>2, HeaderType DEF TypeOK, is_entry, Headers
  <2>3. p \in Places => CompactOf(p) \in PlacesOrNone
    BY <2>2 DEF CompactOf, PlacesOrNone
  <2>4. p \in Int
    BY DEF PlacesOrNone, Places, NoEntry
  <2>5. p <= word => ~(p > word)
    BY <1>2, <2>4
  <2>. QED  BY <2>1, <2>3, <2>5 DEF CallAfter, ParentAfter
<1>5. NoEntry \in PlacesOrNone /\ NoEntry <= word
  BY <1>2 DEF PlacesOrNone, NoEntry
<1>. QED  BY <1>3, <1>4, <1>5

(* The references of an entry are updated.                                 *)
LEMMA ReferEntryInv ==
  ASSUME MemoryAssumption, Inv, ReferRound, at < trace_ptr, is_persistent(at)
  PROVE  Inv'
<1>1. doing = "refer" /\ Compacting
  BY DEF ReferRound, Compacting
<1>2. /\ TypeOK /\ Apart /\ Joined /\ Numbered /\ Content /\ Mapped /\ Compaction
      /\ word \in Live /\ word \in Nat /\ trace_ptr \in Nat /\ at \in Nat /\ next \in Nat
      /\ active_entries = <<>> /\ ActiveIds = {} /\ BlockSize \in Nat /\ BlockSize > 0
      /\ \A e \in Live : e \in Nat
  BY <1>1, CompactFacts
<1>3. /\ trace_cells' = [a \in Places |->
                       IF a = at THEN [trace_cells[a] EXCEPT !.parent = ParentAfter(@)]
                       ELSE IF a \in Body(at) THEN [trace_cells[a] EXCEPT !.call = CallAfter(@)]
                       ELSE trace_cells[a]]
      /\ at' = at + BlockSize /\ doing' = "refer"
      /\ UNCHANGED <<next, trace_ptr, trace_block_map, active_entries, word, index, started, stored, merged>>
  BY <1>1, <1>2 DEF ReferRound
<1>4. Compacting'
  BY <1>3 DEF Compacting
<1>5. PICK S \in SUBSET Places : Blocks(S)
  BY <1>2 DEF Compaction
<1>6. /\ at \in S /\ at >= word /\ at + BlockSize \in S \union {trace_ptr}
      /\ at + BlockSize <= trace_ptr
      /\ \A e \in Live : e >= word /\ trace_cells[e].block /\ e > at => at + BlockSize <= e
  BY <1>1, <1>5, BlockFacts
<1>7. /\ \A e \in Live : e >= word => trace_cells[e].block
      /\ \A e \in Live : trace_cells[e].n
      /\ PlacesFor(trace_ptr) /\ Final(word) = word /\ next <= trace_ptr
      /\ BelowWord
  BY <1>1, <1>2 DEF Compaction
<1>8. PICK b : b = at
  OBVIOUS
<1>9. b \in Live /\ b \in Nat /\ b >= word
  <2>1. is_entry(b) /\ b \in 0 .. trace_ptr - 1
    BY <1>2, <1>8 DEF is_persistent
  <2>. QED  BY <1>2, <1>6, <1>8, <2>1 DEF Live
<1>10. /\ b \in Places /\ trace_cells[b] \in Headers
       /\ \A a \in Body(b) : a \in Places /\ a \notin Live /\ trace_cells[a] \in CellRecords
       /\ \A f \in Live : f # b => f \notin Body(b) /\ \A a \in Body(b) : a \notin Body(f)
       /\ b \notin Body(b)
  <2>1. b \in Places /\ trace_cells[b] \in Headers
    BY <1>2, <1>9, LiveFacts
  <2>2. ASSUME NEW a \in Body(b)
        PROVE  /\ a \in Places /\ a \notin Live
               /\ \A f \in Live : f # b => a \notin Body(f)
               /\ trace_cells[a] \in CellRecords
    <3>1. /\ a \in Places /\ a \notin Live /\ a - b \in CellsOf(b) /\ a = b + (a - b)
          /\ \A f \in Live : f # b => a \notin Body(f)
      BY <1>2, <1>9, BodyFacts
    <3>2. trace_cells[b + (a - b)] \in CellRecords
      BY <1>2, <1>9, <3>1, CellFacts
    <3>. QED  BY <3>1, <3>2
  <2>. QED  BY <1>9, <2>1, <2>2
<1>11. /\ DOMAIN trace_cells' = Places
       /\ \A a \in Places : a # b /\ a \notin Body(b) => trace_cells'[a] = trace_cells[a]
       /\ trace_cells'[b] = [trace_cells[b] EXCEPT !.parent = ParentAfter(trace_cells[b].parent)]
       /\ \A a \in Body(b) : trace_cells'[a] = [trace_cells[a] EXCEPT !.call = CallAfter(trace_cells[a].call)]
  BY <1>3, <1>8, <1>10
<1>12. trace_cells[b].parent \in PlacesOrNone /\ \A a \in Body(b) : trace_cells[a].call \in PlacesOrNone
  BY <1>10 DEF Headers, CellRecords
<1>13. /\ trace_cells'[b] \in Headers
       /\ trace_cells'[b].id = trace_cells[b].id /\ trace_cells'[b].n = trace_cells[b].n
       /\ trace_cells'[b].len = trace_cells[b].len
       /\ trace_cells'[b].compact = trace_cells[b].compact /\ trace_cells'[b].block = trace_cells[b].block
  <2>1. ParentAfter(trace_cells[b].parent) \in PlacesOrNone
    BY <1>1, <1>12, AfterFacts
  <2>. QED  BY <1>10, <1>11, <2>1 DEF Headers
<1>14. \A a \in Body(b) : /\ trace_cells'[a] \in CellRecords /\ trace_cells'[a].item = trace_cells[a].item
                          /\ trace_cells'[a].call = CallAfter(trace_cells[a].call)
  <2>. SUFFICES ASSUME NEW a \in Body(b)
                PROVE  /\ trace_cells'[a] \in CellRecords /\ trace_cells'[a].item = trace_cells[a].item
                       /\ trace_cells'[a].call = CallAfter(trace_cells[a].call)
    OBVIOUS
  <2>1. trace_cells[a] \in CellRecords /\ trace_cells'[a] = [trace_cells[a] EXCEPT !.call = CallAfter(trace_cells[a].call)]
    BY <1>10, <1>11
  <2>2. CallAfter(trace_cells[a].call) \in PlacesOrNone
    BY <1>1, <1>12, AfterFacts
  <2>. QED  BY <2>1, <2>2 DEF CellRecords
<1>15. trace_cells' \in [Places -> Records]
  <2>1. \A a \in Places : trace_cells'[a] \in Records
    <3>. TAKE a \in Places
    <3>1. trace_cells[a] \in Records
      BY <1>2 DEF TypeOK
    <3>. QED  BY <1>11, <1>13, <1>14, <3>1 DEF Records
  <2>2. trace_cells' = [a \in Places |-> trace_cells'[a]]
    BY <1>3
  <2>. QED  BY <2>1, <2>2
<1>16. \A a \in Places : is_entry(a)' <=> is_entry(a)
  <2>1. \A a \in Body(b) : ~is_entry(a) /\ ~is_entry(a)'
    BY <1>10, <1>14 DEF CellRecords, is_entry
  <2>2. is_entry(b) /\ is_entry(b)'
    BY <1>10, <1>13 DEF Headers, is_entry
  <2>. QED  BY <1>11, <2>1, <2>2 DEF is_entry
<1>17. Live' = Live /\ ActiveIds' = {}
  <2>1. \A a \in 0 .. trace_ptr - 1 : a \in Places
    BY <1>2 DEF Places, TypeOK, MemoryAssumption
  <2>2. Live' = Live
    BY <1>3, <1>16, <2>1 DEF Live
  <2>. QED  BY <1>2, <1>3, <2>2 DEF ActiveIds, Active
<1>18. \A x \in Live : /\ trace_cells'[x].len = trace_cells[x].len
                       /\ trace_cells'[x].compact = trace_cells[x].compact
                       /\ trace_cells'[x].block = trace_cells[x].block
                       /\ trace_cells'[x].id = trace_cells[x].id /\ trace_cells'[x].n = trace_cells[x].n
                       /\ trace_entry_next(x)' = trace_entry_next(x)
                       /\ trace_entry_size(x)' = trace_entry_size(x)
                       /\ CellsOf(x)' = CellsOf(x)
  <2>. TAKE x \in Live
  <2>1. x \in Places
    BY <1>2, LiveFacts
  <2>2. x # b => trace_cells'[x] = trace_cells[x]
    BY <1>10, <1>11, <2>1
  <2>. QED  BY <1>3, <1>13, <2>2 DEF trace_entry_next, trace_entry_size, CellsOf
<1>19. ASSUME NEW x \in Live, NEW k \in CellsOf(x)
       PROVE  /\ trace_cells'[x + k].item = trace_cells[x + k].item
              /\ trace_cells'[x + k].kind = "cell"
              /\ CallOf(x, k)' = IF x = b THEN CallAfter(CallOf(x, k)) ELSE CallOf(x, k)
  <2>1. /\ x + k \in Body(x) /\ x + k \in Places /\ trace_cells[x + k] \in CellRecords
    BY <1>2, CellFacts
  <2>2. CASE x = b
    BY <1>14, <2>1, <2>2 DEF CallOf, CellRecords
  <2>3. CASE x # b
    <3>1. x + k \notin Body(b) /\ x + k # b
      BY <1>2, <1>9, <1>10, <2>1, <2>3, BodyFacts
    <3>. QED  BY <1>11, <2>1, <2>3, <3>1 DEF CallOf, CellRecords
  <2>. QED  BY <2>2, <2>3
<1>20. \A f \in Live : Final(f)' = Final(f)
  BY <1>1, <1>3, <1>4, <1>18 DEF Final
<1>21. /\ \A e \in Live : e # b => (Referred(e)' <=> Referred(e))
       /\ ~Referred(b) /\ Referred(b)'
  <2>1. \A e \in Live : e # b => (e < b + BlockSize <=> e < b)
    <3>. SUFFICES ASSUME NEW e \in Live, e # b PROVE e < b + BlockSize <=> e < b
      OBVIOUS
    <3>1. e \in Nat
      BY <1>2
    <3>2. CASE e < b
      BY <1>2, <1>9, <3>1, <3>2
    <3>3. CASE e > b
      <4>1. e >= word
        BY <1>2, <1>9, <3>1, <3>3
      <4>2. b + BlockSize <= e
        BY <1>6, <1>7, <1>8, <3>3, <4>1
      <4>. QED  BY <1>2, <1>9, <3>1, <3>3, <4>2
    <3>. QED  BY <1>9, <3>1, <3>2, <3>3
  <2>2. b < b + BlockSize /\ ~(b < b)
    BY <1>2, <1>9
  <2>3. at' = b + BlockSize
    BY <1>3, <1>8
  <2>. QED  BY <1>1, <1>3, <1>8, <2>1, <2>2, <2>3 DEF Referred
<1>22. /\ \A f \in Live : CallAfter(f) = Final(f) /\ ParentAfter(f) = Final(f)
       /\ CallAfter(NoEntry) = NoEntry /\ ParentAfter(NoEntry) = NoEntry
  BY <1>1, AfterFacts
<1>23. ASSUME NEW e \in Live, NEW p, NEW f \in Live, Leads(e, p, f)
       PROVE  /\ e # b => Leads(e, p, f)'
              /\ e = b => p = f
  BY <1>20, <1>21, <1>23 DEF Leads
<1>24. \A f \in Live : \A p : p = Final(f) => Leads(b, p, f)'
  BY <1>20, <1>21 DEF Leads
<1>25. ASSUME NEW e \in Live PROVE ComesFrom(e, e)
  <2>1. ASSUME NEW k \in CellsOf(e) PROVE CallKept(e, e, k)
    <3>1. PICK p : p = CallOf(e, k)
      OBVIOUS
    <3>2. PICK q : q = CallOf(e, k)'
      OBVIOUS
    <3>3. q = IF e = b THEN CallAfter(p) ELSE p
      BY <1>19, <3>1, <3>2
    <3>4. p = NoEntry => q = NoEntry
      BY <1>22, <3>3
    <3>5. ASSUME NEW f \in Live, trace_cells[f].n, Leads(e, p, f)
          PROVE  Leads(e, q, f)'
      <4>1. CASE e = b
        <5>1. q = Final(f)
          BY <1>22, <1>23, <3>3, <3>5, <4>1
        <5>2. Leads(b, q, f)'
          BY <1>24, <5>1
        <5>. QED  BY <4>1, <5>2
      <4>2. CASE e # b
        BY <1>23, <3>3, <3>5, <4>2
      <4>. QED  BY <4>1, <4>2
    <3>6. \A f : Leads(e, q, f)' <=> Leads(e, CallOf(e, k), f)'
      BY <3>2 DEF Leads
    <3>. QED  BY <1>17, <1>18, <1>19, <3>1, <3>2, <3>4, <3>5, <3>6 DEF CallKept
  <2>2. ParentSays(e)'
    <3>1. PICK p : p = trace_cells[e].parent
      OBVIOUS
    <3>2. PICK q : q = trace_cells'[e].parent
      OBVIOUS
    <3>3. q = IF e = b THEN ParentAfter(p) ELSE p
      <4>1. e \in Places
        BY <1>2, LiveFacts
      <4>2. CASE e = b
        BY <1>10, <1>11, <3>1, <3>2, <4>2 DEF Headers
      <4>3. CASE e # b
        BY <1>10, <1>11, <3>1, <3>2, <4>1, <4>3
      <4>. QED  BY <4>2, <4>3
    <3>4. ParentSays(e)
      BY <1>2 DEF Content
    <3>5. \A f \in Live : Leads(e, p, f) => Leads(e, q, f)'
      <4>. SUFFICES ASSUME NEW f \in Live, Leads(e, p, f) PROVE Leads(e, q, f)'
        OBVIOUS
      <4>1. CASE e = b
        <5>1. q = Final(f)
          BY <1>22, <1>23, <3>3, <4>1
        <5>2. Leads(b, q, f)'
          BY <1>24, <5>1
        <5>. QED  BY <4>1, <5>2
      <4>2. CASE e # b
        BY <1>23, <3>3, <4>2
      <4>. QED  BY <4>1, <4>2
    <3>6. \A f : Leads(e, q, f)' <=> Leads(e, trace_cells[e].parent, f)'
      BY <3>2 DEF Leads
    <3>7. PICK was : was = stored[trace_cells[e].id].parent
      OBVIOUS
    <3>8. was = stored'[trace_cells'[e].id].parent /\ merged' = merged /\ word' = word
      BY <1>3, <1>18, <3>7
    <3>9. CASE was = 0 /\ p = NoEntry
      <4>1. q = NoEntry
        BY <1>22, <3>3, <3>9
      <4>. QED  BY <3>2, <3>8, <3>9, <4>1 DEF ParentSays
    <3>10. CASE was # 0 /\ \E f \in Live : Leads(e, p, f) /\ trace_cells[f].id = was
      BY <1>17, <1>18, <3>2, <3>5, <3>6, <3>8, <3>10 DEF ParentSays
    <3>11. CASE was \in merged /\ p = NoEntry
      <4>1. q = NoEntry
        BY <1>22, <3>3, <3>11
      <4>. QED  BY <3>2, <3>8, <3>11, <4>1 DEF ParentSays
    <3>12. CASE was \in merged /\ ~Referred(e) /\ p \in Places /\ p >= word /\ ~is_entry(p)
      <4>1. CASE e = b
        <5>1. is_entry(word)
          BY <1>2 DEF Live
        <5>2. p > word
          BY <1>2, <3>12, <5>1 DEF Places
        <5>3. q = NoEntry
          BY <3>3, <3>12, <4>1, <5>2 DEF ParentAfter, CompactOf
        <5>. QED  BY <3>2, <3>8, <3>12, <5>3 DEF ParentSays
      <4>2. CASE e # b
        <5>1. q = p /\ ~Referred(e)' /\ ~is_entry(p)'
          BY <1>16, <1>21, <3>3, <3>12, <4>2
        <5>. QED  BY <1>4, <3>2, <3>8, <3>12, <5>1 DEF ParentSays
      <4>. QED  BY <4>1, <4>2
    <3>. QED  BY <1>1, <3>1, <3>4, <3>7, <3>9, <3>10, <3>11, <3>12 DEF ParentSays
  <2>. QED  BY <1>18, <2>1, <2>2 DEF ComesFrom
<1>26. Content'
  BY <1>2, <1>3, <1>17, <1>25, CompactContent
<1>27. Apart'
  <2>1. /\ \A x \in Live' : trace_entry_next(x)' <= trace_ptr'
        /\ \A x, y \in Live' : x < y => trace_entry_next(x)' <= y
        /\ \A x \in Live' : trace_cells'[x].block => trace_cells'[x].len < BlockSize
    BY <1>2, <1>3, <1>17, <1>18 DEF Apart
  <2>2. ASSUME NEW x \in Live', NEW a \in Body(x)' PROVE trace_cells'[a].kind = "cell"
    <3>1. x \in Live /\ a \in Body(x)
      BY <1>17, <1>18 DEF Body
    <3>2. a - x \in CellsOf(x) /\ a = x + (a - x)
      BY <1>2, <3>1, BodyFacts
    <3>3. trace_cells'[x + (a - x)].kind = "cell"
      BY <1>19, <3>1, <3>2
    <3>. QED  BY <3>2, <3>3
  <2>. QED  BY <2>1, <2>2 DEF Apart
<1>28. Joined' /\ Numbered' /\ Mapped' /\ BelowWord'
  <2>1. Joined'
    <3>. SUFFICES ASSUME NEW e \in Live, e < word
                  PROVE  trace_entry_next(e) \in Live \union {trace_ptr}
      BY <1>3, <1>4, <1>17, <1>18 DEF Joined
    <3>. QED  BY <1>2 DEF Joined
  <2>2. Numbered'
    <3>1. \A x \in Live : trace_cells'[x].id = trace_cells[x].id /\ trace_cells'[x].n = trace_cells[x].n
      BY <1>18
    <3>2. Live' = Live /\ stored' = stored /\ merged' = merged
      BY <1>3, <1>17
    <3>3. /\ \A x \in Live' : /\ trace_cells'[x].id \in DOMAIN stored'
                              /\ trace_cells'[x].n <=> trace_cells'[x].id \notin merged'
          /\ \A x, y \in Live' : x < y => trace_cells'[x].id < trace_cells'[y].id
      BY <1>2, <3>1, <3>2 DEF Numbered
    <3>4. \A i \in DOMAIN stored' \ merged' : \E x \in Live' : trace_cells'[x].id = i
      BY <1>2, <3>1, <3>2 DEF Numbered
    <3>. QED  BY <3>3, <3>4 DEF Numbered
  <2>3. Mapped'
    BY <1>1, <1>2, <1>3, <1>4, <1>17 DEF Mapped
  <2>4. BelowWord'
    <3>1. \A x \in Live : x < word => x # b /\ x \in Places
      BY <1>2, <1>9, LiveFacts
    <3>2. \A x \in Live : x < word => trace_cells'[x] = trace_cells[x]
      BY <1>10, <1>11, <3>1
    <3>3. \A x \in Live : x < word => \A k \in CellsOf(x) : CallOf(x, k)' = CallOf(x, k)
      BY <1>19, <3>1
    <3>4. ASSUME NEW x \in Live, x < word
          PROVE  /\ trace_cells'[x].n /\ trace_cells'[x].parent < word
                 /\ \A k \in CellsOf(x) : CallOf(x, k)' < word
      <4>1. /\ trace_cells[x].n /\ trace_cells[x].parent < word
            /\ \A k \in CellsOf(x) : CallOf(x, k) < word
        BY <1>7, <3>4 DEF BelowWord
      <4>2. trace_cells'[x] = trace_cells[x] /\ \A k \in CellsOf(x) : CallOf(x, k)' = CallOf(x, k)
        BY <3>2, <3>3, <3>4
      <4>. QED  BY <4>1, <4>2
    <3>5. word' = word /\ Live' = Live /\ \A x \in Live : CellsOf(x)' = CellsOf(x)
      BY <1>3, <1>17, <1>18
    <3>. QED  BY <3>4, <3>5 DEF BelowWord
  <2>. QED  BY <2>1, <2>2, <2>3, <2>4
<1>29. Compaction'
  <2>1. Blocks(S)'
    BY <1>3, <1>5, <1>6, <1>17, <1>18 DEF Blocks
  <2>2. PlacesFor(trace_ptr)'
    BY <1>3, <1>7, <1>17, <1>18, <1>20 DEF PlacesFor
  <2>3. Final(word)' = word'
    <3>1. PICK x : x = word
      OBVIOUS
    <3>2. Final(x)' = word /\ word' = x
      BY <1>2, <1>3, <1>7, <1>20, <3>1
    <3>. QED  BY <1>3, <3>1, <3>2 DEF Final
  <2>4. \A e \in Live' : e >= word' => trace_cells'[e].block
    BY <1>3, <1>7, <1>17, <1>18
  <2>5. \A e \in Live' : trace_cells'[e].n
    BY <1>7, <1>17, <1>18
  <2>6. next' <= trace_ptr' /\ word' \in Live' /\ active_entries' = <<>>
    BY <1>2, <1>3, <1>7, <1>17
  <2>. QED  BY <1>3, <1>28, <2>1, <2>2, <2>3, <2>4, <2>5, <2>6 DEF Compaction
<1>30. TypeOK'
  BY <1>2, <1>3, <1>15 DEF TypeOK, Phases
<1>. QED  BY <1>3, <1>4, <1>26, <1>27, <1>28, <1>29, <1>30 DEF Inv

LEMMA ReferRoundInv ==
  ASSUME MemoryAssumption, Inv, ReferRound
  PROVE  Inv'
<1>1. at < trace_ptr \/ at >= trace_ptr
  BY DEF Inv, TypeOK
<1>. QED  BY <1>1, ReferEndInv, SkipInv, ReferEntryInv

(* All entries have been moved.                                            *)
LEMMA MoveEndInv ==
  ASSUME MemoryAssumption, Inv, MoveRound, at >= trace_ptr
  PROVE  Inv'
<1>1. doing = "move" /\ Compacting
  BY DEF MoveRound, Compacting
<1>2. /\ TypeOK /\ Apart /\ Joined /\ Numbered /\ Content /\ Mapped /\ Compaction
      /\ word \in Live /\ word \in Nat /\ word < trace_ptr /\ trace_ptr \in Nat /\ at \in Nat /\ next \in Nat
      /\ active_entries = <<>> /\ ActiveIds = {} /\ BlockSize \in Nat /\ BlockSize > 0
      /\ \A e \in Live : e \in Nat
  BY <1>1, CompactFacts
<1>3. /\ trace_ptr' = next /\ doing' = "map" /\ at' = word /\ next' = trace_entry_next(word)
      /\ index' = DivUp(word) /\ word' = NoEntry
      /\ UNCHANGED <<trace_cells, trace_block_map, active_entries, started, stored, merged>>
  BY <1>1, <1>2 DEF MoveRound, UpdateBlockMap
<1>4. ~Compacting'
  BY <1>3 DEF Compacting
<1>5. PICK S \in SUBSET Places : Blocks(S)
  BY <1>2 DEF Compaction
<1>6. at = trace_ptr
  <2>1. at \in S \union {trace_ptr} /\ S \subseteq word .. trace_ptr - 1
    BY <1>5 DEF Blocks
  <2>. QED  BY <1>2, <2>1
<1>7. /\ \A e \in Live : trace_cells[e].n
      /\ PlacesFor(trace_ptr) /\ next <= trace_ptr
      /\ \A e \in Live : e >= word => IF trace_cells[e].block THEN e >= at ELSE e + trace_entry_size(e) <= at
      /\ BelowWord
  BY <1>1, <1>2 DEF Compaction
<1>8. \A e \in Live : /\ e < trace_ptr /\ trace_entry_next(e) \in Nat /\ e < trace_entry_next(e)
                      /\ trace_entry_size(e) \in Nat /\ trace_entry_size(e) > 0
  <2>. TAKE e \in Live
  <2>1. trace_cells[e].len \in Nat
    BY <1>2, LiveFacts
  <2>2. trace_entry_size(e) \in Nat /\ trace_entry_size(e) > 0
    BY <2>1 DEF trace_entry_size
  <2>3. e < trace_ptr /\ trace_entry_next(e) \in Nat /\ e < trace_entry_next(e)
    BY <1>2, LiveFacts
  <2>. QED  BY <2>2, <2>3
<1>9. ASSUME NEW e \in Live, e >= word
      PROVE  /\ ~trace_cells[e].block /\ Final(e) = e
             /\ trace_entry_next(e) = e + trace_entry_size(e)
  <2>1. ~(e >= at)
    BY <1>2, <1>6, <1>8
  <2>2. ~trace_cells[e].block
    BY <1>7, <1>9, <2>1
  <2>. QED  BY <2>2 DEF Final, trace_entry_next
<1>10. \A e \in Live : Final(e) = e
  <2>1. \A e \in Live : ~(e >= word) => Final(e) = e
    BY DEF Final
  <2>. QED  BY <1>9, <2>1
<1>11. ASSUME NEW e \in Live
       PROVE  /\ e < next /\ trace_entry_next(e) <= next
              /\ trace_entry_next(e) = next \/ trace_entry_next(e) \in Live
  <2>1. ASSUME NEW x \in Live, x >= word
        PROVE  /\ trace_entry_next(x) <= next
               /\ trace_entry_next(x) = next \/ trace_entry_next(x) \in Live
    <3>1. x < trace_ptr /\ Final(x) = x /\ trace_entry_next(x) = x + trace_entry_size(x)
      BY <1>8, <1>9, <2>1
    <3>2. /\ Final(x) + trace_entry_size(x) <= next
          /\ Final(x) + trace_entry_size(x) = next
             \/ \E f \in Live : /\ word <= f /\ f < trace_ptr
                                /\ Final(f) = Final(x) + trace_entry_size(x)
      BY <1>2, <1>7, <2>1, <3>1 DEF PlacesFor
    <3>. QED  BY <1>10, <3>1, <3>2
  <2>2. CASE e >= word
    <3>1. e \in Nat /\ trace_entry_next(e) \in Nat /\ e < trace_entry_next(e)
      BY <1>2, <1>8
    <3>2. trace_entry_next(e) <= next
      BY <2>1, <2>2
    <3>. QED  BY <1>2, <2>1, <2>2, <3>1, <3>2
  <2>3. CASE ~(e >= word)
    <3>0. e \in Nat /\ trace_entry_next(e) \in Nat /\ e < word
      BY <1>2, <1>8, <2>3
    <3>1. trace_entry_next(e) <= word /\ trace_entry_next(e) \in Live \union {trace_ptr}
      BY <1>2, <3>0 DEF Apart, Joined
    <3>2. trace_entry_next(word) <= next /\ word < trace_entry_next(word) /\ trace_entry_next(word) \in Nat
      BY <1>2, <1>8, <2>1
    <3>3. e < next /\ trace_entry_next(e) <= next /\ trace_entry_next(e) # trace_ptr
      BY <1>2, <3>0, <3>1, <3>2
    <3>. QED  BY <3>1, <3>3
  <2>. QED  BY <2>2, <2>3
<1>12. Live' = Live
  <2>1. \A a \in 0 .. next - 1 : a \in 0 .. trace_ptr - 1
    BY <1>2, <1>7
  <2>2. \A e \in Live : e \in 0 .. next - 1
    BY <1>2, <1>11
  <2>3. \A a : is_entry(a)' <=> is_entry(a)
    BY <1>3 DEF is_entry
  <2>4. Live' = {e \in 0 .. next - 1 : is_entry(e)}
    BY <1>3, <2>3 DEF Live
  <2>. QED  BY <2>1, <2>2, <2>4 DEF Live
<1>13. ActiveIds' = {}
  BY <1>2, <1>3 DEF ActiveIds, Active
<1>14. \A e, p : \A f \in Live : Leads(e, p, f) => p = f
  BY <1>1, <1>10 DEF Leads, Referred
<1>15. \A e, p : Leads(e, p, p)'
  BY <1>3, <1>4 DEF Leads, Referred, Final
<1>16. ASSUME NEW e \in Live PROVE ParentSays(e)'
  <2>1. PICK p : p = trace_cells[e].parent
    OBVIOUS
  <2>2. ParentSays(e)
    BY <1>2 DEF Content
  <2>3. \A f \in Live : Leads(e, p, f) => p = f
    BY <1>14
  <2>4. Leads(e, p, p)'
    BY <1>15
  <2>5. \A f : Leads(e, trace_cells[e].parent, f)' <=> Leads(e, p, f)'
    BY <1>3, <2>1 DEF Leads
  <2>6. Referred(e)
    BY <1>1 DEF Referred
  <2>7. trace_cells' = trace_cells /\ stored' = stored /\ merged' = merged
    BY <1>3
  <2>. QED  BY <1>12, <2>1, <2>2, <2>3, <2>4, <2>5, <2>6, <2>7 DEF ParentSays
<1>17. ASSUME NEW e \in Live PROVE ComesFrom(e, e)
  <2>1. ASSUME NEW k \in CellsOf(e) PROVE CallKept(e, e, k)
    <3>1. PICK p : p = CallOf(e, k)
      OBVIOUS
    <3>2. p = CallOf(e, k)'
      BY <1>3, <3>1 DEF CallOf
    <3>3. \A f \in Live : Leads(e, CallOf(e, k), f) => p = f
      BY <1>14, <3>1
    <3>4. Leads(e, p, p)'
      BY <1>15
    <3>5. Leads(e, CallOf(e, k), p)'
      BY <3>2, <3>4 DEF Leads
    <3>. QED  BY <1>3, <1>12, <3>1, <3>2, <3>3, <3>5 DEF CallKept
  <2>. QED  BY <1>3, <1>16, <2>1 DEF ComesFrom
<1>18. Content'
  BY <1>2, <1>3, <1>12, <1>13, <1>17, CompactContent
<1>19. \A x : trace_entry_next(x)' = trace_entry_next(x)
  BY <1>3 DEF trace_entry_next, trace_entry_size
<1>20. Apart' /\ Numbered' /\ Joined'
  <2>1. Apart'
    BY <1>2, <1>3, <1>11, <1>12, <1>19 DEF Apart, Body
  <2>2. Numbered'
    BY <1>2, <1>3, <1>12 DEF Numbered
  <2>3. Joined'
    BY <1>3, <1>11, <1>12, <1>19 DEF Joined
  <2>. QED  BY <2>1, <2>2, <2>3
<1>21. DivUp(word) \in Nat /\ word <= DivUp(word) * MapBlock /\ \A i \in Int : i < DivUp(word) => i * MapBlock < word
  BY <1>2, DivUpFacts
<1>22. Mapped'
  <2>. SUFFICES ASSUME NEW i \in DOMAIN trace_block_map, i < DivUp(word)
                PROVE  trace_block_map[i] \in Live /\ trace_block_map[i] <= i * MapBlock
    BY <1>3, <1>12 DEF Mapped
  <2>1. i \in Int
    BY <1>2, MapFacts
  <2>2. i * MapBlock < word
    BY <1>21, <2>1
  <2>. QED  BY <1>1, <1>2, <2>2 DEF Mapped
<1>23. Base' = next
  BY <1>2, <1>3 DEF Base
<1>24. ASSUME NEW e \in Live
       PROVE  /\ trace_cells[e].parent < next
              /\ \A k \in CellsOf(e) : CallOf(e, k) < next
  <2>1. NoEntry < next
    BY <1>2 DEF NoEntry
  <2>2. trace_cells[e].parent < next
    <3>1. ParentSays(e) /\ Referred(e)
      BY <1>1, <1>2 DEF Content, Referred
    <3>2. trace_cells[e].parent = NoEntry \/ trace_cells[e].parent \in Live
      BY <1>14, <3>1 DEF ParentSays
    <3>. QED  BY <1>11, <2>1, <3>2
  <2>3. ASSUME NEW k \in CellsOf(e) PROVE CallOf(e, k) < next
    <3>1. CellSays(e, k)
      BY <1>2 DEF Content
    <3>2. CallOf(e, k) = NoEntry \/ CallOf(e, k) \in Live
      BY <1>14, <3>1 DEF CellSays, CallSays
    <3>. QED  BY <1>11, <2>1, <3>2
  <2>. QED  BY <2>2, <2>3
<1>25. \A e \in Live' : e < Base' /\ ~(e >= Base') /\ ~(e > Base') /\ e # Base'
  BY <1>2, <1>11, <1>12, <1>23
<1>26. Based'
  <2>1. \A e : CellsOf(e)' = CellsOf(e)
    BY <1>3 DEF CellsOf
  <2>2. \A e, k : CallOf(e, k)' = CallOf(e, k)
    BY <1>3 DEF CallOf
  <2>3. \A e \in Live' : /\ trace_cells'[e].parent < Base' /\ trace_cells'[e].n
                         /\ \A k \in CellsOf(e)' : CallOf(e, k)' < Base'
    BY <1>3, <1>7, <1>12, <1>23, <1>24, <2>1, <2>2
  <2>. QED  BY <1>25, <2>3 DEF Based
<1>27. Reduced'
  <2>1. AsMade' /\ OneCell'
    BY <1>25 DEF AsMade, OneCell
  <2>2. \A e \in Live' : e >= Base' => \A id \in merged' : id < trace_cells'[e].id
    BY <1>25
  <2>3. DOMAIN active_entries' = {}
    BY <1>2, <1>3
  <2>. QED  BY <1>3, <1>7, <1>12, <2>1, <2>2, <2>3 DEF Reduced
<1>28. Mapping'
  <2>1. at' <= index' * MapBlock /\ at' \in Live'
    BY <1>2, <1>3, <1>12, <1>21
  <2>2. at' < trace_ptr'
    BY <1>2, <1>3, <1>11
  <2>3. PICK x : x = word
    OBVIOUS
  <2>4. next' = trace_entry_next(x)' /\ at' = x
    BY <1>3, <1>19, <2>3
  <2>. QED  BY <2>1, <2>2, <2>4 DEF Mapping, trace_entry_next, trace_entry_size
<1>29. TypeOK'
  <2>1. next \in 0 .. TraceSize - 1
    <3>1. trace_ptr \in 0 .. TraceSize - 1 /\ TraceSize \in Nat
      BY <1>2 DEF TypeOK, MemoryAssumption
    <3>. QED  BY <1>2, <1>7, <3>1
  <2>2. trace_entry_next(word) \in Nat /\ NoEntry \in PlacesOrNone
    BY <1>2, <1>8 DEF PlacesOrNone
  <2>. QED  BY <1>2, <1>3, <1>21, <2>1, <2>2 DEF TypeOK, Phases
<1>. QED  BY <1>3, <1>4, <1>18, <1>20, <1>22, <1>26, <1>27, <1>28, <1>29 DEF Inv

(* An entry is moved to its place, over what was left of others.           *)
(* What m has, after the entry of that size has been moved from b.         *)
MovedSays(m, b, to, size) ==
  /\ \A a \in Places : a = to =>
       m[a] = [trace_cells[b] EXCEPT !.block = FALSE, !.compact = NoEntry]
  /\ \A a \in Places : a > to /\ a < to + size => m[a] = trace_cells[b + (a - to)]
  /\ \A a \in Places : (a < to \/ a >= to + size) /\ (a < b \/ a >= b + size) => m[a] = trace_cells[a]
  /\ \A a \in Places : (a < to \/ a >= to + size) /\ a >= b /\ a < b + size => m[a] = Zero

LEMMA MovedCells ==
  ASSUME trace_cells \in [Places -> Records], NEW b \in Nat, NEW to \in Nat, to <= b,
         to = trace_cells[b].compact, NEW size \in Nat, size > 0, size = trace_entry_size(b)
  PROVE  MovedSays(Moved(b), b, to, size)
<1>. DEFINE zero_size == Least(size, b - to)
            header == [trace_cells[b] EXCEPT !.block = FALSE, !.compact = NoEntry]
<1>1. Moved(b) = [a \in Places |->
         IF a = to THEN header
         ELSE IF a \in to .. to + size - 1 THEN trace_cells[b + (a - to)]
         ELSE IF a \in b + (size - zero_size) .. b + size - 1 THEN Zero
         ELSE trace_cells[a]]
  BY DEF Moved
<1>2. zero_size \in Nat /\ zero_size <= size /\ (zero_size = size \/ zero_size = b - to)
  BY DEF Least
<1>3. \A a \in Places : a \in Nat
  BY DEF Places
<1>. HIDE DEF zero_size, header
<1>4. ASSUME NEW a \in Places, a = to PROVE Moved(b)[a] = header
  BY <1>1, <1>4
<1>5. ASSUME NEW a \in Places, a > to, a < to + size PROVE Moved(b)[a] = trace_cells[b + (a - to)]
  <2>1. a # to /\ a \in to .. to + size - 1
    BY <1>3, <1>5
  <2>. QED  BY <1>1, <2>1
<1>6. ASSUME NEW a \in Places, a < to \/ a >= to + size, a < b \/ a >= b + size
      PROVE  Moved(b)[a] = trace_cells[a]
  <2>1. a # to /\ a \notin to .. to + size - 1 /\ a \notin b + (size - zero_size) .. b + size - 1
    BY <1>2, <1>3, <1>6
  <2>. QED  BY <1>1, <2>1
<1>7. ASSUME NEW a \in Places, a < to \/ a >= to + size, a >= b, a < b + size
      PROVE  Moved(b)[a] = Zero
  <2>1. a # to /\ a \notin to .. to + size - 1
    BY <1>3, <1>7
  <2>2. a \in b + (size - zero_size) .. b + size - 1
    BY <1>2, <1>3, <1>7
  <2>. QED  BY <1>1, <2>1, <2>2
<1>. QED  BY <1>4, <1>5, <1>6, <1>7 DEF header, MovedSays

LEMMA MoveEntryInv ==
  ASSUME MemoryAssumption, Inv, MoveRound, at < trace_ptr, is_persistent(at)
  PROVE  Inv'
<1>1. doing = "move" /\ Compacting
  BY DEF MoveRound, Compacting
<1>2. /\ TypeOK /\ Apart /\ Joined /\ Numbered /\ Content /\ Mapped /\ Compaction
      /\ word \in Live /\ word \in Nat /\ trace_ptr \in Nat /\ at \in Nat /\ next \in Nat
      /\ active_entries = <<>> /\ ActiveIds = {} /\ BlockSize \in Nat /\ BlockSize > 0
      /\ \A e \in Live : e \in Nat
  BY <1>1, CompactFacts
<1>3. /\ trace_cells' = Moved(at) /\ at' = at + BlockSize /\ doing' = "move"
      /\ UNCHANGED <<next, trace_ptr, trace_block_map, active_entries, word, index, started, stored, merged>>
  BY <1>1, <1>2 DEF MoveRound
<1>4. Compacting'
  BY <1>3 DEF Compacting
<1>5. PICK S \in SUBSET Places : Blocks(S)
  BY <1>2 DEF Compaction
<1>6. PICK b : b = at
  OBVIOUS
<1>7. /\ b \in Nat /\ b >= word /\ b < trace_ptr /\ b + BlockSize \in S \union {trace_ptr}
      /\ b + BlockSize <= trace_ptr
      /\ \A e \in Live : e >= word /\ trace_cells[e].block /\ e > b => b + BlockSize <= e
      /\ is_entry(b)
  BY <1>1, <1>2, <1>5, <1>6, BlockFacts DEF is_persistent
<1>8. /\ \A e \in Live : trace_cells[e].n
      /\ PlacesFor(trace_ptr) /\ Final(word) = word /\ next <= trace_ptr
      /\ \A e \in Live : e >= word => IF trace_cells[e].block THEN e >= b ELSE e + trace_entry_size(e) <= b
      /\ BelowWord
  BY <1>1, <1>2, <1>6 DEF Compaction
<1>9. b \in Live
  <2>1. b \in 0 .. trace_ptr - 1
    BY <1>2, <1>7
  <2>. QED  BY <1>7, <2>1 DEF Live
<1>10. \A e \in Live : /\ e \in Places /\ e < trace_ptr /\ trace_cells[e] \in Headers
                       /\ trace_cells[e].len \in Nat
                       /\ trace_entry_size(e) \in Nat /\ trace_entry_size(e) = trace_cells[e].len + 1
                       /\ trace_entry_next(e) \in Nat /\ e + trace_cells[e].len < trace_entry_next(e)
  <2>. TAKE e \in Live
  <2>1. /\ e \in Places /\ e < trace_ptr /\ trace_cells[e] \in Headers /\ trace_cells[e].len \in Nat
        /\ trace_entry_next(e) \in Nat /\ e + trace_cells[e].len < trace_entry_next(e)
    BY <1>2, LiveFacts
  <2>2. trace_entry_size(e) \in Nat /\ trace_entry_size(e) = trace_cells[e].len + 1
    BY <2>1 DEF trace_entry_size
  <2>. QED  BY <2>1, <2>2
<1>11. PICK size : size = trace_entry_size(b)
  OBVIOUS
<1>12. size \in Nat /\ size > 0 /\ size = trace_cells[b].len + 1
  BY <1>9, <1>10, <1>11
<1>13. trace_cells[b].block /\ size <= BlockSize
  <2>1. trace_cells[b].block
    <3>1. IF trace_cells[b].block THEN b >= b ELSE b + trace_entry_size(b) <= b
      BY <1>7, <1>8, <1>9
    <3>2. ~(b + trace_entry_size(b) <= b)
      BY <1>7, <1>11, <1>12
    <3>. QED  BY <3>1, <3>2
  <2>2. trace_cells[b].len < BlockSize
    BY <1>2, <1>9, <2>1 DEF Apart
  <2>. QED  BY SMTT(30), <1>2, <1>9, <1>10, <1>12, <2>1, <2>2
<1>a. b + size <= b + BlockSize
  BY <1>2, <1>7, <1>12, <1>13
<1>14. PICK to : to = Final(b)
  OBVIOUS
<1>15. /\ to \in Nat /\ to <= b /\ to >= word /\ to = trace_cells[b].compact
       /\ b = word => to = word
  <2>1. to = trace_cells[b].compact
    BY <1>1, <1>7, <1>13, <1>14 DEF Final
  <2>2. to \in Nat /\ to <= b /\ to >= word
    BY <1>1, <1>7, <1>9, <1>14, FinalFacts
  <2>. QED  BY <1>8, <1>14, <2>1, <2>2
(* The others are out of the way.                                          *)
<1>16. ASSUME NEW x \in Live, x # b
       PROVE  trace_entry_next(x) <= to \/ b + BlockSize <= x
  <2>0. /\ x \in Nat /\ trace_entry_next(x) \in Nat /\ trace_entry_size(x) \in Nat /\ x < trace_ptr
        /\ trace_entry_size(x) > 0
    BY SMTT(30), <1>2, <1>10
  <2>1. CASE x < word
    <3>1. trace_entry_next(x) <= word
      BY <1>2, <2>1 DEF Apart
    <3>. QED  BY <1>2, <1>15, <2>0, <3>1
  <2>2. CASE x >= word /\ ~trace_cells[x].block
    <3>1. x + trace_entry_size(x) <= b /\ trace_entry_next(x) = x + trace_entry_size(x) /\ Final(x) = x
      BY <1>8, <2>2 DEF trace_entry_next, Final
    <3>2. x < b
      BY <1>7, <2>0, <3>1
    <3>3. Final(x) + trace_entry_size(x) <= Final(b)
      BY <1>7, <1>8, <1>9, <2>2, <3>2 DEF PlacesFor
    <3>. QED  BY <1>14, <3>1, <3>3
  <2>3. CASE x >= word /\ trace_cells[x].block
    <3>1. x >= b
      BY <1>8, <2>3
    <3>2. x > b
      BY <1>7, <1>16, <2>0, <3>1
    <3>. QED  BY <1>7, <2>3, <3>2
  <2>. QED  BY <1>2, <2>0, <2>1, <2>2, <2>3
<1>17. /\ to \in Places
       /\ \A k \in CellsOf(b) : /\ k \in Nat /\ k > 0 /\ k < size /\ to + k \in Places /\ b + k \in Places
                                /\ trace_cells[b + k] \in CellRecords
  <2>1. \A k \in CellsOf(b) : /\ k \in Nat /\ k > 0 /\ k < size /\ b + k \in Places
                              /\ trace_cells[b + k] \in CellRecords
    <3>. TAKE k \in CellsOf(b)
    <3>1. /\ k \in Nat /\ k > 0 /\ k <= trace_cells[b].len /\ b + k \in Places
          /\ trace_cells[b + k] \in CellRecords
      BY <1>2, <1>9, CellFacts
    <3>2. k < size
      BY <1>9, <1>10, <1>12, <3>1
    <3>. QED  BY <3>1, <3>2
  <2>2. TraceSize \in Nat /\ b \in Places
    BY <1>9, <1>10 DEF MemoryAssumption
  <2>3. to \in Places
    BY <1>15, <2>2 DEF Places
  <2>4. \A k \in CellsOf(b) : to + k \in Places
    <3>. TAKE k \in CellsOf(b)
    <3>1. k \in Nat /\ b + k \in Places
      BY <2>1
    <3>. QED  BY <1>7, <1>15, <2>2, <3>1 DEF Places
  <2>. QED  BY <2>1, <2>3, <2>4
<1>18. trace_cells' = Moved(b) /\ trace_cells \in [Places -> Records]
  BY <1>2, <1>3, <1>6 DEF TypeOK
<1>19. MovedSays(trace_cells', b, to, size)
  <2>1. MovedSays(Moved(b), b, to, size)
    BY <1>7, <1>11, <1>12, <1>15, <1>18, MovedCells
  <2>. QED  BY <1>18, <2>1
<1>20. /\ trace_cells'[to] = [trace_cells[b] EXCEPT !.block = FALSE, !.compact = NoEntry]
       /\ trace_cells'[to] \in Headers /\ ~trace_cells'[to].block /\ trace_cells'[to].compact = NoEntry
       /\ trace_cells'[to].id = trace_cells[b].id /\ trace_cells'[to].len = trace_cells[b].len
       /\ trace_cells'[to].n = trace_cells[b].n /\ trace_cells'[to].parent = trace_cells[b].parent
  <2>1. trace_cells'[to] = [trace_cells[b] EXCEPT !.block = FALSE, !.compact = NoEntry]
    BY <1>17, <1>19 DEF MovedSays
  <2>2. trace_cells[b] \in Headers /\ NoEntry \in PlacesOrNone
    BY <1>9, <1>10 DEF PlacesOrNone
  <2>. QED  BY <2>1, <2>2 DEF Headers
<1>21. \A k \in CellsOf(b) : trace_cells'[to + k] = trace_cells[b + k]
  <2>. TAKE k \in CellsOf(b)
  <2>1. k \in Nat /\ k > 0 /\ k < size /\ to + k \in Places
    BY <1>17
  <2>2. to + k > to /\ to + k < to + size /\ b + ((to + k) - to) = b + k
    BY <1>7, <1>12, <1>15, <2>1
  <2>. QED  BY <1>19, <2>1, <2>2 DEF MovedSays
<1>22. ASSUME NEW x \in Live, x # b
       PROVE  /\ x # to /\ trace_cells'[x] = trace_cells[x]
              /\ \A k \in CellsOf(x) : trace_cells'[x + k] = trace_cells[x + k]
  <2>0. /\ x \in Nat /\ x \in Places /\ trace_entry_next(x) \in Nat /\ x < trace_entry_next(x)
        /\ \A k \in CellsOf(x) : x + k \in Places /\ x + k \in Nat /\ x < x + k /\ x + k < trace_entry_next(x)
    <3>1. x \in Nat /\ x \in Places /\ trace_entry_next(x) \in Nat /\ x < trace_entry_next(x)
      BY <1>2, LiveFacts
    <3>2. \A k \in CellsOf(x) : x + k \in Places /\ k \in Nat /\ x < x + k /\ x + k < trace_entry_next(x)
      BY <1>2, CellFacts
    <3>. QED  BY <3>1, <3>2
  <2>1. \A a \in Nat : x <= a /\ a < trace_entry_next(x) =>
          (a < to \/ a >= to + size) /\ (a < b \/ a >= b + size)
    <3>. TAKE a \in Nat
    <3>1. CASE trace_entry_next(x) <= to
      BY <1>7, <1>12, <1>15, <2>0, <3>1
    <3>2. CASE b + BlockSize <= x
      <4>1. to + size <= x /\ b + size <= x
        <5>1. b \in Nat /\ to \in Nat /\ size \in Nat /\ BlockSize \in Nat /\ x \in Nat /\ to <= b
          BY <1>2, <1>7, <1>12, <1>15, <2>0
        <5>. QED  BY <1>a, <3>2, <5>1
      <4>. QED  BY <1>7, <1>12, <1>15, <2>0, <4>1
    <3>. QED  BY <1>16, <1>22, <3>1, <3>2
  <2>2. x # to
    BY <1>12, <1>15, <2>0, <2>1
  <2>3. trace_cells'[x] = trace_cells[x]
    BY <1>19, <2>0, <2>1 DEF MovedSays
  <2>4. \A k \in CellsOf(x) : trace_cells'[x + k] = trace_cells[x + k]
    BY <1>19, <2>0, <2>1 DEF MovedSays
  <2>. QED  BY <2>2, <2>3, <2>4
<1>23. trace_cells' \in [Places -> Records]
  <2>1. ASSUME NEW a \in Places PROVE trace_cells'[a] \in Records
    <3>0. a \in Nat
      BY DEF Places
    <3>1. CASE a = to
      BY <1>20, <3>1 DEF Records
    <3>2. CASE a > to /\ a < to + size
      <4>1. a - to \in CellsOf(b)
        BY <1>9, <1>10, <1>12, <1>15, <3>0, <3>2 DEF CellsOf
      <4>. QED  BY <1>17, <1>19, <3>2, <4>1 DEF Records, MovedSays
    <3>3. CASE a < to \/ a >= to + size
      <4>1. trace_cells[a] \in Records /\ Zero \in Records
        BY <1>18 DEF Records
      <4>. QED  BY <1>7, <1>12, <1>19, <3>0, <3>3, <4>1 DEF MovedSays
    <3>. QED  BY <1>12, <1>15, <3>0, <3>1, <3>2, <3>3
  <2>2. DOMAIN trace_cells' = Places
    BY <1>18 DEF Moved
  <2>3. trace_cells' = [a \in Places |-> trace_cells'[a]]
    BY <1>18 DEF Moved
  <2>. QED  BY <2>1, <2>3
<1>24. \A a \in Places : is_entry(a)' => a = to \/ (is_entry(a) /\ a # b)
  <2>. SUFFICES ASSUME NEW a \in Places, trace_cells'[a].kind = "entry", a # to
                PROVE  trace_cells[a].kind = "entry" /\ a # b
    BY DEF is_entry
  <2>0. a \in Nat
    BY DEF Places
  <2>1. ~(a > to /\ a < to + size)
    <3>. SUFFICES ASSUME a > to, a < to + size PROVE FALSE
      OBVIOUS
    <3>1. a - to \in CellsOf(b)
      BY <1>9, <1>10, <1>12, <1>15, <2>0 DEF CellsOf
    <3>. QED  BY <1>17, <1>19, <3>1 DEF CellRecords, MovedSays
  <2>2. a < to \/ a >= to + size
    BY <1>12, <1>15, <2>0, <2>1
  <2>3. ~(a >= b /\ a < b + size)
    BY <1>19, <2>2 DEF Zero, MovedSays
  <2>4. a < b \/ a >= b + size
    BY <1>7, <1>12, <2>0, <2>3
  <2>. QED  BY <1>7, <1>12, <1>19, <2>2, <2>3, <2>4 DEF MovedSays
<1>25. Live' = (Live \ {b}) \union {to}
  <2>1. \A a \in 0 .. trace_ptr - 1 : a \in Places
    BY <1>2 DEF Places, TypeOK, MemoryAssumption
  <2>2. to \in 0 .. trace_ptr - 1 /\ is_entry(to)'
    BY <1>2, <1>7, <1>15, <1>20 DEF is_entry, Headers
  <2>3. \A x \in Live : x # b => is_entry(x)'
    BY <1>22 DEF is_entry, Live
  <2>4. Live' = {e \in 0 .. trace_ptr - 1 : is_entry(e)'}
    BY <1>3 DEF Live
  <2>. QED  BY <1>24, <2>1, <2>2, <2>3, <2>4 DEF Live
<1>26. ActiveIds' = {}
  BY <1>2, <1>3 DEF ActiveIds, Active
(* Where each entry was, and where it is.                                  *)
<1>. DEFINE Old(x) == IF x = to THEN b ELSE x
            New(f) == IF f = b THEN to ELSE f
<1>27. /\ \A x \in Live' : x # to => x \in Live /\ x # b
       /\ \A f \in Live : f # b => f \in Live'
       /\ to \in Live' /\ (to \in Live => to = b)
  <2>1. to \in Live => to = b
    BY <1>22
  <2>. QED  BY <1>25, <2>1
<1>28. ASSUME NEW f \in Live
       PROVE  /\ New(f) \in Live' /\ Old(New(f)) = f /\ New(f) \in Nat
              /\ f >= word => New(f) >= word
              /\ New(f) < trace_ptr
  <2>1. CASE f = b
    BY <1>2, <1>7, <1>15, <1>27, <2>1
  <2>2. CASE f # b
    BY <1>2, <1>10, <1>22, <1>27, <1>28, <2>2
  <2>. QED  BY <2>1, <2>2
<1>29. ASSUME NEW x \in Live'
       PROVE  /\ Old(x) \in Live /\ New(Old(x)) = x
              /\ trace_cells'[x].id = trace_cells[Old(x)].id
              /\ trace_cells'[x].len = trace_cells[Old(x)].len
              /\ trace_cells'[x].n = trace_cells[Old(x)].n
              /\ trace_cells'[x].parent = trace_cells[Old(x)].parent
              /\ CellsOf(x)' = CellsOf(Old(x))
              /\ trace_entry_size(x)' = trace_entry_size(Old(x))
              /\ \A k \in CellsOf(Old(x)) : trace_cells'[x + k] = trace_cells[Old(x) + k]
  <2>1. CASE x = to
    BY <1>9, <1>20, <1>21, <2>1 DEF CellsOf, trace_entry_size
  <2>2. CASE x # to
    <3>1. x \in Live /\ x # b
      BY <1>27, <2>2
    <3>2. trace_cells'[x] = trace_cells[x] /\ \A k \in CellsOf(x) : trace_cells'[x + k] = trace_cells[x + k]
      BY <1>22, <3>1
    <3>. QED  BY <2>2, <3>1, <3>2 DEF CellsOf, trace_entry_size
  <2>. QED  BY <2>1, <2>2
<1>30. ASSUME NEW x \in Live', x # to
       PROVE  /\ x \in Live /\ x # b /\ x \in Nat /\ trace_entry_next(x) \in Nat /\ x < trace_entry_next(x)
              /\ trace_cells'[x] = trace_cells[x]
              /\ trace_entry_next(x)' = trace_entry_next(x)
              /\ trace_entry_next(x) <= to \/ b + BlockSize <= x
  <2>1. x \in Live /\ x # b
    BY <1>27, <1>30
  <2>2. trace_cells'[x] = trace_cells[x] /\ (trace_entry_next(x) <= to \/ b + BlockSize <= x)
    BY <1>16, <1>22, <2>1
  <2>3. x \in Nat /\ trace_entry_next(x) \in Nat /\ x < trace_entry_next(x)
    BY <1>2, <2>1, LiveFacts
  <2>. QED  BY <2>1, <2>2, <2>3 DEF trace_entry_next, trace_entry_size
<1>b. b + BlockSize \in Nat /\ to + size \in Nat /\ to + size <= b + BlockSize
  <2>1. b \in Nat /\ to \in Nat /\ size \in Nat /\ BlockSize \in Nat /\ to <= b
    BY <1>2, <1>7, <1>12, <1>15
  <2>. QED  BY <1>a, <2>1
<1>31. trace_entry_next(to)' = to + size /\ to + size <= b + BlockSize
  <2>1. trace_entry_next(to)' = to + trace_entry_size(to)' /\ trace_entry_size(to)' = trace_entry_size(b)
    BY <1>3, <1>20, <1>27, <1>29 DEF trace_entry_next
  <2>. QED  BY <1>b, <1>11, <2>1
<1>32. ASSUME NEW x \in Live', NEW y \in Live', x < y
       PROVE  trace_entry_next(x)' <= y /\ Old(x) < Old(y)
  <2>1. CASE x = to
    <3>1. y # to
      BY <1>15, <1>32, <2>1
    <3>2. /\ y \in Nat /\ y < trace_entry_next(y) /\ trace_entry_next(y) \in Nat
          /\ trace_entry_next(y) <= to \/ b + BlockSize <= y
      BY <1>30, <3>1
    <3>3. b + BlockSize <= y
      BY <1>15, <1>32, <2>1, <3>2
    <3>4. y > b
      BY <1>2, <1>7, <3>2, <3>3
    <3>5. trace_entry_next(to)' <= y
      <4>1. b + BlockSize \in Nat /\ to + size \in Nat /\ y \in Nat /\ to + size <= b + BlockSize
        BY <1>b, <3>2
      <4>2. to + size <= y
        BY <3>3, <4>1
      <4>. QED  BY <1>31, <4>2
    <3>. QED  BY <1>7, <2>1, <3>1, <3>4, <3>5
  <2>2. CASE x # to /\ y = to
    <3>1. /\ x \in Nat /\ x < trace_entry_next(x) /\ trace_entry_next(x) \in Nat
          /\ trace_entry_next(x)' = trace_entry_next(x)
          /\ trace_entry_next(x) <= to \/ b + BlockSize <= x
      BY <1>30, <2>2
    <3>2. ~(b + BlockSize <= x)
      BY <1>2, <1>7, <1>15, <1>32, <2>2, <3>1
    <3>3. x < b
      BY <1>7, <1>15, <1>32, <2>2, <3>1
    <3>. QED  BY <2>2, <3>1, <3>2, <3>3
  <2>3. CASE x # to /\ y # to
    <3>1. x \in Live /\ y \in Live /\ trace_entry_next(x)' = trace_entry_next(x)
      BY <1>30, <2>3
    <3>2. trace_entry_next(x) <= y
      BY <1>2, <1>32, <3>1 DEF Apart
    <3>. QED  BY <1>32, <2>3, <3>1, <3>2
  <2>. QED  BY <2>1, <2>2, <2>3
<1>33. ASSUME NEW f \in Live PROVE Final(New(f))' = Final(f)
  <2>1. PICK g : g = New(f)
    OBVIOUS
  <2>2. CASE f = b
    <3>1. g = to
      BY <2>1, <2>2
    <3>2. Final(g)' = to
      BY <1>20, <3>1 DEF Final
    <3>. QED  BY <1>14, <2>1, <2>2, <3>2
  <2>3. CASE f # b
    <3>1. g = f /\ trace_cells'[f] = trace_cells[f]
      BY <1>22, <2>1, <2>3
    <3>2. Final(g)' = Final(f)
      BY <1>1, <1>3, <1>4, <3>1 DEF Final
    <3>. QED  BY <2>1, <3>2
  <2>. QED  BY <2>2, <2>3
<1>34. \A x \in Live' : Final(x)' = Final(Old(x))
  <2>. SUFFICES ASSUME NEW x \in Live' PROVE Final(x)' = Final(Old(x))
    OBVIOUS
  <2>1. PICK f \in Live : f = Old(x)
    BY <1>29
  <2>2. New(f) = x
    BY <1>29, <2>1
  <2>3. Final(New(f))' = Final(f)
    BY <1>33
  <2>. QED  BY <2>1, <2>2, <2>3 DEF Final
<1>. HIDE DEF Old, New
<1>35. ASSUME NEW e, NEW d, NEW p, NEW f \in Live, Leads(d, p, f)
       PROVE  Leads(e, p, New(f))'
  <2>1. p = Final(f)
    BY <1>1, <1>35 DEF Leads, Referred
  <2>2. PICK g : g = New(f)
    OBVIOUS
  <2>3. Final(g)' = Final(f)
    BY <1>33, <2>2 DEF Final
  <2>4. Leads(e, p, g)'
    BY <1>3, <2>1, <2>3 DEF Leads, Referred
  <2>. QED  BY <2>2, <2>4 DEF Leads
<1>36. ASSUME NEW f \in Live
       PROVE  /\ New(f) \in Live' /\ trace_cells'[New(f)].id = trace_cells[f].id
              /\ trace_cells'[New(f)].n = trace_cells[f].n
  BY <1>28, <1>29
<1>37. ASSUME NEW e \in Live' PROVE ComesFrom(e, Old(e))
  <2>1. PICK d \in Live : d = Old(e)
    BY <1>29
  <2>2. ASSUME NEW k \in CellsOf(d) PROVE CallKept(e, d, k)
    <3>1. trace_cells'[e + k] = trace_cells[d + k]
      BY <1>29, <2>1, <2>2
    <3>2. PICK p : p = CallOf(d, k)
      OBVIOUS
    <3>3. p = CallOf(e, k)'
      BY <3>1, <3>2 DEF CallOf
    <3>4. ASSUME NEW f \in Live, trace_cells[f].n, Leads(d, CallOf(d, k), f)
          PROVE  \E g \in Live' : /\ trace_cells'[g].n /\ trace_cells'[g].id = trace_cells[f].id
                                  /\ Leads(e, CallOf(e, k), g)'
      <4>1. PICK g \in Live' : g = New(f)
        BY <1>36
      <4>2. Leads(d, p, f)
        BY <3>2, <3>4
      <4>3. Leads(e, p, g)'
        BY <1>35, <4>1, <4>2 DEF Leads
      <4>4. Leads(e, CallOf(e, k), g)'
        BY <3>3, <4>3 DEF Leads
      <4>. QED  BY <1>36, <3>4, <4>1, <4>4
    <3>. QED  BY <3>1, <3>2, <3>3, <3>4 DEF CallKept
  <2>3. ParentSays(e)'
    <3>1. PICK p : p = trace_cells[d].parent
      OBVIOUS
    <3>2. PICK was : was = stored[trace_cells[d].id].parent
      OBVIOUS
    <3>3. p = trace_cells'[e].parent /\ was = stored'[trace_cells'[e].id].parent /\ merged' = merged
      BY <1>3, <1>29, <2>1, <3>1, <3>2
    <3>4. ParentSays(d) /\ Referred(d)
      BY <1>1, <1>2 DEF Content, Referred
    <3>5. CASE was # 0 /\ \E f \in Live : Leads(d, p, f) /\ trace_cells[f].id = was
      <4>1. PICK f \in Live : Leads(d, p, f) /\ trace_cells[f].id = was
        BY <3>5
      <4>2. PICK g \in Live' : g = New(f)
        BY <1>36
      <4>3. Leads(e, p, g)'
        BY <1>35, <4>1, <4>2 DEF Leads
      <4>4. trace_cells'[g].id = was
        BY <1>36, <4>1, <4>2
      <4>5. Leads(e, trace_cells[e].parent, g)'
        BY <3>3, <4>3 DEF Leads
      <4>. QED  BY <3>3, <3>5, <4>4, <4>5 DEF ParentSays
    <3>6. CASE (was = 0 \/ was \in merged) /\ p = NoEntry
      BY <3>3, <3>6 DEF ParentSays
    <3>. QED  BY <3>1, <3>2, <3>4, <3>5, <3>6 DEF ParentSays
  <2>. QED  BY <1>29, <2>1, <2>2, <2>3 DEF ComesFrom
<1>38. Content'
  BY <1>2, <1>3, <1>26, <1>37, CompactContent
<1>39. Apart'
  <2>1. \A x \in Live' : trace_entry_next(x)' <= trace_ptr'
    <3>. SUFFICES ASSUME NEW x \in Live' PROVE trace_entry_next(x)' <= trace_ptr
      BY <1>3
    <3>1. CASE x = to
      <4>1. to + size <= trace_ptr
        BY <1>b, <1>2, <1>7
      <4>2. trace_entry_next(x)' = to + size
        BY <1>31, <3>1
      <4>. QED  BY <4>1, <4>2
    <3>2. CASE x # to
      BY <1>2, <1>30, <3>2 DEF Apart
    <3>. QED  BY <3>1, <3>2
  <2>2. \A x, y \in Live' : x < y => trace_entry_next(x)' <= y
    BY <1>32
  <2>3. \A x \in Live' : trace_cells'[x].block => trace_cells'[x].len < BlockSize
    <3>1. \A x \in Live' : x # to => (trace_cells'[x].block => trace_cells'[x].len < BlockSize)
      BY <1>2, <1>30 DEF Apart
    <3>. QED  BY <1>20, <3>1
  <2>4. ASSUME NEW x \in Live', NEW a \in Body(x)' PROVE trace_cells'[a].kind = "cell"
    <3>1. PICK d \in Live : d = Old(x)
      BY <1>29
    <3>2. trace_cells'[x].len = trace_cells[d].len /\ trace_cells[d].len \in Nat /\ x \in Nat
      BY <1>10, <1>15, <1>29, <1>30, <3>1
    <3>3. a \in x + 1 .. x + trace_cells[d].len
      BY <3>2 DEF Body
    <3>4. a - x \in CellsOf(d) /\ a = x + (a - x)
      BY <3>2, <3>3 DEF CellsOf
    <3>5. trace_cells'[x + (a - x)] = trace_cells[d + (a - x)]
      BY <1>29, <3>1, <3>4
    <3>6. trace_cells[d + (a - x)] \in CellRecords
      BY <1>2, <3>4, CellFacts
    <3>. QED  BY <3>4, <3>5, <3>6 DEF CellRecords
  <2>. QED  BY <2>1, <2>2, <2>3, <2>4 DEF Apart
<1>40. Joined' /\ Numbered' /\ Mapped' /\ BelowWord'
  <2>1. ASSUME NEW x \in Live, x < word
        PROVE  x # b /\ x # to /\ trace_entry_next(x) \in Live' \union {trace_ptr}
    <3>0. x \in Nat /\ trace_entry_next(x) \in Nat /\ x # b /\ x # to
      BY <1>2, <1>7, <1>10, <1>15, <2>1
    <3>1. trace_entry_next(x) \in Live \union {trace_ptr} /\ trace_entry_next(x) <= word
      BY <1>2, <2>1 DEF Joined, Apart
    <3>2. CASE trace_entry_next(x) = b
      <4>1. b = word /\ to = b
        BY <1>2, <1>7, <1>15, <3>1, <3>2
      <4>. QED  BY <1>27, <3>0, <3>2, <4>1
    <3>3. CASE trace_entry_next(x) # b
      BY <1>27, <3>0, <3>1, <3>3
    <3>. QED  BY <3>2, <3>3
  <2>2. Joined'
    <3>. SUFFICES ASSUME NEW x \in Live', x < word
                  PROVE  trace_entry_next(x)' \in Live' \union {trace_ptr}
      BY <1>3, <1>4 DEF Joined
    <3>1. x # to
      BY <1>2, <1>15
    <3>. QED  BY <1>30, <2>1, <3>1
  <2>3. Numbered'
    <3>1. ASSUME NEW x \in Live' PROVE /\ trace_cells'[x].id \in DOMAIN stored'
                                       /\ trace_cells'[x].n <=> trace_cells'[x].id \notin merged'
      <4>1. PICK d \in Live : d = Old(x)
        BY <1>29
      <4>2. trace_cells[d].id \in DOMAIN stored /\ (trace_cells[d].n <=> trace_cells[d].id \notin merged)
        BY <1>2 DEF Numbered
      <4>3. trace_cells'[x].id = trace_cells[d].id /\ trace_cells'[x].n = trace_cells[d].n
        BY <1>29, <4>1
      <4>. QED  BY <1>3, <4>2, <4>3
    <3>2. ASSUME NEW x \in Live', NEW y \in Live', x < y PROVE trace_cells'[x].id < trace_cells'[y].id
      <4>1. Old(x) \in Live /\ Old(y) \in Live /\ Old(x) < Old(y)
        BY <1>29, <1>32, <3>2
      <4>2. trace_cells[Old(x)].id < trace_cells[Old(y)].id
        BY <1>2, <4>1 DEF Numbered
      <4>. QED  BY <1>29, <4>2
    <3>3. ASSUME NEW i \in DOMAIN stored' \ merged' PROVE \E x \in Live' : trace_cells'[x].id = i
      <4>1. PICK f \in Live : trace_cells[f].id = i
        BY <1>2, <1>3, <3>3 DEF Numbered
      <4>. QED  BY <1>36, <4>1
    <3>. QED  BY <3>1, <3>2, <3>3 DEF Numbered
  <2>4. Mapped'
    <3>. SUFFICES ASSUME NEW i \in DOMAIN trace_block_map, i * MapBlock < word
                  PROVE  trace_block_map[i] \in Live' /\ trace_block_map[i] <= i * MapBlock
      BY <1>3, <1>4 DEF Mapped
    <3>1. trace_block_map[i] \in Live /\ trace_block_map[i] <= i * MapBlock
      BY <1>1, <1>2 DEF Mapped
    <3>2. i * MapBlock \in Nat
      BY <1>2, MapFacts
    <3>3. trace_block_map[i] # b
      BY <1>2, <1>7, <3>1, <3>2
    <3>. QED  BY <1>27, <3>1, <3>3
  <2>5. BelowWord'
    <3>. SUFFICES ASSUME NEW x \in Live', x < word
                  PROVE  /\ trace_cells'[x].n /\ trace_cells'[x].parent < word
                         /\ \A k \in CellsOf(x)' : CallOf(x, k)' < word
      BY <1>3 DEF BelowWord
    <3>1. x # to
      BY <1>2, <1>15
    <3>2. x \in Live /\ x # b /\ trace_cells'[x] = trace_cells[x]
          /\ \A k \in CellsOf(x) : trace_cells'[x + k] = trace_cells[x + k]
      BY <1>22, <1>30, <3>1
    <3>3. CellsOf(x)' = CellsOf(x) /\ \A k \in CellsOf(x) : CallOf(x, k)' = CallOf(x, k)
      BY <3>2 DEF CellsOf, CallOf
    <3>4. /\ trace_cells[x].n /\ trace_cells[x].parent < word
          /\ \A k \in CellsOf(x) : CallOf(x, k) < word
      BY <1>8, <3>2 DEF BelowWord
    <3>. QED  BY <3>2, <3>3, <3>4
  <2>. QED  BY <2>2, <2>3, <2>4, <2>5
<1>41. Blocks(S)'
  <2>1. \A x \in Live' : x >= word /\ trace_cells'[x].block => x \in S
    <3>. SUFFICES ASSUME NEW x \in Live', x >= word, trace_cells'[x].block PROVE x \in S
      OBVIOUS
    <3>1. x # to
      BY <1>20
    <3>2. x \in Live /\ trace_cells[x].block
      BY <1>30, <3>1
    <3>. QED  BY <1>5, <3>2 DEF Blocks
  <2>2. at' \in S \union {trace_ptr}
    BY <1>3, <1>6, <1>7
  <2>. QED  BY <1>3, <1>5, <2>1, <2>2 DEF Blocks
<1>42. PlacesFor(trace_ptr)'
  <2>1. ASSUME NEW x \in Live', word <= x, x < trace_ptr
        PROVE  /\ Final(x)' \in word .. x
               /\ Final(x)' + trace_entry_size(x)' <= next
               /\ Final(x)' + trace_entry_size(x)' = next
                  \/ \E g \in Live' : /\ word <= g /\ g < trace_ptr
                                      /\ Final(g)' = Final(x)' + trace_entry_size(x)'
    <3>1. PICK d \in Live : d = Old(x)
      BY <1>29
    <3>2. Final(x)' = Final(d) /\ trace_entry_size(x)' = trace_entry_size(d)
      BY <1>29, <1>34, <3>1
    <3>3. word <= d /\ d < trace_ptr
      <4>1. CASE x = to
        BY <1>7, <3>1, <4>1 DEF Old
      <4>2. CASE x # to
        BY <2>1, <3>1, <4>2 DEF Old
      <4>. QED  BY <4>1, <4>2
    <3>4. /\ Final(d) \in word .. d
          /\ Final(d) + trace_entry_size(d) <= next
          /\ Final(d) + trace_entry_size(d) = next
             \/ \E f \in Live : /\ word <= f /\ f < trace_ptr
                                /\ Final(f) = Final(d) + trace_entry_size(d)
      BY <1>8, <3>3 DEF PlacesFor
    <3>5. Final(d) \in word .. x
      <4>1. CASE x = to
        <5>1. Final(d) = to
          BY <1>14, <3>1, <4>1 DEF Old
        <5>2. to \in word .. to
          BY <1>2, <1>15
        <5>. QED  BY <4>1, <5>1, <5>2
      <4>2. CASE x # to
        BY <3>1, <3>4, <4>2 DEF Old
      <4>. QED  BY <4>1, <4>2
    <3>6. ASSUME NEW f \in Live, word <= f, f < trace_ptr, Final(f) = Final(d) + trace_entry_size(d)
          PROVE  \E g \in Live' : /\ word <= g /\ g < trace_ptr
                                  /\ Final(g)' = Final(d) + trace_entry_size(d)
      <4>1. PICK g \in Live' : g = New(f)
        BY <1>36
      <4>2. word <= g /\ g < trace_ptr
        BY <1>28, <3>6, <4>1 DEF New
      <4>3. Final(g)' = Final(f)
        BY <1>33, <4>1 DEF Final
      <4>. QED  BY <3>6, <4>2, <4>3
    <3>. QED  BY <3>2, <3>4, <3>5, <3>6
  <2>2. ASSUME NEW x \in Live', NEW y \in Live', word <= x, x < y, y < trace_ptr
        PROVE  Final(x)' + trace_entry_size(x)' <= Final(y)'
    <3>1. PICK c \in Live : c = Old(x)
      BY <1>29
    <3>2. PICK d \in Live : d = Old(y)
      BY <1>29
    <3>3. c < d
      BY <1>32, <2>2, <3>1, <3>2
    <3>4. word <= c /\ d < trace_ptr
      <4>1. d < trace_ptr
        BY <1>10
      <4>2. CASE x = to
        BY <1>7, <3>1, <4>1, <4>2 DEF Old
      <4>3. CASE x # to
        BY <2>2, <3>1, <4>1, <4>3 DEF Old
      <4>. QED  BY <4>2, <4>3
    <3>5. Final(c) + trace_entry_size(c) <= Final(d)
      BY <1>8, <3>3, <3>4 DEF PlacesFor
    <3>6. Final(x)' = Final(c) /\ trace_entry_size(x)' = trace_entry_size(c) /\ Final(y)' = Final(d)
      BY <1>29, <1>34, <3>1, <3>2
    <3>. QED  BY <3>5, <3>6
  <2>3. word' = word /\ next' = next /\ trace_ptr' = trace_ptr
    BY <1>3
  <2>. QED  BY <2>1, <2>2, <2>3 DEF PlacesFor
<1>43. Compaction'
  <2>1. word \in Live' /\ Old(word) = word
    <3>1. CASE word = b
      <4>1. to = word
        BY <1>15, <3>1
      <4>. QED  BY <1>27, <3>1, <4>1 DEF Old
    <3>2. CASE word # b
      BY <1>2, <1>22, <1>27, <3>2 DEF Old
    <3>. QED  BY <3>1, <3>2
  <2>2. Final(word)' = word'
    <3>1. PICK x : x = word
      OBVIOUS
    <3>2. x \in Live' /\ Old(x) = x
      BY <2>1, <3>1
    <3>3. Final(x)' = Final(x) /\ Final(x) = x /\ word' = x
      BY <1>3, <1>8, <1>34, <3>1, <3>2
    <3>. QED  BY <1>3, <3>1, <3>3 DEF Final
  <2>3. \A x \in Live' : trace_cells'[x].n
    BY <1>8, <1>29
  <2>4. ASSUME NEW x \in Live', x >= word
        PROVE  IF trace_cells'[x].block THEN x >= b + BlockSize
               ELSE x + trace_entry_size(x)' <= b + BlockSize
    <3>1. CASE x = to
      <4>1. ~trace_cells'[x].block /\ trace_entry_size(x)' = size
        <5>1. trace_entry_size(x)' = trace_entry_size(Old(x))
          BY <1>29
        <5>2. Old(x) = b
          BY <3>1 DEF Old
        <5>. QED  BY <1>11, <1>20, <3>1, <5>1, <5>2
      <4>. QED  BY <1>31, <3>1, <4>1
    <3>2. CASE x # to
      <4>1. /\ x \in Live /\ x # b /\ x \in Nat /\ trace_cells'[x] = trace_cells[x]
            /\ trace_entry_size(x)' = trace_entry_size(x)
        <5>1. Old(x) = x
          BY <3>2 DEF Old
        <5>. QED  BY <1>29, <1>30, <3>2, <5>1
      <4>2. CASE trace_cells[x].block
        <5>1. x > b
          BY <1>7, <1>8, <2>4, <4>1, <4>2
        <5>. QED  BY <1>7, <2>4, <4>1, <4>2, <5>1
      <4>3. CASE ~trace_cells[x].block
        <5>1. x + trace_entry_size(x) <= b /\ trace_entry_size(x) \in Nat
          BY <1>8, <1>10, <2>4, <4>1, <4>3
        <5>2. x + trace_entry_size(x) <= b + BlockSize
          BY <1>2, <1>7, <4>1, <5>1
        <5>. QED  BY <4>1, <4>3, <5>2
      <4>. QED  BY <4>2, <4>3
    <3>. QED  BY <3>1, <3>2
  <2>5. at' = b + BlockSize /\ word' = word /\ active_entries' = <<>> /\ next' <= trace_ptr'
    BY <1>2, <1>3, <1>6, <1>8
  <2>6. \A x \in Live' : x >= word' =>
          IF trace_cells'[x].block THEN x >= at' ELSE x + trace_entry_size(x)' <= at'
    BY <2>4, <2>5
  <2>. QED  BY <1>3, <1>40, <1>41, <1>42, <2>1, <2>2, <2>3, <2>5, <2>6 DEF Compaction
<1>44. TypeOK'
  BY SMTT(30), <1>2, <1>3, <1>23 DEF TypeOK, Phases
<1>. QED  BY <1>3, <1>4, <1>38, <1>39, <1>40, <1>43, <1>44 DEF Inv

LEMMA MoveRoundInv ==
  ASSUME MemoryAssumption, Inv, MoveRound
  PROVE  Inv'
<1>1. at < trace_ptr \/ at >= trace_ptr
  BY DEF Inv, TypeOK
<1>. QED  BY <1>1, MoveEndInv, SkipInv, MoveEntryInv

-----------------------------------------------------------------------------
(* Every step.                                                             *)

LEMMA MatchRoundInv ==
  ASSUME MemoryAssumption, Inv, MatchRound
  PROVE  Inv'
<1>1. CASE at < Callee /\ entries_match(at, Callee)
  <2>1. Merges
    BY <1>1 DEF Merges, MatchRound
  <2>. QED  BY <2>1, MergeInv
<1>2. CASE ~(at < Callee /\ entries_match(at, Callee))
  BY <1>2, MatchOnInv
<1>. QED  BY <1>1, <1>2

LEMMA UnchangedInv ==
  ASSUME Inv, UNCHANGED trace
  PROVE  Inv'
<1>1. UNCHANGED <<trace_cells, trace_ptr, trace_block_map, active_entries, word, doing, at, next,
                  index, started, stored, merged>>
  BY DEF trace
<1>2. TypeOK' /\ Live' = Live /\ (Compacting' <=> Compacting) /\ Base' = Base
  BY <1>1 DEF Inv, TypeOK, Live, is_entry, Compacting, Base
<1>3. /\ \A e : CellsOf(e)' = CellsOf(e) /\ trace_entry_next(e)' = trace_entry_next(e)
      /\ \A e : trace_entry_size(e)' = trace_entry_size(e) /\ Body(e)' = Body(e)
      /\ \A e, k : CallOf(e, k)' = CallOf(e, k) /\ Was(e, k)' = Was(e, k)
      /\ ActiveIds' = ActiveIds /\ Active' = Active
  BY <1>1 DEF CellsOf, trace_entry_next, trace_entry_size, Body, CallOf, Was, ActiveIds, Active
<1>4. Apart' /\ Joined' /\ Numbered' /\ Mapped'
  BY <1>1, <1>2, <1>3 DEF Inv, Apart, Joined, Numbered, Mapped
<1>5. Content'
  <2>1. \A e, p, f : Leads(e, p, f)' <=> Leads(e, p, f)
    BY <1>1 DEF Leads, Referred, Final, Compacting
  <2>2. \A i, c : StandsFor(i, c)' <=> StandsFor(i, c)
    BY <1>1, <1>3 DEF StandsFor
  <2>3. ASSUME NEW e \in Live PROVE ParentSays(e)' <=> ParentSays(e)
    <3>1. PICK p : p = trace_cells[e].parent
      OBVIOUS
    <3>2. \A f : Leads(e, trace_cells[e].parent, f)' <=> Leads(e, p, f)'
      BY <1>1, <3>1 DEF Leads
    <3>3. (is_entry(p)' <=> is_entry(p)) /\ (Referred(e)' <=> Referred(e))
      BY <1>1 DEF is_entry, Referred
    <3>. QED  BY <1>1, <1>2, <2>1, <3>1, <3>2, <3>3 DEF ParentSays
  <2>4. ASSUME NEW e \in Live, NEW k \in CellsOf(e) PROVE CellSays(e, k)' <=> CellSays(e, k)
    <3>1. CallSays(e, k)' <=> CallSays(e, k)
      <4>1. PICK p, c : p = CallOf(e, k) /\ c = Was(e, k).callee
        OBVIOUS
      <4>2. \A f : Leads(e, CallOf(e, k), f)' <=> Leads(e, p, f)'
        BY <1>3, <4>1 DEF Leads
      <4>3. \A f : StandsFor(trace_cells[f].id, Was(e, k).callee)' <=> StandsFor(trace_cells[f].id, c)
        BY <1>1, <1>3, <4>1 DEF StandsFor
      <4>. QED  BY <1>1, <1>2, <2>1, <4>1, <4>2, <4>3 DEF CallSays
    <3>. QED  BY <1>1, <1>3, <3>1 DEF CellSays
  <2>. QED  BY <1>1, <1>2, <1>3, <2>3, <2>4 DEF Inv, Content
<1>6. doing \in {"reduce", "map", "find"} => Based' /\ Reduced'
  BY <1>1, <1>2, <1>3 DEF Inv, Based, Reduced, AsMade, CallsAsMade, OneCell
<1>7. doing \in {"dedup", "top", "match"} => Based' /\ Deduping'
  BY <1>1, <1>2, <1>3 DEF Inv, Based, Deduping, CallsAsMade, SameQuote, First, entries_match,
                          closure_match
<1>8. /\ doing = "map" => Mapping'
      /\ doing = "find" => Finding'
      /\ doing \in {"top", "match"} => Matching'
  BY <1>1, <1>2, <1>3 DEF Inv, Mapping, Finding, Room, Matching, Callee, entries_match, closure_match,
                          trace_entry_next, trace_entry_size, Body, CellsOf
<1>9. Compacting => Compaction'
  BY <1>1, <1>2 DEF Inv, Compaction, BelowWord, Blocks, PlacesFor, Final, CellsOf, CallOf,
                    trace_entry_size, Compacting, is_entry
<1>. QED  BY <1>1, <1>2, <1>4, <1>5, <1>6, <1>7, <1>8, <1>9 DEF Inv

LEMMA NextInv ==
  ASSUME MemoryAssumption, Inv, [TraceNext]_trace
  PROVE  Inv'
<1>1. CASE compile_word
  BY <1>1, CompileWordInv
<1>2. CASE start_specialized
  BY <1>2, StartSpecializedInv
<1>3. CASE compile_quote
  BY <1>3, CompileQuoteInv
<1>4. CASE MapRound
  BY <1>4, MapRoundInv
<1>5. CASE store_cell
  BY <1>5, StoreCellInv
<1>6. CASE trace_dep
  BY <1>6, TraceDepInv
<1>7. CASE FindRound
  BY <1>7, FindRoundInv
<1>8. CASE trace_end_entry
  BY <1>8, EndEntryInv
<1>9. CASE trace_reset
  BY <1>9, ResetInv
<1>10. CASE Throw
  BY <1>10, ThrowInv
<1>11. CASE trace_reset_active
  BY <1>11, ResetActiveInv
<1>12. CASE EndWord
  BY <1>12, EndWordInv
<1>13. CASE DedupNext
  BY <1>13, DedupNextInv, DedupEndInv
<1>14. CASE TopRound
  BY <1>14, TopRoundInv
<1>15. CASE MatchRound
  BY <1>15, MatchRoundInv
<1>16. CASE PlaceRound
  BY <1>16, PlaceRoundInv
<1>17. CASE ReferRound
  BY <1>17, ReferRoundInv
<1>18. CASE MoveRound
  BY <1>18, MoveRoundInv
<1>19. CASE UNCHANGED trace
  BY <1>19, UnchangedInv
<1>. QED  BY <1>1, <1>2, <1>3, <1>4, <1>5, <1>6, <1>7, <1>8, <1>9, <1>10, <1>11, <1>12, <1>13,
             <1>14, <1>15, <1>16, <1>17, <1>18, <1>19 DEF TraceNext

LEMMA Invariance == TraceSpec => []Inv
<1>1. TraceInit => Inv
  BY InitInv, MemoryAssumption
<1>2. Inv /\ [TraceNext]_trace => Inv'
  BY NextInv, MemoryAssumption
<1>. QED  BY <1>1, <1>2, PTL DEF TraceSpec

(* The memory holds headers and cells with numbers of cells in them, the   *)
(* places of the loops are numbers that are not negative, and trace_ptr     *)
(* never passes the end of the memory (trace_start_entry(),                *)
(* trace_compact()).                                                       *)
THEOREM TypeCorrect == TraceSpec => []TypeOK
<1>1. Inv => TypeOK
  BY DEF Inv
<1>. QED  BY <1>1, Invariance, PTL

(* Every function and quote that is compiled keeps the cells and calls that *)
(* were put into it, in a memory of any size with blocks of any size: when  *)
(* entries are given up, when var_entry() and the map of blocks find        *)
(* entries, when dedup_subentries() merges quotes and when trace_compact() *)
(* moves entries over one another.                                         *)
THEOREM EntriesAlwaysKept == TraceSpec => []EntriesKept
<1>1. Inv => EntriesKept
  BY InvEntriesKept, MemoryAssumption
<1>. QED  BY <1>1, Invariance, PTL
=============================================================================

------------------------------- MODULE Arrays -------------------------------
(***************************************************************************)
(* The arrays of programs (primitive/io.c).  An array is an id.  What is   *)
(* written to it is an entry of one map, `arrays', whose key is made of    *)
(* the id and the address; or the array is a part of a file that is mapped *)
(* into memory, and its elements are Width bytes each.                     *)
(*                                                                         *)
(* dup_array gives the same array twice, so a program may use an id as     *)
(* often as it likes and in any order.  Files are mapped shared: what is   *)
(* written through one mapping is read through the others.                 *)
(*                                                                         *)
(* new_mmap_array() returns NULL when the table is full, which the caller  *)
(* does not expect; a mapping outlives the file_t that it points to, which *)
(* is not known to be IN or OUT once it is freed.                          *)
(***************************************************************************)
EXTENDS Integers, Sequences, FiniteSets, Bitwise

CONSTANTS
  MapSize,    \* the entries of the map
  MmapSize,   \* mmap_array_size
  IdMax,      \* ID_MAX
  IdUnit,     \* 2 ^ 16: an id is shifted by as many bits
  AddrRange,  \* 2 ^ ADDR_BITS
  WordRange,  \* 2 ^ 64
  WordSize,   \* sizeof(val_t)
  Byte,       \* 2 ^ 8
  FileFlags,  \* the files: the flags that each is opened with
  FileSize,   \* a bound: their length
  Addresses,  \* a bound: the addresses that programs use
  Values,     \* a bound: the values that programs write
  Parts,      \* a bound: the offset, size and width of mappings
  MaxPlaces,  \* a bound: the places that programs write to
  MaxIds      \* a bound: the arrays that programs make

ASSUME ArraysAssumption ==
  /\ {MapSize, MmapSize, IdMax, IdUnit, AddrRange, WordRange, WordSize, Byte, FileSize}
       \subseteq Nat \ {0}
  /\ IsFiniteSet(Addresses) /\ Addresses \subseteq Int

VARIABLES
  arrays,         \* the map: a function from keys to values
  next_array_id,
  mmap_array,     \* the mappings, in the order they were made
  bytes,          \* the contents of each file
  closed,         \* the files that were closed
  crashed,
  dropped,        \* ghost: the map was full, or an address had too many bits
  written         \* ghost: what was written last to each place

memory == <<arrays, next_array_id, mmap_array, bytes, closed, crashed, dropped,
            written>>

Files == DOMAIN FileFlags

Ids == 1 .. next_array_id - 1

Less(a, b) == IF a < b THEN a ELSE b

lookup_mmap_array(arr) == {i \in DOMAIN mmap_array : mmap_array[i].id = arr}

KeyOfAddress(arr, addr) == addr % AddrRange  \* mutant: the id is left out

Key(arr, addr) == (arr * IdUnit) | (addr % AddrRange)

Mapping(arr) == mmap_array[CHOOSE i \in lookup_mmap_array(arr) : TRUE]

Offset(ma, addr) == ((addr % WordRange) * ma.width) % WordRange

Inside(ma, addr) == Offset(ma, addr) < ma.size

(* FLAG(), of a file_t that may have been freed.                           *)
MayHave(ma, flag) == IF ma.file \in closed THEN BOOLEAN ELSE {flag \in FileFlags[ma.file]}

(* An address that does not reach the bits of the id.                      *)
Narrow(addr) == addr \in 0 .. IdUnit - 1

Copied(ma) == Less(WordSize, ma.width)

(* The bytes of a file that an element consists of, counted from 1; what   *)
(* is beyond the end of the file is on the same page.                      *)
Element(ma, addr) ==
  (ma.offset + Offset(ma, addr) + 1) .. (ma.offset + Offset(ma, addr) + Copied(ma))

FromBytes(s) == LET n[i \in 0 .. Len(s)] == IF i = 0 THEN 0 ELSE n[i - 1] + s[i] * Byte ^ (i - 1)
                IN  n[Len(s)]

ToByte(v, i) == (v \div Byte ^ i) % Byte

-----------------------------------------------------------------------------
(* array_init()                                                            *)
ArraysInit ==
  /\ arrays = [k \in {} |-> 0]
  /\ next_array_id = 1
  /\ mmap_array = <<>>
  /\ bytes = [f \in Files |-> [i \in 1 .. FileSize + WordSize |-> 0]]
  /\ closed = {}
  /\ crashed = FALSE /\ dropped = FALSE
  /\ written = [p \in {} |-> 0]

(* The symbol Array becomes a new array.                                   *)
convert_to_opaque ==
  /\ next_array_id <= MaxIds
  /\ next_array_id' = next_array_id + 1
  /\ UNCHANGED <<arrays, mmap_array, bytes, closed, crashed, dropped, written>>

new_mmap_array(file, offset, size, width) ==
  IF Len(mmap_array) >= MmapSize
  THEN crashed' = TRUE /\ UNCHANGED <<mmap_array, next_array_id>>
  ELSE /\ mmap_array' = Append(mmap_array,
            [id |-> next_array_id, file |-> file, offset |-> offset, size |-> size,
             width |-> IF width < 1 THEN 1 ELSE width])
       /\ next_array_id' = next_array_id + 1
       /\ UNCHANGED crashed

(* Only what can be read can be mapped, and not nothing.                   *)
mmap(file, offset, size, width) ==
  /\ next_array_id <= MaxIds
  /\ file \notin closed /\ "in" \in FileFlags[file] /\ size > 0 /\ offset + size <= FileSize
  /\ new_mmap_array(file, offset, size, width)
  /\ UNCHANGED <<arrays, bytes, closed, dropped, written>>

close_mapped(file) ==
  /\ closed' = closed \union {file}
  /\ UNCHANGED <<arrays, next_array_id, mmap_array, bytes, crashed, dropped, written>>

-----------------------------------------------------------------------------
(* The place that an address of an array names: a ghost that tells what    *)
(* reads and writes are about.                                             *)
PlaceOf(arr, addr) ==
  IF lookup_mmap_array(arr) = {} THEN [array |-> arr, addr |-> addr]
  ELSE [file |-> Mapping(arr).file, bytes |-> Element(Mapping(arr), addr)]

(* What reading an array may find: values, or {} if it fails.  Nothing     *)
(* else changes when an array is read.                                     *)
read_mapped(ma, addr) ==
  LET at == ma.offset + Offset(ma, addr)
      element == [i \in 1 .. Copied(ma) |-> bytes[ma.file][at + i]]
  IN  {IF readable /\ Inside(ma, addr) THEN {FromBytes(element)} ELSE {} :
         readable \in MayHave(ma, "in")}

array_read(arr, addr) ==
  IF lookup_mmap_array(arr) # {} THEN read_mapped(Mapping(arr), addr)
  ELSE IF arr \in 1 .. IdMax /\ Key(arr, addr) \in DOMAIN arrays
  THEN {{arrays[Key(arr, addr)]}}
  ELSE {{}}

write_mapped(arr, addr, in) ==
  LET ma == Mapping(arr) IN
  \E writable \in MayHave(ma, "out") :
    IF writable /\ "out" \notin FileFlags[ma.file]
    THEN crashed' = TRUE /\ UNCHANGED <<bytes, written>>
    ELSE IF ~writable \/ ~Inside(ma, addr) THEN UNCHANGED <<bytes, written, crashed>>
    ELSE LET e == Element(ma, addr)
             first == Offset(ma, addr) + ma.offset + 1
             others == {p \in DOMAIN written : "file" \in DOMAIN p /\ p.file = ma.file
                                               /\ p.bytes \intersect e # {}}
             mine == PlaceOf(arr, addr)
         IN  /\ bytes' = [bytes EXCEPT ![ma.file] =
                            [i \in DOMAIN @ |-> IF i \in e THEN ToByte(in, i - first) ELSE @[i]]]
             /\ written' = [p \in (DOMAIN written \ others) \union {mine} |->
                              IF p = mine THEN in % Byte ^ Copied(ma) ELSE written[p]]
             /\ UNCHANGED crashed

(* A new entry for a map that is full is dropped (map_replace_insert()).   *)
write_mapless(arr, addr, in) ==
  /\ arr <= IdMax
  /\ LET k == Key(arr, addr)
         fits == k \in DOMAIN arrays \/ Cardinality(DOMAIN arrays) < MapSize
         mine == PlaceOf(arr, addr)
     IN  /\ arrays' = IF ~fits THEN arrays
                      ELSE [x \in DOMAIN arrays \union {k} |-> IF x = k THEN in ELSE arrays[x]]
         /\ dropped' = (dropped \/ ~fits \/ ~Narrow(addr))
         /\ written' = [p \in DOMAIN written \union {mine} |->
                          IF p = mine THEN in ELSE written[p]]

write_array(arr, addr, in) ==
  /\ PlaceOf(arr, addr) \in DOMAIN written \/ Cardinality(DOMAIN written) < MaxPlaces
  /\ IF lookup_mmap_array(arr) # {}
     THEN write_mapped(arr, addr, in) /\ UNCHANGED <<arrays, dropped>>
     ELSE write_mapless(arr, addr, in) /\ UNCHANGED <<bytes, crashed>>
  /\ UNCHANGED <<next_array_id, mmap_array, closed>>

ArraysNext ==
  /\ ~crashed
  /\ \/ convert_to_opaque
     \/ \E f \in Files, p \in Parts : mmap(f, p.offset, p.size, p.width)
     \/ \E f \in Files : close_mapped(f)
     \/ \E a \in Ids, x \in Addresses, v \in Values : write_array(a, x, v)

-----------------------------------------------------------------------------
(* Properties.                                                             *)

(* However arrays are mixed, a read finds what was written last to the     *)
(* same place of the same array, or of the file that it is mapped to, if   *)
(* addresses have no more than 16 bits and the map has not been full; and  *)
(* nothing is found where nothing was written (array_read(),               *)
(* array_write()).                                                         *)
ArraysKeep ==
  \A arr \in Ids, addr \in Addresses :
    LET p == PlaceOf(arr, addr)
        map == lookup_mmap_array(arr) = {}
    IN  \A found \in array_read(arr, addr) :
          IF map
          THEN ~dropped /\ Narrow(addr)
                 => found = IF p \in DOMAIN written THEN {written[p]} ELSE {}
          ELSE p \in DOMAIN written => found \subseteq {written[p]}
=============================================================================

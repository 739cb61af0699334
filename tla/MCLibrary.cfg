SPECIFICATION LibrarySpec
CONSTANTS
  Parts = {"set", "ring", "sorting", "strings", "words", "highlight", "lists", "maps", "merging"}
  Size = 4
  Keys = {1, 2, 4, 5, 8}
  RingSize = 4
  Chars = {"a", "b"}
  MaxText = 4
  SortInputs <- MCSortInputs
  SearchKeys = {0, 1, 2, 3}
  MaxRows = 5
  Strs <- MCStrs
  Chunk = 2
  Room = 8
  Stray <- MCStray
  Tagged <- MCTagged
  MaxString = 4
  Memory = 4
  MaxFails = 3
  Chains <- MCChains
  MaxChain = 4
  Literals <- MCLiterals
  Ints <- MCInts
  Unit = 8
  IntBytes = 2
  Beyond <- MCBeyond
  MaxLen = 6
  MaxWords = 4
  Capacity = 8
  MapKeys = {1, 2, 3}
  Names = {1, 2, 3, 4, 5}
  Values = {1, 2}
  MaxBatch = 3
  Rebalance = 2
  Inputs <- MCRuns
INVARIANTS
  NoKeyLost
  SortsInPlace
  StringsReadBack
  FailuresUnderlined
  ListsReadThrough
  WordsMean
  PairsFound
  AssertionsHold
  MergesRuns
PROPERTIES
  IsQueue
CHECK_DEADLOCK FALSE

SPECIFICATION LibrarySpec
CONSTANTS
  Parts = {"words"}
  Size = 4
  Keys = {1, 2, 3, 4, 5, 6, 8}
  RingSize = 4
  Chars = {"a", "b"}
  MaxText = 4
  SortInputs <- MCSortInputs
  SearchKeys = {0, 1, 2, 3}
  MaxRows = 5
  Strs <- MCStrs
  Chunk = 2
  Room = 8
  Stray <- MCStray
  Tagged <- MCTagged
  MaxString = 4
  Memory = 4
  MaxFails = 3
  Chains <- MCChains
  MaxChain = 4
  Literals <- MCLiterals
  Ints <- MCInts
  Unit = 8
  IntBytes = 2
  Beyond <- MCBeyond
  MaxLen = 7
  MaxWords = 4
  Capacity = 8
  MapKeys = {1, 2, 3}
  Names = {1, 2, 3, 4, 5}
  Values = {1, 2}
  MaxBatch = 3
  Rebalance = 2
  Inputs <- MCRuns
INVARIANT StringsTerminated
CHECK_DEADLOCK FALSE

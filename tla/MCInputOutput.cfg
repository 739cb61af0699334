SPECIFICATION IoSpec
CONSTANTS
  RingSize = 4
  InputBuf = 4
  InputLen = 4
  Junk = {0, 2, 4}
  MaxParts = 2
  MapSize = 2
  MmapSize = 2
  IdMax = 3
  IdUnit = 4
  AddrRange = 16
  WordRange = 64
  WordSize = 2
  Byte = 4
  FileFlags <- MCFileFlags
  FileSize = 4
  Addresses = {1, 5}
  Values = {1, 6}
  Parts <- MCParts
  MaxPlaces = 3
  MaxIds = 3
  Table <- MCTable
  Targets = {"#a", "#bb", "popr"}
  StartsWith <- MCStartsWith
  MESSAGE_PERIOD = 2
  MESSAGE_ADVANCE = 1
  MaxTime = 9
  MaxLine = 3
  LogSize = 5
  Handlers = {"bytecode"}
  MaxFrames = 4
  MaxArgs = 1
  ContextSize = 2
INVARIANTS
  ContextsFound
  ArraysKeep
  LinesAllowed
PROPERTIES
  ReadInOrder
CHECK_DEADLOCK FALSE

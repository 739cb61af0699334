SPECIFICATION QuotesSpec
CONSTANTS
  Words <- MCWords
  Starts <- MCStarts
  MaxHeld = 4
  MaxSteps = 4
  TraceSize = 10
  BlockSize = 3
  MapBlock = 4
  MaxActive = 4
  Items = {"v"}
  MaxStarted = 3
INVARIANTS QuotesKeepMeaning QuoteRefsExact EntriesKept
CHECK_DEADLOCK FALSE

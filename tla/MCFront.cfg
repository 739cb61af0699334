CONSTANTS
  Vocabulary = {"1", "add", "swap", "inc", "??", "[", "]", ",", "(", "_", "nope"}
  Characters = {"a", "0", "x", "-", ".", ":", " ", "e"}
  MaxProgram = 4
  MaxWords = 4
  MaxMixed = 4
  MaxArgv = 3
  MaxText = 25
  Texts <- MCTexts
  Programs <- MCPrograms
  Arity <- MCArity
  MAX_ARGS = 3
  MAX_PARSE_DEPTH = 3
  Files <- MCFiles
  Inputs <- MCInputs
  Paths <- MCPaths
  files_size = 2
  Argvs <- MCArgvs
  RcFiles <- MCRcFiles
  Typed <- MCTyped
  Abbreviates <- MCAbbreviates
  Numbers <- MCNumbers
  Items <- MCItems
  Default <- MCDefault
SPECIFICATION FrontSpec
INVARIANTS
  CommentsAsSpecified
  ParserRefsExact
  MeansComposition
  CallsWhatItMeans
  ArgumentsInForce
PROPERTIES
  CompilingEnds
  LoopEnds
CHECK_DEADLOCK FALSE

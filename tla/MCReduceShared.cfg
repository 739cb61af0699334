SPECIFICATION Spec
CONSTANTS
  NCells = 30
  MaxDepth = 12
  Allowed <- MCShared
  MaxWords = 0
  ShortWords = {}
INVARIANT ResultsCorrect

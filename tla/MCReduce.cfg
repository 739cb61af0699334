SPECIFICATION Spec
CONSTANTS
  NCells = 30
  MaxDepth = 12
  Allowed <- MCAllowed
  MaxWords = 5
  ShortWords = {"1", "0", "True", "|", "dup", "swap", "otherwise", "drop", "!"}
INVARIANTS RefsExact ResultsCorrect
PROPERTY ReductionEnds

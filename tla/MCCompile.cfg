SPECIFICATION CompileSpec
CONSTANTS
  Consts <- MCConsts
  Calc <- MCCalc
  Funs <- MCFuns
  Partial <- MCPartial
  Fingerprint <- MCFingerprint
  FirstArgs = 1
  CellArgs = 2
  Sharing = FALSE
  Outs = 2
  AltIds = 2
  MaxInputs = 2
  MaxLen = 9
  MaxVals = 4
  MaxReturns = 3
  MAX = 7
  Programs <- MCFunctions
  FirstOps = {"add", "sub", "mul", "div", "mod"}
  Compared = {"lt", "lte", "gt", "gte", "eq"}
  LastOps = {"add", "bitand"}
INVARIANTS
  CountsExact
  EntryMeans
  SeparateCodeMeans
  HandedOverOnce
  InstanceExact
  RangesContain
  WidthsSuffice
CHECK_DEADLOCK FALSE

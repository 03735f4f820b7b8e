\* br_table between labels of equal arity and different types.
CONSTANTS
  Types <- VoidTypes
  FuncSigs <- Empty
  Globals <- Empty
  Tables <- Empty
  Features <- CoreFeatures
  Policy = "Validate"
  ErrorPolicy = "abort"
  AllocFails = FALSE
  Debug = TRUE
  Calls <- MixedCalls
  BlockTypes <- MixedBlocks
  LocalTypes = {}
  LocalCounts = {}
  Sigs = {0}
  MaxTargets = 1
  StaleBranches = FALSE
  LiveResets = FALSE
  Moves = {}
  MaxCode = 5
  MaxScope = 2
  MaxLocals = 0
  U32 = 16
  Alphabet = {"I32", "I64", "Bot"}
  Departures = {}
SPECIFICATION Spec
INVARIANTS
  AcceptsOnlyTyped
CHECK_DEADLOCK FALSE

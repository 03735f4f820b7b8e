\* A release build that throws, whose client misuses handles: only the validator is left to object.
CONSTANTS
  Types <- VoidTypes
  FuncSigs <- Empty
  Globals <- Empty
  Tables <- Empty
  Features <- CoreFeatures
  Policy = "Validate"
  ErrorPolicy = "throw"
  AllocFails = FALSE
  Debug = FALSE
  Calls <- HandleCalls
  BlockTypes <- HandleBlocks
  LocalTypes = {}
  LocalCounts = {}
  Sigs = {0}
  MaxTargets = 0
  StaleBranches = TRUE
  LiveResets = FALSE
  Moves = {"construct", "detach"}
  MaxCode = 4
  MaxScope = 2
  MaxLocals = 0
  U32 = 16
  Alphabet = {"I32", "I64", "F32", "F64", "V128", "FuncRef", "ExternRef"}
  Departures = {}
SPECIFICATION Spec
INVARIANTS
  AcceptsOnlyTyped
  StacksMirror
  NoUnderflow
  DefinedUntilError
CHECK_DEADLOCK FALSE

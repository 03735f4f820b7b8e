\* Straight-line code over every index space and memory.
CONSTANTS
  Types <- CallTypes
  FuncSigs <- CallFuncs
  Globals <- CallGlobals
  Tables <- CallTables
  Features <- CallFeatures
  Policy = "Validate"
  ErrorPolicy = "abort"
  AllocFails = FALSE
  Debug = TRUE
  Calls <- AllCalls
  BlockTypes = {}
  LocalTypes = {"I32", "FuncRef"}
  LocalCounts = {0, 2}
  Sigs = {0, 1}
  MaxTargets = 0
  StaleBranches = FALSE
  LiveResets = FALSE
  Moves = {}
  MaxCode = 3
  MaxScope = 2
  MaxLocals = 2
  U32 = 16
  Alphabet = {"I32", "I64", "F32", "F64", "V128", "FuncRef", "ExternRef"}
  Departures = {"tail", "select", "isnull", "indirect"}
SPECIFICATION Spec
INVARIANTS
  
  RefusesOnlyUntyped
  LocalsDecode
CHECK_DEADLOCK FALSE

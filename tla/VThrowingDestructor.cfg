\* A frame that fails to end in its destructor.
CONSTANTS
  Types <- ReuseTypes
  FuncSigs <- Empty
  Globals <- Empty
  Tables <- Empty
  Features <- CoreFeatures
  Policy = "Validate"
  ErrorPolicy = "throw"
  AllocFails = FALSE
  Debug = TRUE
  Calls <- HandleCalls
  BlockTypes <- ReuseBlocks
  LocalTypes = {}
  LocalCounts = {}
  Sigs = {0}
  MaxTargets = 0
  StaleBranches = FALSE
  LiveResets = FALSE
  Moves = {}
  MaxCode = 4
  MaxScope = 2
  MaxLocals = 0
  U32 = 16
  Alphabet = {"I32"}
  Departures = {}
SPECIFICATION Spec
INVARIANTS
  ErrorsAreThrown
CHECK_DEADLOCK FALSE

\* Handles moved, ended, abandoned and unwound in a debug build that throws.
CONSTANTS
  Types <- VoidTypes
  FuncSigs <- Empty
  Globals <- Empty
  Tables <- Empty
  Features <- CoreFeatures
  Policy = "Validate"
  ErrorPolicy = "throw"
  AllocFails = TRUE
  Debug = TRUE
  Calls <- HandleCalls
  BlockTypes <- HandleBlocks
  LocalTypes = {}
  LocalCounts = {}
  Sigs = {0}
  MaxTargets = 0
  StaleBranches = FALSE
  LiveResets = FALSE
  Moves = {"construct", "assign", "detach"}
  MaxCode = 3
  MaxScope = 2
  MaxLocals = 0
  U32 = 16
  Alphabet = {"I32"}
  Departures = {}
SPECIFICATION Spec
INVARIANTS
  HeightsNest
  StacksMirror
  HandlesDenoteFrames
  BranchesHitFrames
  
  DefinedUntilError
CHECK_DEADLOCK FALSE

\* Structured control: every nesting of frames and branches in short bodies.
CONSTANTS
  Types <- ControlTypes
  FuncSigs <- Empty
  Globals <- Empty
  Tables <- Empty
  Features <- CoreFeatures
  Policy = "Validate"
  ErrorPolicy = "abort"
  AllocFails = FALSE
  Debug = TRUE
  Calls <- ControlCalls
  BlockTypes <- ControlBlocks
  LocalTypes = {}
  LocalCounts = {}
  Sigs = {0}
  MaxTargets = 1
  StaleBranches = FALSE
  LiveResets = FALSE
  Moves = {}
  MaxCode = 5
  MaxScope = 2
  MaxLocals = 0
  U32 = 16
  Alphabet = {"I32", "I64", "F32", "F64", "V128", "FuncRef", "ExternRef"}
  Departures = {"labels"}
SPECIFICATION Spec
INVARIANTS
  AcceptsOnlyTyped
  RefusesOnlyUntyped
  FramesHaveHandles
CHECK_DEADLOCK FALSE

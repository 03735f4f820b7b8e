\* Declarations after the first body of a debug build.
CONSTANTS
  Kinds = {"Function", "Table"}
  MaxEntities = 3
  MaxRefs = 0
  MaxSize = 3
  MaxLocals = 0
  MaxPending = 1
SPECIFICATION Spec
PROPERTIES
  DeclareOnlyBeforeEmit
CHECK_DEADLOCK FALSE

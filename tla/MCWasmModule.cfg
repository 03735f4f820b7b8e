\* Three entities of every kind and two references, in debug and release builds.
CONSTANTS
  Kinds = {"Function", "Table", "Memory", "Global"}
  MaxEntities = 3
  MaxRefs = 2
  MaxSize = 4
  MaxLocals = 3
  MaxPending = 1
SPECIFICATION Spec
INVARIANTS
  RefsResolve
  QueriesMatchBinary
  ToldTruth
  BodiesLand
  ReadableInOnePass
  
  
CHECK_DEADLOCK FALSE

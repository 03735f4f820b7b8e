\* Encode and size numbers of every length.
CONSTANTS
  Numbers <- Tested
SPECIFICATION Spec
INVARIANTS
  ReadsBack
  Shortest
  WithinMax
  SizesAgree
CHECK_DEADLOCK FALSE

\* Every order of interning five colliding signatures.
CONSTANTS
  Sigs <- Signatures
  Hash <- Colliding
  InitialSlots = 2
SPECIFICATION FairSpec
INVARIANTS
  Canonical
  InternerInv
PROPERTIES
  Interns
  CallsProgress
  CallsReturn

\* Nested calls between C++ and wasm in both error policies.
CONSTANTS
  Half32 = 2
  Half64 = 4
  Signatures <- Several
  Called <- Callable
  Values <- Extremes
  KindRoom = 2
  MaxDepth = 4
  MaxClosures = 1
SPECIFICATION Spec
INVARIANTS
  ValuesSurvive
  ExactCallsAccepted
  Released
  ErrorsStayInCpp
  DescriptionsAgree
CHECK_DEADLOCK FALSE

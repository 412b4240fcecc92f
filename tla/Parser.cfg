SPECIFICATION Spec
CONSTANTS
  Inputs <- AllInputs
  ServerSide = TRUE
  MaxChunk = 4
  IntMax = 7
INVARIANTS
  NothingAfterFailure
  OneParseAtATime
  FramingMatchesReference
  WholeMessageIsDelivered
  FailureIsReported
  SizedBodyIsWhole
CHECK_DEADLOCK FALSE

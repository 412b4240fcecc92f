SPECIFICATION FcgiFairSpec
CONSTANTS
  Requests <- SomeRequests
  Scripts <- SomeScripts
  HeaderSize = 2
  Statuses = {0, 1, 4}
  MaxPadding = 1
  MaxRecords = 2
INVARIANTS
  RequestDecodes
  AnswerSaysWhatHappened
PROPERTIES
  AnswerIsReleased
CHECK_DEADLOCK FALSE

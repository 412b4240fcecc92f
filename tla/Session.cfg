SPECIFICATION FairSpec
CONSTANTS
  w1 = w1
  Workers <- OneWorker
  Requests = 2
  MaxFlush = 1
INVARIANTS
  AnswersInOrder
  NotReleasedTooEarly
PROPERTIES
  EveryRequestIsAnswered
  ConnectionIsReleased
CHECK_DEADLOCK FALSE

SPECIFICATION FairSpec
CONSTANTS
  worker = worker
  io1 = io1
  io2 = io2
  r1 = r1
  w1 = w1
  w2 = w2
  w3 = w3
  NoOp = NoOp
  Threads <- MCThreads
  IoThreads <- MCIoThreads
  ReadOps <- MCReadOps
  WriteOps <- MCWriteOps
  Throwing <- MCThrowing
INVARIANTS
  OneActivePerDirection
  PopsItsOwnOperation
  NoStrandedQueue
PROPERTIES
  StopDrains
  ImplementsSerialQueues
CHECK_DEADLOCK FALSE

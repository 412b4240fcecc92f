SPECIFICATION AcceptorFairSpec
CONSTANTS
  c1 = c1
  c2 = c2
  c3 = c3
  Clients <- ThreeClients
  Ports <- BothPorts
  MayFail = TRUE
  MaxStops = 2
INVARIANTS
  HandedOnceAndSecured
PROPERTIES
  WaitingIsAccepted
CHECK_DEADLOCK FALSE

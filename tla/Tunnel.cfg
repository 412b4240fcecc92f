SPECIFICATION FairSpec
CONSTANTS
  A = A
  B = B
  MaxSent = 2
  AppStops <- MCAppStops
INVARIANTS
  NothingLostOrReordered
PROPERTIES
  SentArrivesOrStops
  ErrorUnwindsBoth
CHECK_DEADLOCK FALSE

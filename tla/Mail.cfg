SPECIFICATION FairSpec
CONSTANTS
  Accounts <- MCAccounts
  MaxLines = 2
  MaxFlushes = 1
  MaxExtra = 1
INVARIANTS
  ToldOnceAndTruly
  CredentialsArrive
PROPERTIES
  EverySendEnds
CHECK_DEADLOCK FALSE

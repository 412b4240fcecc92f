SPECIFICATION FairSpec
CONSTANTS
  r1 = r1
  r2 = r2
  Conns <- MCConns
  SslConns <- MCSslConns
  MaxEndpoints = 2
  Characters <- MCCharacters
  UrlMaps <- MCUrlMaps
  Addresses <- MCAddresses
  Answers <- MCAnswers
  Zone <- MCZone
  Start = 1719835200
  MaxTicks = 1
  MaxReports = 2
  MaxSwitches = 1
INVARIANTS
  ConnectOutcome
  HandlersInOrder
  CookiesAreCurrent
  CookiesCross
PROPERTIES
  EveryRequestEnds
CHECK_DEADLOCK FALSE

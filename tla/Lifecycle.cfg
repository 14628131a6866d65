CONSTANTS
  Conns = {c1, c2}
  MaxTraffic = 3
  MaxRetries = 2
  Grpc = TRUE
SPECIFICATION FairSpec
INVARIANTS
  TrafficConserved
  NoNodeLeftRegistered
  LeftBehindIsExplained
CHECK_DEADLOCK FALSE
PROPERTY StopLeadsToExit

\* Two streams and the connection compete for three permits; MAX_MISSED_PINGS
\* is the code's; two units make half an idle_timeout.
CONSTANTS
  Streams = {s1, s2}
  MaxConnections = 3
  MaxMissed = 3
  IdleHalf = 2
SPECIFICATION FairSpec
INVARIANTS
  AccountsExact
  DeadMeansSilent
  SilenceIsNoticed
PROPERTIES
  IdleWindow
  StreamsEndWithConnection
CHECK_DEADLOCK FALSE

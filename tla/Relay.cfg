\* A payload of one byte into a buffering sink, then a download of two bytes.
CONSTANTS
  BufSize = 2
  MaxUp = 1
  MaxDown = 2
  CapUp = 1
  CapDown = 0
  Payload = 1
  IdleTimeout = 1
  UplinkOnly = 1
  DownlinkOnly = 1
  HalfClose = FALSE
  MaxSent <- MCMaxSent
  SinkCap <- MCSinkCap
SPECIFICATION FairSpec
INVARIANTS
  BilledWhenDropped
  NothingCutOff
  NoLostWakeup
PROPERTIES
  Pipes
  NoTimeoutOnProgress
  RelayEnds
CHECK_DEADLOCK FALSE

CONSTANTS
  BufSize = 2
  MaxUp = 0
  MaxDown = 2
  CapUp = 0
  CapDown = 1
  Payload = 0
  IdleTimeout = 2
  UplinkOnly = 1
  DownlinkOnly = 2
  HalfClose = TRUE
  MaxSent <- MCMaxSent
  SinkCap <- MCSinkCap
SPECIFICATION Spec
CHECK_DEADLOCK FALSE
INVARIANT ClientEofWaitsUplinkOnly

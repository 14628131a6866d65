\* A buffer as long as the longest header; early data up to three bytes.
CONSTANTS
  PasswordLen = 2
  V4Len = 2
  V6Len = 3
  BufferSize = 13
  MinMaxFrame = 8
  MinMaxMessage = 8
  MaxEarlyData = 3
  MaxInFlight = 1
  MaxCut = 2
  MaxIdle = 1
  Intents <- MCIntents
  Replies <- MCReplies
SPECIFICATION Spec
INVARIANTS
  RequestFaithful
  PacketsIntact
  ShutdownSendsClose
  WritesSurviveBackpressure
PROPERTIES
  WsPipes
CHECK_DEADLOCK FALSE

\* A request for a name shorter than an IPv4 address, and nothing behind it.
CONSTANTS
  PasswordLen = 2
  V4Len = 2
  V6Len = 3
  BufferSize = 13
  MinMaxFrame = 8
  MinMaxMessage = 8
  MaxEarlyData = 3
  MaxInFlight = 1
  MaxCut = 2
  MaxIdle = 0
  Intents <- MCIntents
  Replies <- MCReplies
SPECIFICATION Spec
INVARIANT CompleteIsRecognised
CHECK_DEADLOCK FALSE

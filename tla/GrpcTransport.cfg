\* The window is as small as an acceptable frame allows; two frames fill the
\* send queue.
CONSTANTS
  Scripts <- MCScripts
  HeaderLen = 2
  MaxFrameLen = 4
  Window = 6
  MaxMessage = 2
  MaxQueue = 3
  MaxWritten = 4
  MaxRoom = 2
SPECIFICATION Spec
INVARIANTS
  FlowControl
  NoLostWakeup
  TrailersComplete
PROPERTIES
  Pipes
CHECK_DEADLOCK FALSE

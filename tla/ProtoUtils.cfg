SPECIFICATION Spec
CONSTANTS
  NDEBUG = FALSE
  MaxBufferLength = 2
  MaxCalls = 2
  Messages <- MCMessages
  PeerBuffers <- MCPeerBuffers
  Limits <- MCLimits
INVARIANTS TypeOK RoundTrip OkIsWhole RefusedForCause
PROPERTIES CallsReturn
CHECK_DEADLOCK FALSE

SPECIFICATION Spec
CONSTANTS
  NDEBUG = TRUE
  MaxBufferLength = 2
  MaxCalls = 2
  Messages <- MCMessages
  PeerBuffers <- MCPeerBuffers
  Limits <- MCLimits
INVARIANT SerializedIntoBuffer
CHECK_DEADLOCK FALSE

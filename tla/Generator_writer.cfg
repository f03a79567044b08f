SPECIFICATION Spec
CONSTANTS
  Files <- WriterFiles
  Parameters <- NoParameters
INVARIANT Implemented
CHECK_DEADLOCK FALSE

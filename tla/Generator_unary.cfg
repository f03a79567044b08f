SPECIFICATION Spec
CONSTANTS
  Files <- UnaryFiles
  Parameters <- NoParameters
INVARIANT Routed
CHECK_DEADLOCK FALSE

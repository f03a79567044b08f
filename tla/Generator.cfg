SPECIFICATION Spec
CONSTANTS
  Files <- CleanFiles
  Parameters <- AllButNamespace
INVARIANTS TypeOK GuardsDistinct Balanced Implemented NamesResolve Routed CheckedIn
CHECK_DEADLOCK FALSE

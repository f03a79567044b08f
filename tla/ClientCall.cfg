SPECIFICATION Spec
CONSTANTS
  Apis <- AllApis
  Runners = {r1, r2}
  MaxReplies = 2
  MaxWrites = 1
INVARIANT TypeOK
PROPERTIES ImplementsCall Reported
CHECK_DEADLOCK FALSE

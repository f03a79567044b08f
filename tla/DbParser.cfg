SPECIFICATION Spec
CONSTANTS
  Files <- SmallFiles
  Value <- SmallValue
  IntBits = 3
  LongBits = 4
  Lists <- SmallLists
INVARIANTS LoadsTheForm InBounds
CHECK_DEADLOCK FALSE

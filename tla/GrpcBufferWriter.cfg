SPECIFICATION Spec
CONSTANTS
  BlockSize = 4
  InlineSize = 1
  MaxBlocks = 3
  MaxSlices = 6
INVARIANTS TypeOK CountMatchesBuffer SlicesDisjoint ContentsKept RefsExact
PROPERTIES ImplementsOutput
CHECK_DEADLOCK FALSE

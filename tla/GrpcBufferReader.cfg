SPECIFICATION Spec
CONSTANTS
  MaxSlices = 3
  MaxLength = 2
  Buffers <- MCBuffers
  SkipCounts <- MCSkipCounts
INVARIANTS TypeOK CountersAgree SkipExact
PROPERTIES SkipReturns ImplementsInput

SPECIFICATION Spec
CONSTANTS
  Classes <- AllClasses
  Numbers <- SmallNumbers
  Texts <- SmallTexts
  MaxSends = 2
  MaxSteps = 5
INVARIANTS RoundTrip SizeExact NothingInvented
CHECK_DEADLOCK FALSE

SPECIFICATION Spec
CONSTANTS
  Programs <- AllPrograms
  Features <- Database
  Requests <- SmallRequests
  MaxInbox = 2
  MaxStream = 9
INVARIANTS AnswersRight NoDangling
PROPERTY ProgramEnds
CHECK_DEADLOCK FALSE

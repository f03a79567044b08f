SPECIFICATION Spec
CONSTANTS
  Kinds = {"unary", "server", "client", "bidi"}
  Threads = {t1, t2}
  MaxInbox = 2
  MaxSent = 2
INVARIANTS TypeOK AnsweredOnce ClosedByLast FailureReported AssertsHold
PROPERTIES CallEnds
CHECK_DEADLOCK FALSE

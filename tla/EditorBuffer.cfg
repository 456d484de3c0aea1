SPECIFICATION Spec
CONSTANTS
  N = 3
  BaseLen = 0
  Capacity = 2
  Joins = TRUE
  MaxLen = 1
  MaxMsgs = 3
  MaxMoves = 1
INVARIANTS TypeOK Convergence DeferredNotStarved ObservedIsApplied CompleteWhenReceived UndoMatchesStack
CHECK_DEADLOCK FALSE

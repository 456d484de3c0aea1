SPECIFICATION Spec
CONSTANTS
  MaxAttempts = 1
  MaxRetries = 1
  MaxBytes = 2
  Faults <- DeliveryFaults
  Kinds = {"pty", "other"}
  MaxInputs = 3
  MaxReconnects = 2
INVARIANTS
  UnackedIsSuffix
  NothingLost
  NoGapAtServer
  InOrder
PROPERTIES
  FinishedIsFinal
  RefinesSessionLog
CHECK_DEADLOCK FALSE

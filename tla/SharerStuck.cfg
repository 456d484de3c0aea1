SPECIFICATION Spec
CONSTANTS
  MaxAttempts = 1
  MaxRetries = 1
  MaxBytes = 3
  Faults = {"idle", "close"}
  Kinds = {"other"}
  MaxInputs = 0
  MaxReconnects = 2
INVARIANTS
  ReconnectingIsTrying
CHECK_DEADLOCK FALSE

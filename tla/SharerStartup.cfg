SPECIFICATION StartupSpec
CONSTANTS
  MaxAttempts = 2
  MaxRetries = 0
  MaxBytes = 3
  Faults <- StartupFaults
  Kinds = {"other"}
  MaxInputs = 1
  MaxReconnects = 0
INVARIANTS
  TypeOK
  StartupOutcomeOnce
  OneStartupTransport
PROPERTIES
  StartupSettles
CHECK_DEADLOCK FALSE

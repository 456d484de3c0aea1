SPECIFICATION LiveSpec
CONSTANTS
  MaxAttempts = 1
  MaxRetries = 1
  MaxBytes = 3
  Faults = {"close", "refuse"}
  Kinds = {"other"}
  MaxInputs = 2
  MaxReconnects = 2
PROPERTIES
  ReconnectSettles
  EventuallyDelivered
CHECK_DEADLOCK FALSE

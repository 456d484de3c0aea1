SPECIFICATION LiveSpec
CONSTANTS
  MaxRetries = 1
  Faults = {"close", "refuse", "reject", "end"}
  MaxEvents = 2
  MaxReconnects = 2
PROPERTIES
  EventuallyApplied
  ReconnectSettles
CHECK_DEADLOCK FALSE

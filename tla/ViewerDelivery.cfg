SPECIFICATION Spec
CONSTANTS
  MaxRetries = 0
  Faults = {"drop", "idle", "reauth", "leave"}
  MaxEvents = 2
  MaxReconnects = 1
INVARIANTS
  NoEventSkipped
  ActiveWhenCaughtUp
PROPERTIES
  RefinesSessionLog
CHECK_DEADLOCK FALSE

SPECIFICATION LiveSpec
CONSTANTS
  MaxStarts = 3
  MaxPending = 2
INVARIANTS
  PingsWhileWatching
PROPERTIES
  SilenceIsReported

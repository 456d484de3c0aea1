SPECIFICATION Spec
CONSTANTS
  Plain = {n1, n2}
  Folders = {f}
  Enums = {e}
  Workflows = {w}
  Existing = {}
  NoFolder = NoFolder
  MaxItems = 3
  MaxStartup = 2
  MaxFaults = 1
  MaxLogouts = 2
INVARIANTS TypeOK DependenciesAlive NoStall OneWriterPerObject FreshRevision EachItemAccountedFor
PROPERTIES SerialOrder
CHECK_DEADLOCK FALSE

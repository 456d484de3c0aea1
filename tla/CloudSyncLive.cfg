SPECIFICATION FairSpec
CONSTANTS
  Plain = {n1}
  Folders = {f}
  Enums = {e}
  Workflows = {w}
  Existing = {n1}
  NoFolder = NoFolder
  MaxItems = 3
  MaxStartup = 1
  MaxFaults = 0
  MaxLogouts = 1
PROPERTY Drains
CHECK_DEADLOCK FALSE

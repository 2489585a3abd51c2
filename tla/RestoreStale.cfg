\* The rollback copy of a committed restore cannot be removed.
SPECIFICATION RestoreAlone
CONSTANTS
  Conns = {h1, h2}
  Diags = {d1, d2}
  Admins = {}
  None = None
  MaxAgents = 2
  MaxRemovals = 1
  MaxDbErrors = 1
  MaxFaults = 1
  Foreign <- OtherPanel
  NoFile = NoFile
  Partial = Partial
  MaxWrites = 1
  MaxImports = 2
  MaxCrashes = 0
  MaxCleanups = 1
PROPERTIES
  CommittedRestoreStays
CHECK_DEADLOCK FALSE

\* Connections: two handlers, two identities, one removal, one database error, one
\* fault, and either two requests of administrators or two diagnoses.  Restore: two
\* crashes or failed operations anywhere, one directory that stays, two imports, two
\* writes.
SPECIFICATION RestartsSpec
CONSTANTS
  Conns = {h1, h2}
  Diags = {d1, d2}
  Admins = {a1, a2}
  None = None
  MaxAgents = 2
  MaxRemovals = 1
  MaxDbErrors = 1
  MaxFaults = 1
  Foreign <- OtherPanel
  NoFile = NoFile
  Partial = Partial
  MaxWrites = 2
  MaxImports = 2
  MaxCrashes = 2
  MaxCleanups = 1
INVARIANTS
  OnlineMeansConnected
  AnsweredOnce
PROPERTIES
  RevokedConnectionEnds
  NoLostDatabase
  RestoresServe
CHECK_DEADLOCK FALSE

\* Two registrations one after the other, a PATCH, one failure.
SPECIFICATION Spec
CONSTANTS
  Configs = {Disabled, c1}
  Disabled = Disabled
  Requests = {r1, r2}
  MaxVersion = 3
  MaxAgents = 2
  MaxPatches = 1
  MaxFaults = 1
SYMMETRY RequestSymmetry
INVARIANTS
  TypeOK
  AppliedWasApplied
  DecommissionKeepsCredentials
  SkippedFetchIsCurrent
  NewerSettlesOlder
PROPERTIES
  ArchivedAfterPurge
  SettledOperationsStay
  ImplementsContract
CHECK_DEADLOCK FALSE

\* A PATCH that passed the mutability check commits after the decommission request.
SPECIFICATION Spec
CONSTANTS
  Configs = {Disabled, c1}
  Disabled = Disabled
  Requests = {r1}
  MaxVersion = 3
  MaxAgents = 1
  MaxPatches = 1
  MaxFaults = 0
INVARIANTS
  UninstalledMeansArchived
CHECK_DEADLOCK FALSE

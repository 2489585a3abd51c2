\* Liveness: no PATCH races the decommission, two failures.
SPECIFICATION FairSpec
CONSTANTS
  Configs = {Disabled, c1}
  Disabled = Disabled
  Requests = {r1, r2}
  MaxVersion = 3
  MaxAgents = 1
  MaxPatches = 0
  MaxFaults = 2
PROPERTIES
  Converges
  DecommissionCompletes
CHECK_DEADLOCK FALSE

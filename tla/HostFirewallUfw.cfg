SPECIFICATION FwSpec
CONSTANTS
    FwPorts = {1, 2}
    MaxFwRuns = 2
    MaxFwFaults = 0
INVARIANT
    SuccessMeansReconciled
CHECK_DEADLOCK FALSE

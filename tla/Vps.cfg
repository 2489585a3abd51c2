SPECIFICATION VpsSpec
CONSTANTS
    Ports = {1, 2, 3}
    Jobs <- MCJobs
    MaxChanges = 1
    MaxFaults = 2
    None = None
    FwPorts = {1, 2, 3}
    MaxFwRuns = 3
    MaxFwFaults = 2
    Upgrades = {j1, j2}
    Handlers = {h1, h2}
    MaxRelease = 3
    MaxRequests = 3
    MaxFailures = 2
    MaxLosses = 1
INVARIANTS
    ServicesAsReported
    AgentOutlivesItsDuty
    FirewallAsReported
    CurrentAgentIsSettled
    FailedUpgradeUndone
PROPERTIES
    ArchivedLeavesNothing
    WantedStaysOpen
    ForeignRulesStay
    ServicesSettle
    UpgradesSettle
CHECK_DEADLOCK FALSE

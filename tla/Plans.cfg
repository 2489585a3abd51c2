\* Entitlements: a subscriber, a plan, three nodes, a Server that leaves.  Traffic: a
\* client of the administrator and one of a subscriber, three counters reported.
\* RenewalCycles: 2027 and 2028, a common and a leap year with all kinds of month ends;
\* expirations on 31 January, 28 February and 30 March.
SPECIFICATION PlansSpec
CONSTANTS
    Users = {u1}
    Plans = {k1}
    Servers = {"s1", "s2"}
    Proxies = {"p1", "p2"}
    Nodes = {"n1", "n2", "n3"}
    At <- MCAt
    Target <- MCTarget
    Via <- MCVia
    Limits = {1}
    MaxUsage = 1
    Leaving = {"s1"}
    None = None
    Ordinary = {o}
    Managed = {m}
    Scale = 2
    Rates = {1, 3}
    Quotas = {2}
    MaxTraffic = 2
    MaxReported = 3
    MaxLate = 2
    Absent = Absent
    Unlimited = Unlimited
    FirstYear = 2027
    FirstWeekday = 5
    Years = 2
    ResetDays = {1, 15, 28, 29, 30, 31}
    Dates = {30, 58, 88}
    Periods = {1, 6}
    MaxUpdates = 2
INVARIANTS
    PlansReachServers
    TrafficIsChargedOnce
    ToldFollowsUsage
    ExpiresOnAnchor
    CyclesAreCurrent
PROPERTIES
    UsageIsKept
    RenewsJustEnough
CHECK_DEADLOCK FALSE

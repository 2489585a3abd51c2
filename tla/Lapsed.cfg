\* A node on each of two Servers, one of which is leaving.
SPECIFICATION LapseSpec
CONSTANTS
    Users = {u1}
    Plans = {k1}
    Servers = {"s1", "s2"}
    Proxies = {"p1", "p2"}
    Nodes = {"n1", "n2"}
    At <- MCAt
    Target <- MCTarget
    Via <- MCVia
    Limits = {None}
    MaxUsage = 0
    Leaving = {"s1"}
    None = None
    Ordinary = {o}
    Managed = {m}
    Scale = 2
    Rates = {1, 3}
    Quotas = {2}
    MaxTraffic = 2
    MaxReported = 3
    MaxLate = 2
    Absent = Absent
    Unlimited = Unlimited
    FirstYear = 2027
    FirstWeekday = 5
    Years = 2
    ResetDays = {1, 15, 28, 29, 30, 31}
    Dates = {30, 58, 88}
    Periods = {1, 6}
    MaxUpdates = 2
PROPERTIES
    LapsedIsCutOff
CHECK_DEADLOCK FALSE

\* One group, a proxy with a relay and two edits at once; an administrator and a user with
\* two addresses and three links; three IPs, two names and two attempts at once; one
\* Server with three outages, a queue of two events and two attempts to deliver.
SPECIFICATION PanelSpec
CONSTANTS
    Groups = {g1}
    Sources = {"p", "r"}
    Cascade <- MCCascade
    Presets = {k1}
    KeysOf <- MCKeysOf
    MaxNodes = 2
    MaxNew = 2
    Edits = {e1, e2}
    Nobody = Nobody
    Removed = Removed
    Holders = {a, h}
    Admin = a
    Addresses = {"x", "y"}
    Requests = {r1}
    Invitations = {i1}
    MaxPasswords = 3
    MaxLinks = 3
    Nothing = Nothing
    Deleted = Deleted
    IPs = {"i1", "i2", "i3"}
    Names = {"n1", "n2"}
    Attempts = {t1, t2}
    PairLimit = 2
    IPLimit = 3
    MaxPairs = 2
    MaxIPs = 2
    Unused = Unused
    Servers = {"s1"}
    SettingsChoices <- MCChoices
    Limit = 2
    QueueSize = 2
    MaxAttempts = 2
    MaxOutages = 3
    MaxCycle = 2
    MaxBegins = 3
    Idle = Idle
SYMMETRY Interchangeable
INVARIANTS
    SubscriptionsAreWhole
    OldCredentialsAreDead
    LimiterHolds
    NoticesAreDue
PROPERTY
    RecoveryIsAnnounced
CHECK_DEADLOCK FALSE

SPECIFICATION MCSpec
CONSTANTS
    s1 = s1  s2 = s2  p1 = p1  p2 = p2  c1 = c1  c2 = c2  c3 = c3  r1 = r1  r2 = r2
    l1 = l1  u1 = u1  u2 = u2  h1 = h1  h2 = h2
    None = None
    Servers = {s1, s2}
    Capable = {s1, s2}
    Purging = {s1}
    ProxyIds = {p1, p2}
    ClientIds = {c1, c2, c3}
    RelayIds = {r1, r2}
    LandingIds = {l1}
    Home <- MCHome
    Of <- MCOf
    Network <- MCNetwork
    Users = {u1, u2}
    PortNos = {1, 2}
    Addresses = {h1, h2}
    MaxUserRelays = 1
    Requests = {k1, k2}
INVARIANTS
    ListenersDisjoint
    RelaysFollowTargets
    RelaysStayWithHolder
SYMMETRY Interchangeable
CHECK_DEADLOCK FALSE

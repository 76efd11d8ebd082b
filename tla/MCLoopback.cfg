SPECIFICATION MCSpec
CONSTANTS
    Callers = {e1, e2}
    Clients = {c1, c2}
    Accept = acceptThread
    NoClient = noClient
    MaxActive = 1
    Conns = {k1}
    HnsInScope = {site, sub}
    HnsOther = {otherHns}
    IcannNames = {icann}
    SpecialNames = {special}
    PublicAddresses = {pub}
    PrivateAddresses = {priv}
    NoHost = nohost
    MaxBody = 2
    r = r
    s = s
    q = q
    None = None
    Inside <- MCInside
    Owners = 2
    CanOverride = TRUE
    Host = {r, q}
    Mode = {1}
    MaxCalls = 3
    MaxFaults = 1
INVARIANTS
    ListenerSafety
    RequestSafety
    RoutingSafety
PROPERTIES
    StopEnds
    ImplementsLifecycle
    OwnJoinsFirst
    ProxiesProgress
CHECK_DEADLOCK FALSE

SPECIFICATION MCSpec
CONSTANTS
    Parts = {"calls", "gateway", "ios", "java"}
    Handle = {h1, h2}
    BaseOf <- MCBaseOf
    Caller = {t1, t2}
    Policies = {p1, p2, unparsable}
    RefusedPolicies = {unparsable}
    Initial = p1
    MaxOpens = 2
    MaxGeneration = 2
    Nobody = noCaller
    Thread = {u1, u2}
    Host = {siteA, siteB}
    MaxHandle = 2
    MaxProxies = 1
    MaxHosts = 1
    MaxTrace = 1
    MaxSequence = 2
    MaxRuntimes = 2
    MaxCalls = 3
    MaxObserved = 3
    IosThread = {u1, u2}
    IosHost = {siteA, siteB}
    MaxIosHandle = 3
    MaxIosRuntimes = 1
    MaxIosProxies = 2
    MaxStatuses = 2
    MaxBuffers = 4
    MaxBytes = 5
    MaxIosCalls = 4
    MaxIosObserved = 2
INVARIANTS
    GatewaySafety
    RuntimeSafety
    AndroidSafety
    IosSafety
    OutputSafety
PROPERTIES
    CallsReturn
CHECK_DEADLOCK FALSE

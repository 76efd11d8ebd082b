SPECIFICATION Spec
CONSTANTS
    MaxRoots = 2
    MaxProofs = 2
    DaneNow = 1
    Threads = {t1, t2}
    Requests <- MCRequests
    PolicyOf <- MCPolicyOf
    Presented <- MCPresented
    CertOf <- MCCertOf
    AltSvcHeaders <- MCAltSvcHeaders
    PoolOrigins = 1
    PoolPerOrigin = 1
    PolicyCache = 1
    CaptureEntries = 1
    Cooldown = 1
    MaxAge = 3
    MaxRequests = 3
    MaxNow = 1
    PlanRequests <- MCPlanRequests
    GatewayConfigs <- MCGatewayConfigs
    HnsHosts <- MCHnsHosts
    RoutableIps = {"pub"}
    BlockedPorts = {25}
    Answers <- MCAnswers
    MaxCnames = 2
    WireMethods = {"GET", "HEAD"}
    WireFields <- MCWireFields
    WireReplies <- MCWireReplies
    WireStray <- MCWireStray
    BodyLimit = 2
    HeadLimit = 4
    MaxInfos = 1
    MaxTrailers = 1
    ClaimHosts <- MCClaimHosts
    ClaimPorts = {443, 8443}
    AcceptedRoots = {"r1"}
    ClaimCerts <- MCClaimCerts
    Published <- MCPublished
    Workers = {w1, w2}
    LimitedHosts = {ha, hb}
    HostKeys = {ka, kb}
    LimitConfigs <- MCLimitConfigs
    MaxConfig <- MCMaxConfig
    MaxClock = 4
    MaxDelay = 1
    Leasers = {l1, l2}
    Hooks = {hook}
    CertHosts = {ca, cb, cc}
    Nobody = nobody
    Capacity = 2
    MaxAccess = 3
    MaxPrepares = 2
    MaxAsks = 1
    Authorities = {"a", "b"}
    Statuses = {101, 200, 204, 304, 600}
    MaxFields = 2
    MaxUnits = 2
INVARIANTS
    AuthenticatedOrigin
    TransportSafety
    TrustedEvidence
    MessageFraming
    StoreSafety
    WindowHolds
CHECK_DEADLOCK FALSE

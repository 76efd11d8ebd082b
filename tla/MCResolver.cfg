SPECIFICATION MCSpec
CONSTANTS
    Nsec3Digest <- MCNsec3Digest
    MaxIterations = 2
    SupportedAlgorithms = {5, 7, 8, 10, 13, 14, 15}
    Answers <- MCAnswers
    Proofs <- MCProofs
    NsProofs <- MCNsProofs
    Configs <- MCConfigs
    Requests <- MCRequests
    PublicIps = {1, 2, 3, 4, 6}
    BlockedPorts = {6000}
    MaxCnameChain = 2
    Now <- MCNow
    Zones <- MCZones
    HonestIps = {2, 3, 6}
    Caches <- MCCaches
    Resolvable <- MCResolvable
    CutDenials = FALSE
    AddedKeys = FALSE
    Apex <- Z
    Contents <- MCContents
    Queries <- MCQueries
    QueryTypes = {1, 43}
    SignedSet <- MCSignedSet
    ZoneKeys <- MCZoneKeys
    At <- MCNow
    Questions <- MCQuestions
    Thread = {t1, t2}
    Peer = {pa, pb}
    Nobody = nobody
INVARIANTS
    ResolutionSound
    OneHonestSuffices
    DenialSound
    ExchangeSafety
PROPERTIES
    CallersEnd
CHECK_DEADLOCK FALSE

SPECIFICATION NodeSpec
CONSTANTS
    None = None
    Nodes <- MCNodes
    Events = Events
    Body <- MCBody
    Scenes <- MCScenes
    SessionLifetime = 2
    MaxAttempts = 2
    RateScale = 10
    SettlementDecimals = 0
    MaxClaimsPerWallet = 1
    ClaimRetention = 1
    OracleGrace = 0
    RiskGrace = 0
    HealthThreshold = 1
    SessionGrace = 0
    MillisPerDay = 2
    MaxMethodsPerMerchant = 1
    Catalog <- MCCatalog
    PaddingBlock = 256
    MaxEntryPlaintext = 2048
    MaxEntryCiphertext = 4096
    VotingPeriod = 2
    MaxQuoteValidity = 1
    MaxClockSkew = 1
    MaxAmount = 1000
    F64Error <- RoundedDown
    Hosts <- MCHosts
    Workloads <- MCWorkloads
    Links <- FileLinks
    BlockBytes <- FileBytes
    MaxBlockBytes = 1
    MaxDagBlocks = 3
    MaxDagBytes = 3
    MaxResponseBytes = 1
    MaxAttachmentBytes = 1
    FloorDays = 3
    MaxGatewayBlocks = 1
    IngressGrace = 3
    PinningInterval = 2
    BpsDenominator = 10
    EpochTicks = 2
    Buckets = 2
    Emission = 4
    RpcBps = 10
    GossipBps = 4
    ServingBps = 10
    AbsentBps = 7
    MinNodeStake = 1
    ObservationEpochs = 1
    Peers <- MCPeers
    Settings <- MCSettings
    Anchors <- MCAnchors
    MinimumProviderStake = 1
    ObservationTtl = 1
    MaxSnapshotBytes = 1
    SupportedVersion = 1
    Retain = 1
    a = a
    b = b
    j = j
    d = d
INVARIANTS
    RegistriesAgree
    QuotesStand
    RewardsWithinBucket
PROPERTIES
    RecordsMoveForward
    VotesAreCounted
    NamedContentStays
    WantedContentArrives
    ImportsAreTrusted
    BootstrapCompletes
CHECK_DEADLOCK FALSE

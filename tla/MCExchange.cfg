SPECIFICATION ExchangeSpec
CONSTANTS
    None = None
    Release <- MCRelease
    Version <- MCVersion
    Digest <- MCDigest
    MaxAttempts = 2
    MaxCommands = 4
    MaxKills = 1
    Stream = {"s1", "s2"}
    Permission = {"x", "y"}
    IssuedAt <- MCIssuedAt
    ExpiresAt <- MCExpiresAt
    MaxRecords = 2
    ClockEnd = 2
    MaxStops = 1
    Target = {1}
    Bundle = {"a", "b", "c"}
    Lifetime = 2
    RetryDelay = 1
    MaxQueued = 1
    MaxOutbox = 2
    LastSecond = 3
    MaxEvents = 1
    LastRoot = 4
    RoleKeys <- MCRoleKeys
    Repository <- MCRepository
    MaxRootUpdates = 2
    MaxBundles = 4
    MaxCuts = 2
    Party = {"a", "b", "c"}
    Channel = {1, 2}
    SessionEnds <- MCSessionEnds
    Outcast = {"b"}
    MaxRenewed = 1
    Source = {"m", "s", "u"}
    KnownSource = {"m"}
    SourceWindow = 2
    TaskTime = 1
    Tracked = 2
    OrdinaryPool = 1
    PriorityPool = 2
    LastInstant = 2
    Member = {"a", "b", "i", "j"}
    Introducer = {"i"}
    Global = {"b"}
    MaxIntents = 1
    IntentTime = 1
    MaxRequests = 2
    MaxLinks = 2
    TimeEnd = 1
    Service = {"ssh"}
    Port = {22, 80}
    Session = {"s1", "s2"}
    Tunnel = {"t1", "t2"}
    Ceiling = {1, 2}
    PerPeer = 1
    Total = 2
    MaxExposures = 1
    MaxSaves = 2
    MaxOutages = 1
INVARIANTS
    
    ReceiptIsSafe
    DeliveriesAreKept
    TrustIsKept
    HandshakeIsSound
    AdmissionIsFair
    
    TunnelsAreSafe
PROPERTIES
    OnlyRevertLowers
    
    RolesNeverRollBack
\* Commands, permissions, requests and time are bounded.
CHECK_DEADLOCK FALSE

SPECIFICATION DirectorySpec
CONSTANTS
    mover = mover
    stayer = stayer
    addr1 = addr1
    addr2 = addr2
    addr3 = addr3
    Peers <- MCPeers
    Contact <- MCContact
    Configured = 2
    Default = 1
    Capacity = 2
    CompactAt = 4
    MaxFrames = 4
    MaxPage = 2
    MaxFaults = 2
    Local = "l"
    Reporter = {"r", "s"}
    Address = {"A", "B"}
    Routed = {"A"}
    Loopback = {}
    MemberUntil <- MCMemberUntil
    MaxClaims = 2
    MaxPerReporter = 2
    ClaimTime = 4
    ClaimSkew = 1
    Window = 2
    MaxUpdates = 1
    Sleep = 5
    MaxMono = 3
    MaxSleeps = 1
    Sighting <- MCSighting
    RoutePeer = {"p", "q"}
    Pin = {1}
    Path <- MCPath
    Private = {"lan"}
    NoInterface = "none"
    RouteLimit = {1, 2}
    MaxPeers = 1
    CompactAfter = 3
    Repeat = 2
    MaxRoutes = 4
    LastHour = 2
    LocalAddress = {1, 2}
    DirectAddress = {5, 6}
    Forwarded = {6}
    Unreadable = Unreadable
    MaxCandidates = 3
    Patience = 2
    RecordLife = 4
    Skew = 1
    MemberEnd = 7
    Nap = 3
    SetBack = 2
    MaxAwake = 4
    MaxJumps = 1
    Computer = {1, 2, 3}
    Root = 1
    Link <- MCLink
    Introduced <- MCIntroduced
    Revocable = {3}
    Room = 2
    MaxIncidents = 0
    Turn = 6
    Device = {"d", "e"}
    Families <- MCFamilies
    Slots = 3
    RetryInterval = 2
    HiveOffset = 3
    MaxShifts = 1
    LastTick = 13
INVARIANTS
    DirectoryIsKept
    ClaimsAreSafe
    RoutesAreKept
    ContactIsTrue
    RevocationsHold
    GossipRotates
    
PROPERTIES
    SoleClaimKept
\* Contacts, claims, incidents and time are bounded.
CHECK_DEADLOCK FALSE

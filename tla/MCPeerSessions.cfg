SPECIFICATION Spec
CONSTANTS
    Lo = Lo
    Hi = Hi
    OnLink = OnLink
    Routed = Routed
    LoPaths = {OnLink}
    HiPaths = {Routed}
    MaxEvents = 3
    MaxTunnels = 1
INVARIANTS
    ConnectionsOwned
PROPERTIES
    HeldIsKept
CHECK_DEADLOCK FALSE

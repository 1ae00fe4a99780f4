SPECIFICATION Spec
CONSTANTS
    Lo = Lo
    Hi = Hi
    OnLink = OnLink
    Routed = Routed
    LoPaths = {OnLink, Routed}
    HiPaths = {OnLink, Routed}
    MaxEvents = 2
    MaxTunnels = 1
INVARIANT
    NoStrandedDrain
CHECK_DEADLOCK FALSE

SPECIFICATION ProgressSpec
CONSTANTS
    None = None
    Release <- MCInOrder
    Version <- MCInOrderVersion
    Digest <- MCInOrderDigest
    MaxAttempts = 2
    MaxCommands = 3
    MaxKills = 1
    Target = {1, 2}
    Bundle = {"a"}
    Lifetime = 2
    RetryDelay = 1
    MaxQueued = 1
    MaxOutbox = 1
    LastSecond = 3
    MaxEvents = 1
    Computer = {1, 2}
    Root = 1
    Link <- MCLink
    Introduced <- MCIntroduced
    Revocable = {9}
    Room = 2
    MaxIncidents = 1
    Turn = 2
PROPERTIES
    UpdateProgress
    DeliveriesResolved
    
\* Owner commands, incidents and time are bounded.
CHECK_DEADLOCK FALSE

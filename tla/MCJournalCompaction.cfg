CONSTANTS
    p1 = p1
    p2 = p2
    Payload = {p1, p2}
    MaxFrames = 2
    MaxBatch = 2
    MaxFaults = 1
    BadTails = FALSE
SPECIFICATION Spec
CHECK_DEADLOCK FALSE
INVARIANTS
    ReopenAfterStop
